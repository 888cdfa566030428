---------------------------- MODULE LibraryProofs ----------------------------
(***************************************************************************)
(* Proofs about Library: the memory functions change exactly the bytes     *)
(* they are to change, for every memory, alignment, length and overlap,    *)
(* and printf prints what it is to print, for every width of a number,     *)
(* every number and every sequence of items.                               *)
(***************************************************************************)
EXTENDS Library, WellFoundedInduction, TLAPS

\* A function of the addresses.
IsMemory(m) == m = [i \in Addresses |-> m[i]]

-----------------------------------------------------------------------------
(* Loops                                                                   *)

\* Two functions that start alike and go on alike agree.
LEMMA SameLoop ==
    ASSUME NEW k \in Nat, NEW f, NEW e, f[0] = e[0],
           \A j \in 1 .. k : f[j - 1] = e[j - 1] => f[j] = e[j]
    PROVE  f[k] = e[k]
<1> DEFINE Wrong == {j \in 0 .. k : f[j] # e[j]}
<1>1. CASE Wrong # {}
  <2>1. Wrong \in SUBSET Nat
    OBVIOUS
  <2>2. PICK j \in Wrong : \A i \in Wrong : <<i, j>> \notin OpToRel(<, Nat)
    BY <1>1, <2>1, WFMin, NatLessThanWellFounded, Zenon
  <2>3. \A i \in Wrong : ~(i < j)
    BY <2>1, <2>2, Zenon DEF OpToRel
  <2>4. j \in 0 .. k /\ f[j] # e[j]
    BY <2>2
  <2>5. j # 0
    BY <2>4
  <2>6. j \in 1 .. k /\ j - 1 \in 0 .. k /\ j - 1 < j
    BY <2>4, <2>5
  <2>7. j - 1 \notin Wrong
    BY <2>3, <2>6, Zenon
  <2>8. f[j - 1] = e[j - 1]
    BY <2>6, <2>7, Zenon
  <2> QED
    BY <2>4, <2>6, <2>8, Zenon
<1>2. CASE Wrong = {}
  BY <1>2
<1> QED
  BY <1>1, <1>2

\* Min picks the least of a nonempty set of natural numbers.
LEMMA MinRight ==
    ASSUME NEW S \in SUBSET Nat, S # {}
    PROVE  Min(S) \in S /\ \A y \in S : Min(S) <= y
<1>1. PICK x \in S : \A y \in S : <<y, x>> \notin OpToRel(<, Nat)
  BY WFMin, NatLessThanWellFounded, Zenon
<1>2. \A y \in S : ~(y < x)
  BY <1>1, Zenon DEF OpToRel
<1>3. x \in S /\ \A y \in S : x <= y
  BY <1>2
<1> QED
  BY <1>3, Zenon DEF Min

\* The memory m with the n bytes from s on filled with unit over and over, set to b,
\* or copied from src to dest at once.
Filled(m, s, unit, n) ==
    [i \in Addresses |-> IF i \in s .. s + n - 1 THEN unit[((i - s) % Len(unit)) + 1] ELSE m[i]]
AllSet(m, s, b, n) == [i \in Addresses |-> IF i \in s .. s + n - 1 THEN b ELSE m[i]]
Copied(m, dest, src, n) ==
    [i \in Addresses |-> IF i \in dest .. dest + n - 1 THEN m[src + (i - dest)] ELSE m[i]]

\* m2 is made from m that way.
IsSet(m2, m, s, b, n) == m2 = AllSet(m, s, b, n)
IsCopied(m2, m, dest, src, n) == m2 = Copied(m, dest, src, n)

\* The same with n numbers c of the given size, and with a string of at most n characters.
AreSet(m2, m, s, c, n, size) ==
    m2 = [i \in Addresses |-> IF i \in s .. s + size * n - 1
                              THEN (c \div 256 ^ ((i - s) % size)) % 256 ELSE m[i]]
IsPadded(m2, m, dest, src, n) ==
    m2 = [i \in Addresses |-> IF i \in dest .. dest + n - 1
                              THEN IF i - dest < strlen(m, src) THEN m[src + (i - dest)] ELSE Nul
                              ELSE m[i]]

\* A destination that an upward copy may have.
Clear(dest, src, n) == ~(src < dest /\ dest < src + n)

\* after[j] is the memory after j units of stos or movs.
StosSteps(after, m, edi, unit, k, way) ==
    /\ after = [j \in 0 .. k |-> after[j]]
    /\ after[0] = m
    /\ \A j \in 1 .. k :
          after[j] = LET at == edi + way * Len(unit) * (j - 1)
                     IN  [i \in Addresses |-> IF i \in at .. at + Len(unit) - 1
                                              THEN unit[i - at + 1] ELSE after[j - 1][i]]
MovsSteps(after, m, edi, esi, size, k, way) ==
    /\ after = [j \in 0 .. k |-> after[j]]
    /\ after[0] = m
    /\ \A j \in 1 .. k :
          after[j] = LET at == edi + way * size * (j - 1)
                     IN  [i \in Addresses |-> IF i \in at .. at + size - 1
                                              THEN after[j - 1][esi + (i - edi)] ELSE after[j - 1][i]]

\* What stos and movs do, from a description of the memory after each unit.
LEMMA StosLoop ==
    ASSUME NEW m, NEW edi, NEW unit, NEW k \in Nat, NEW way, NEW after,
           StosSteps(after, m, edi, unit, k, way)
    PROVE  stos(m, edi, unit, k, way) = after[k]
<1> DEFINE at(j) == edi + way * Len(unit) * (j - 1)
           Next_(f, j) == [i \in Addresses |-> IF i \in at(j) .. at(j) + Len(unit) - 1
                                              THEN unit[i - at(j) + 1] ELSE f[j - 1][i]]
           Is(f) == f = [j \in 0 .. k |-> IF j = 0 THEN m ELSE Next_(f, j)]
           f == CHOOSE f : Is(f)
<1>1. stos(m, edi, unit, k, way) = f[k]
  BY Zenon DEF stos
<1>2. /\ after = [j \in 0 .. k |-> after[j]] /\ after[0] = m
      /\ \A j \in 1 .. k : after[j] = Next_(after, j)
  BY Zenon DEF StosSteps
<1> HIDE DEF Next_
<1>3. \A j \in 0 .. k : j = 0 \/ j \in 1 .. k
  OBVIOUS
<1>4. Is(after)
  <2>1. \A j \in 0 .. k : after[j] = IF j = 0 THEN m ELSE Next_(after, j)
    BY <1>2, <1>3, Zenon
  <2> QED
    BY <1>2, <2>1
<1>5. Is(f)
  BY <1>4, Zenon
<1> HIDE DEF f
<1>6. \A j \in 0 .. k : f[j] = IF j = 0 THEN m ELSE Next_(f, j)
  BY <1>5
<1> HIDE DEF Is
<1>7. f[0] = after[0]
  BY <1>2, <1>6
<1>8. \A j \in 1 .. k : f[j - 1] = after[j - 1] => f[j] = after[j]
  <2> TAKE j \in 1 .. k
  <2>1. f[j] = Next_(f, j)
    BY <1>6
  <2> QED
    BY <1>2, <2>1, ZenonT(40) DEF Next_
<1>9. f[k] = after[k]
  BY <1>7, <1>8, SameLoop, Zenon
<1> QED
  BY <1>1, <1>9, Zenon

LEMMA MovsLoop ==
    ASSUME NEW m, NEW edi, NEW esi, NEW size, NEW k \in Nat, NEW way, NEW after,
           MovsSteps(after, m, edi, esi, size, k, way)
    PROVE  movs(m, edi, esi, size, k, way) = after[k]
<1> DEFINE at(j) == edi + way * size * (j - 1)
           Next_(f, j) == [i \in Addresses |-> IF i \in at(j) .. at(j) + size - 1
                                                        THEN f[j - 1][esi + (i - edi)] ELSE f[j - 1][i]]
           Is(f) == f = [j \in 0 .. k |-> IF j = 0 THEN m ELSE Next_(f, j)]
           f == CHOOSE f : Is(f)
<1>1. movs(m, edi, esi, size, k, way) = f[k]
  BY Zenon DEF movs
<1>2. /\ after = [j \in 0 .. k |-> after[j]] /\ after[0] = m
      /\ \A j \in 1 .. k : after[j] = Next_(after, j)
  BY Zenon DEF MovsSteps
<1> HIDE DEF Next_
<1>3. \A j \in 0 .. k : j = 0 \/ j \in 1 .. k
  OBVIOUS
<1>4. Is(after)
  <2>1. \A j \in 0 .. k : after[j] = IF j = 0 THEN m ELSE Next_(after, j)
    BY <1>2, <1>3, Zenon
  <2> QED
    BY <1>2, <2>1
<1>5. Is(f)
  BY <1>4, Zenon
<1> HIDE DEF f
<1>6. \A j \in 0 .. k : f[j] = IF j = 0 THEN m ELSE Next_(f, j)
  BY <1>5
<1> HIDE DEF Is
<1>7. f[0] = after[0]
  BY <1>2, <1>6
<1>8. \A j \in 1 .. k : f[j - 1] = after[j - 1] => f[j] = after[j]
  <2> TAKE j \in 1 .. k
  <2>1. f[j] = Next_(f, j)
    BY <1>6
  <2> QED
    BY <1>2, <2>1, ZenonT(40) DEF Next_
<1>9. f[k] = after[k]
  BY <1>7, <1>8, SameLoop, Zenon
<1> QED
  BY <1>1, <1>9, Zenon

-----------------------------------------------------------------------------
(* The string instructions                                                 *)

\* stos upwards fills memory.
LEMMA StosUp ==
    ASSUME NEW m, IsMemory(m), NEW edi \in Nat, NEW unit, NEW k \in Nat,
           Len(unit) \in {1, 2, 4}
    PROVE  stos(m, edi, unit, k, Up) = Filled(m, edi, unit, Len(unit) * k)
<1> DEFINE u == Len(unit)
           at(j) == edi + Up * u * (j - 1)
           e == [j \in 0 .. k |-> Filled(m, edi, unit, u * j)]
<1>1. \A j \in 1 .. k : e[j] = [i \in Addresses |-> IF i \in at(j) .. at(j) + u - 1
                                                    THEN unit[i - at(j) + 1] ELSE e[j - 1][i]]
  <2> TAKE j \in 1 .. k
  <2>1. j - 1 \in 0 .. k /\ j \in 0 .. k
    OBVIOUS
  <2>2. e[j] = Filled(m, edi, unit, u * j) /\ e[j - 1] = Filled(m, edi, unit, u * (j - 1))
    BY <2>1, Zenon
  <2> HIDE DEF e
  <2>3. ASSUME NEW i \in Addresses
        PROVE  Filled(m, edi, unit, u * j)[i] = IF i \in at(j) .. at(j) + u - 1
                  THEN unit[i - at(j) + 1] ELSE Filled(m, edi, unit, u * (j - 1))[i]
    <3>1. i \in Nat
      BY DEF Addresses
    <3>2. CASE u = 1
      <4>1. (i - edi) % 1 = 0
        BY <3>1
      <4> QED
        BY <3>1, <3>2, <4>1 DEF Filled, Up
    <3>3. CASE u = 2
      BY <3>1, <3>3 DEF Filled, Up
    <3>4. CASE u = 4
      BY <3>1, <3>4 DEF Filled, Up
    <3> QED
      BY <3>2, <3>3, <3>4
  <2> HIDE DEF u, at
  <2>4. Filled(m, edi, unit, u * j) = [i \in Addresses |-> Filled(m, edi, unit, u * j)[i]]
    BY DEF Filled
  <2> QED
    BY <2>2, <2>3, <2>4, Zenon
<1>2. e[0] = m
  <2>1. u * 0 = 0
    OBVIOUS
  <2>2. Filled(m, edi, unit, 0) = m
    <3>1. \A i \in Addresses : i \notin edi .. edi + 0 - 1
      OBVIOUS
    <3> QED
      BY <3>1 DEF Filled, IsMemory
  <2> HIDE DEF u
  <2> QED
    BY <2>1, <2>2
<1>3. e = [j \in 0 .. k |-> e[j]]
  BY Zenon
<1>4. e[k] = Filled(m, edi, unit, u * k)
  OBVIOUS
<1> HIDE DEF e
<1>5. stos(m, edi, unit, k, Up) = e[k]
  <2>1. StosSteps(e, m, edi, unit, k, Up)
    BY <1>1, <1>2, <1>3, Zenon DEF StosSteps
  <2> QED
    BY <2>1, StosLoop
<1> QED
  BY <1>4, <1>5

\* movs upwards copies, if what is read has not been written before.
LEMMA MovsUp ==
    ASSUME NEW m, IsMemory(m), NEW edi \in Nat, NEW esi \in Nat, NEW size \in {1, 4}, NEW k \in Nat,
           esi + size * k <= MemSize, MemSize \in Nat, Clear(edi, esi, size * k)
    PROVE  movs(m, edi, esi, size, k, Up) = Copied(m, edi, esi, size * k)
<1> DEFINE at(j) == edi + Up * size * (j - 1)
           e == [j \in 0 .. k |-> Copied(m, edi, esi, size * j)]
<1>1. \A j \in 1 .. k : e[j] = [i \in Addresses |-> IF i \in at(j) .. at(j) + size - 1
                                                             THEN e[j - 1][esi + (i - edi)] ELSE e[j - 1][i]]
  <2> TAKE j \in 1 .. k
  <2>1. j - 1 \in 0 .. k /\ j \in 0 .. k
    OBVIOUS
  <2>2. e[j] = Copied(m, edi, esi, size * j) /\ e[j - 1] = Copied(m, edi, esi, size * (j - 1))
    BY <2>1, Zenon
  <2> HIDE DEF e
  <2>3. ASSUME NEW i \in Addresses
        PROVE  Copied(m, edi, esi, size * j)[i]
                 = IF i \in at(j) .. at(j) + size - 1
                                                        THEN Copied(m, edi, esi, size * (j - 1))[esi + (i - edi)] ELSE Copied(m, edi, esi, size * (j - 1))[i]
    <3>1. i \in Nat
      BY DEF Addresses
    <3>2. CASE i \in at(j) .. at(j) + size - 1
      <4>1. /\ esi + (i - edi) \in Addresses
            /\ esi + (i - edi) \notin edi .. edi + size * (j - 1) - 1
            /\ i \in edi .. edi + size * j - 1
        <5>1. CASE size = 1
          BY <3>1, <3>2, <5>1 DEF Addresses, Clear, Up
        <5>2. CASE size = 4
          BY <3>1, <3>2, <5>2 DEF Addresses, Clear, Up
        <5> QED
          BY <5>1, <5>2
      <4>2. Copied(m, edi, esi, size * j)[i] = m[esi + (i - edi)]
        BY <4>1, Zenon DEF Copied
      <4>3. Copied(m, edi, esi, size * (j - 1))[esi + (i - edi)] = m[esi + (i - edi)]
        BY <4>1, Zenon DEF Copied
      <4> QED
        BY <3>2, <4>2, <4>3, Zenon
    <3>3. CASE i \notin at(j) .. at(j) + size - 1
      <4>1. i \in edi .. edi + size * j - 1 <=> i \in edi .. edi + size * (j - 1) - 1
        <5>1. CASE size = 1
          BY <3>1, <3>3, <5>1 DEF Up
        <5>2. CASE size = 4
          BY <3>1, <3>3, <5>2 DEF Up
        <5> QED
          BY <5>1, <5>2
      <4> HIDE DEF at
      <4> QED
        BY <3>3, <4>1, Zenon DEF Copied
    <3> QED
      BY <3>2, <3>3
  <2> HIDE DEF at
  <2>4. Copied(m, edi, esi, size * j) = [i \in Addresses |-> Copied(m, edi, esi, size * j)[i]]
    BY DEF Copied
  <2> QED
    BY <2>2, <2>3, <2>4, Zenon
<1>2. e[0] = m
  <2>1. size * 0 = 0
    OBVIOUS
  <2>2. Copied(m, edi, esi, 0) = m
    <3>1. \A i \in Addresses : i \notin edi .. edi + 0 - 1
      OBVIOUS
    <3> QED
      BY <3>1 DEF Copied, IsMemory
  <2> QED
    BY <2>1, <2>2
<1>3. e = [j \in 0 .. k |-> e[j]]
  BY Zenon
<1>4. e[k] = Copied(m, edi, esi, size * k)
  OBVIOUS
<1> HIDE DEF e
<1>5. movs(m, edi, esi, size, k, Up) = e[k]
  <2>1. MovsSteps(e, m, edi, esi, size, k, Up)
    BY <1>1, <1>2, <1>3, Zenon DEF MovsSteps
  <2> QED
    BY <2>1, MovsLoop
<1> QED
  BY <1>4, <1>5

\* movs of bytes downwards, from the last on, copies to a destination behind the source.
LEMMA MovsDown ==
    ASSUME NEW m, IsMemory(m), NEW dest \in Nat, NEW src \in Nat, NEW n \in Nat,
           src + n <= MemSize, MemSize \in Nat, src < dest
    PROVE  movs(m, dest + n - 1, src + n - 1, 1, n, Down) = Copied(m, dest, src, n)
<1> DEFINE edi == dest + n - 1
           esi == src + n - 1
           at(j) == edi + Down * 1 * (j - 1)
           Part(j) == [i \in Addresses |-> IF i \in edi - j + 1 .. edi THEN m[src + (i - dest)] ELSE m[i]]
           e == [j \in 0 .. n |-> Part(j)]
<1>1. \A j \in 1 .. n : e[j] = [i \in Addresses |-> IF i \in at(j) .. at(j) + 1 - 1
                                                             THEN e[j - 1][esi + (i - edi)] ELSE e[j - 1][i]]
  <2> TAKE j \in 1 .. n
  <2>1. j - 1 \in 0 .. n /\ j \in 0 .. n
    OBVIOUS
  <2>2. e[j] = Part(j) /\ e[j - 1] = Part(j - 1)
    BY <2>1, Zenon
  <2>3. ASSUME NEW i \in Addresses
        PROVE  Part(j)[i] = IF i \in at(j) .. at(j) + 1 - 1 THEN Part(j - 1)[esi + (i - edi)] ELSE Part(j - 1)[i]
    <3>1. i \in Nat
      BY DEF Addresses
    <3>2. CASE i \in at(j) .. at(j) + 1 - 1
      <4>1. /\ esi + (i - edi) \in Addresses /\ esi + (i - edi) = src + (i - dest)
            /\ esi + (i - edi) \notin edi - (j - 1) + 1 .. edi
            /\ i \in edi - j + 1 .. edi
        BY <3>1, <3>2 DEF Addresses, Down
      <4>2. Part(j)[i] = m[src + (i - dest)]
        BY <4>1, Zenon
      <4>3. Part(j - 1)[esi + (i - edi)] = m[esi + (i - edi)]
        BY <4>1, Zenon
      <4> QED
        BY <3>2, <4>1, <4>2, <4>3, Zenon
    <3>3. CASE i \notin at(j) .. at(j) + 1 - 1
      <4>1. i \in edi - j + 1 .. edi <=> i \in edi - (j - 1) + 1 .. edi
        BY <3>1, <3>3 DEF Down
      <4> QED
        BY <3>3, <4>1, Zenon
    <3> QED
      BY <3>2, <3>3
  <2>4. Part(j) = [i \in Addresses |-> Part(j)[i]]
    BY Zenon
  <2> HIDE DEF e, at, Part
  <2> QED
    BY <2>2, <2>3, <2>4, Zenon
<1>2. e[0] = m
  <2>1. \A i \in Addresses : i \notin edi - 0 + 1 .. edi
    OBVIOUS
  <2>2. Part(0) = m
    BY <2>1 DEF IsMemory
  <2>3. e[0] = Part(0)
    OBVIOUS
  <2> QED
    BY <2>2, <2>3, Zenon
<1>3. e = [j \in 0 .. n |-> e[j]]
  BY Zenon
<1>4. e[n] = Copied(m, dest, src, n)
  <2>1. e[n] = Part(n)
    OBVIOUS
  <2>2. edi - n + 1 = dest
    OBVIOUS
  <2> HIDE DEF e
  <2> QED
    BY <2>1, <2>2, Zenon DEF Copied
<1> HIDE DEF e
<1>5. movs(m, edi, esi, 1, n, Down) = e[n]
  <2>1. MovsSteps(e, m, edi, esi, 1, n, Down)
    BY <1>1, <1>2, <1>3, Zenon DEF MovsSteps
  <2> HIDE DEF edi, esi
  <2> QED
    BY <2>1, MovsLoop
<1> QED
  BY <1>4, <1>5

-----------------------------------------------------------------------------
(* Set and copied memory                                                   *)

LEMMA SetMemory ==
    ASSUME NEW m2, NEW m, NEW s, NEW b, NEW n, IsSet(m2, m, s, b, n)
    PROVE  IsMemory(m2)
BY DEF IsMemory, IsSet, AllSet

LEMMA CopiedMemory ==
    ASSUME NEW m2, NEW m, NEW dest, NEW src, NEW n, IsCopied(m2, m, dest, src, n)
    PROVE  IsMemory(m2)
BY DEF IsMemory, IsCopied, Copied

LEMMA SetTwice ==
    ASSUME NEW m, NEW m1, NEW m2, NEW s \in Nat, NEW b, NEW k \in Nat, NEW n \in Nat,
           IsSet(m1, m, s, b, k), IsSet(m2, m1, s + k, b, n)
    PROVE  IsSet(m2, m, s, b, k + n)
<1>1. \A i \in Addresses : i \in s .. s + (k + n) - 1 <=> i \in s .. s + k - 1 \/ i \in s + k .. s + k + n - 1
  BY DEF Addresses
<1>2. AllSet(AllSet(m, s, b, k), s + k, b, n) = AllSet(m, s, b, k + n)
  BY <1>1 DEF AllSet
<1>3. m1 = AllSet(m, s, b, k) /\ m2 = AllSet(m1, s + k, b, n)
  BY Zenon DEF IsSet
<1> QED
  BY <1>2, <1>3, Zenon DEF IsSet

\* What is copied second has not been changed by the first copy.
LEMMA CopiedTwice ==
    ASSUME NEW m, NEW m1, NEW m2, NEW dest \in Nat, NEW src \in Nat, NEW k \in Nat, NEW n \in Nat,
           src + (k + n) <= MemSize, MemSize \in Nat, Clear(dest, src, k + n),
           IsCopied(m1, m, dest, src, k), IsCopied(m2, m1, dest + k, src + k, n)
    PROVE  IsCopied(m2, m, dest, src, k + n)
<1>1. ASSUME NEW i \in Addresses
      PROVE  m2[i] = IF i \in dest .. dest + (k + n) - 1 THEN m[src + (i - dest)] ELSE m[i]
  <2>1. i \in Nat
    BY DEF Addresses
  <2>2. CASE i \in dest + k .. dest + k + n - 1
    <3>1. /\ src + k + (i - (dest + k)) = src + (i - dest) /\ i \in dest .. dest + (k + n) - 1
          /\ src + (i - dest) \in Addresses /\ src + (i - dest) \notin dest .. dest + k - 1
      BY <2>1, <2>2 DEF Addresses, Clear
    <3>2. m1[src + (i - dest)] = m[src + (i - dest)]
      BY <3>1, Zenon DEF IsCopied, Copied
    <3>3. m2[i] = m1[src + k + (i - (dest + k))]
      BY <2>2, Zenon DEF IsCopied, Copied
    <3> QED
      BY <3>1, <3>2, <3>3, Zenon
  <2>3. CASE i \notin dest + k .. dest + k + n - 1
    <3>1. i \in dest .. dest + (k + n) - 1 <=> i \in dest .. dest + k - 1
      BY <2>1, <2>3
    <3>2. m1[i] = IF i \in dest .. dest + k - 1 THEN m[src + (i - dest)] ELSE m[i]
      BY Zenon DEF IsCopied, Copied
    <3>3. m2[i] = m1[i]
      BY <2>3, Zenon DEF IsCopied, Copied
    <3> QED
      BY <3>1, <3>2, <3>3, Zenon
  <2> QED
    BY <2>2, <2>3
<1>2. m2 = [i \in Addresses |-> m2[i]]
  BY CopiedMemory, Zenon DEF IsMemory
<1> QED
  BY <1>1, <1>2, Zenon DEF IsCopied, Copied

-----------------------------------------------------------------------------
(* The string instructions, for the bytes and words of the functions        *)

LEMMA StosBytes ==
    ASSUME NEW m, IsMemory(m), NEW s \in Nat, NEW byte, NEW b, NEW k \in Nat,
           Len(byte) = 1, byte[1] = b
    PROVE  IsSet(stos(m, s, byte, k, Up), m, s, b, k)
<1>1. Len(byte) \in {1, 2, 4} /\ Len(byte) * k = k
  OBVIOUS
<1>2. stos(m, s, byte, k, Up) = Filled(m, s, byte, k)
  <2>1. stos(m, s, byte, k, Up) = Filled(m, s, byte, Len(byte) * k)
    BY <1>1, StosUp, Zenon
  <2> QED
    BY <1>1, <2>1, Zenon
<1>3. \A i \in Addresses : byte[((i - s) % Len(byte)) + 1] = b
  <2>1. \A i \in Addresses : ((i - s) % 1) + 1 = 1
    BY DEF Addresses
  <2> QED
    BY <2>1
<1> QED
  BY <1>2, <1>3, Zenon DEF IsSet, Filled, AllSet

LEMMA StosWords ==
    ASSUME NEW m, IsMemory(m), NEW s \in Nat, NEW word, NEW b, NEW k \in Nat,
           Len(word) = 4, \A i \in 1 .. 4 : word[i] = b
    PROVE  IsSet(stos(m, s, word, k, Up), m, s, b, 4 * k)
<1>1. Len(word) \in {1, 2, 4} /\ Len(word) * k = 4 * k
  OBVIOUS
<1>2. stos(m, s, word, k, Up) = Filled(m, s, word, 4 * k)
  <2>1. stos(m, s, word, k, Up) = Filled(m, s, word, Len(word) * k)
    BY <1>1, StosUp, Zenon
  <2> QED
    BY <1>1, <2>1, Zenon
<1>3. \A i \in Addresses : word[((i - s) % Len(word)) + 1] = b
  <2>1. \A i \in Addresses : ((i - s) % 4) + 1 \in 1 .. 4
    BY DEF Addresses
  <2> QED
    BY <2>1
<1> QED
  BY <1>2, <1>3, Zenon DEF IsSet, Filled, AllSet

LEMMA MovsBytes ==
    ASSUME NEW m, IsMemory(m), NEW dest \in Nat, NEW src \in Nat, NEW k \in Nat,
           src + k <= MemSize, MemSize \in Nat, Clear(dest, src, k)
    PROVE  IsCopied(movs(m, dest, src, 1, k, Up), m, dest, src, k)
<1>1. 1 * k = k /\ 1 \in {1, 4}
  OBVIOUS
<1>2. movs(m, dest, src, 1, k, Up) = Copied(m, dest, src, k)
  BY <1>1, MovsUp
<1> QED
  BY <1>2, Zenon DEF IsCopied

LEMMA MovsWords ==
    ASSUME NEW m, IsMemory(m), NEW dest \in Nat, NEW src \in Nat, NEW k \in Nat,
           src + 4 * k <= MemSize, MemSize \in Nat, Clear(dest, src, 4 * k)
    PROVE  IsCopied(movs(m, dest, src, WordSize, k, Up), m, dest, src, 4 * k)
<1>1. WordSize = 4 /\ 4 \in {1, 4}
  BY DEF WordSize
<1>2. movs(m, dest, src, 4, k, Up) = Copied(m, dest, src, 4 * k)
  BY <1>1, MovsUp
<1> QED
  BY <1>1, <1>2, Zenon DEF IsCopied

-----------------------------------------------------------------------------
(* The functions of the memory                                             *)

\* The bytes before, in and behind the words are all the bytes.
LEMMA SplitRight ==
    ASSUME NEW dest \in Nat, NEW n \in Nat
    PROVE  LET p == Split(dest, n)
           IN  /\ p.head \in Nat /\ p.words \in Nat /\ p.tail \in Nat
               /\ p.head + 4 * p.words + p.tail = n
<1> DEFINE head == Min({n, (-dest) % WordSize})
<1>1. (-dest) % WordSize \in Nat
  BY DEF WordSize
<1>2. head \in {n, (-dest) % WordSize} /\ head <= n
  <2>1. {n, (-dest) % WordSize} \in SUBSET Nat /\ {n, (-dest) % WordSize} # {}
    BY <1>1
  <2> QED
    BY <2>1, MinRight, Zenon
<1>3. head \in Nat /\ n - head \in Nat
  BY <1>1, <1>2
<1>4. Split(dest, n) = [head |-> head, words |-> (n - head) \div 4, tail |-> (n - head) % 4]
  BY DEF Split, WordSize
<1> HIDE DEF head
<1>5. \A k \in Nat : k \div 4 \in Nat /\ k % 4 \in Nat /\ 4 * (k \div 4) + (k % 4) = k
  OBVIOUS
<1>6. /\ (n - head) \div 4 \in Nat /\ (n - head) % 4 \in Nat
      /\ 4 * ((n - head) \div 4) + ((n - head) % 4) = n - head
  BY <1>3, <1>5, Zenon
<1>7. head + 4 * ((n - head) \div 4) + ((n - head) % 4) = n
  BY <1>3, <1>6
<1> QED
  BY <1>3, <1>4, <1>6, <1>7

\* Where a string ends.
LEMMA strlenRight ==
    ASSUME NEW m, NEW s \in Nat, MemSize \in Nat
    PROVE  strlen(m, s) \in Nat /\ (s <= MemSize => s + strlen(m, s) <= MemSize)
<1> DEFINE S == {i \in 0 .. MemSize : s + i \notin Addresses \/ m[s + i] = Nul}
<1>1. S \in SUBSET Nat /\ MemSize \in S /\ (s <= MemSize => MemSize - s \in S)
  BY DEF Addresses
<1>2. Min(S) \in S /\ \A y \in S : Min(S) <= y
  BY <1>1, MinRight, Zenon
<1>3. strlen(m, s) = Min(S)
  BY Zenon DEF strlen
<1> HIDE DEF S
<1>4. Min(S) \in Nat
  BY <1>1, <1>2
<1>5. s <= MemSize => Min(S) <= MemSize - s
  BY <1>1, <1>2
<1> QED
  <2>1. s <= MemSize => s + Min(S) <= MemSize
    BY <1>4, <1>5
  <2> QED
    BY <1>3, <1>4, <2>1, Zenon

\* memset sets n bytes, whatever the alignment.
LEMMA memsetRight ==
    ASSUME NEW m, IsMemory(m), NEW s \in Nat, NEW c \in Nat, NEW n \in Nat
    PROVE  IsSet(memset(m, s, c, n), m, s, c % 256, n)
<1> DEFINE p == Split(s, n)
           byte == <<c % 256>>
           word == byte \o byte \o byte \o byte
           mid == s + p.head
           m1 == stos(m, s, byte, p.head, Up)
           m2 == stos(m1, mid, word, p.words, cld)
           m3 == stos(m2, mid + WordSize * p.words, byte, p.tail, Up)
<1>1. memset(m, s, c, n) = m3
  BY Zenon DEF memset
<1>2. p.head \in Nat /\ p.words \in Nat /\ p.tail \in Nat /\ p.head + 4 * p.words + p.tail = n
  BY SplitRight, Zenon
<1>3. Len(byte) = 1 /\ byte[1] = c % 256
  OBVIOUS
<1>4. Len(word) = 4 /\ \A i \in 1 .. 4 : word[i] = c % 256
  OBVIOUS
<1>5. cld = Up /\ WordSize = 4
  BY DEF cld, WordSize
<1> HIDE DEF p, byte, word
<1>6. mid \in Nat /\ mid + 4 * p.words \in Nat /\ 4 * p.words \in Nat /\ p.head + 4 * p.words \in Nat
  BY <1>2
<1>7. IsSet(m1, m, s, c % 256, p.head)
  BY <1>2, <1>3, StosBytes, Zenon
<1> HIDE DEF m1
<1>8. IsMemory(m1)
  BY <1>7, SetMemory, Zenon
<1>9. IsSet(m2, m1, s + p.head, c % 256, 4 * p.words)
  <2>1. IsSet(stos(m1, mid, word, p.words, Up), m1, mid, c % 256, 4 * p.words)
    BY <1>2, <1>4, <1>6, <1>8, StosWords, Zenon
  <2> QED
    BY <1>5, <2>1
<1> HIDE DEF m2
<1>10. IsMemory(m2)
  BY <1>9, SetMemory, Zenon
<1>11. IsSet(m2, m, s, c % 256, p.head + 4 * p.words)
  BY <1>2, <1>6, <1>7, <1>9, SetTwice, Zenon
<1>12. IsSet(m3, m2, s + (p.head + 4 * p.words), c % 256, p.tail)
  <2>1. IsSet(stos(m2, mid + 4 * p.words, byte, p.tail, Up), m2, mid + 4 * p.words, c % 256, p.tail)
    BY <1>2, <1>3, <1>6, <1>10, StosBytes, Zenon
  <2>2. mid + 4 * p.words = s + (p.head + 4 * p.words)
    BY <1>2
  <2> QED
    BY <1>5, <2>1, <2>2
<1> HIDE DEF m3
<1>13. IsSet(m3, m, s, c % 256, (p.head + 4 * p.words) + p.tail)
  <2> DEFINE k == p.head + 4 * p.words
  <2>1. k \in Nat /\ p.tail \in Nat /\ IsSet(m2, m, s, c % 256, k) /\ IsSet(m3, m2, s + k, c % 256, p.tail)
    BY <1>2, <1>6, <1>11, <1>12, Zenon
  <2> HIDE DEF k
  <2>2. IsSet(m3, m, s, c % 256, k + p.tail)
    BY <2>1, SetTwice, Zenon
  <2> QED
    BY <2>2, Zenon DEF k
<1> QED
  BY <1>1, <1>2, <1>13, Zenon

\* A number of two bytes and of four, lowest byte first.
LEMMA BytesRight ==
    ASSUME NEW c, NEW size \in {2, 4}
    PROVE  Len(Bytes(c, size)) = size /\ \A j \in 0 .. size - 1 : Bytes(c, size)[j + 1] = (c \div 256 ^ j) % 256
<1>1. Len(Bytes(c, size)) = size
  BY DEF Bytes
<1>2. ASSUME NEW j \in 0 .. size - 1
      PROVE  Bytes(c, size)[j + 1] = (c \div 256 ^ j) % 256
  <2>1. j + 1 \in 1 .. size /\ (j + 1) - 1 = j
    OBVIOUS
  <2> QED
    BY <2>1, Zenon DEF Bytes
<1> QED
  BY <1>1, <1>2

LEMMA memset_wordRight ==
    ASSUME NEW m, IsMemory(m), NEW s \in Nat, NEW c \in Nat, NEW n \in Nat
    PROVE  AreSet(memset_word(m, s, c, n), m, s, c, n, 2)
<1> DEFINE unit == Bytes(c, 2)
<1>1. Len(unit) = 2 /\ \A j \in 0 .. 1 : unit[j + 1] = (c \div 256 ^ j) % 256
  BY BytesRight
<1>2. memset_word(m, s, c, n) = stos(m, s, unit, n, Up)
  BY DEF memset_word, cld
<1> HIDE DEF unit
<1>3. memset_word(m, s, c, n) = Filled(m, s, unit, 2 * n)
  <2>1. Len(unit) \in {1, 2, 4}
    BY <1>1
  <2>2. stos(m, s, unit, n, Up) = Filled(m, s, unit, Len(unit) * n)
    BY <2>1, StosUp, Zenon
  <2> QED
    BY <1>1, <1>2, <2>2, SMT
<1>4. \A i \in Addresses : (i - s) % 2 \in 0 .. 1
  BY DEF Addresses
<1>5. \A i \in Addresses : unit[((i - s) % 2) + 1] = (c \div 256 ^ ((i - s) % 2)) % 256
  BY <1>1, <1>4, Zenon
<1>6. Filled(m, s, unit, 2 * n)
        = [i \in Addresses |-> IF i \in s .. s + 2 * n - 1 THEN unit[((i - s) % 2) + 1] ELSE m[i]]
  BY <1>1, Zenon DEF Filled
<1>7. Filled(m, s, unit, 2 * n)
        = [i \in Addresses |-> IF i \in s .. s + 2 * n - 1
                               THEN (c \div 256 ^ ((i - s) % 2)) % 256 ELSE m[i]]
  BY <1>5, <1>6
<1> QED
  BY <1>3, <1>7, Zenon DEF AreSet

LEMMA memset_dwordRight ==
    ASSUME NEW m, IsMemory(m), NEW s \in Nat, NEW c \in Nat, NEW n \in Nat
    PROVE  AreSet(memset_dword(m, s, c, n), m, s, c, n, 4)
<1> DEFINE unit == Bytes(c, 4)
<1>1. Len(unit) = 4 /\ \A j \in 0 .. 3 : unit[j + 1] = (c \div 256 ^ j) % 256
  BY BytesRight
<1>2. memset_dword(m, s, c, n) = stos(m, s, unit, n, Up)
  BY DEF memset_dword, cld
<1> HIDE DEF unit
<1>3. memset_dword(m, s, c, n) = Filled(m, s, unit, 4 * n)
  <2>1. Len(unit) \in {1, 2, 4}
    BY <1>1
  <2>2. stos(m, s, unit, n, Up) = Filled(m, s, unit, Len(unit) * n)
    BY <2>1, StosUp, Zenon
  <2> QED
    BY <1>1, <1>2, <2>2, SMT
<1>4. \A i \in Addresses : (i - s) % 4 \in 0 .. 3
  BY DEF Addresses
<1>5. \A i \in Addresses : unit[((i - s) % 4) + 1] = (c \div 256 ^ ((i - s) % 4)) % 256
  BY <1>1, <1>4, Zenon
<1>6. Filled(m, s, unit, 4 * n)
        = [i \in Addresses |-> IF i \in s .. s + 4 * n - 1 THEN unit[((i - s) % 4) + 1] ELSE m[i]]
  BY <1>1, Zenon DEF Filled
<1>7. Filled(m, s, unit, 4 * n)
        = [i \in Addresses |-> IF i \in s .. s + 4 * n - 1
                               THEN (c \div 256 ^ ((i - s) % 4)) % 256 ELSE m[i]]
  BY <1>5, <1>6
<1> QED
  BY <1>3, <1>7, Zenon DEF AreSet

\* memcpy copies n bytes, whatever the alignment, if it may go upwards.
LEMMA memcpyRight ==
    ASSUME NEW m, IsMemory(m), NEW dest \in Nat, NEW src \in Nat, NEW n \in Nat,
           src + n <= MemSize, MemSize \in Nat, Clear(dest, src, n)
    PROVE  IsCopied(memcpy(m, dest, src, n), m, dest, src, n)
<1> DEFINE p == Split(dest, n)
           mid == dest + p.head
           end == mid + WordSize * p.words
           m1 == movs(m, dest, src, 1, p.head, Up)
           m2 == movs(m1, mid, src + p.head, WordSize, p.words, cld)
           m3 == movs(m2, end, src + (end - dest), 1, p.tail, Up)
<1>1. memcpy(m, dest, src, n) = m3
  BY Zenon DEF memcpy
<1>2. p.head \in Nat /\ p.words \in Nat /\ p.tail \in Nat /\ p.head + 4 * p.words + p.tail = n
  BY SplitRight, Zenon
<1>3. cld = Up /\ WordSize = 4
  BY DEF cld, WordSize
<1> HIDE DEF p
<1> DEFINE k == p.head + 4 * p.words
<1>4. /\ mid \in Nat /\ 4 * p.words \in Nat /\ k \in Nat /\ src + p.head \in Nat
      /\ dest + k \in Nat /\ src + k \in Nat
      /\ end = dest + k /\ src + (end - dest) = src + k
      /\ k + p.tail = n
  BY <1>2, <1>3
<1>5. /\ src + p.head <= MemSize /\ src + p.head + 4 * p.words <= MemSize
      /\ src + k + p.tail <= MemSize /\ src + k <= MemSize /\ src + (k + p.tail) <= MemSize
  BY <1>2
<1>6. /\ Clear(dest, src, p.head) /\ Clear(mid, src + p.head, 4 * p.words)
      /\ Clear(dest, src, k) /\ Clear(dest + k, src + k, p.tail) /\ Clear(dest, src, k + p.tail)
  BY <1>2 DEF Clear
<1>7. IsCopied(m1, m, dest, src, p.head)
  BY <1>2, <1>5, <1>6, MovsBytes, Zenon
<1> HIDE DEF m1
<1>8. IsMemory(m1)
  BY <1>7, CopiedMemory, Zenon
<1>9. IsCopied(m2, m1, dest + p.head, src + p.head, 4 * p.words)
  <2>1. IsCopied(movs(m1, mid, src + p.head, WordSize, p.words, Up), m1, mid, src + p.head, 4 * p.words)
    BY <1>2, <1>4, <1>5, <1>6, <1>8, MovsWords, Zenon
  <2> QED
    BY <1>3, <2>1
<1> HIDE DEF m2
<1>10. IsMemory(m2)
  BY <1>9, CopiedMemory, Zenon
<1>11. IsCopied(m2, m, dest, src, k)
  BY <1>2, <1>4, <1>5, <1>6, <1>7, <1>9, CopiedTwice, Zenon
<1>12. IsCopied(m3, m2, dest + k, src + k, p.tail)
  <2> HIDE DEF k
  <2>1. IsCopied(movs(m2, dest + k, src + k, 1, p.tail, Up), m2, dest + k, src + k, p.tail)
    BY <1>2, <1>4, <1>5, <1>6, <1>10, MovsBytes, Zenon
  <2> HIDE DEF end
  <2> QED
    BY <1>4, <2>1, Zenon
<1> HIDE DEF m3, k
<1>13. IsCopied(m3, m, dest, src, k + p.tail)
  BY <1>2, <1>4, <1>5, <1>6, <1>11, <1>12, CopiedTwice, Zenon
<1> QED
  BY <1>1, <1>4, <1>13, Zenon

\* memmove copies n bytes, however the two places overlap.
LEMMA memmoveRight ==
    ASSUME NEW m, IsMemory(m), NEW dest \in Nat, NEW src \in Nat, NEW n \in Nat,
           src + n <= MemSize, MemSize \in Nat
    PROVE  IsCopied(memmove(m, dest, src, n), m, dest, src, n)
<1>1. CASE src < dest
  <2>1. memmove(m, dest, src, n) = movs(m, dest + n - 1, src + n - 1, 1, n, Down)
    BY <1>1, Zenon DEF memmove, Backward
  <2>2. movs(m, dest + n - 1, src + n - 1, 1, n, Down) = Copied(m, dest, src, n)
    BY <1>1, MovsDown
  <2> QED
    BY <2>1, <2>2, Zenon DEF IsCopied
<1>2. CASE ~(src < dest)
  <2>1. memmove(m, dest, src, n) = movs(m, dest, src, 1, n, Up)
    BY <1>2, Zenon DEF memmove, Backward, cld
  <2>2. Clear(dest, src, n)
    BY <1>2, Zenon DEF Clear
  <2>3. IsCopied(movs(m, dest, src, 1, n, Up), m, dest, src, n)
    BY <2>2, MovsBytes, Zenon
  <2> QED
    BY <2>1, <2>3, Zenon
<1> QED
  BY <1>1, <1>2

\* strcpy copies the string and its terminator.
LEMMA strcpyRight ==
    ASSUME NEW m, IsMemory(m), NEW dest \in Nat, NEW src \in Nat, MemSize \in Nat,
           src + (strlen(m, src) + 1) <= MemSize, Clear(dest, src, strlen(m, src) + 1)
    PROVE  IsCopied(strcpy(m, dest, src), m, dest, src, strlen(m, src) + 1)
<1> DEFINE k == strlen(m, src) + 1
<1>1. k \in Nat
  <2>1. strlen(m, src) \in Nat
    BY strlenRight, Zenon
  <2> QED
    BY <2>1
<1>2. strcpy(m, dest, src) = movs(m, dest, src, 1, k, Up)
  BY Zenon DEF strcpy
<1>3. src + k <= MemSize /\ Clear(dest, src, k)
  BY Zenon
<1> HIDE DEF k
<1>4. IsCopied(movs(m, dest, src, 1, k, Up), m, dest, src, k)
  BY <1>1, <1>3, MovsBytes, Zenon
<1> QED
  BY <1>2, <1>4, Zenon DEF k

\* strncpy copies at most n characters of the string and fills what is left of n.
LEMMA strncpyRight ==
    ASSUME NEW m, IsMemory(m), NEW dest \in Nat, NEW src \in Nat, NEW n \in Nat, MemSize \in Nat,
           src <= MemSize, Clear(dest, src, n)
    PROVE  IsPadded(strncpy(m, dest, src, n), m, dest, src, n)
<1> DEFINE len == strlen(m, src)
           k == Min({n, len})
           m1 == movs(m, dest, src, 1, k, Up)
           m2 == stos(m1, dest + k, <<Nul>>, n - k, Up)
<1>1. strncpy(m, dest, src, n) = m2
  BY Zenon DEF strncpy
<1>2. len \in Nat /\ src + len <= MemSize
  BY strlenRight, Zenon
<1> HIDE DEF len
<1>3. k \in {n, len} /\ k <= n /\ k <= len
  <2>1. {n, len} \in SUBSET Nat /\ {n, len} # {}
    BY <1>2
  <2> QED
    BY <2>1, MinRight, Zenon
<1> HIDE DEF k
<1>4. k \in Nat /\ n - k \in Nat /\ dest + k \in Nat /\ src + k <= MemSize
  BY <1>2, <1>3
<1>5. Clear(dest, src, k)
  BY <1>3, <1>4 DEF Clear
<1>6. IsCopied(m1, m, dest, src, k)
  BY <1>4, <1>5, MovsBytes, Zenon
<1> HIDE DEF m1
<1>7. IsMemory(m1)
  BY <1>6, CopiedMemory, Zenon
<1>8. IsSet(m2, m1, dest + k, Nul, n - k)
  <2>1. Len(<<Nul>>) = 1 /\ <<Nul>>[1] = Nul
    OBVIOUS
  <2> QED
    BY <1>4, <1>7, <2>1, StosBytes, Zenon
<1> HIDE DEF m2
<1>9. ASSUME NEW i \in Addresses
      PROVE  m2[i] = IF i \in dest .. dest + n - 1
                     THEN IF i - dest < len THEN m[src + (i - dest)] ELSE Nul ELSE m[i]
  <2>1. i \in Nat
    BY DEF Addresses
  <2>2. m2[i] = IF i \in dest + k .. dest + k + (n - k) - 1 THEN Nul ELSE m1[i]
    BY <1>8, Zenon DEF IsSet, AllSet
  <2>3. m1[i] = IF i \in dest .. dest + k - 1 THEN m[src + (i - dest)] ELSE m[i]
    BY <1>6, Zenon DEF IsCopied, Copied
  <2>4. CASE i \in dest + k .. dest + k + (n - k) - 1
    <3>1. i \in dest .. dest + n - 1 /\ ~(i - dest < len)
      BY <1>2, <1>3, <1>4, <2>1, <2>4
    <3> QED
      BY <2>2, <2>4, <3>1, Zenon
  <2>5. CASE i \in dest .. dest + k - 1
    <3>1. i \in dest .. dest + n - 1 /\ i - dest < len /\ i \notin dest + k .. dest + k + (n - k) - 1
      BY <1>2, <1>3, <1>4, <2>1, <2>5
    <3> QED
      BY <2>2, <2>3, <2>5, <3>1, Zenon
  <2>6. CASE i \notin dest + k .. dest + k + (n - k) - 1 /\ i \notin dest .. dest + k - 1
    <3>1. i \notin dest .. dest + n - 1
      BY <1>4, <2>1, <2>6
    <3> QED
      BY <2>2, <2>3, <2>6, <3>1, Zenon
  <2> QED
    BY <2>4, <2>5, <2>6, Zenon
<1>10. m2 = [i \in Addresses |-> m2[i]]
  BY <1>8, SetMemory, Zenon DEF IsMemory
<1>11. m2 = [i \in Addresses |-> IF i \in dest .. dest + n - 1
                                 THEN IF i - dest < len THEN m[src + (i - dest)] ELSE Nul ELSE m[i]]
  BY <1>9, <1>10, Zenon
<1> QED
  BY <1>1, <1>11, Zenon DEF len, IsPadded

-----------------------------------------------------------------------------
(* Calls                                                                   *)

\* A call within the memory that was there before it leaves the memory promised.
LEMMA CallRight ==
    ASSUME NEW c, Call(c), mem = before, IsMemory(mem), Within(mem, c), MemSize \in Nat, Apart(c)
    PROVE  mem' = Promised(c)
<1> DEFINE dest == c.dest
           src == c.src
           n == c.n
<1>1. /\ c.fn \in {"memset", "memset_word", "memset_dword", "memcpy", "memmove", "strcpy", "strncpy"}
      /\ dest \in Nat /\ src \in Nat /\ src <= MemSize /\ c.c \in Nat /\ n \in Nat
  BY DEF Within
<1>2. CASE c.fn = "memset"
  <2>1. mem' = memset(mem, dest, c.c, n)
    BY <1>2 DEF Call
  <2>2. IsSet(mem', mem, dest, c.c % 256, n)
    BY <1>1, <2>1, memsetRight, Zenon
  <2>3. Promised(c) = [i \in Addresses |-> IF i \in dest .. dest + n - 1 THEN c.c % 256 ELSE before[i]]
    BY <1>2 DEF Promised
  <2> QED
    BY <2>2, <2>3, Zenon DEF IsSet, AllSet
<1>3. CASE c.fn = "memset_word"
  <2>1. mem' = memset_word(mem, dest, c.c, n)
    BY <1>3 DEF Call
  <2>2. Promised(c) = [i \in Addresses |-> IF i \in dest .. dest + 2 * n - 1
                                           THEN (c.c \div 256 ^ ((i - dest) % 2)) % 256 ELSE before[i]]
    BY <1>3 DEF Promised
  <2>3. AreSet(mem', mem, dest, c.c, n, 2)
    BY <1>1, <2>1, memset_wordRight, Zenon
  <2> HIDE DEF dest, n
  <2> QED
    BY <2>2, <2>3, Zenon DEF AreSet
<1>4. CASE c.fn = "memset_dword"
  <2>1. mem' = memset_dword(mem, dest, c.c, n)
    BY <1>4 DEF Call
  <2>2. Promised(c) = [i \in Addresses |-> IF i \in dest .. dest + 4 * n - 1
                                           THEN (c.c \div 256 ^ ((i - dest) % 4)) % 256 ELSE before[i]]
    BY <1>4 DEF Promised
  <2>3. AreSet(mem', mem, dest, c.c, n, 4)
    BY <1>1, <2>1, memset_dwordRight, Zenon
  <2> HIDE DEF dest, n
  <2> QED
    BY <2>2, <2>3, Zenon DEF AreSet
<1>5. CASE c.fn = "memcpy"
  <2>1. mem' = memcpy(mem, dest, src, n)
    BY <1>5 DEF Call
  <2>2. src + n <= MemSize /\ Clear(dest, src, n)
    BY <1>5 DEF Within, Apart, Stored, Clear
  <2>3. IsCopied(mem', mem, dest, src, n)
    BY <1>1, <2>1, <2>2, memcpyRight, Zenon
  <2>4. Promised(c) = [i \in Addresses |-> IF i \in dest .. dest + n - 1
                                           THEN before[src + (i - dest)] ELSE before[i]]
    BY <1>5 DEF Promised
  <2> QED
    BY <2>3, <2>4, Zenon DEF IsCopied, Copied
<1>6. CASE c.fn = "memmove"
  <2>1. mem' = memmove(mem, dest, src, n)
    BY <1>6 DEF Call
  <2>2. src + n <= MemSize
    BY <1>6 DEF Within, Stored
  <2>3. IsCopied(mem', mem, dest, src, n)
    BY <1>1, <2>1, <2>2, memmoveRight, Zenon
  <2>4. Promised(c) = [i \in Addresses |-> IF i \in dest .. dest + n - 1
                                           THEN before[src + (i - dest)] ELSE before[i]]
    BY <1>6 DEF Promised
  <2> QED
    BY <2>3, <2>4, Zenon DEF IsCopied, Copied
<1>7. CASE c.fn = "strcpy"
  <2>1. mem' = strcpy(mem, dest, src)
    BY <1>7 DEF Call
  <2>2. src + (strlen(mem, src) + 1) <= MemSize /\ Clear(dest, src, strlen(mem, src) + 1)
    BY <1>7 DEF Within, Apart, Stored, Clear
  <2>3. IsCopied(mem', mem, dest, src, strlen(mem, src) + 1)
    BY <1>1, <2>1, <2>2, strcpyRight, Zenon
  <2>4. Promised(c) = [i \in Addresses |-> IF i \in dest .. dest + (strlen(before, src) + 1) - 1
                                           THEN before[src + (i - dest)] ELSE before[i]]
    BY <1>7 DEF Promised
  <2> QED
    BY <2>3, <2>4, Zenon DEF IsCopied, Copied
<1>8. CASE c.fn = "strncpy"
  <2>1. mem' = strncpy(mem, dest, src, n)
    BY <1>8 DEF Call
  <2>2. Clear(dest, src, n)
    BY <1>8 DEF Apart, Stored, Clear
  <2>3. Promised(c) = [i \in Addresses |->
                          IF i \in dest .. dest + n - 1
                          THEN IF i - dest < strlen(before, src) THEN before[src + (i - dest)] ELSE Nul
                          ELSE before[i]]
    BY <1>8 DEF Promised
  <2>4. IsPadded(mem', mem, dest, src, n)
    BY <1>1, <2>1, <2>2, strncpyRight, Zenon
  <2> HIDE DEF dest, src, n
  <2> QED
    BY <2>3, <2>4, Zenon DEF IsPadded
<1> QED
  BY <1>1, <1>2, <1>3, <1>4, <1>5, <1>6, <1>7, <1>8

\* Before the call the memory is one of Memories; a call of printf leaves it alone.
IInv ==
    /\ pc = "ready" => mem = before /\ mem \in Memories /\ call = NoCall
    /\ pc = "printf" => call = NoCall
    /\ MemoryRight

\* MemoryRight: memset, memset_word, memset_dword, memcpy, memmove, strcpy and strncpy
\* change exactly the bytes they are to change, for every memory, alignment, length and
\* overlap they may be called with.
THEOREM MemoryIsRight == Spec => []MemoryRight
<1>1. Init => IInv
  BY DEF Init, IInv, MemoryRight
<1>2. IInv /\ [Next]_vars => IInv'
  <2> SUFFICES ASSUME IInv, [Next]_vars PROVE IInv'
    OBVIOUS
  <2>1. ASSUME NEW c \in Calls(mem), Call(c) PROVE IInv'
    <3>1. mem = before /\ mem \in Memories /\ pc' = "done" /\ call' = c /\ before' = before
      BY <2>1 DEF IInv, Call
    <3>2. Within(mem, c) /\ IsMemory(mem) /\ MemSize \in Nat
      BY <2>1, <3>1, LibraryAssumption, CallsAssumption DEF IsMemory
    <3>3. Apart(c) => mem' = Promised(c)
      BY <2>1, <3>1, <3>2, CallRight, Zenon
    <3>4. Apart(call)' <=> Apart(c)
      BY <3>1 DEF Apart, Stored
    <3>5. Promised(call)' = Promised(c)
      BY <3>1 DEF Promised
    <3>6. MemoryRight'
      BY <3>3, <3>4, <3>5, Zenon DEF MemoryRight
    <3> QED
      BY <3>1, <3>6 DEF IInv
  <2>2. ASSUME NEW f \in Formats, printf(f) PROVE IInv'
    BY <2>2 DEF IInv, printf, MemoryRight
  <2>3. CASE PrintfPlain
    BY <2>3 DEF IInv, PrintfPlain, MemoryRight
  <2>4. CASE PrintfConversion
    BY <2>4 DEF IInv, PrintfConversion, MemoryRight
  <2>5. CASE PrintfEnd
    BY <2>5 DEF IInv, PrintfEnd, MemoryRight
  <2>6. CASE UNCHANGED vars
    BY <2>6, ZenonT(40) DEF IInv, vars, MemoryRight, Apart, Stored, Promised
  <2> QED
    BY <2>1, <2>2, <2>3, <2>4, <2>5, <2>6 DEF Next
<1>3. IInv => MemoryRight
  BY DEF IInv
<1> QED
  BY <1>1, <1>2, <1>3, PTL DEF Spec

-----------------------------------------------------------------------------
(* Induction and iteration                                                 *)

\* A set of numbers that has 0 and, with every number, the next one, has all.
LEMMA AllNumbers ==
    ASSUME NEW T, 0 \in T, \A n \in Nat : n \in T => n + 1 \in T
    PROVE  \A n \in Nat : n \in T
<1> DEFINE Wrong == {n \in Nat : n \notin T}
<1>1. CASE Wrong # {}
  <2>1. Wrong \in SUBSET Nat
    OBVIOUS
  <2>2. PICK n \in Wrong : \A i \in Wrong : <<i, n>> \notin OpToRel(<, Nat)
    BY <1>1, <2>1, WFMin, NatLessThanWellFounded, Zenon
  <2>3. \A i \in Wrong : ~(i < n)
    BY <2>1, <2>2, Zenon DEF OpToRel
  <2>4. n \in Nat /\ n \notin T
    BY <2>2
  <2>5. n # 0
    BY <2>4
  <2>6. n - 1 \in Nat /\ n - 1 < n /\ (n - 1) + 1 = n
    BY <2>4, <2>5
  <2>7. n - 1 \in T
    BY <2>3, <2>6
  <2> QED
    BY <2>4, <2>6, <2>7
<1>2. CASE Wrong = {}
  BY <1>2
<1> QED
  BY <1>1, <1>2

\* So has one that has every number with all the smaller ones.
LEMMA AllNumbersBelow ==
    ASSUME NEW T, \A n \in Nat : (\A m \in 0 .. n - 1 : m \in T) => n \in T
    PROVE  \A n \in Nat : n \in T
<1> DEFINE U == {n \in Nat : \A m \in 0 .. n - 1 : m \in T}
<1>1. 0 \in U
  OBVIOUS
<1>2. \A n \in Nat : n \in U => n + 1 \in U
  <2> TAKE n \in Nat
  <2> HAVE n \in U
  <2>1. n \in T
    OBVIOUS
  <2>2. \A m \in 0 .. (n + 1) - 1 : m = n \/ m \in 0 .. n - 1
    OBVIOUS
  <2> QED
    BY <2>1, <2>2
<1> HIDE DEF U
<1>3. \A n \in Nat : n \in U
  BY <1>1, <1>2, AllNumbers, Zenon
<1> QED
  BY <1>3 DEF U

\* A loop can be run.
LEMMA LoopExists ==
    ASSUME NEW S, NEW b \in S, NEW k \in Nat, NEW step \in [1 .. k -> [S -> S]]
    PROVE  \E f \in [0 .. k -> S] : f[0] = b /\ \A j \in 1 .. k : f[j] = step[j][f[j - 1]]
<1> DEFINE Run(n, f) == f \in [0 .. n -> S] /\ f[0] = b /\ \A j \in 1 .. n : f[j] = step[j][f[j - 1]]
           T == {n \in Nat : n <= k => \E f : Run(n, f)}
<1>1. 0 \in T
  <2>1. Run(0, [j \in 0 .. 0 |-> b])
    OBVIOUS
  <2> QED
    BY <2>1
<1>2. \A n \in Nat : n \in T => n + 1 \in T
  <2> HIDE DEF Run
  <2> SUFFICES ASSUME NEW n \in Nat, n \in T, n + 1 <= k PROVE \E f : Run(n + 1, f)
    OBVIOUS
  <2>1. n <= k
    OBVIOUS
  <2>2. PICK f : Run(n, f)
    BY <2>1
  <2> USE DEF Run
  <2> DEFINE g == [j \in 0 .. n + 1 |-> IF j <= n THEN f[j] ELSE step[n + 1][f[n]]]
  <2>3. step[n + 1][f[n]] \in S
    BY <2>2
  <2>4. g \in [0 .. n + 1 -> S] /\ g[0] = b
    BY <2>2, <2>3
  <2>5. \A j \in 1 .. n + 1 : g[j] = step[j][g[j - 1]]
    <3> TAKE j \in 1 .. n + 1
    <3>1. j - 1 \in 0 .. n /\ g[j - 1] = f[j - 1]
      OBVIOUS
    <3>2. CASE j = n + 1
      BY <3>1, <3>2
    <3>3. CASE j # n + 1
      <4>1. j \in 1 .. n
        BY <3>3
      <4> QED
        BY <2>2, <3>1, <4>1
    <3> QED
      BY <3>2, <3>3
  <2> QED
    BY <2>4, <2>5, Zenon
<1> HIDE DEF T
<1>3. k \in T
  BY <1>1, <1>2, AllNumbers, Zenon
<1> QED
  BY <1>3 DEF T

\* f runs the loop of the k steps from b on.
IsLoop(k, S, step)    == k \in Nat /\ step \in [1 .. k -> [S -> S]]
Runs(f, b, k, S, step) == f \in [0 .. k -> S] /\ f[0] = b /\ \A j \in 1 .. k : f[j] = step[j][f[j - 1]]

LEMMA LoopRuns ==
    ASSUME NEW S, NEW b \in S, NEW k, NEW step, IsLoop(k, S, step)
    PROVE  \E f : Runs(f, b, k, S, step)
<1>1. k \in Nat /\ step \in [1 .. k -> [S -> S]]
  BY DEF IsLoop
<1>2. \E f \in [0 .. k -> S] : f[0] = b /\ \A j \in 1 .. k : f[j] = step[j][f[j - 1]]
  BY <1>1, LoopExists
<1> QED
  BY <1>2, Zenon DEF Runs

-----------------------------------------------------------------------------
(* Powers and digits                                                       *)

\* A power is what the loop over the exponent computes.
LEMMA PowerLoop ==
    ASSUME NEW r \in Nat, NEW n \in Nat, NEW f \in [0 .. n -> Nat],
           f[0] = 1, \A j \in 1 .. n : f[j] = r * f[j - 1]
    PROVE  Power(r, n) = f[n]
<1> DEFINE Is(p) == p = [i \in 0 .. n |-> IF i = 0 THEN 1 ELSE r * p[i - 1]]
           p == CHOOSE p : Is(p)
<1>1. Power(r, n) = p[n]
  BY Zenon DEF Power
<1>2. Is(f)
  OBVIOUS
<1>3. Is(p)
  BY <1>2, Zenon
<1> HIDE DEF p
<1>4. p[0] = 1 /\ \A j \in 1 .. n : p[j] = r * p[j - 1]
  BY <1>3
<1>5. \A j \in 1 .. n : p[j - 1] = f[j - 1] => p[j] = f[j]
  BY <1>4
<1>6. p[n] = f[n]
  <2>1. p[0] = f[0]
    BY <1>4
  <2> QED
    BY <2>1, <1>5, SameLoop, Zenon
<1> QED
  BY <1>1, <1>6

LEMMA PowerRight ==
    ASSUME NEW r \in Nat \ {0}
    PROVE  /\ Power(r, 0) = 1
           /\ \A n \in Nat : Power(r, n) \in Nat \ {0} /\ Power(r, n + 1) = r * Power(r, n)
<1>1. ASSUME NEW n \in Nat
      PROVE  /\ Power(r, n) \in Nat \ {0}
             /\ Power(r, n + 1) = r * Power(r, n) /\ Power(r, 0) = 1
  <2> DEFINE S == Nat \ {0}
             step == [j \in 1 .. n + 1 |-> [x \in S |-> r * x]]
  <2>1. \A x \in S : r * x \in S
    OBVIOUS
  <2>2. step \in [1 .. n + 1 -> [S -> S]] /\ 1 \in S /\ n + 1 \in Nat
    BY <2>1
  <2>3. \E f \in [0 .. n + 1 -> S] :
           f[0] = 1 /\ \A j \in 1 .. n + 1 : f[j] = step[j][f[j - 1]]
    <3> HIDE DEF S, step
    <3>1. IsLoop(n + 1, S, step)
      BY <2>2, Zenon DEF IsLoop
    <3>2. \E f : Runs(f, 1, n + 1, S, step)
      BY <2>2, <3>1, LoopRuns, Zenon
    <3> QED
      BY <3>2, Zenon DEF Runs
  <2>4. PICK f \in [0 .. n + 1 -> S] :
           f[0] = 1 /\ \A j \in 1 .. n + 1 : f[j] = r * f[j - 1]
    <3>1. PICK f \in [0 .. n + 1 -> S] :
             f[0] = 1 /\ \A j \in 1 .. n + 1 : f[j] = step[j][f[j - 1]]
      BY <2>3, Zenon
    <3>2. \A j \in 1 .. n + 1 : j - 1 \in 0 .. n + 1 /\ f[j - 1] \in S
      BY <3>1
    <3>3. \A j \in 1 .. n + 1 : \A x \in S : step[j][x] = r * x
      OBVIOUS
    <3> HIDE DEF S, step
    <3> QED
      BY <3>1, <3>2, <3>3
  <2> HIDE DEF step
  <2>5. Power(r, n + 1) = f[n + 1]
    <3>1. f \in [0 .. n + 1 -> Nat] /\ n + 1 \in Nat /\ r \in Nat
      OBVIOUS
    <3> QED
      BY <2>4, <3>1, PowerLoop, Zenon
  <2>6. Power(r, n) = f[n]
    <3> DEFINE g == [j \in 0 .. n |-> f[j]]
    <3>1. g \in [0 .. n -> Nat] /\ g[0] = 1 /\ \A j \in 1 .. n : g[j] = r * g[j - 1]
      BY <2>4
    <3>2. g[n] = f[n]
      OBVIOUS
    <3> HIDE DEF g
    <3> QED
      BY <3>1, <3>2, PowerLoop
  <2>7. Power(r, 0) = 1
    <3> DEFINE h == [j \in 0 .. 0 |-> 1]
    <3>1. h \in [0 .. 0 -> Nat] /\ h[0] = 1 /\ \A j \in 1 .. 0 : h[j] = r * h[j - 1]
      OBVIOUS
    <3>2. h[0] = 1 /\ 0 \in Nat /\ r \in Nat
      OBVIOUS
    <3> HIDE DEF h
    <3>3. Power(r, 0) = h[0]
      BY <3>1, <3>2, PowerLoop, Zenon
    <3> QED
      BY <3>2, <3>3, Zenon
  <2> QED
    BY <2>4, <2>5, <2>6, <2>7
<1> QED
  BY <1>1

LEMMA Quotient ==
    ASSUME NEW v \in Nat, NEW p \in Nat \ {0}
    PROVE  /\ v \div p \in Nat
           /\ (v \div p) * p <= v /\ v < (v \div p) * p + p
           /\ \A x \in Nat : v \div p < x <=> v < x * p
           /\ \A q \in Nat : q * p <= v /\ v < q * p + p => v \div p = q
<1>1. v \div p \in Nat /\ (v \div p) * p <= v /\ v < (v \div p) * p + p
  OBVIOUS
<1>2. \A q \in Nat, x \in Nat : q < x => q * p + p <= x * p
  OBVIOUS
<1>3. \A q \in Nat, x \in Nat : q <= x => q * p <= x * p
  OBVIOUS
<1> DEFINE d == v \div p
<1> HIDE DEF d
<1> QED
  BY <1>1, <1>2, <1>3

\* A longer numeral can show larger numbers.
LEMMA PowerGrows ==
    ASSUME NEW r \in Nat, r >= 2
    PROVE  /\ \A n \in Nat : n < Power(r, n) /\ Power(2, n) <= Power(r, n)
           /\ \A n, k \in Nat : n <= k => Power(r, n) <= Power(r, k)
<1> DEFINE T == {n \in Nat : n < Power(r, n) /\ Power(2, n) <= Power(r, n)}
           U(n) == {k \in Nat : n <= k => Power(r, n) <= Power(r, k)}
<1>1. \A n \in Nat : Power(r, n) \in Nat \ {0} /\ Power(r, n + 1) = r * Power(r, n)
  BY PowerRight
<1>2. \A n \in Nat : Power(2, n) \in Nat \ {0} /\ Power(2, n + 1) = 2 * Power(2, n)
  BY PowerRight
<1>3. Power(r, 0) = 1 /\ Power(2, 0) = 1
  BY PowerRight
<1>4. \A x \in Nat : 2 * x <= r * x
  OBVIOUS
<1>5. \A n \in Nat : n \in T
  <2>1. 0 \in T
    BY <1>3
  <2>2. \A n \in Nat : n \in T => n + 1 \in T
    <3> SUFFICES ASSUME NEW n \in Nat, n \in T PROVE n + 1 \in T
      OBVIOUS
    <3> DEFINE p == Power(r, n)
               q == Power(2, n)
    <3>1. p \in Nat /\ q \in Nat /\ n < p /\ q <= p
      BY <1>1, <1>2
    <3>2. Power(r, n + 1) = r * p /\ Power(2, n + 1) = 2 * q
      BY <1>1, <1>2
    <3> HIDE DEF p, q
    <3>3. 2 * p <= r * p /\ r * p \in Nat
      BY <3>1, <1>4
    <3> DEFINE x == r * p
    <3>4. Power(r, n + 1) = x /\ 2 * p <= x /\ x \in Nat
      BY <3>2, <3>3
    <3> HIDE DEF x
    <3>5. n + 1 < x /\ 2 * q <= x
      BY <3>1, <3>4
    <3> QED
      BY <3>2, <3>4, <3>5
  <2> HIDE DEF T
  <2> QED
    BY <2>1, <2>2, AllNumbers, Zenon
<1>6. ASSUME NEW n \in Nat PROVE \A k \in Nat : k \in U(n)
  <2>1. 0 \in U(n)
    BY <1>3, <1>1
  <2>2. \A k \in Nat : k \in U(n) => k + 1 \in U(n)
    <3> SUFFICES ASSUME NEW k \in Nat, k \in U(n), n <= k + 1
                 PROVE  Power(r, n) <= Power(r, k + 1)
      OBVIOUS
    <3>1. CASE n = k + 1
      BY <3>1, <1>1
    <3>2. CASE n <= k
      <4> DEFINE p == Power(r, k)
                 q == Power(r, n)
      <4>1. q <= p /\ p \in Nat /\ q \in Nat /\ Power(r, k + 1) = r * p
        BY <3>2, <1>1
      <4> HIDE DEF p, q
      <4>2. 2 * p <= r * p /\ r * p \in Nat
        BY <4>1, <1>4
      <4>3. q <= r * p
        BY <4>1, <4>2
      <4> QED
        BY <4>1, <4>3 DEF q
    <3> QED
      BY <3>1, <3>2
  <2> DEFINE V == U(n)
  <2>3. 0 \in V /\ \A k \in Nat : k \in V => k + 1 \in V
    BY <2>1, <2>2
  <2> HIDE DEF V
  <2>4. \A k \in Nat : k \in V
    BY <2>3, AllNumbers, Zenon
  <2> QED
    BY <2>4 DEF V
<1> QED
  BY <1>5, <1>6

\* Four bits are a hexadecimal digit.
LEMMA PowerOfSixteen == \A n \in Nat : Power(2, 4 * n) = Power(16, n)
<1> DEFINE T == {n \in Nat : Power(2, 4 * n) = Power(16, n)}
<1>1. \A n \in Nat : Power(2, n) \in Nat /\ Power(2, n + 1) = 2 * Power(2, n)
  BY PowerRight
<1>2. \A n \in Nat : Power(16, n) \in Nat /\ Power(16, n + 1) = 16 * Power(16, n)
  BY PowerRight
<1>3. 0 \in T
  <2>1. Power(2, 0) = 1 /\ Power(16, 0) = 1 /\ 4 * 0 = 0
    BY PowerRight
  <2> QED
    BY <2>1
<1>4. \A n \in Nat : n \in T => n + 1 \in T
  <2> SUFFICES ASSUME NEW n \in Nat, n \in T PROVE n + 1 \in T
    OBVIOUS
  <2> DEFINE m == 4 * n
             q == Power(2, m)
  <2>1. m \in Nat /\ m + 1 \in Nat /\ m + 2 \in Nat /\ m + 3 \in Nat
    OBVIOUS
  <2>2. 4 * (n + 1) = m + 4 /\ (m + 1) + 1 = m + 2 /\ (m + 2) + 1 = m + 3 /\ (m + 3) + 1 = m + 4
    OBVIOUS
  <2>3. q = Power(16, n) /\ q \in Nat
    BY <1>1, <2>1
  <2> HIDE DEF m
  <2>4. Power(2, m + 1) = 2 * q /\ Power(2, m + 2) = 4 * q
    BY <1>1, <2>1, <2>2
  <2>5. Power(2, m + 3) = 8 * q /\ Power(2, m + 4) = 16 * q
    BY <1>1, <2>1, <2>2, <2>4
  <2>6. Power(16, n + 1) = 16 * q
    BY <1>2, <2>3
  <2> QED
    BY <2>2, <2>5, <2>6
<1> HIDE DEF T
<1>5. \A n \in Nat : n \in T
  BY <1>3, <1>4, AllNumbers, Zenon
<1> QED
  BY <1>5 DEF T

\* Taking the last digit off moves the others one place down.
LEMMA NextDigit ==
    ASSUME NEW r \in {10, 16}, NEW v \in Nat, NEW i \in Nat
    PROVE  /\ (v \div r) \div Power(r, i) = v \div Power(r, i + 1)
           /\ v \div r < Power(r, i) <=> v < Power(r, i + 1)
<1> DEFINE p == Power(r, i)
           u == v \div r
           q == u \div p
<1>1. p \in Nat \ {0} /\ Power(r, i + 1) = r * p /\ r * p \in Nat \ {0}
  BY PowerRight
<1>2. u \in Nat /\ r * u <= v /\ v < r * u + r
  <2>1. CASE r = 10
    BY <2>1
  <2>2. CASE r = 16
    BY <2>2
  <2> QED
    BY <2>1, <2>2
<1>3. \A x \in Nat : u < x <=> v < r * x
  <2> HIDE DEF u
  <2>1. CASE r = 10
    BY <1>2, <2>1
  <2>2. CASE r = 16
    BY <1>2, <2>2
  <2> QED
    BY <2>1, <2>2
<1> HIDE DEF p, u
<1>4. q \in Nat /\ q * p <= u /\ u < q * p + p
  BY <1>1, <1>2, Quotient
<1> HIDE DEF q
<1> DEFINE a == q * p
<1>5. a \in Nat /\ a + p \in Nat /\ ~(u < a) /\ u < a + p
  BY <1>1, <1>2, <1>4
<1>6. q * (r * p) = r * a
  BY <1>1, <1>4
<1> HIDE DEF a
<1>7. r * a <= v /\ v < r * (a + p) /\ r * (a + p) = r * a + r * p
  <2>1. ~(v < r * a) /\ v < r * (a + p)
    BY <1>3, <1>5
  <2>2. r * (a + p) = r * a + r * p /\ r * a \in Nat
    BY <1>1, <1>5
  <2> QED
    BY <2>1, <2>2
<1> DEFINE b == r * p
<1>8. b \in Nat \ {0} /\ q * b <= v /\ v < q * b + b
  BY <1>1, <1>6, <1>7
<1> HIDE DEF b
<1>9. v \div b = q
  BY <1>4, <1>8, Quotient
<1>10. u \div p = q /\ (u < p <=> v < b)
  BY <1>1, <1>3 DEF q, b
<1> QED
  BY <1>1, <1>9, <1>10 DEF p, u, b

\* v has j digits, none of them if it is zero.
IsPlaces(v, r, j) == j \in Nat /\ v < Power(r, j) /\ (j = 0 \/ Power(r, j - 1) <= v)
Places(v, r)      == CHOOSE j : IsPlaces(v, r, j)

LEMMA PlacesRight ==
    ASSUME NEW r \in {10, 16}, NEW v \in Nat
    PROVE  IsPlaces(v, r, Places(v, r)) /\ \A j : IsPlaces(v, r, j) => j = Places(v, r)
<1>1. r \in Nat /\ r >= 2 /\ r \in Nat \ {0}
  OBVIOUS
<1>2. \A n \in Nat : Power(r, n) \in Nat
  BY <1>1, PowerRight
<1>3. /\ \A n \in Nat : n < Power(r, n)
      /\ \A n, k \in Nat : n <= k => Power(r, n) <= Power(r, k)
  BY <1>1, PowerGrows
<1>4. \E j : IsPlaces(v, r, j)
  <2> DEFINE S == {j \in Nat : v < Power(r, j)}
             j == Min(S)
  <2>1. S \in SUBSET Nat /\ v \in S
    BY <1>3
  <2>2. j \in S /\ \A y \in S : j <= y
    <3> HIDE DEF S
    <3> QED
      BY <2>1, MinRight
  <2>3. j \in Nat /\ v < Power(r, j)
    BY <2>2
  <2>4. j # 0 => ~(v < Power(r, j - 1))
    <3> HIDE DEF j
    <3>1. SUFFICES ASSUME j # 0 PROVE j - 1 \notin S
      BY <2>3
    <3> QED
      BY <2>2, <2>3, <3>1
  <2> HIDE DEF j
  <2>5. j # 0 => Power(r, j - 1) <= v
    BY <2>3, <2>4, <1>2
  <2> QED
    BY <2>3, <2>5 DEF IsPlaces
<1>5. \A j, k : IsPlaces(v, r, j) /\ IsPlaces(v, r, k) => ~(j < k)
  <2> SUFFICES ASSUME NEW j, NEW k, IsPlaces(v, r, j), IsPlaces(v, r, k), j < k
               PROVE  FALSE
    OBVIOUS
  <2>1. j \in Nat /\ k \in Nat /\ v < Power(r, j) /\ k # 0 /\ Power(r, k - 1) <= v
    BY DEF IsPlaces
  <2>2. k - 1 \in Nat /\ j <= k - 1
    BY <2>1
  <2>3. Power(r, j) <= Power(r, k - 1)
    BY <1>3, <2>1, <2>2
  <2> QED
    BY <1>2, <2>1, <2>2, <2>3
<1>6. \A j, k : IsPlaces(v, r, j) /\ IsPlaces(v, r, k) => j = k
  <2>1. \A j, k : IsPlaces(v, r, j) /\ IsPlaces(v, r, k) => j \in Nat /\ k \in Nat
    BY DEF IsPlaces
  <2> QED
    BY <1>5, <2>1
<1>7. IsPlaces(v, r, Places(v, r))
  BY <1>4, Zenon DEF Places
<1> QED
  BY <1>6, <1>7, Zenon

LEMMA PlacesNext ==
    ASSUME NEW r \in {10, 16}, NEW v \in Nat
    PROVE  /\ Places(v, r) \in Nat
           /\ v = 0 => Places(v, r) = 0
           /\ v # 0 => Places(v, r) = Places(v \div r, r) + 1
<1> DEFINE u == v \div r
           j == Places(u, r)
<1>1. u \in Nat
  BY Quotient
<1>0. r \in Nat \ {0}
  OBVIOUS
<1>2. Power(r, 0) = 1
  BY <1>0, PowerRight
<1>3. IsPlaces(u, r, j)
  BY <1>1, PlacesRight
<1>4. Places(v, r) \in Nat
  BY PlacesRight DEF IsPlaces
<1>5. ASSUME v = 0 PROVE Places(v, r) = 0
  <2>1. IsPlaces(v, r, 0)
    BY <1>2, <1>5 DEF IsPlaces
  <2> QED
    BY <2>1, PlacesRight, Zenon
<1>6. ASSUME v # 0 PROVE Places(v, r) = j + 1
  <2>1. j \in Nat /\ u < Power(r, j) /\ (j = 0 \/ Power(r, j - 1) <= u)
    BY <1>3 DEF IsPlaces
  <2>2. v < Power(r, j + 1)
    BY <2>1, NextDigit
  <2> HIDE DEF j
  <2>3. Power(r, (j + 1) - 1) <= v
    <3>1. CASE j = 0
      <4>1. (j + 1) - 1 = 0 /\ 1 <= v
        BY <1>6, <3>1
      <4> QED
        BY <1>2, <4>1
    <3>2. CASE j # 0
      <4>1. j - 1 \in Nat /\ (j - 1) + 1 = j /\ (j + 1) - 1 = j
        BY <2>1, <3>2
      <4>2. u < Power(r, j - 1) <=> v < Power(r, j)
        BY <4>1, NextDigit
      <4>3. Power(r, j) \in Nat /\ Power(r, j - 1) \in Nat
        BY <1>0, <2>1, <4>1, PowerRight
      <4>4. ~(u < Power(r, j - 1))
        BY <1>1, <2>1, <3>2, <4>3
      <4>5. ~(v < Power(r, j))
        BY <4>2, <4>4
      <4> QED
        BY <4>1, <4>3, <4>5
    <3> QED
      BY <3>1, <3>2
  <2>4. IsPlaces(v, r, j + 1)
    BY <2>1, <2>2, <2>3 DEF IsPlaces
  <2> QED
    BY <2>4, PlacesRight, Zenon
<1> QED
  BY <1>4, <1>5, <1>6

\* What precedes a sequence comes first in the whole.
LEMMA Joined ==
    ASSUME NEW S, NEW s \in Seq(S), NEW t \in Seq(S)
    PROVE  /\ s \o t \in Seq(S) /\ Len(s \o t) = Len(s) + Len(t)
           /\ s \o t = [i \in 1 .. Len(s) + Len(t) |-> IF i <= Len(s) THEN s[i] ELSE t[i - Len(s)]]
<1> DEFINE u == s \o t
<1>1. u \in Seq(S) /\ Len(u) = Len(s) + Len(t)
  OBVIOUS
<1>2. \A i \in 1 .. Len(s) + Len(t) : u[i] = IF i <= Len(s) THEN s[i] ELSE t[i - Len(s)]
  OBVIOUS
<1> HIDE DEF u
<1>3. u = [i \in 1 .. Len(u) |-> u[i]]
  BY <1>1
<1>4. u = [i \in 1 .. Len(s) + Len(t) |-> IF i <= Len(s) THEN s[i] ELSE t[i - Len(s)]]
  BY <1>1, <1>2, <1>3
<1> QED
  BY <1>1, <1>4 DEF u

\* u is s with t behind it.
IsJoined(u, s, t) == u = [i \in 1 .. Len(s) + Len(t) |-> IF i <= Len(s) THEN s[i] ELSE t[i - Len(s)]]

LEMMA JoinedRight ==
    ASSUME NEW S, NEW s \in Seq(S), NEW t \in Seq(S)
    PROVE  IsJoined(s \o t, s, t)
  BY Joined, Zenon DEF IsJoined

\* s is what comes first in P, and one symbol more of P still is.
IsStart(s, n, P) == s = [i \in 1 .. n |-> P[i]]

LEMMA StartGrows ==
    ASSUME NEW S, NEW s \in Seq(S), NEW c \in S, NEW n \in Nat, NEW P, IsStart(s, n, P), P[n + 1] = c
    PROVE  IsStart(Append(s, c), n + 1, P)
<1> DEFINE u == Append(s, c)
<1>1. s = [i \in 1 .. n |-> P[i]] /\ Len(s) = n
  BY DEF IsStart
<1>2. u \in Seq(S) /\ Len(u) = n + 1
  BY <1>1
<1>3. \A i \in 1 .. n + 1 : u[i] = IF i = n + 1 THEN c ELSE s[i]
  BY <1>1
<1> HIDE DEF u
<1>4. \A i \in 1 .. n + 1 : u[i] = P[i]
  <2>1. \A i \in 1 .. n + 1 : i = n + 1 \/ i \in 1 .. n
    OBVIOUS
  <2>2. \A i \in 1 .. n : s[i] = P[i]
    BY <1>1
  <2> QED
    BY <1>3, <2>1, <2>2
<1>5. u = [i \in 1 .. n + 1 |-> u[i]]
  BY <1>2
<1>6. u = [i \in 1 .. n + 1 |-> P[i]]
  BY <1>4, <1>5
<1> QED
  BY <1>6, Zenon DEF u, IsStart

\* strrev turns a string round.
LEMMA strrevRight ==
    ASSUME NEW S, NEW s \in Seq(S)
    PROVE  strrev(s) = [i \in 1 .. Len(s) |-> s[Len(s) + 1 - i]]
<1> DEFINE n == Len(s)
           k == n \div 2
           Next_(f, end) == [i \in 1 .. n |-> IF i = end THEN f[end - 1][n + 1 - end]
                                               ELSE IF i = n + 1 - end THEN f[end - 1][end]
                                               ELSE f[end - 1][i]]
           Is(f) == f = [end \in 0 .. k |-> IF end = 0 THEN s ELSE Next_(f, end)]
           f == CHOOSE f : Is(f)
           Turned(end) == [i \in 1 .. n |-> IF i <= end \/ i > n - end THEN s[n + 1 - i] ELSE s[i]]
           e == [end \in 0 .. k |-> Turned(end)]
<1>1. strrev(s) = f[k]
  BY Zenon DEF strrev, Exchanged
<1>2. n \in Nat /\ k \in Nat /\ 2 * k <= n /\ n <= 2 * k + 1 /\ s = [i \in 1 .. n |-> s[i]]
  OBVIOUS
<1> HIDE DEF n, k
<1>3. Turned(0) = s
  BY <1>2
<1>4. \A end \in 1 .. k : Turned(end) = Next_(e, end)
  <2> TAKE end \in 1 .. k
  <2>1. end - 1 \in 0 .. k /\ n + 1 - end \in 1 .. n /\ end \in 1 .. n /\ end < n + 1 - end
    BY <1>2
  <2>2. e[end - 1] = Turned(end - 1)
    BY <2>1
  <2> DEFINE t == Turned(end - 1)
  <2>2a. \A i \in 1 .. n : t[i] = IF i <= end - 1 \/ i > n - (end - 1) THEN s[n + 1 - i] ELSE s[i]
    OBVIOUS
  <2>3. t[n + 1 - end] = s[n + 1 - end]
    <3> HIDE DEF t
    <3>1. ~(n + 1 - end <= end - 1 \/ n + 1 - end > n - (end - 1))
      BY <1>2, <2>1
    <3> QED
      BY <2>1, <2>2a, <3>1
  <2>4. t[end] = s[end]
    <3> HIDE DEF t
    <3>1. ~(end <= end - 1 \/ end > n - (end - 1))
      BY <1>2, <2>1
    <3> QED
      BY <2>1, <2>2a, <3>1
  <2>5. ASSUME NEW i \in 1 .. n
        PROVE  Turned(end)[i] = Next_(e, end)[i]
    <3>1. CASE i = end
      <4>1. Turned(end)[i] = s[n + 1 - end]
        BY <1>2, <3>1
      <4> QED
        BY <2>2, <2>3, <3>1, <4>1
    <3>2. CASE i = n + 1 - end
      <4>1. n + 1 - i = end /\ i > n - end /\ i # end
        BY <1>2, <2>1, <3>2
      <4>2. Turned(end)[i] = s[end]
        BY <4>1
      <4> QED
        BY <2>2, <2>4, <3>2, <4>1, <4>2
    <3>3. CASE i # end /\ i # n + 1 - end
      <4>1. (i <= end \/ i > n - end) <=> (i <= end - 1 \/ i > n - (end - 1))
        <5>1. end \in Nat /\ i \in Nat /\ n \in Nat
          BY <1>2
        <5>2. i <= end <=> i <= end - 1
          BY <3>3, <5>1
        <5>3. i > n - end <=> i > n - (end - 1)
          BY <3>3, <5>1
        <5> QED
          BY <5>2, <5>3
      <4>2. Turned(end)[i] = Turned(end - 1)[i]
        BY <4>1
      <4> QED
        BY <2>2, <3>3, <4>2
    <3> QED
      BY <3>1, <3>2, <3>3
  <2> HIDE DEF e
  <2> QED
    BY <2>5
<1>5. Is(e)
  <2>1. \A end \in 0 .. k : Turned(end) = IF end = 0 THEN s ELSE Next_(e, end)
    <3>1. \A end \in 0 .. k : end = 0 \/ end \in 1 .. k
      BY <1>2
    <3> HIDE DEF e, Next_, Turned
    <3> QED
      BY <1>3, <1>4, <3>1
  <2> QED
    BY <2>1, Zenon
<1>6. Is(f)
  BY <1>5, Zenon
<1> HIDE DEF f
<1>7. f[0] = e[0]
  <2>1. 0 \in 0 .. k
    BY <1>2
  <2>2. f[0] = s
    BY <1>6, <2>1
  <2>3. e[0] = s
    BY <1>3, <2>1
  <2> QED
    BY <2>2, <2>3
<1>8. \A end \in 1 .. k : f[end - 1] = e[end - 1] => f[end] = e[end]
  <2> SUFFICES ASSUME NEW end \in 1 .. k, f[end - 1] = e[end - 1]
               PROVE  f[end] = e[end]
    OBVIOUS
  <2>1. end \in 0 .. k /\ end # 0
    BY <1>2
  <2>2. f[end] = Next_(f, end)
    BY <1>6, <2>1
  <2>3. e[end] = Next_(e, end)
    BY <1>4, <2>1
  <2> QED
    BY <2>2, <2>3
<1>9. f[k] = e[k]
  <2> HIDE DEF e
  <2> QED
    BY <1>2, <1>7, <1>8, SameLoop, Zenon
<1>10. e[k] = Turned(k)
  BY <1>2
<1>11. Turned(k) = [i \in 1 .. n |-> s[n + 1 - i]]
  <2>1. \A i \in 1 .. n : ~(i <= k \/ i > n - k) => n + 1 - i = i
    BY <1>2
  <2> QED
    BY <2>1
<1> QED
  BY <1>1, <1>9, <1>10, <1>11 DEF n

\* The strings, with those that the code writes down named one by one.
Symbols == STRING \cup {"0", "1", "2", "3", "4", "5", "6", "7", "8", "9", "A", "B", "C", "D", "E", "F",
                        "-", "%", "#", "d", "u", "x", "c", "s", "NUL"}

\* The i-th digit of v from the right, counting from zero, and all its digits from there.
Digit(v, r, i)  == Lookup[((v \div Power(r, i)) % r) + 1]
DigitsUp(v, r) == [i \in 1 .. Places(v, r) |-> Digit(v, r, i - 1)]

LEMMA DigitRight ==
    ASSUME NEW r \in {10, 16}, NEW v \in Nat, NEW i \in Nat
    PROVE  /\ Digit(v, r, i) \in Symbols
           /\ Digit(v \div r, r, i) = Digit(v, r, i + 1)
           /\ Digit(v, r, 0) = Lookup[(v % r) + 1]
           /\ v < Power(r, i) => Digit(v, r, i) = "0"
<1>1. \A x \in Nat : Lookup[(x % r) + 1] \in Symbols
  <2>1. \A x \in Nat : (x % r) + 1 \in 1 .. 16
    <3>1. CASE r = 10
      BY <3>1
    <3>2. CASE r = 16
      BY <3>2
    <3> QED
      BY <3>1, <3>2
  <2>2. \A n \in 1 .. 16 : Lookup[n] \in Symbols
    BY DEF Lookup, Symbols
  <2> QED
    BY <2>1, <2>2
<1>2. r \in Nat \ {0}
  OBVIOUS
<1>3. Power(r, i) \in Nat \ {0} /\ Power(r, 0) = 1
  BY <1>2, PowerRight
<1>4. v \div Power(r, i) \in Nat /\ v \div 1 = v
  BY <1>3, Quotient
<1>5. Digit(v, r, i) \in Symbols
  BY <1>1, <1>4, Zenon DEF Digit
<1>6. Digit(v \div r, r, i) = Digit(v, r, i + 1)
  BY NextDigit, Zenon DEF Digit
<1>7. Digit(v, r, 0) = Lookup[(v % r) + 1]
  BY <1>3, <1>4, Zenon DEF Digit
<1>8. ASSUME v < Power(r, i) PROVE Digit(v, r, i) = "0"
  <2>1. v \div Power(r, i) = 0
    <3>1. 0 * Power(r, i) <= v /\ v < 0 * Power(r, i) + Power(r, i)
      BY <1>3, <1>8
    <3> QED
      BY <1>3, <3>1, Quotient
  <2>2. (0 % r) + 1 = 1
    OBVIOUS
  <2>3. Lookup[1] = "0"
    BY DEF Lookup
  <2> QED
    BY <2>1, <2>2, <2>3, Zenon DEF Digit
<1> QED
  BY <1>5, <1>6, <1>7, <1>8

LEMMA DigitsRight ==
    ASSUME NEW r \in {10, 16}, NEW v \in Nat
    PROVE  /\ DigitsUp(v, r) \in Seq(Symbols) /\ Len(DigitsUp(v, r)) = Places(v, r)
           /\ v = 0 => DigitsUp(v, r) = <<>>
           /\ v # 0 => DigitsUp(v, r) = <<Lookup[(v % r) + 1]>> \o DigitsUp(v \div r, r)
<1> DEFINE k == Places(v, r)
           u == v \div r
           j == Places(u, r)
           d == DigitsUp(u, r)
           c == <<Lookup[(v % r) + 1]>>
<1>1. k \in Nat /\ u \in Nat /\ j \in Nat /\ (v = 0 => k = 0) /\ (v # 0 => k = j + 1)
  <2>1. u \in Nat
    BY Quotient
  <2> QED
    BY <2>1, PlacesNext
<1>2. \A i \in 1 .. k : Digit(v, r, i - 1) \in Symbols
  <2>1. \A i \in 1 .. k : i - 1 \in Nat
    BY <1>1
  <2> QED
    BY <2>1, DigitRight
<1>3. \A i \in 1 .. j : Digit(u, r, i - 1) \in Symbols
  <2>1. \A i \in 1 .. j : i - 1 \in Nat
    BY <1>1
  <2> QED
    BY <1>1, <2>1, DigitRight
<1>4. DigitsUp(v, r) = [i \in 1 .. k |-> Digit(v, r, i - 1)]
  BY DEF DigitsUp
<1>5. d = [i \in 1 .. j |-> Digit(u, r, i - 1)]
  BY DEF DigitsUp
<1> HIDE DEF k, j, d
<1>6. DigitsUp(v, r) \in Seq(Symbols) /\ Len(DigitsUp(v, r)) = k
  BY <1>1, <1>2, <1>4
<1>7. d \in Seq(Symbols) /\ Len(d) = j
  BY <1>1, <1>3, <1>5
<1>8. ASSUME v = 0 PROVE DigitsUp(v, r) = <<>>
  BY <1>1, <1>4, <1>8
<1>9. ASSUME v # 0 PROVE DigitsUp(v, r) = c \o d
  <2>1. Digit(v, r, 0) = Lookup[(v % r) + 1] /\ Digit(v, r, 0) \in Symbols
    BY DigitRight
  <2> DEFINE x == Lookup[(v % r) + 1]
  <2>2. x \in Symbols /\ c = <<x>> /\ x = Digit(v, r, 0)
    BY <2>1
  <2> HIDE DEF x, c
  <2>3. c \in Seq(Symbols) /\ Len(c) = 1 /\ c[1] = x
    BY <2>2
  <2>4. c \o d = [i \in 1 .. 1 + j |-> IF i <= 1 THEN c[i] ELSE d[i - 1]]
    <3>1. c \o d = [i \in 1 .. Len(c) + Len(d) |-> IF i <= Len(c) THEN c[i] ELSE d[i - Len(c)]]
      <4>1. IsJoined(c \o d, c, d)
        BY <1>7, <2>3, JoinedRight, Zenon
      <4> QED
        BY <4>1 DEF IsJoined
    <3> QED
      BY <1>7, <2>3, <3>1
  <2>5. \A i \in 2 .. j + 1 : d[i - 1] = Digit(v, r, i - 1)
    <3> TAKE i \in 2 .. j + 1
    <3>1. i - 2 \in Nat /\ (i - 2) + 1 = i - 1 /\ i - 1 \in 1 .. j /\ (i - 1) - 1 = i - 2
      BY <1>1
    <3>2. d[i - 1] = Digit(u, r, i - 2)
      BY <1>5, <3>1
    <3>3. Digit(u, r, i - 2) = Digit(v, r, (i - 2) + 1)
      BY <3>1, DigitRight, Zenon
    <3> QED
      BY <3>1, <3>2, <3>3, Zenon
  <2>6. \A i \in 1 .. j + 1 : IF i <= 1 THEN i = 1 /\ i - 1 = 0 ELSE i \in 2 .. j + 1
    BY <1>1
  <2>7. \A i \in 1 .. j + 1 : (IF i <= 1 THEN c[i] ELSE d[i - 1]) = Digit(v, r, i - 1)
    BY <2>2, <2>3, <2>5, <2>6
  <2>8. k = j + 1 /\ 1 + j = j + 1
    BY <1>1, <1>9
  <2> QED
    BY <1>4, <2>4, <2>7, <2>8
<1> QED
  BY <1>6, <1>8, <1>9 DEF c, d, k

\* The loop of itoa computes the digits from the right.
LEMMA itoaRight ==
    ASSUME NEW r \in {10, 16}, NEW v \in Nat
    PROVE  /\ v = 0 => itoa(v, r) = <<"0">>
           /\ v # 0 => itoa(v, r) = [i \in 1 .. Places(v, r) |-> Digit(v, r, Places(v, r) - i)]
<1> DEFINE Next_(f, n) == <<Lookup[(n % r) + 1]>> \o f[n \div r]
           Is(f) == f = [n \in 0 .. v |-> IF n = 0 THEN <<>> ELSE Next_(f, n)]
           f == CHOOSE f : Is(f)
           e == [n \in 0 .. v |-> DigitsUp(n, r)]
<1>1. ASSUME v = 0 PROVE itoa(v, r) = <<"0">>
  BY <1>1, Zenon DEF itoa
<1>2. v # 0 => itoa(v, r) = strrev(f[v])
  BY Zenon DEF itoa
<1>3. \A n \in 1 .. v : n \div r \in 0 .. n - 1 /\ n \div r \in 0 .. v
  <2>1. CASE r = 10
    BY <2>1
  <2>2. CASE r = 16
    BY <2>2
  <2> QED
    BY <2>1, <2>2
<1>4. \A n \in 0 .. v : e[n] = IF n = 0 THEN <<>> ELSE Next_(e, n)
  <2> TAKE n \in 0 .. v
  <2>1. n \in Nat /\ e[n] = DigitsUp(n, r)
    OBVIOUS
  <2>2. CASE n = 0
    <3>1. DigitsUp(n, r) = <<>>
      BY <2>1, <2>2, DigitsRight
    <3> QED
      BY <2>1, <2>2, <3>1, Zenon
  <2>3. CASE n # 0
    <3>1. n \div r \in 0 .. v
      BY <1>3, <2>1, <2>3
    <3>2. e[n \div r] = DigitsUp(n \div r, r)
      BY <3>1, Zenon
    <3>3. DigitsUp(n, r) = <<Lookup[(n % r) + 1]>> \o DigitsUp(n \div r, r)
      BY <2>1, <2>3, DigitsRight
    <3> HIDE DEF e
    <3> QED
      BY <2>1, <2>3, <3>2, <3>3, Zenon
  <2> QED
    BY <2>2, <2>3
<1>5. Is(e)
  BY <1>4, Zenon
<1>6. Is(f)
  BY <1>5, Zenon
<1> HIDE DEF f
<1>7. \A n \in 0 .. v : f[n] = IF n = 0 THEN <<>> ELSE Next_(f, n)
  BY <1>6, Zenon
<1> HIDE DEF e
<1> DEFINE T == {n \in Nat : n <= v => f[n] = e[n]}
<1>8. \A n \in Nat : (\A m \in 0 .. n - 1 : m \in T) => n \in T
  <2> SUFFICES ASSUME NEW n \in Nat, \A m \in 0 .. n - 1 : m \in T, n <= v
               PROVE  f[n] = e[n]
    OBVIOUS
  <2>1. n \in 0 .. v
    OBVIOUS
  <2>2. CASE n = 0
    BY <1>4, <1>7, <2>1, <2>2, Zenon
  <2>3. CASE n # 0
    <3>1. n \div r \in T /\ n \div r \in Nat /\ n \div r <= v
      BY <1>3, <2>1, <2>3
    <3>2. f[n \div r] = e[n \div r]
      BY <3>1
    <3>3. f[n] = Next_(f, n) /\ e[n] = Next_(e, n)
      BY <1>4, <1>7, <2>1, <2>3, Zenon
    <3> QED
      BY <3>2, <3>3, Zenon
  <2> QED
    BY <2>2, <2>3
<1>9. f[v] = DigitsUp(v, r)
  <2> HIDE DEF T
  <2>1. \A n \in Nat : n \in T
    BY <1>8, AllNumbersBelow, Zenon
  <2>2. f[v] = e[v]
    BY <2>1 DEF T
  <2> QED
    BY <2>2 DEF e
<1> DEFINE k == Places(v, r)
           d == DigitsUp(v, r)
<1>10. d \in Seq(Symbols) /\ Len(d) = k /\ k \in Nat
  BY DigitsRight, PlacesNext
<1>11. strrev(d) = [i \in 1 .. k |-> d[k + 1 - i]]
  <2>1. strrev(d) = [i \in 1 .. Len(d) |-> d[Len(d) + 1 - i]]
    BY <1>10, strrevRight
  <2> QED
    BY <1>10, <2>1
<1>12. \A i \in 1 .. k : d[k + 1 - i] = Digit(v, r, k - i)
  <2> HIDE DEF k
  <2>1. \A i \in 1 .. k : k + 1 - i \in 1 .. k /\ (k + 1 - i) - 1 = k - i
    BY <1>10
  <2>2. d = [i \in 1 .. k |-> Digit(v, r, i - 1)]
    BY DEF DigitsUp, k
  <2> QED
    BY <2>1, <2>2
<1>13. strrev(d) = [i \in 1 .. k |-> Digit(v, r, k - i)]
  BY <1>11, <1>12
<1> QED
  BY <1>1, <1>2, <1>9, <1>13

-----------------------------------------------------------------------------
(* Conversions                                                             *)

LEMMA SizeRight ==
    /\ Size \in Nat \ {0} /\ Width \in Nat \ {0} /\ Width \div 4 \in Nat \ {0}
    /\ Size = Power(16, Width \div 4) /\ Size >= 2
    /\ \A r \in {10, 16} : Size <= Power(r, Width)
<1> DEFINE n == Width \div 4
<1>1. Width \in Nat \ {0} /\ Width = 4 * n /\ n \in Nat \ {0}
  BY LibraryAssumption
<1>2. Size \in Nat \ {0}
  BY <1>1, PowerRight DEF Size
<1>3. Size = Power(16, n)
  <2> HIDE DEF n
  <2>1. Power(2, 4 * n) = Power(16, n)
    BY <1>1, PowerOfSixteen
  <2> QED
    BY <1>1, <2>1, Zenon DEF Size
<1>4. 1 < Size
  <2>1. 2 \in Nat /\ 2 >= 2
    OBVIOUS
  <2>2. Width < Size
    BY <1>1, <2>1, PowerGrows DEF Size
  <2> QED
    BY <1>1, <1>2, <2>2
<1>5. ASSUME NEW r \in {10, 16} PROVE Size <= Power(r, Width)
  <2>1. r \in Nat /\ r >= 2
    OBVIOUS
  <2> QED
    BY <1>1, <2>1, PowerGrows DEF Size
<1> QED
  BY <1>1, <1>2, <1>3, <1>4, <1>5

LEMMA NumeralRight ==
    ASSUME NEW r \in {10, 16}, NEW v \in 0 .. Size - 1
    PROVE  /\ itoa(v, r) = Numeral(v, r)
           /\ itoa(v, r) \in Seq(Symbols)
<1> DEFINE Fits(j) == v < Power(r, j) /\ (j = 1 \/ Power(r, j - 1) <= v)
           k == CHOOSE j \in 1 .. Width : Fits(j)
           p == IF v = 0 THEN 1 ELSE Places(v, r)
<1>1. Size \in Nat /\ Width \in Nat \ {0} /\ Size <= Power(r, Width)
  BY SizeRight
<1>2. v \in Nat /\ v < Size
  BY <1>1
<1>3. r \in Nat \ {0} /\ r \in Nat /\ r >= 2
  OBVIOUS
<1>4. Power(r, 0) = 1 /\ \A n \in Nat : Power(r, n) \in Nat \ {0} /\ Power(r, n + 1) = r * Power(r, n)
  BY <1>3, PowerRight
<1>5. \A n, m \in Nat : n <= m => Power(r, n) <= Power(r, m)
  BY <1>3, PowerGrows
<1>6. Numeral(v, r) = [i \in 1 .. k |-> Digit(v, r, k - i)]
  BY Zenon DEF Numeral, Digit
<1>7. p \in 1 .. Width /\ Fits(p)
  <2>1. CASE v = 0
    <3>1. 0 + 1 = 1 /\ 0 < Power(r, 1)
      BY <1>4
    <3> QED
      BY <1>1, <2>1, <3>1
  <2>2. CASE v # 0
    <3> DEFINE q == Places(v, r)
    <3>1. q \in Nat /\ v < Power(r, q) /\ (q = 0 \/ Power(r, q - 1) <= v)
      BY <1>2, PlacesRight DEF IsPlaces
    <3>2. p = q
      BY <2>2
    <3> HIDE DEF q, p
    <3>3. q # 0
      BY <1>2, <1>4, <2>2, <3>1
    <3>4. q <= Width
      <4> SUFFICES ASSUME q > Width PROVE FALSE
        BY <1>1, <3>1
      <4>1. q - 1 \in Nat /\ Width <= q - 1
        BY <1>1, <3>1
      <4>2. Power(r, Width) <= Power(r, q - 1)
        BY <1>1, <1>5, <4>1
      <4>3. Power(r, Width) \in Nat /\ Power(r, q - 1) \in Nat
        BY <1>1, <1>4, <4>1
      <4> QED
        BY <1>1, <1>2, <3>1, <3>3, <4>2, <4>3
    <3> QED
      BY <1>1, <3>1, <3>2, <3>3, <3>4
  <2> QED
    BY <2>1, <2>2
<1>8. \A j, m \in 1 .. Width : Fits(j) /\ Fits(m) => ~(j < m)
  <2> SUFFICES ASSUME NEW j \in 1 .. Width, NEW m \in 1 .. Width, Fits(j), Fits(m), j < m
               PROVE  FALSE
    OBVIOUS
  <2>1. m - 1 \in Nat /\ j \in Nat /\ j <= m - 1 /\ m # 1
    BY <1>1
  <2>2. Power(r, j) <= Power(r, m - 1)
    BY <1>5, <2>1
  <2>3. Power(r, j) \in Nat /\ Power(r, m - 1) \in Nat
    BY <1>4, <2>1
  <2> QED
    BY <1>2, <2>1, <2>2, <2>3
<1> HIDE DEF Fits, p
<1>9. k = p
  <2>1. k \in 1 .. Width /\ Fits(k)
    BY <1>7, Zenon
  <2> HIDE DEF k
  <2> QED
    BY <1>1, <1>7, <1>8, <2>1
<1>10. itoa(v, r) = [i \in 1 .. p |-> Digit(v, r, p - i)]
  <2>1. CASE v = 0
    <3>1. itoa(v, r) = <<"0">> /\ p = 1
      BY <1>2, <2>1, itoaRight DEF p
    <3>2. Digit(v, r, 0) = "0"
      <4>1. 0 \in Nat /\ v < Power(r, 0)
        BY <1>4, <2>1
      <4> QED
        BY <1>2, <4>1, DigitRight
    <3>3. [i \in 1 .. 1 |-> Digit(v, r, 1 - i)] = <<"0">>
      <4>1. \A i \in 1 .. 1 : Digit(v, r, 1 - i) = "0"
        <5>1. \A i \in 1 .. 1 : 1 - i = 0
          OBVIOUS
        <5> QED
          BY <3>2, <5>1
      <4> QED
        BY <4>1
    <3> QED
      BY <3>1, <3>3
  <2>2. CASE v # 0
    <3>1. itoa(v, r) = [i \in 1 .. Places(v, r) |-> Digit(v, r, Places(v, r) - i)]
      BY <1>2, <2>2, itoaRight
    <3>2. p = Places(v, r)
      BY <2>2 DEF p
    <3> QED
      BY <3>1, <3>2, Zenon
  <2> QED
    BY <2>1, <2>2
<1>11. itoa(v, r) \in Seq(Symbols)
  <2>1. \A i \in 1 .. p : p - i \in Nat
    BY <1>7
  <2>2. \A i \in 1 .. p : Digit(v, r, p - i) \in Symbols
    BY <1>2, <2>1, DigitRight
  <2>3. p \in Nat
    BY <1>7
  <2> QED
    BY <1>10, <2>2, <2>3
<1>12. itoa(v, r) = Numeral(v, r)
  <2> HIDE DEF k
  <2> QED
    BY <1>6, <1>9, <1>10, Zenon
<1> QED
  BY <1>11, <1>12

\* %#x prints one digit for each four bits.
LEMMA HexPaddedRight ==
    ASSUME NEW v \in 0 .. Size - 1
    PROVE  /\ HexPadded(v) = [i \in 1 .. Width \div 4 |-> Digit(v, 16, (Width \div 4) - i)]
           /\ HexPadded(v) \in Seq(Symbols)
<1> DEFINE w == Width \div 4
           s == itoa(v, 16)
           p == IF v = 0 THEN 1 ELSE Places(v, 16)
           z == [i \in 1 .. w - p |-> "0"]
<1>1. Size \in Nat /\ w \in Nat \ {0} /\ Size = Power(16, w)
  BY SizeRight
<1>2. v \in Nat /\ v < Power(16, w)
  BY <1>1
<1>3. 16 \in Nat \ {0} /\ 16 \in Nat /\ 16 >= 2 /\ 16 \in {10, 16}
  OBVIOUS
<1>4. Power(16, 0) = 1 /\ \A n \in Nat : Power(16, n) \in Nat \ {0} /\ Power(16, n + 1) = 16 * Power(16, n)
  BY <1>3, PowerRight
<1>5. \A n, m \in Nat : n <= m => Power(16, n) <= Power(16, m)
  BY <1>3, PowerGrows
<1> HIDE DEF w
<1>6. p \in Nat /\ 1 <= p /\ p <= w /\ v < Power(16, p)
  <2>1. CASE v = 0
    <3>1. 0 < Power(16, 1)
      BY <1>4
    <3> QED
      BY <1>1, <2>1, <3>1
  <2>2. CASE v # 0
    <3> DEFINE q == Places(v, 16)
    <3>1. q \in Nat /\ v < Power(16, q) /\ (q = 0 \/ Power(16, q - 1) <= v)
      BY <1>2, <1>3, PlacesRight DEF IsPlaces
    <3>2. p = q
      BY <2>2
    <3> HIDE DEF q, p
    <3>3. q # 0
      BY <1>2, <1>4, <2>2, <3>1
    <3>4. q <= w
      <4> SUFFICES ASSUME q > w PROVE FALSE
        BY <1>1, <3>1
      <4>1. q - 1 \in Nat /\ w <= q - 1
        BY <1>1, <3>1
      <4>2. Power(16, w) <= Power(16, q - 1)
        BY <1>1, <1>5, <4>1
      <4>3. Power(16, w) \in Nat /\ Power(16, q - 1) \in Nat
        BY <1>1, <1>4, <4>1
      <4> QED
        BY <1>2, <3>1, <3>3, <4>2, <4>3
    <3> QED
      BY <3>1, <3>2, <3>3, <3>4
  <2> QED
    BY <2>1, <2>2
<1>7. s = [i \in 1 .. p |-> Digit(v, 16, p - i)]
  <2>1. CASE v = 0
    <3>1. s = <<"0">> /\ p = 1
      BY <1>2, <1>3, <2>1, itoaRight
    <3>2. Digit(v, 16, 0) = "0"
      <4>1. 0 \in Nat /\ v < Power(16, 0)
        BY <1>4, <2>1
      <4> QED
        BY <1>2, <1>3, <4>1, DigitRight
    <3>3. [i \in 1 .. 1 |-> Digit(v, 16, 1 - i)] = <<"0">>
      <4>1. \A i \in 1 .. 1 : Digit(v, 16, 1 - i) = "0"
        <5>1. \A i \in 1 .. 1 : 1 - i = 0
          OBVIOUS
        <5> QED
          BY <3>2, <5>1
      <4> QED
        BY <4>1
    <3> QED
      BY <3>1, <3>3
  <2>2. CASE v # 0
    <3>1. s = [i \in 1 .. Places(v, 16) |-> Digit(v, 16, Places(v, 16) - i)]
      BY <1>2, <1>3, <2>2, itoaRight
    <3>2. p = Places(v, 16)
      BY <2>2
    <3> QED
      BY <3>1, <3>2, Zenon
  <2> QED
    BY <2>1, <2>2
<1>8. s \in Seq(Symbols)
  BY <1>3, NumeralRight
<1>9. HexPadded(v) = [i \in 1 .. w - Len(s) |-> "0"] \o s
  BY Zenon DEF HexPadded, w
<1> HIDE DEF s, p
<1>10. Len(s) = p
  BY <1>6, <1>7, <1>8
<1>11. w - p \in Nat /\ z \in Seq(Symbols) /\ Len(z) = w - p
  <2>1. w - p \in Nat
    BY <1>1, <1>6
  <2>2. "0" \in Symbols
    BY DEF Symbols
  <2> QED
    BY <2>1, <2>2
<1>12. HexPadded(v) = z \o s
  BY <1>9, <1>10
<1>13. z \o s \in Seq(Symbols)
  BY <1>8, <1>11, Joined
<1>14. z \o s = [i \in 1 .. w |-> IF i <= w - p THEN z[i] ELSE s[i - (w - p)]]
  <2>1. z \o s = [i \in 1 .. Len(z) + Len(s) |-> IF i <= Len(z) THEN z[i] ELSE s[i - Len(z)]]
    <3> HIDE DEF z
    <3> QED
      BY <1>8, <1>11, Joined
  <2>2. (w - p) + p = w
    BY <1>1, <1>6
  <2> HIDE DEF z
  <2> QED
    BY <1>10, <1>11, <2>1, <2>2
<1>15. \A i \in 1 .. w : (IF i <= w - p THEN z[i] ELSE s[i - (w - p)]) = Digit(v, 16, w - i)
  <2> TAKE i \in 1 .. w
  <2>1. CASE i <= w - p
    <3>1. z[i] = "0"
      BY <2>1, <1>11
    <3>2. w - i \in Nat /\ p <= w - i
      BY <1>1, <1>6, <2>1
    <3>3. Power(16, p) <= Power(16, w - i) /\ Power(16, p) \in Nat /\ Power(16, w - i) \in Nat
      BY <1>4, <1>5, <1>6, <3>2
    <3>4. v < Power(16, w - i)
      BY <1>2, <1>6, <3>3
    <3>5. Digit(v, 16, w - i) = "0"
      BY <1>2, <1>3, <3>2, <3>4, DigitRight
    <3> QED
      BY <2>1, <3>1, <3>5
  <2>2. CASE ~(i <= w - p)
    <3> DEFINE j == i - (w - p)
    <3>1. j \in 1 .. p /\ p - j = w - i
      BY <1>1, <1>6, <2>2
    <3> HIDE DEF j
    <3>2. s[j] = Digit(v, 16, w - i)
      BY <1>7, <3>1
    <3> QED
      BY <2>2, <3>2 DEF j
  <2> QED
    BY <2>1, <2>2
<1>16. z \o s = [i \in 1 .. w |-> Digit(v, 16, w - i)]
  BY <1>14, <1>15
<1> QED
  BY <1>12, <1>13, <1>16 DEF w

\* %d prints a minus sign and the distance to zero of a negative number.
LEMMA SignedRight ==
    ASSUME NEW v \in 0 .. Size - 1
    PROVE  /\ v < Size \div 2 => Signed(v) = Numeral(v, 10)
           /\ ~(v < Size \div 2) => Signed(v) = <<"-">> \o Numeral(Size - v, 10)
           /\ Signed(v) \in Seq(Symbols)
<1>1. Size \in Nat \ {0} /\ Size >= 2
  BY SizeRight
<1>2. 10 \in {10, 16}
  OBVIOUS
<1>3. v \in Nat /\ v < Size /\ Size \div 2 \in Nat
  BY <1>1
<1>4. ASSUME v < Size \div 2
      PROVE  Signed(v) = Numeral(v, 10) /\ Signed(v) \in Seq(Symbols)
  <2>1. ~(v >= Size \div 2)
    BY <1>3, <1>4
  <2>2. Signed(v) = itoa(v, 10)
    BY <2>1, Zenon DEF Signed
  <2>3. itoa(v, 10) = Numeral(v, 10) /\ itoa(v, 10) \in Seq(Symbols)
    BY <1>2, NumeralRight
  <2> QED
    BY <2>2, <2>3
<1>5. ASSUME ~(v < Size \div 2)
      PROVE  Signed(v) = <<"-">> \o Numeral(Size - v, 10) /\ Signed(v) \in Seq(Symbols)
  <2>1. v >= Size \div 2
    BY <1>3, <1>5
  <2>2. Signed(v) = <<"-">> \o itoa((-v) % Size, 10)
    BY <2>1, Zenon DEF Signed
  <2>3. v # 0
    BY <1>1, <2>1
  <2>4. (-v) % Size = Size - v
    <3> DEFINE S == Size
    <3>1. S \in Nat \ {0} /\ v \in 1 .. S - 1
      BY <1>1, <1>3, <2>3
    <3> HIDE DEF S
    <3>2. (-v) % S = S - v
      BY <3>1
    <3> QED
      BY <3>2 DEF S
  <2>5. Size - v \in 0 .. Size - 1
    BY <1>1, <1>3, <2>3
  <2>6. itoa(Size - v, 10) = Numeral(Size - v, 10) /\ itoa(Size - v, 10) \in Seq(Symbols)
    BY <1>2, <2>5, NumeralRight
  <2>7. <<"-">> \in Seq(Symbols)
    BY DEF Symbols
  <2>8. Signed(v) = <<"-">> \o itoa(Size - v, 10)
    BY <2>2, <2>4
  <2>9. <<"-">> \o itoa(Size - v, 10) \in Seq(Symbols)
    BY <2>6, <2>7, Joined
  <2> QED
    BY <2>6, <2>8, <2>9
<1> QED
  BY <1>4, <1>5

-----------------------------------------------------------------------------
(* Flattened sequences                                                     *)

LEMMA FlattenLoop ==
    ASSUME NEW S, NEW n \in Nat, NEW s \in [1 .. n -> Seq(S)], NEW e \in [0 .. n -> Seq(S)],
           e[0] = <<>>, \A j \in 1 .. n : e[j] = e[j - 1] \o s[j]
    PROVE  FlattenSeq(s) = e[n]
<1> DEFINE Is(f) == f = [i \in 1 .. Len(s) |-> IF i = 1 THEN s[i] ELSE f[i - 1] \o s[i]]
           f == CHOOSE f : Is(f)
<1>1. Len(s) = n /\ s \in Seq(Seq(S))
  OBVIOUS
<1>2. CASE n = 0
  <2>1. s = <<>>
    BY <1>1, <1>2
  <2> QED
    BY <1>1, <1>2, <2>1 DEF FlattenSeq
<1>3. CASE n # 0
  <2>1. FlattenSeq(s) = f[n]
    <3>1. Len(s) # 0
      BY <1>1, <1>3
    <3> QED
      BY <1>1, <3>1, Zenon DEF FlattenSeq
  <2>2. 1 \in 1 .. n /\ e[1] = s[1]
    <3>1. 1 \in 1 .. n /\ 1 - 1 = 0
      BY <1>3
    <3>2. e[1] = <<>> \o s[1] /\ s[1] \in Seq(S)
      BY <3>1
    <3> QED
      BY <3>1, <3>2
  <2> DEFINE g == [i \in 1 .. n |-> e[i]]
  <2>3. \A i \in 1 .. n : g[i] = IF i = 1 THEN s[i] ELSE g[i - 1] \o s[i]
    <3> TAKE i \in 1 .. n
    <3>1. CASE i = 1
      BY <2>2, <3>1
    <3>2. CASE i # 1
      <4>1. i - 1 \in 1 .. n
        BY <3>2
      <4> QED
        BY <3>2, <4>1
    <3> QED
      BY <3>1, <3>2
  <2>4. Is(g)
    BY <1>1, <2>3, Zenon
  <2>5. Is(f)
    BY <2>4, Zenon
  <2> HIDE DEF f
  <2>6. \A i \in 1 .. n : f[i] = IF i = 1 THEN s[i] ELSE f[i - 1] \o s[i]
    BY <1>1, <2>5, Zenon
  <2> DEFINE T == {j \in Nat : j + 1 <= n => f[j + 1] = e[j + 1]}
  <2>7. 0 \in T
    <3>1. f[1] = e[1]
      BY <2>2, <2>6
    <3>2. 0 + 1 = 1
      OBVIOUS
    <3> QED
      BY <3>1, <3>2
  <2>8. \A j \in Nat : j \in T => j + 1 \in T
    <3> SUFFICES ASSUME NEW j \in Nat, j \in T, (j + 1) + 1 <= n
                 PROVE  f[(j + 1) + 1] = e[(j + 1) + 1]
      OBVIOUS
    <3> DEFINE i == (j + 1) + 1
    <3>1. i \in 1 .. n /\ i # 1 /\ i - 1 = j + 1
      OBVIOUS
    <3>2. f[j + 1] = e[j + 1]
      OBVIOUS
    <3> HIDE DEF i
    <3>3. f[i] = f[i - 1] \o s[i] /\ e[i] = e[i - 1] \o s[i]
      BY <2>6, <3>1
    <3> QED
      BY <3>1, <3>2, <3>3 DEF i
  <2> HIDE DEF T
  <2>9. \A j \in Nat : j \in T
    BY <2>7, <2>8, AllNumbers, Zenon
  <2>10. f[n] = e[n]
    <3>1. n - 1 \in T /\ (n - 1) + 1 = n
      BY <1>3, <2>9
    <3> QED
      BY <3>1 DEF T
  <2> QED
    BY <2>1, <2>10
<1> QED
  BY <1>2, <1>3

\* The first k sequences of s, put together.
Upto(s, k) == FlattenSeq([i \in 1 .. k |-> s[i]])

LEMMA UptoNext ==
    ASSUME NEW S, NEW n \in Nat, NEW s \in [1 .. n -> Seq(S)]
    PROVE  /\ Upto(s, 0) = <<>>
           /\ \A k \in 0 .. n : Upto(s, k) \in Seq(S)
           /\ \A k \in 1 .. n : Upto(s, k) = Upto(s, k - 1) \o s[k]
           /\ FlattenSeq(s) = Upto(s, n)
<1> DEFINE step == [j \in 1 .. n |-> [x \in Seq(S) |-> x \o s[j]]]
           Q == Seq(S)
<1>1. \A j \in 1 .. n : \A x \in Q : step[j][x] = x \o s[j] /\ x \o s[j] \in Q
  OBVIOUS
<1>2. step \in [1 .. n -> [Q -> Q]] /\ <<>> \in Q
  BY <1>1
<1>3. \E e \in [0 .. n -> Q] : e[0] = <<>> /\ \A j \in 1 .. n : e[j] = step[j][e[j - 1]]
  <2> HIDE DEF step, Q
  <2>1. IsLoop(n, Q, step)
    BY <1>2, Zenon DEF IsLoop
  <2>2. \E e : Runs(e, <<>>, n, Q, step)
    BY <1>2, <2>1, LoopRuns, Zenon
  <2> QED
    BY <2>2, Zenon DEF Runs
<1> HIDE DEF step
<1>4. PICK e \in [0 .. n -> Q] : e[0] = <<>> /\ \A j \in 1 .. n : e[j] = step[j][e[j - 1]]
  BY <1>3, Zenon
<1>5. \A j \in 1 .. n : e[j] = e[j - 1] \o s[j]
  <2> TAKE j \in 1 .. n
  <2>1. j - 1 \in 0 .. n
    OBVIOUS
  <2> HIDE DEF Q
  <2>2. e[j - 1] \in Q
    BY <2>1
  <2> QED
    BY <1>1, <1>4, <2>2, Zenon
<1>6. ASSUME NEW k \in 0 .. n PROVE Upto(s, k) = e[k]
  <2> DEFINE t == [i \in 1 .. k |-> s[i]]
             d == [j \in 0 .. k |-> e[j]]
  <2>1. k \in Nat /\ t \in [1 .. k -> Seq(S)] /\ d \in [0 .. k -> Seq(S)]
    OBVIOUS
  <2>2. d[0] = <<>> /\ \A j \in 1 .. k : d[j] = d[j - 1] \o t[j]
    <3>1. d[0] = <<>>
      BY <1>4
    <3>2. \A j \in 1 .. k : j \in 1 .. n /\ j \in 0 .. k /\ j - 1 \in 0 .. k
      OBVIOUS
    <3> QED
      BY <1>5, <3>1, <3>2
  <2>3. d[k] = e[k]
    OBVIOUS
  <2>4. FlattenSeq(t) = d[k]
    <3> HIDE DEF t, d
    <3> QED
      BY <2>1, <2>2, FlattenLoop
  <2> QED
    BY <2>3, <2>4, Zenon DEF Upto
<1>7. Upto(s, 0) = <<>>
  BY <1>4, <1>6
<1>8. \A k \in 0 .. n : Upto(s, k) \in Seq(S)
  BY <1>6
<1>9. \A k \in 1 .. n : Upto(s, k) = Upto(s, k - 1) \o s[k]
  <2> TAKE k \in 1 .. n
  <2>1. k \in 0 .. n /\ k - 1 \in 0 .. n
    OBVIOUS
  <2> QED
    BY <1>5, <1>6, <2>1
<1>10. FlattenSeq(s) = Upto(s, n)
  <2>1. FlattenSeq(s) = e[n]
    BY <1>4, <1>5, FlattenLoop
  <2> QED
    BY <1>6, <2>1
<1> QED
  BY <1>7, <1>8, <1>9, <1>10

\* Each of the n sequences of s is put behind those before it.
Unrolls(s, n) == \A k \in 1 .. n : Upto(s, k) = Upto(s, k - 1) \o s[k]

LEMMA UptoUnrolls ==
    ASSUME NEW S, NEW n \in Nat, NEW s \in [1 .. n -> Seq(S)]
    PROVE  Unrolls(s, n)
  BY UptoNext, Zenon DEF Unrolls

\* The m-th sequence follows the first k of s, and nothing behind it changes that.
Follows(s, m, k) ==
    /\ Len(Upto(s, m)) = Len(Upto(s, k)) + Len(s[m])
    /\ Len(Upto(s, m)) <= Len(FlattenSeq(s))
    /\ \A i \in 1 .. Len(s[m]) : FlattenSeq(s)[Len(Upto(s, k)) + i] = s[m][i]

LEMMA UptoPlace ==
    ASSUME NEW S, NEW n \in Nat, NEW s \in [1 .. n -> Seq(S)], NEW k \in 1 .. n
    PROVE  Follows(s, k, k - 1)
<1> DEFINE u(m) == Upto(s, m)
           T == {m \in Nat : m + k <= n => /\ Len(u(k)) <= Len(u(m + k))
                                           /\ \A i \in 1 .. Len(u(k)) : u(m + k)[i] = u(k)[i]}
<1>1. /\ \A m \in 0 .. n : u(m) \in Seq(S) /\ Len(u(m)) \in Nat
      /\ \A m \in 1 .. n : /\ Len(u(m)) = Len(u(m - 1)) + Len(s[m]) /\ Len(s[m]) \in Nat
                           /\ \A i \in 1 .. Len(u(m - 1)) : u(m)[i] = u(m - 1)[i]
                           /\ \A i \in 1 .. Len(s[m]) : u(m)[Len(u(m - 1)) + i] = s[m][i]
  <2>1. \A m \in 0 .. n : u(m) \in Seq(S)
    BY UptoNext
  <2>2. ASSUME NEW m \in 1 .. n
        PROVE  /\ Len(u(m)) = Len(u(m - 1)) + Len(s[m]) /\ Len(s[m]) \in Nat
               /\ \A i \in 1 .. Len(u(m - 1)) : u(m)[i] = u(m - 1)[i]
               /\ \A i \in 1 .. Len(s[m]) : u(m)[Len(u(m - 1)) + i] = s[m][i]
    <3> DEFINE a == u(m - 1)
               b == s[m]
    <3>1. u(m) = a \o b
      BY UptoUnrolls, Zenon DEF Unrolls
    <3>2. m - 1 \in 0 .. n
      OBVIOUS
    <3>3. a \in Seq(S) /\ b \in Seq(S)
      BY <2>1, <3>2
    <3> HIDE DEF a, b
    <3>4. Len(a \o b) = Len(a) + Len(b) /\ Len(a) \in Nat /\ Len(b) \in Nat
          /\ a \o b = [i \in 1 .. Len(a) + Len(b) |-> IF i <= Len(a) THEN a[i] ELSE b[i - Len(a)]]
      BY <3>3, Joined
    <3>5. \A i \in 1 .. Len(a) : (a \o b)[i] = a[i]
      BY <3>4
    <3>6. \A i \in 1 .. Len(b) : (a \o b)[Len(a) + i] = b[i]
      BY <3>4
    <3> QED
      BY <3>1, <3>4, <3>5, <3>6 DEF a, b
  <2> HIDE DEF u
  <2>3. \A m \in 0 .. n : u(m) \in Seq(S) /\ Len(u(m)) \in Nat
    BY <2>1
  <2> QED
    BY <2>2, <2>3, Zenon
<1>2. FlattenSeq(s) = u(n)
  BY UptoNext
<1> HIDE DEF u
<1>3. 0 \in T
  <2>1. 0 + k = k /\ k \in 0 .. n
    OBVIOUS
  <2> QED
    BY <1>1, <2>1
<1>4. \A m \in Nat : m \in T => m + 1 \in T
  <2> SUFFICES ASSUME NEW m \in Nat, m \in T, (m + 1) + k <= n
               PROVE  /\ Len(u(k)) <= Len(u((m + 1) + k))
                      /\ \A i \in 1 .. Len(u(k)) : u((m + 1) + k)[i] = u(k)[i]
    OBVIOUS
  <2> DEFINE c == m + k
             x == c + 1
  <2>1. (m + 1) + k = x /\ c \in 1 .. n /\ x \in 1 .. n /\ x - 1 = c /\ c \in 0 .. n
        /\ k \in 0 .. n /\ x \in 0 .. n
    OBVIOUS
  <2>2. Len(u(k)) <= Len(u(c)) /\ \A i \in 1 .. Len(u(k)) : u(c)[i] = u(k)[i]
    BY <2>1
  <2> HIDE DEF c, x
  <2>3. Len(u(x)) = Len(u(c)) + Len(s[x]) /\ \A i \in 1 .. Len(u(c)) : u(x)[i] = u(c)[i]
    BY <1>1, <2>1
  <2>4. Len(u(x)) \in Nat /\ Len(u(c)) \in Nat /\ Len(u(k)) \in Nat /\ Len(s[x]) \in Nat
    BY <1>1, <2>1
  <2>5. Len(u(k)) <= Len(u(x)) /\ \A i \in 1 .. Len(u(k)) : u(x)[i] = u(k)[i]
    BY <2>2, <2>3, <2>4
  <2> QED
    BY <2>1, <2>5
<1> HIDE DEF T
<1>5. n - k \in T
  <2>1. n - k \in Nat
    OBVIOUS
  <2> QED
    BY <1>3, <1>4, <2>1, AllNumbers, Zenon
<1>6. Len(u(k)) <= Len(u(n)) /\ \A i \in 1 .. Len(u(k)) : u(n)[i] = u(k)[i]
  <2>1. (n - k) + k = n
    OBVIOUS
  <2> QED
    BY <1>5, <2>1 DEF T
<1>7. \A i \in 1 .. Len(s[k]) : Len(u(k - 1)) + i \in 1 .. Len(u(k))
  <2>1. k - 1 \in 0 .. n
    OBVIOUS
  <2>2. Len(u(k - 1)) \in Nat /\ Len(s[k]) \in Nat
    BY <1>1, <2>1
  <2> QED
    BY <1>1, <2>2
<1>8. \A i \in 1 .. Len(s[k]) : u(n)[Len(u(k - 1)) + i] = s[k][i]
  BY <1>1, <1>6, <1>7
<1> QED
  BY <1>1, <1>2, <1>6, <1>8 DEF u, Follows

-----------------------------------------------------------------------------
(* Items                                                                   *)

\* What an argument may be.
Values == (0 .. Size - 1) \cup Symbols \cup Seq(Symbols)

LEMMA SeqWider ==
    ASSUME NEW S, NEW T, S \subseteq T, NEW s \in Seq(S)
    PROVE  /\ s \in Seq(T) /\ Len(s) \in Nat /\ s = [i \in 1 .. Len(s) |-> s[i]]
           /\ \A i \in 1 .. Len(s) : s[i] \in S
<1>1. Len(s) \in Nat /\ s = [i \in 1 .. Len(s) |-> s[i]] /\ \A i \in 1 .. Len(s) : s[i] \in S
  OBVIOUS
<1>2. \A i \in 1 .. Len(s) : s[i] \in T
  BY <1>1
<1>3. s \in Seq(T)
  BY <1>1, <1>2
<1> QED
  BY <1>1, <1>3

LEMMA OneOf ==
    ASSUME NEW S, NEW s \in Seq(S), Len(s) = 1
    PROVE  s[1] \in S /\ s # <<>>
OBVIOUS

IsText(item) == \A i \in 1 .. Len(item.spelled) : item.spelled[i] \notin {"%", "NUL"}

\* The letter of a conversion, and whether it comes with "#".
Letter(item)    == item.spelled[Len(item.spelled)]
Alternate(item) == Len(item.spelled) = 3

\* Text is printed as it is.
LEMMA TextRight ==
    ASSUME NEW item, Item(item), IsText(item)
    PROVE  /\ item.spelled \in Seq(Symbols) /\ Len(item.spelled) \in Nat \ {0}
           /\ item.args = <<>> /\ Shown(item) = item.spelled
<1> DEFINE s == item.spelled
<1>1. \A a \in {"d", "u", "x", "c", "s", "%"} : s # <<"%", a>>
  <2> SUFFICES ASSUME NEW a, s = <<"%", a>> PROVE FALSE
    OBVIOUS
  <2>1. s[1] = "%" /\ 1 \in 1 .. Len(s)
    OBVIOUS
  <2> QED
    BY <2>1 DEF IsText
<1>2. s # <<"%", "#", "x">>
  <2> SUFFICES ASSUME s = <<"%", "#", "x">> PROVE FALSE
    OBVIOUS
  <2>1. s[1] = "%" /\ 1 \in 1 .. Len(s)
    OBVIOUS
  <2> QED
    BY <2>1 DEF IsText
<1>3. /\ s # <<"%", "d">> /\ s # <<"%", "u">> /\ s # <<"%", "x">> /\ s # <<"%", "c">>
      /\ s # <<"%", "s">> /\ s # <<"%", "%">>
  BY <1>1, Zenon
<1>4. s \in Seq(STRING) \ {<<>>} /\ item.args = <<>>
  BY <1>2, <1>3, Zenon DEF Item
<1>5. s \in Seq(Symbols) /\ Len(s) \in Nat \ {0}
  <2>1. STRING \subseteq Symbols
    BY DEF Symbols
  <2>2. s \in Seq(STRING) /\ s # <<>>
    BY <1>4, Zenon
  <2> HIDE DEF s
  <2>3. s \in Seq(Symbols) /\ Len(s) \in Nat
    BY <2>1, <2>2, SeqWider, Zenon
  <2>4. Len(s) # 0
    BY <2>2, <2>3
  <2> QED
    BY <2>3, <2>4
<1>6. Shown(item) = s
  BY <1>2, <1>3 DEF Shown
<1> QED
  BY <1>4, <1>5, <1>6

\* The letters of a conversion follow a "%", or a "%#".
LEMMA SpelledRight ==
    ASSUME NEW item, Item(item), ~IsText(item)
    PROVE  /\ item.spelled \in Seq(Symbols) /\ Len(item.spelled) \in {2, 3}
           /\ item.spelled[1] = "%"
           /\ Len(item.spelled) = 3 => item.spelled[2] = "#"
           /\ Letter(item) # "#"
<1>1. \/ item.spelled \in {<<"%", "d">>, <<"%", "u">>, <<"%", "x">>, <<"%", "#", "x">>}
      \/ item.spelled = <<"%", "c">> \/ item.spelled = <<"%", "s">> \/ item.spelled = <<"%", "%">>
  BY Zenon DEF Item, IsText
<1>2. ASSUME NEW a \in {"d", "u", "x", "c", "s", "%"}, item.spelled = <<"%", a>>
      PROVE  /\ item.spelled \in Seq(Symbols) /\ Len(item.spelled) = 2
             /\ item.spelled[1] = "%" /\ item.spelled[2] # "#"
  <2>1. "%" \in Symbols /\ a \in Symbols
    BY DEF Symbols
  <2> QED
    BY <1>2, <2>1
<1>3. ASSUME item.spelled = <<"%", "#", "x">>
      PROVE  /\ item.spelled \in Seq(Symbols) /\ Len(item.spelled) = 3
             /\ item.spelled[1] = "%" /\ item.spelled[2] = "#" /\ item.spelled[3] # "#"
  <2>1. "%" \in Symbols /\ "#" \in Symbols /\ "x" \in Symbols
    BY DEF Symbols
  <2> QED
    BY <1>3, <2>1
<1>4. CASE item.spelled = <<"%", "#", "x">>
  BY <1>3, <1>4 DEF Letter
<1>5. CASE \E a \in {"d", "u", "x", "c", "s", "%"} : item.spelled = <<"%", a>>
  BY <1>2, <1>5 DEF Letter
<1>6. item.spelled = <<"%", "#", "x">> \/ \E a \in {"d", "u", "x", "c", "s", "%"} : item.spelled = <<"%", a>>
  BY <1>1, Zenon
<1> QED
  BY <1>4, <1>5, <1>6

\* The next argument is the one that a conversion is to take.
Given(args) == args # <<>> => Arg = args[1]

\* A conversion prints what the comment says of its argument, and takes just that one.
LEMMA ConversionRight ==
    ASSUME NEW item, Item(item), ~IsText(item)
    PROVE  /\ Given(item.args) =>
                  Conversion(Letter(item), Alternate(item)) = <<Shown(item), Len(item.args)>>
           /\ Shown(item) \in Seq(Symbols)
           /\ item.args \in Seq(Values) /\ Len(item.args) \in {0, 1}
<1> DEFINE v == item.args[1]
<1>1. \/ /\ item.spelled \in {<<"%", "d">>, <<"%", "u">>, <<"%", "x">>, <<"%", "#", "x">>}
         /\ item.args \in Seq(0 .. Size - 1) /\ Len(item.args) = 1
      \/ item.spelled = <<"%", "c">> /\ item.args \in Seq(STRING) /\ Len(item.args) = 1
      \/ item.spelled = <<"%", "s">> /\ item.args \in Seq(Seq(STRING)) /\ Len(item.args) = 1
      \/ item.spelled = <<"%", "%">> /\ item.args = <<>>
  BY Zenon DEF Item, IsText
<1>2. STRING \subseteq Symbols
  BY DEF Symbols
<1>3. ASSUME item.args \in Seq(0 .. Size - 1) /\ Len(item.args) = 1
      PROVE  v \in 0 .. Size - 1 /\ item.args \in Seq(Values) /\ (Given(item.args) => Arg = v)
  <2>1. v \in 0 .. Size - 1 /\ item.args # <<>>
    BY <1>3, OneOf, Zenon
  <2>2. 0 .. Size - 1 \subseteq Values
    BY Zenon DEF Values
  <2>3. item.args \in Seq(Values)
    <3> DEFINE a == item.args
               Z == 0 .. Size - 1
    <3>1. a \in Seq(Z) /\ Z \subseteq Values
      BY <1>3, <2>2, Zenon
    <3> HIDE DEF a, Z
    <3>2. a \in Seq(Values)
      BY <3>1, SeqWider, Zenon
    <3> QED
      BY <3>2, Zenon DEF a
  <2> QED
    BY <2>1, <2>3 DEF Given
<1>4. CASE item.spelled = <<"%", "d">> /\ item.args \in Seq(0 .. Size - 1) /\ Len(item.args) = 1
  <2>1. Letter(item) = "d"
    BY <1>4 DEF Letter
  <2>2. Shown(item) = IF v < Size \div 2 THEN Numeral(v, 10) ELSE <<"-">> \o Numeral(Size - v, 10)
    BY <1>4 DEF Shown
  <2>3. Shown(item) = Signed(v) /\ Signed(v) \in Seq(Symbols)
    BY <1>3, <1>4, <2>2, SignedRight
  <2>4. Given(item.args) => Conversion(Letter(item), Alternate(item)) = <<Signed(v), 1>>
    BY <1>3, <1>4, <2>1 DEF Conversion
  <2> QED
    BY <1>3, <1>4, <2>3, <2>4
<1>5. CASE item.spelled = <<"%", "u">> /\ item.args \in Seq(0 .. Size - 1) /\ Len(item.args) = 1
  <2>1. Letter(item) = "u"
    BY <1>5 DEF Letter
  <2>2. Shown(item) = Numeral(v, 10)
    BY <1>5 DEF Shown
  <2>3. Shown(item) = itoa(v, 10) /\ itoa(v, 10) \in Seq(Symbols)
    BY <1>3, <1>5, <2>2, NumeralRight
  <2>4. Given(item.args) => Conversion(Letter(item), Alternate(item)) = <<itoa(v, 10), 1>>
    BY <1>3, <1>5, <2>1 DEF Conversion
  <2> QED
    BY <1>3, <1>5, <2>3, <2>4
<1>6. CASE item.spelled = <<"%", "x">> /\ item.args \in Seq(0 .. Size - 1) /\ Len(item.args) = 1
  <2>1. Letter(item) = "x" /\ ~Alternate(item)
    BY <1>6 DEF Letter, Alternate
  <2>2. Shown(item) = Numeral(v, 16)
    BY <1>6 DEF Shown
  <2>3. Shown(item) = itoa(v, 16) /\ itoa(v, 16) \in Seq(Symbols)
    BY <1>3, <1>6, <2>2, NumeralRight
  <2>4. Given(item.args) => Conversion(Letter(item), Alternate(item)) = <<itoa(v, 16), 1>>
    BY <1>3, <1>6, <2>1 DEF Conversion
  <2> QED
    BY <1>3, <1>6, <2>3, <2>4
<1>7. CASE item.spelled = <<"%", "#", "x">> /\ item.args \in Seq(0 .. Size - 1) /\ Len(item.args) = 1
  <2>1. Letter(item) = "x" /\ Alternate(item)
    BY <1>7 DEF Letter, Alternate
  <2>2. Shown(item) = [i \in 1 .. Width \div 4 |->
                          Lookup[((v \div Power(16, (Width \div 4) - i)) % 16) + 1]]
    <3>1. /\ item.spelled # <<"%", "d">> /\ item.spelled # <<"%", "u">> /\ item.spelled # <<"%", "x">>
      BY <1>7
    <3> QED
      BY <1>7, <3>1 DEF Shown
  <2>3. Shown(item) = HexPadded(v) /\ HexPadded(v) \in Seq(Symbols)
    <3>1. HexPadded(v) = [i \in 1 .. Width \div 4 |-> Digit(v, 16, (Width \div 4) - i)]
      BY <1>3, <1>7, HexPaddedRight
    <3>2. Shown(item) = HexPadded(v)
      BY <2>2, <3>1, Zenon DEF Digit
    <3> QED
      BY <1>3, <1>7, <3>2, HexPaddedRight
  <2>4. Given(item.args) => Conversion(Letter(item), Alternate(item)) = <<HexPadded(v), 1>>
    BY <1>3, <1>7, <2>1 DEF Conversion
  <2> QED
    BY <1>3, <1>7, <2>3, <2>4
<1>8. CASE item.spelled = <<"%", "c">> /\ item.args \in Seq(STRING) /\ Len(item.args) = 1
  <2>1. Letter(item) = "c"
    BY <1>8 DEF Letter
  <2>2. Shown(item) = <<v>>
    BY <1>8 DEF Shown
  <2>3. v \in Symbols /\ (Given(item.args) => Arg = v) /\ item.args \in Seq(Values)
    <3>1. v \in STRING /\ item.args # <<>>
      BY <1>8, OneOf, Zenon
    <3>4. Given(item.args) => Arg = v
      BY <3>1 DEF Given
    <3>2. STRING \subseteq Values
      BY <1>2 DEF Values
    <3>3. item.args \in Seq(Values)
      BY <1>8, <3>2, SeqWider, Zenon
    <3> QED
      BY <1>2, <3>1, <3>3, <3>4
  <2>4. Given(item.args) => Conversion(Letter(item), Alternate(item)) = <<<<v>>, 1>>
    BY <2>1, <2>3 DEF Conversion
  <2> QED
    BY <1>8, <2>2, <2>3, <2>4
<1>9. CASE item.spelled = <<"%", "s">> /\ item.args \in Seq(Seq(STRING)) /\ Len(item.args) = 1
  <2>1. Letter(item) = "s"
    BY <1>9 DEF Letter
  <2>2. Shown(item) = v
    BY <1>9 DEF Shown
  <2>3. v \in Seq(Symbols) /\ (Given(item.args) => Arg = v) /\ item.args \in Seq(Values)
    <3>1. v \in Seq(STRING) /\ item.args # <<>>
      BY <1>9, OneOf, Zenon
    <3>4. Given(item.args) => Arg = v
      BY <3>1 DEF Given
    <3>2. v \in Seq(Symbols)
      <4> HIDE DEF v
      <4> QED
        BY <1>2, <3>1, SeqWider, Zenon
    <3>3. item.args \in Seq(Values)
      <4>1. \A i \in 1 .. 1 : i = 1
        OBVIOUS
      <4>2. Seq(Symbols) \subseteq Values
        BY DEF Values
      <4>3. \A i \in 1 .. Len(item.args) : item.args[i] \in Values
        BY <1>9, <3>2, <4>1, <4>2
      <4>4. item.args = [i \in 1 .. 1 |-> item.args[i]]
        BY <1>9
      <4> QED
        BY <1>9, <4>3, <4>4
    <3> QED
      BY <3>2, <3>3, <3>4
  <2>4. Given(item.args) => Conversion(Letter(item), Alternate(item)) = <<v, 1>>
    BY <2>1, <2>3 DEF Conversion
  <2> QED
    BY <1>9, <2>2, <2>3, <2>4
<1>10. CASE item.spelled = <<"%", "%">> /\ item.args = <<>>
  <2>1. Letter(item) = "%"
    BY <1>10 DEF Letter
  <2>2. Shown(item) = <<"%">>
    BY <1>10 DEF Shown
  <2>3. <<"%">> \in Seq(Symbols)
    BY DEF Symbols
  <2>4. Given(item.args) => Conversion(Letter(item), Alternate(item)) = <<<<"%">>, 0>>
    BY <2>1 DEF Conversion
  <2> QED
    BY <1>10, <2>2, <2>3, <2>4
<1> QED
  BY <1>1, <1>4, <1>5, <1>6, <1>7, <1>8, <1>9, <1>10

\* s has n sequences of elements of S.
Pieces(s, n, S) == n \in Nat /\ s \in [1 .. n -> Seq(S)]

\* The m-th comes after the first k.
IsPiece(s, S, m, k) ==
    /\ s[m] \in Seq(S) /\ Len(s[m]) \in Nat
    /\ Len(Upto(s, k)) \in Nat
    /\ Len(Upto(s, m)) = Len(Upto(s, k)) + Len(s[m])
    /\ \A i \in 1 .. Len(s[m]) : FlattenSeq(s)[Len(Upto(s, k)) + i] = s[m][i]
    /\ \A i \in 1 .. Len(s[m]) : Len(Upto(s, k)) + i \in 1 .. Len(FlattenSeq(s))

LEMMA PieceRight ==
    ASSUME NEW S, NEW n, NEW s, Pieces(s, n, S), NEW m \in 1 .. n, NEW k, k = m - 1
    PROVE  IsPiece(s, S, m, k)
<1>1. n \in Nat /\ s \in [1 .. n -> Seq(S)]
  BY DEF Pieces
<1>2. k \in 0 .. n /\ m \in 0 .. n /\ n \in 0 .. n
  BY <1>1
<1>3. \A x \in 0 .. n : Upto(s, x) \in Seq(S)
  BY <1>1, UptoNext
<1>4. FlattenSeq(s) = Upto(s, n)
  BY <1>1, UptoNext
<1>5. s[m] \in Seq(S)
  BY <1>1
<1>6. Follows(s, m, m - 1)
  BY <1>1, UptoPlace, Zenon
<1>7. Follows(s, m, k)
  BY <1>6
<1> DEFINE x == Len(Upto(s, k))
           y == Len(s[m])
           z == Len(FlattenSeq(s))
<1>8. x \in Nat /\ y \in Nat /\ z \in Nat
  BY <1>2, <1>3, <1>4, <1>5
<1>9. x + y <= z
  BY <1>7 DEF Follows
<1> HIDE DEF x, y, z
<1>10. \A i \in 1 .. y : x + i \in 1 .. z
  BY <1>8, <1>9
<1> QED
  BY <1>5, <1>7, <1>8, <1>10, Zenon DEF x, y, z, Follows, IsPiece

LEMMA PiecesRight ==
    ASSUME NEW S, NEW n, NEW s, Pieces(s, n, S)
    PROVE  /\ Upto(s, 0) = <<>>
           /\ FlattenSeq(s) \in Seq(S) /\ Upto(s, n) = FlattenSeq(s)
<1>1. n \in Nat /\ s \in [1 .. n -> Seq(S)] /\ n \in 0 .. n
  BY DEF Pieces
<1>2. Upto(s, n) \in Seq(S) /\ FlattenSeq(s) = Upto(s, n) /\ Upto(s, 0) = <<>>
  BY <1>1, UptoNext
<1> QED
  BY <1>2

-----------------------------------------------------------------------------
(* The loop of printf                                                      *)

Spelled(f) == [k \in 1 .. Len(f) |-> f[k].spelled]
Taken(f)   == [k \in 1 .. Len(f) |-> f[k].args]
Printed(f) == [k \in 1 .. Len(f) |-> Shown(f[k])]

LEMMA FormatRight ==
    ASSUME NEW f \in Formats
    PROVE  /\ Len(f) \in Nat /\ f = [k \in 1 .. Len(f) |-> f[k]]
           /\ \A k \in 1 .. Len(f) :
                 /\ Item(f[k]) /\ Len(f[k].spelled) \in Nat \ {0}
                 /\ Spelled(f)[k] = f[k].spelled /\ Taken(f)[k] = f[k].args
                 /\ Printed(f)[k] = Shown(f[k])
           /\ Pieces(Spelled(f), Len(f), Symbols)
           /\ Pieces(Taken(f), Len(f), Values)
           /\ Pieces(Printed(f), Len(f), Symbols)
<1>1. Len(f) \in Nat /\ f = [k \in 1 .. Len(f) |-> f[k]] /\ \A k \in 1 .. Len(f) : Item(f[k])
  BY FormatsAssumption, Zenon
<1>2. ASSUME NEW item, Item(item)
      PROVE  /\ item.spelled \in Seq(Symbols) /\ Len(item.spelled) \in Nat \ {0}
             /\ item.args \in Seq(Values) /\ Shown(item) \in Seq(Symbols)
  <2>1. CASE IsText(item)
    <3>1. <<>> \in Seq(Values)
      OBVIOUS
    <3> QED
      BY <1>2, <2>1, <3>1, TextRight
  <2>2. CASE ~IsText(item)
    <3>1. item.spelled \in Seq(Symbols) /\ Len(item.spelled) \in {2, 3}
      BY <1>2, <2>2, SpelledRight
    <3>2. Shown(item) \in Seq(Symbols) /\ item.args \in Seq(Values)
      BY <1>2, <2>2, ConversionRight
    <3>3. \A x \in {2, 3} : x \in Nat \ {0}
      OBVIOUS
    <3>4. Len(item.spelled) \in Nat \ {0}
      BY <3>1, <3>3, Zenon
    <3> QED
      BY <3>1, <3>2, <3>4, Zenon
  <2> QED
    BY <2>1, <2>2
<1>3. \A k \in 1 .. Len(f) :
         /\ f[k].spelled \in Seq(Symbols) /\ Len(f[k].spelled) \in Nat \ {0}
         /\ f[k].args \in Seq(Values) /\ Shown(f[k]) \in Seq(Symbols)
  BY <1>1, <1>2, Zenon
<1>4. \A k \in 1 .. Len(f) :
         Spelled(f)[k] = f[k].spelled /\ Taken(f)[k] = f[k].args /\ Printed(f)[k] = Shown(f[k])
  BY Zenon DEF Spelled, Taken, Printed
<1>5. Pieces(Spelled(f), Len(f), Symbols)
  BY <1>1, <1>3, Zenon DEF Spelled, Pieces
<1>6. Pieces(Taken(f), Len(f), Values)
  BY <1>1, <1>3, Zenon DEF Taken, Pieces
<1>7. Pieces(Printed(f), Len(f), Symbols)
  BY <1>1, <1>3, Zenon DEF Printed, Pieces
<1> QED
  BY <1>1, <1>3, <1>4, <1>5, <1>6, <1>7, Zenon

\* k items of f are done, and j characters of the next, which is text then: b is the place in
\* the format, e the one in the arguments, and o the output so far.
Reached(f, b, e, o, k, j) ==
    /\ k \in 0 .. Len(f) /\ j \in Nat
    /\ j > 0 => k < Len(f) /\ IsText(f[k + 1]) /\ j < Len(f[k + 1].spelled)
    /\ b = Len(Upto(Spelled(f), k)) + j
    /\ e = Len(Upto(Taken(f), k))
    /\ o = [i \in 1 .. Len(Upto(Printed(f), k)) + j |-> FlattenSeq(Printed(f))[i]]

LEMMA ReachedStart == \A f \in Formats : Reached(f, 0, 0, <<>>, 0, 0)
<1> TAKE f \in Formats
<1>1. Upto(Spelled(f), 0) = <<>> /\ Upto(Taken(f), 0) = <<>> /\ Upto(Printed(f), 0) = <<>>
  BY FormatRight, PiecesRight, Zenon
<1>2. 0 \in 0 .. Len(f) /\ 0 \in Nat
  BY FormatRight
<1>3. [i \in 1 .. Len(Upto(Printed(f), 0)) + 0 |-> FlattenSeq(Printed(f))[i]] = <<>>
  BY <1>1
<1> QED
  BY <1>1, <1>2, <1>3 DEF Reached

\* In the midst of the format the next character is that of the next item, and what that item
\* prints comes next in the output; at the end the format is done.
LEMMA ReachedNext ==
    ASSUME NEW f \in Formats, NEW b, NEW e, NEW o, NEW k, NEW j, Reached(f, b, e, o, k, j), k < Len(f)
    PROVE  /\ k + 1 \in 1 .. Len(f) /\ k \in Nat /\ Item(f[k + 1]) /\ j < Len(f[k + 1].spelled)
           /\ \A i \in 1 .. Len(f[k + 1].spelled) :
                 /\ (b - j) + i \in 1 .. Len(FlattenSeq(Spelled(f)))
                 /\ FlattenSeq(Spelled(f))[(b - j) + i] = f[k + 1].spelled[i]
           /\ f[k + 1].args # <<>> => FlattenSeq(Taken(f))[e + 1] = f[k + 1].args[1]
           /\ \A i \in 1 .. Len(Shown(f[k + 1])) :
                 FlattenSeq(Printed(f))[Len(Upto(Printed(f), k)) + i] = Shown(f[k + 1])[i]
           /\ Len(Upto(Spelled(f), k + 1)) = (b - j) + Len(f[k + 1].spelled)
           /\ Len(Upto(Taken(f), k + 1)) = e + Len(f[k + 1].args)
           /\ Len(Upto(Printed(f), k + 1)) = Len(Upto(Printed(f), k)) + Len(Shown(f[k + 1]))
           /\ Len(Upto(Printed(f), k)) \in Nat /\ b \in Nat /\ e \in Nat /\ j \in Nat
<1> DEFINE n == Len(f)
           m == k + 1
           sp == Spelled(f)
           ar == Taken(f)
           sh == Printed(f)
<1>1. n \in Nat
  BY FormatRight
<1>2. k \in 0 .. n /\ j \in Nat /\ m \in 1 .. n /\ m - 1 = k /\ k \in Nat
  BY <1>1 DEF Reached
<1>3. /\ b = Len(Upto(sp, k)) + j /\ e = Len(Upto(ar, k))
      /\ j > 0 => j < Len(f[m].spelled)
  BY DEF Reached
<1>4. Pieces(sp, n, Symbols) /\ Pieces(ar, n, Values) /\ Pieces(sh, n, Symbols)
  BY FormatRight, Zenon
<1>5. /\ Item(f[m]) /\ Len(f[m].spelled) \in Nat \ {0}
      /\ sp[m] = f[m].spelled /\ ar[m] = f[m].args /\ sh[m] = Shown(f[m])
  BY <1>2, FormatRight, Zenon
<1> HIDE DEF n, m, sp, ar, sh
<1>6. k = m - 1
  BY <1>2
<1>7. IsPiece(sp, Symbols, m, k) /\ IsPiece(ar, Values, m, k) /\ IsPiece(sh, Symbols, m, k)
  BY <1>2, <1>4, <1>6, PieceRight, Zenon
<1>8. /\ Len(Upto(sp, k)) \in Nat
      /\ Len(Upto(sp, m)) = Len(Upto(sp, k)) + Len(sp[m])
      /\ \A i \in 1 .. Len(sp[m]) : FlattenSeq(sp)[Len(Upto(sp, k)) + i] = sp[m][i]
      /\ \A i \in 1 .. Len(sp[m]) : Len(Upto(sp, k)) + i \in 1 .. Len(FlattenSeq(sp))
  BY <1>7, Zenon DEF IsPiece
<1>9. /\ ar[m] \in Seq(Values) /\ Len(Upto(ar, k)) \in Nat
      /\ Len(Upto(ar, m)) = Len(Upto(ar, k)) + Len(ar[m])
      /\ \A i \in 1 .. Len(ar[m]) : FlattenSeq(ar)[Len(Upto(ar, k)) + i] = ar[m][i]
  BY <1>7, Zenon DEF IsPiece
<1>10. /\ Len(Upto(sh, k)) \in Nat
       /\ Len(Upto(sh, m)) = Len(Upto(sh, k)) + Len(sh[m])
       /\ \A i \in 1 .. Len(sh[m]) : FlattenSeq(sh)[Len(Upto(sh, k)) + i] = sh[m][i]
  BY <1>7, Zenon DEF IsPiece
<1>11. b - j = Len(Upto(sp, k)) /\ b \in Nat /\ e \in Nat /\ j < Len(f[m].spelled)
  <2> DEFINE x == Len(Upto(sp, k))
             y == Len(f[m].spelled)
  <2>1. x \in Nat /\ b = x + j /\ y \in Nat \ {0} /\ j \in Nat /\ (j > 0 => j < y)
    BY <1>2, <1>3, <1>5, <1>8
  <2>2. e \in Nat
    BY <1>3, <1>9
  <2> HIDE DEF x, y
  <2>3. b - j = x /\ b \in Nat /\ j < y
    BY <2>1
  <2> QED
    BY <2>2, <2>3 DEF x, y
<1>12. ar[m] # <<>> => FlattenSeq(ar)[e + 1] = ar[m][1]
  <2> SUFFICES ASSUME ar[m] # <<>> PROVE FlattenSeq(ar)[e + 1] = ar[m][1]
    OBVIOUS
  <2>1. 1 \in 1 .. Len(ar[m])
    BY <1>9
  <2> QED
    BY <1>3, <1>9, <2>1
<1>13. /\ \A i \in 1 .. Len(f[m].spelled) :
            /\ (b - j) + i \in 1 .. Len(FlattenSeq(sp))
            /\ FlattenSeq(sp)[(b - j) + i] = f[m].spelled[i]
       /\ Len(Upto(sp, m)) = (b - j) + Len(f[m].spelled)
  BY <1>5, <1>8, <1>11, Zenon
<1>14. /\ f[m].args # <<>> => FlattenSeq(ar)[e + 1] = f[m].args[1]
       /\ Len(Upto(ar, m)) = e + Len(f[m].args)
  BY <1>3, <1>5, <1>9, <1>12, Zenon
<1>15. /\ \A i \in 1 .. Len(Shown(f[m])) : FlattenSeq(sh)[Len(Upto(sh, k)) + i] = Shown(f[m])[i]
       /\ Len(Upto(sh, m)) = Len(Upto(sh, k)) + Len(Shown(f[m])) /\ Len(Upto(sh, k)) \in Nat
  BY <1>5, <1>10, Zenon
<1> QED
  BY <1>2, <1>5, <1>11, <1>13, <1>14, <1>15, Zenon DEF n, m, sp, ar, sh

LEMMA ReachedEnd ==
    ASSUME NEW f \in Formats, NEW b, NEW e, NEW o, NEW k, NEW j, Reached(f, b, e, o, k, j), ~(k < Len(f))
    PROVE  b = Len(FlattenSeq(Spelled(f))) /\ o = FlattenSeq(Printed(f))
<1> DEFINE n == Len(f)
           sp == Spelled(f)
           sh == Printed(f)
<1>1. n \in Nat /\ Pieces(sp, n, Symbols) /\ Pieces(sh, n, Symbols)
  BY FormatRight, Zenon
<1>2. k = n /\ j = 0
  BY <1>1 DEF Reached
<1>3. b = Len(Upto(sp, n)) + 0 /\ o = [i \in 1 .. Len(Upto(sh, n)) + 0 |-> FlattenSeq(sh)[i]]
  BY <1>2 DEF Reached
<1> HIDE DEF n, sp, sh
<1>4. /\ Upto(sp, n) = FlattenSeq(sp) /\ FlattenSeq(sp) \in Seq(Symbols)
      /\ Upto(sh, n) = FlattenSeq(sh) /\ FlattenSeq(sh) \in Seq(Symbols)
  BY <1>1, PiecesRight, Zenon
<1>5. b = Len(FlattenSeq(sp))
  BY <1>3, <1>4
<1>6. o = FlattenSeq(sh)
  <2> DEFINE u == FlattenSeq(sh)
  <2>1. u \in Seq(Symbols) /\ o = [i \in 1 .. Len(u) + 0 |-> u[i]]
    BY <1>3, <1>4
  <2> HIDE DEF u
  <2>2. Len(u) + 0 = Len(u) /\ u = [i \in 1 .. Len(u) |-> u[i]]
    BY <2>1
  <2> QED
    BY <2>1, <2>2 DEF u
<1> QED
  BY <1>5, <1>6 DEF sp, sh

\* One character of a text is printed.
LEMMA ReachedText ==
    ASSUME NEW f \in Formats, NEW b, NEW e, NEW o, NEW k, NEW j, Reached(f, b, e, o, k, j),
           k < Len(f), IsText(f[k + 1])
    PROVE  \E l, i : Reached(f, b + 1, e, Append(o, f[k + 1].spelled[j + 1]), l, i)
<1> DEFINE item == f[k + 1]
           s == item.spelled
           P == FlattenSeq(Printed(f))
           d == Len(Upto(Printed(f), k))
           c == s[j + 1]
<1>1. /\ k + 1 \in 1 .. Len(f) /\ k \in Nat /\ Item(item) /\ j < Len(s)
      /\ \A i \in 1 .. Len(Shown(item)) : P[d + i] = Shown(item)[i]
      /\ Len(Upto(Spelled(f), k + 1)) = (b - j) + Len(s)
      /\ Len(Upto(Taken(f), k + 1)) = e + Len(item.args)
      /\ Len(Upto(Printed(f), k + 1)) = d + Len(Shown(item))
      /\ d \in Nat /\ b \in Nat /\ e \in Nat /\ j \in Nat
  BY ReachedNext
<1>2. s \in Seq(Symbols) /\ Len(s) \in Nat \ {0} /\ item.args = <<>> /\ Shown(item) = s
  BY <1>1, TextRight
<1>3. /\ b = Len(Upto(Spelled(f), k)) + j /\ e = Len(Upto(Taken(f), k))
      /\ o = [i \in 1 .. d + j |-> P[i]]
  BY DEF Reached
<1>4. P \in Seq(Symbols) /\ Len(f) \in Nat
  BY FormatRight, PiecesRight, Zenon
<1>5. P[d + (j + 1)] = c
  <2>1. j + 1 \in 1 .. Len(Shown(item))
    BY <1>1, <1>2
  <2> QED
    BY <1>1, <1>2, <2>1
<1>6. Append(o, c) = [i \in 1 .. d + (j + 1) |-> P[i]]
  <2> HIDE DEF P, d, c
  <2> DEFINE n == d + j
  <2>1. n \in Nat /\ d + (j + 1) = n + 1
    <3>1. d \in Nat /\ j \in Nat
      BY <1>1, Zenon
    <3>2. \A x, y \in Nat : x + y \in Nat /\ x + (y + 1) = (x + y) + 1
      OBVIOUS
    <3> QED
      BY <3>1, <3>2, Zenon
  <2>2. o = [i \in 1 .. n |-> P[i]] /\ P[n + 1] = c
    BY <1>3, <1>5, <2>1
  <2> HIDE DEF n
  <2> DEFINE A == {P[i] : i \in 1 .. n + 1}
  <2>3. o \in Seq(A) /\ Len(o) = n /\ c \in A
    BY <2>1, <2>2
  <2> HIDE DEF A
  <2>4. IsStart(Append(o, c), n + 1, P)
    <3>1. IsStart(o, n, P)
      BY <2>2, Zenon DEF IsStart
    <3> QED
      BY <2>1, <2>2, <2>3, <3>1, StartGrows, Zenon
  <2>5. Append(o, c) = [i \in 1 .. n + 1 |-> P[i]]
    BY <2>4, Zenon DEF IsStart
  <2> QED
    BY <2>1, <2>5
<1> DEFINE o2 == Append(o, c)
<1>7. CASE j + 1 < Len(s)
  <2>1. Reached(f, b + 1, e, o2, k, j + 1)
    <3>1. k \in 0 .. Len(f) /\ j + 1 \in Nat
      <4>1. j \in Nat /\ k + 1 \in 1 .. Len(f) /\ k \in Nat /\ Len(f) \in Nat
        BY <1>1, <1>4, Zenon
      <4> QED
        BY <4>1
    <3>2. b + 1 = Len(Upto(Spelled(f), k)) + (j + 1)
      <4> DEFINE x == Len(Upto(Spelled(f), k))
      <4>1. b = x + j /\ b \in Nat /\ j \in Nat
        BY <1>1, <1>3
      <4>2. x \in Nat
        <5>1. IsPiece(Spelled(f), Symbols, k + 1, k)
          <6>1. k = (k + 1) - 1
            BY <1>1
          <6> QED
            BY <1>1, <6>1, FormatRight, PieceRight
        <5> QED
          BY <5>1, Zenon DEF IsPiece
      <4> HIDE DEF x
      <4>3. b + 1 = x + (j + 1)
        BY <4>1, <4>2
      <4> QED
        BY <4>3 DEF x
    <3> HIDE DEF o2
    <3>3. o2 = [i \in 1 .. d + (j + 1) |-> P[i]]
      BY <1>6 DEF o2
    <3> QED
      BY <1>3, <1>7, <3>1, <3>2, <3>3 DEF Reached
  <2> QED
    BY <2>1
<1>8. CASE ~(j + 1 < Len(s))
  <2>1. j + 1 = Len(s)
    BY <1>1, <1>2, <1>8
  <2>2. k + 1 \in 0 .. Len(f) /\ 0 \in Nat
    BY <1>1, <1>4
  <2>3. b + 1 = Len(Upto(Spelled(f), k + 1)) + 0
    <3> DEFINE x == Len(Upto(Spelled(f), k + 1))
               y == Len(s)
    <3>1. x = (b - j) + y /\ j + 1 = y /\ b \in Nat /\ j \in Nat
      BY <1>1, <2>1
    <3> HIDE DEF x, y
    <3>2. b + 1 = x + 0
      BY <3>1
    <3> QED
      BY <3>2 DEF x
  <2>4. e = Len(Upto(Taken(f), k + 1))
    BY <1>1, <1>2
  <2>5. o2 = [i \in 1 .. Len(Upto(Printed(f), k + 1)) + 0 |-> P[i]]
    <3>1. Len(Upto(Printed(f), k + 1)) + 0 = d + (j + 1)
      <4> DEFINE x == Len(Upto(Printed(f), k + 1))
                 y == Len(s)
      <4>1. x = d + y /\ y = j + 1 /\ d \in Nat /\ j \in Nat
        BY <1>1, <1>2, <2>1
      <4> HIDE DEF x, y, d
      <4>2. x + 0 = d + (j + 1)
        BY <4>1
      <4> QED
        BY <4>2 DEF x
    <3> QED
      BY <1>6, <3>1
  <2> HIDE DEF o2
  <2>6. Reached(f, b + 1, e, o2, k + 1, 0)
    BY <2>2, <2>3, <2>4, <2>5 DEF Reached
  <2> QED
    BY <2>6 DEF o2
<1> QED
  BY <1>7, <1>8

\* A conversion is printed.
LEMMA ReachedConversion ==
    ASSUME NEW f \in Formats, NEW b, NEW e, NEW o, NEW k, NEW j, Reached(f, b, e, o, k, j),
           k < Len(f), ~IsText(f[k + 1])
    PROVE  /\ j = 0
           /\ Reached(f, b + Len(f[k + 1].spelled), e + Len(f[k + 1].args), o \o Shown(f[k + 1]), k + 1, 0)
<1> DEFINE item == f[k + 1]
           s == item.spelled
           h == Shown(item)
           P == FlattenSeq(Printed(f))
           d == Len(Upto(Printed(f), k))
           o2 == o \o h
<1>1. /\ k + 1 \in 1 .. Len(f) /\ k \in Nat /\ Item(item)
      /\ \A i \in 1 .. Len(h) : P[d + i] = h[i]
      /\ Len(Upto(Spelled(f), k + 1)) = (b - j) + Len(s)
      /\ Len(Upto(Taken(f), k + 1)) = e + Len(item.args)
      /\ Len(Upto(Printed(f), k + 1)) = d + Len(h)
      /\ d \in Nat /\ b \in Nat /\ e \in Nat /\ j \in Nat
  BY ReachedNext
<1>2. j = 0
  BY <1>1 DEF Reached
<1>3. h \in Seq(Symbols) /\ Len(s) \in Nat
  <2>1. Len(s) \in {2, 3}
    BY <1>1, SpelledRight
  <2>2. h \in Seq(Symbols)
    BY <1>1, ConversionRight
  <2> QED
    BY <2>1, <2>2
<1>4. o = [i \in 1 .. d + j |-> P[i]]
  BY DEF Reached
<1>5. Len(f) \in Nat
  BY FormatRight
<1> HIDE DEF P, d, h, s
<1>6. o2 = [i \in 1 .. d + Len(h) |-> P[i]]
  <2> DEFINE A == Symbols \cup {P[i] : i \in 1 .. d}
  <2>1. d + j = d /\ o = [i \in 1 .. d |-> P[i]]
    <3>1. d + j = d
      BY <1>1, <1>2
    <3> QED
      BY <1>4, <3>1
  <2>2. o \in Seq(A) /\ Len(o) = d
    <3>1. \A i \in 1 .. d : P[i] \in A
      OBVIOUS
    <3> HIDE DEF A
    <3>2. d \in Nat /\ o = [i \in 1 .. d |-> P[i]]
      BY <1>1, <2>1
    <3>3. \A p : (\A i \in 1 .. d : p[i] \in A) /\ d \in Nat =>
             [i \in 1 .. d |-> p[i]] \in Seq(A) /\ Len([i \in 1 .. d |-> p[i]]) = d
      OBVIOUS
    <3> QED
      BY <3>1, <3>2, <3>3, Zenon
  <2>3. h \in Seq(A)
    <3>1. Symbols \subseteq A
      OBVIOUS
    <3> HIDE DEF A
    <3> QED
      BY <1>3, <3>1, SeqWider, Zenon
  <2> HIDE DEF A
  <2>4. o \o h = [i \in 1 .. Len(o) + Len(h) |-> IF i <= Len(o) THEN o[i] ELSE h[i - Len(o)]]
    BY <2>2, <2>3, Joined
  <2>5. Len(h) \in Nat
    BY <1>3
  <2>6. \A i \in 1 .. d + Len(h) : (IF i <= d THEN o[i] ELSE h[i - d]) = P[i]
    <3> TAKE i \in 1 .. d + Len(h)
    <3>1. CASE i <= d
      BY <1>1, <2>1, <3>1
    <3>2. CASE ~(i <= d)
      <4> DEFINE x == i - d
      <4>1. x \in 1 .. Len(h) /\ d + x = i
        BY <1>1, <2>5, <3>2
      <4> HIDE DEF x
      <4>2. h[x] = P[i]
        BY <1>1, <4>1
      <4> QED
        BY <3>2, <4>2 DEF x
    <3> QED
      BY <3>1, <3>2
  <2> QED
    BY <2>2, <2>4, <2>6
<1>7. Reached(f, b + Len(s), e + Len(item.args), o2, k + 1, 0)
  <2>1. k + 1 \in 0 .. Len(f) /\ 0 \in Nat
    BY <1>1, <1>5
  <2>2. b + Len(s) = Len(Upto(Spelled(f), k + 1)) + 0
    <3> DEFINE x == Len(Upto(Spelled(f), k + 1))
               y == Len(s)
    <3>1. x = (b - j) + y /\ j = 0 /\ y \in Nat /\ b \in Nat
      BY <1>1, <1>2, <1>3
    <3> HIDE DEF x, y
    <3>2. b + y = x + 0
      BY <3>1
    <3> QED
      BY <3>2 DEF x, y
  <2>3. o2 = [i \in 1 .. Len(Upto(Printed(f), k + 1)) + 0 |-> P[i]]
    <3>1. Len(Upto(Printed(f), k + 1)) + 0 = d + Len(h)
      <4> DEFINE x == Len(Upto(Printed(f), k + 1))
      <4>1. x = d + Len(h) /\ d \in Nat /\ Len(h) \in Nat
        BY <1>1, <1>3
      <4> HIDE DEF x
      <4>2. x + 0 = d + Len(h)
        BY <4>1
      <4> QED
        BY <4>2 DEF x
    <3> QED
      BY <1>6, <3>1
  <2> HIDE DEF o2
  <2> QED
    BY <1>1, <2>1, <2>2, <2>3 DEF Reached, P
<1> QED
  BY <1>2, <1>7 DEF s, h

\* The next character of the format is one of the next item's.
LEMMA CharRight ==
    ASSUME items \in Formats, NEW k, NEW j, Reached(items, buf, esp, out, k, j), k < Len(items)
    PROVE  Char = items[k + 1].spelled[j + 1] /\ Char # "NUL" /\ (Char = "%" <=> ~IsText(items[k + 1]))
<1> DEFINE item == items[k + 1]
           s == item.spelled
           F == FlattenSeq(Spelled(items))
<1>1. /\ Item(item) /\ j < Len(s) /\ buf \in Nat /\ j \in Nat
      /\ \A i \in 1 .. Len(s) : (buf - j) + i \in 1 .. Len(F) /\ F[(buf - j) + i] = s[i]
  BY ReachedNext
<1>2. Format = F
  BY Zenon DEF Format, Spelled
<1>3. j > 0 => IsText(item)
  BY DEF Reached
<1>4. Len(s) \in Nat /\ (~IsText(item) => s[1] = "%")
  <2>1. CASE IsText(item)
    BY <1>1, <2>1, TextRight
  <2>2. CASE ~IsText(item)
    <3>1. Len(s) \in {2, 3} /\ s[1] = "%"
      BY <1>1, <2>2, SpelledRight
    <3> QED
      BY <3>1
  <2> QED
    BY <2>1, <2>2
<1>5. j + 1 \in 1 .. Len(s) /\ (buf - j) + (j + 1) = buf + 1
  BY <1>1, <1>4
<1>6. buf + 1 \in 1 .. Len(F) /\ F[buf + 1] = s[j + 1]
  BY <1>1, <1>5
<1>7. F \in Seq(Symbols)
  BY FormatRight, PiecesRight, Zenon
<1>8. buf < Len(Format)
  <2> HIDE DEF F
  <2>1. Len(F) \in Nat
    BY <1>7
  <2> QED
    BY <1>1, <1>2, <1>6, <2>1
<1>9. Char = s[j + 1]
  BY <1>2, <1>6, <1>8 DEF Char
<1>10. CASE IsText(item)
  <2>1. s[j + 1] \notin {"%", "NUL"}
    BY <1>5, <1>10 DEF IsText
  <2> QED
    BY <1>9, <1>10, <2>1
<1>11. CASE ~IsText(item)
  <2>1. j = 0
    BY <1>1, <1>3, <1>11
  <2>2. s[j + 1] = "%"
    BY <1>4, <1>11, <2>1
  <2> QED
    BY <1>9, <1>11, <2>2
<1> QED
  BY <1>10, <1>11

\* PrintfConversion finds the letter, and "#" in front of it.
LEMMA LetterRight ==
    ASSUME items \in Formats, NEW k, NEW j, Reached(items, buf, esp, out, k, j), k < Len(items),
           ~IsText(items[k + 1])
    PROVE  LET at == Min({i \in buf + 2 .. Len(Format) : Format[i] # "#"})
           IN  /\ at = buf + Len(items[k + 1].spelled)
               /\ Format[at] = Letter(items[k + 1])
               /\ at > buf + 2 <=> Alternate(items[k + 1])
               /\ Given(items[k + 1].args)
<1> DEFINE item == items[k + 1]
           s == item.spelled
           F == FlattenSeq(Spelled(items))
           S == {i \in buf + 2 .. Len(Format) : Format[i] # "#"}
           last == buf + Len(s)
<1>1. /\ Item(item) /\ buf \in Nat /\ j \in Nat
      /\ \A i \in 1 .. Len(s) : (buf - j) + i \in 1 .. Len(F) /\ F[(buf - j) + i] = s[i]
      /\ item.args # <<>> => FlattenSeq(Taken(items))[esp + 1] = item.args[1]
  BY ReachedNext
<1>2. j = 0
  BY ReachedConversion
<1>3. Format = F /\ Args = FlattenSeq(Taken(items))
  BY Zenon DEF Format, Spelled, Args, Taken
<1>4. F \in Seq(Symbols)
  BY FormatRight, PiecesRight, Zenon
<1>5. Len(s) \in {2, 3} /\ (Len(s) = 3 => s[2] = "#") /\ s[Len(s)] # "#"
  BY <1>1, SpelledRight DEF Letter
<1>6. \A i \in 1 .. Len(s) : buf + i \in 1 .. Len(F) /\ F[buf + i] = s[i]
  <2>1. buf - j = buf
    BY <1>1, <1>2
  <2> QED
    BY <1>1, <2>1
<1>7. Given(item.args)
  BY <1>1, <1>3, Zenon DEF Given, Arg
<1> HIDE DEF F, s
<1>8. last \in S
  <2>1. Len(s) \in 1 .. Len(s) /\ last \in Nat /\ last >= buf + 2
    <3> DEFINE y == Len(s)
    <3>1. y \in {2, 3} /\ buf \in Nat
      BY <1>1, <1>5
    <3> HIDE DEF y
    <3>2. y \in 1 .. y /\ buf + y \in Nat /\ buf + y >= buf + 2
      BY <3>1
    <3> QED
      BY <3>2 DEF y
  <2>2. last \in 1 .. Len(F) /\ F[last] = s[Len(s)]
    BY <1>6, <2>1
  <2>3. Len(F) \in Nat
    BY <1>4
  <2> QED
    BY <1>1, <1>3, <1>5, <2>1, <2>2, <2>3
<1>9. \A i \in S : ~(i < last)
  <2> SUFFICES ASSUME NEW i \in S, i < last PROVE FALSE
    OBVIOUS
  <2>1. Len(F) \in Nat /\ i \in buf + 2 .. Len(F) /\ F[i] # "#"
    BY <1>3, <1>4
  <2>2. Len(s) = 3 /\ i = buf + 2
    <3> DEFINE y == Len(s)
    <3>1. y \in {2, 3} /\ buf \in Nat /\ i < buf + y
      BY <1>1, <1>5
    <3> HIDE DEF y
    <3>2. y = 3 /\ i = buf + 2
      BY <2>1, <3>1
    <3> QED
      BY <3>2 DEF y
  <2>3. F[buf + 2] = s[2]
    <3>1. 2 \in 1 .. Len(s)
      BY <2>2
    <3> QED
      BY <1>6, <3>1
  <2> QED
    BY <1>5, <2>1, <2>2, <2>3
<1>10. S \in SUBSET Nat
  <2>1. Len(F) \in Nat
    BY <1>4
  <2> QED
    BY <1>1, <1>3, <2>1
<1>11. Min(S) = last
  <2> HIDE DEF S, last
  <2>1. Min(S) \in S /\ \A y \in S : Min(S) <= y
    BY <1>8, <1>10, MinRight
  <2>2. Min(S) <= last /\ ~(Min(S) < last) /\ Min(S) \in Nat /\ last \in Nat
    BY <1>8, <1>9, <1>10, <2>1
  <2> QED
    BY <2>2
<1>12. Format[last] = Letter(item)
  <2>1. Len(s) \in 1 .. Len(s)
    BY <1>5
  <2> QED
    BY <1>3, <1>6, <2>1 DEF Letter, s
<1>13. last > buf + 2 <=> Alternate(item)
  <2>1. last > buf + 2 <=> Len(s) = 3
    <3> DEFINE y == Len(s)
    <3>1. y \in {2, 3} /\ buf \in Nat
      BY <1>1, <1>5
    <3> HIDE DEF y
    <3>2. buf + y > buf + 2 <=> y = 3
      BY <3>1
    <3> QED
      BY <3>2 DEF y
  <2> QED
    BY <2>1 DEF Alternate, s
<1> QED
  BY <1>7, <1>11, <1>12, <1>13 DEF s

\* While printf runs, the output is what the items done so far are to print.
PrintfInv ==
    /\ pc = "ready" => items = <<>> /\ buf = 0 /\ esp = 0 /\ out = <<>>
    /\ pc = "printf" => items \in Formats /\ \E k, j : Reached(items, buf, esp, out, k, j)
    /\ pc = "done" /\ items # <<>> => out = FlattenSeq(Printed(items))

LEMMA PrintfInvInit == Init => PrintfInv
  BY DEF Init, PrintfInv

LEMMA PrintfInvNext == PrintfInv /\ [Next]_vars => PrintfInv'
<1> SUFFICES ASSUME PrintfInv, [Next]_vars PROVE PrintfInv'
  OBVIOUS
<1>1. CASE \E c \in Calls(mem) : Call(c)
  <2>1. pc = "ready" /\ pc' = "done" /\ items' = items
    BY <1>1, Zenon DEF Call
  <2> QED
    BY <2>1 DEF PrintfInv
<1>2. CASE \E f \in Formats : printf(f)
  <2>1. PICK f \in Formats : printf(f)
    BY <1>2
  <2>2. /\ pc = "ready" /\ items' = f /\ pc' = "printf"
        /\ buf' = buf /\ esp' = esp /\ out' = out
    BY <2>1, Zenon DEF printf
  <2>3. buf' = 0 /\ esp' = 0 /\ out' = <<>>
    BY <2>2 DEF PrintfInv
  <2>4. Reached(items', buf', esp', out', 0, 0)
    BY <2>2, <2>3, ReachedStart
  <2> QED
    BY <2>2, <2>4 DEF PrintfInv
<1>3. CASE PrintfPlain
  <2>1. /\ pc = "printf" /\ Char \notin {"NUL", "%"} /\ out' = Append(out, Char) /\ buf' = buf + 1
        /\ items' = items /\ esp' = esp /\ pc' = pc
    BY <1>3, Zenon DEF PrintfPlain
  <2>2. items \in Formats
    BY <2>1 DEF PrintfInv
  <2>3. PICK k, j : Reached(items, buf, esp, out, k, j)
    BY <2>1, Zenon DEF PrintfInv
  <2>4. k < Len(items)
    <3> SUFFICES ASSUME ~(k < Len(items)) PROVE FALSE
      OBVIOUS
    <3>1. buf = Len(FlattenSeq(Spelled(items)))
      BY <2>2, <2>3, ReachedEnd
    <3>2. Format = FlattenSeq(Spelled(items))
      BY Zenon DEF Format, Spelled
    <3>3. Format \in Seq(Symbols)
      BY <2>2, <3>2, FormatRight, PiecesRight, Zenon
    <3>4. ~(buf < Len(Format))
      BY <3>1, <3>2, <3>3
    <3> QED
      BY <2>1, <3>4 DEF Char
  <2>5. Char = items[k + 1].spelled[j + 1] /\ IsText(items[k + 1])
    BY <2>1, <2>2, <2>3, <2>4, CharRight
  <2>6. \E l, i : Reached(items, buf + 1, esp, Append(out, items[k + 1].spelled[j + 1]), l, i)
    BY <2>2, <2>3, <2>4, <2>5, ReachedText
  <2>7. \E l, i : Reached(items', buf', esp', out', l, i)
    BY <2>1, <2>5, <2>6
  <2> QED
    BY <2>1, <2>2, <2>7 DEF PrintfInv
<1>4. CASE PrintfConversion
  <2> DEFINE at == Min({i \in buf + 2 .. Len(Format) : Format[i] # "#"})
             converted == Conversion(Format[at], at > buf + 2)
  <2>1. /\ pc = "printf" /\ Char = "%" /\ out' = out \o converted[1]
        /\ esp' = esp + converted[2] /\ buf' = at
        /\ items' = items /\ pc' = pc
    BY <1>4, Zenon DEF PrintfConversion
  <2>2. items \in Formats
    BY <2>1 DEF PrintfInv
  <2>3. PICK k, j : Reached(items, buf, esp, out, k, j)
    BY <2>1, Zenon DEF PrintfInv
  <2>4. k < Len(items)
    <3> SUFFICES ASSUME ~(k < Len(items)) PROVE FALSE
      OBVIOUS
    <3>1. buf = Len(FlattenSeq(Spelled(items)))
      BY <2>2, <2>3, ReachedEnd
    <3>2. Format = FlattenSeq(Spelled(items))
      BY Zenon DEF Format, Spelled
    <3>3. Format \in Seq(Symbols)
      BY <2>2, <3>2, FormatRight, PiecesRight, Zenon
    <3>4. ~(buf < Len(Format))
      BY <3>1, <3>2, <3>3
    <3> QED
      BY <2>1, <3>4 DEF Char
  <2> DEFINE item == items[k + 1]
  <2>5. ~IsText(item)
    BY <2>1, <2>2, <2>3, <2>4, CharRight
  <2>6. /\ at = buf + Len(item.spelled) /\ Format[at] = Letter(item)
        /\ at > buf + 2 <=> Alternate(item)
        /\ Given(item.args)
    BY <2>2, <2>3, <2>4, <2>5, LetterRight
  <2>7. Item(item)
    BY <2>2, <2>3, <2>4, ReachedNext
  <2>8. Conversion(Letter(item), Alternate(item)) = <<Shown(item), Len(item.args)>>
    BY <2>5, <2>6, <2>7, ConversionRight
  <2>9. converted = Conversion(Letter(item), Alternate(item))
    <3> HIDE DEF at, item
    <3> QED
      BY <2>6 DEF Conversion
  <2>10. converted[1] = Shown(item) /\ converted[2] = Len(item.args)
    <3> HIDE DEF converted, item
    <3> QED
      BY <2>8, <2>9
  <2>11. Reached(items, buf + Len(item.spelled), esp + Len(item.args), out \o Shown(item), k + 1, 0)
    BY <2>2, <2>3, <2>4, <2>5, ReachedConversion
  <2>12. Reached(items', buf', esp', out', k + 1, 0)
    <3> HIDE DEF converted, item, at
    <3> QED
      BY <2>1, <2>6, <2>10, <2>11
  <2> HIDE DEF at, converted
  <2> QED
    BY <2>1, <2>2, <2>12 DEF PrintfInv
<1>5. CASE PrintfEnd
  <2>1. pc = "printf" /\ Char = "NUL" /\ pc' = "done" /\ items' = items /\ out' = out
    BY <1>5, Zenon DEF PrintfEnd
  <2>2. items \in Formats
    BY <2>1 DEF PrintfInv
  <2>3. PICK k, j : Reached(items, buf, esp, out, k, j)
    BY <2>1, Zenon DEF PrintfInv
  <2>4. ~(k < Len(items))
    BY <2>1, <2>2, <2>3, CharRight
  <2>5. out = FlattenSeq(Printed(items))
    BY <2>2, <2>3, <2>4, ReachedEnd
  <2> QED
    BY <2>1, <2>5 DEF PrintfInv
<1>6. CASE UNCHANGED vars
  BY <1>6 DEF vars, PrintfInv
<1> QED
  BY <1>1, <1>2, <1>3, <1>4, <1>5, <1>6 DEF Next

LEMMA PrintfInvRight == PrintfInv => PrintfRight
<1>1. Printed(items) = [k \in 1 .. Len(items) |-> Shown(items[k])]
  BY Zenon DEF Printed
<1> QED
  BY <1>1, Zenon DEF PrintfInv, PrintfRight

\* printf prints each item of its format as its comment says, for every width of a number and
\* every number of that width, whatever precedes and follows it, and every conversion takes its
\* own argument (PrintfPlain, PrintfConversion and itoa, strrev and the padding they use).
THEOREM PrintfIsRight == Spec => []PrintfRight
<1>1. Init => PrintfInv
  BY PrintfInvInit
<1>2. PrintfInv /\ [Next]_vars => PrintfInv'
  BY PrintfInvNext
<1>3. PrintfInv => PrintfRight
  BY PrintfInvRight
<1> QED
  BY <1>1, <1>2, <1>3, PTL DEF Spec
=============================================================================
