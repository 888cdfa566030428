--------------------------- MODULE ProgramsProofs ---------------------------
(***************************************************************************)
(* Proofs about Programs, for every image, line and size of the buffers:   *)
(* grep's buffer is never overrun, the shell starts what was typed, and    *)
(* cat, ls and grep print what they promise.                               *)
(***************************************************************************)
EXTENDS Programs, WellFoundedInduction, TLAPS

Kinds == {"free", "rtc", "dir", "file"}
Descriptors == [kind : Kinds, inode : Nat, pos : Nat]
Pcs == {"prompt", "execute", "report", "start", "catread", "ls", "grep", "grepread", "grepline",
        "grepclose", "stopped"}

\* Type correctness; a descriptor of a file has an inode with content.
TypeInv ==
    /\ image \in Images
    /\ prog \in {"shell", "cat", "ls", "grep", "hello", "sigtest"}
    /\ pc \in Pcs
    /\ fds \in [Fds -> Descriptors]
    /\ \A n \in Fds : fds[n].kind = "file" => fds[n].inode \in 1 .. Len(image.content)
    /\ status \in {-1, 0, 2, 3}
    /\ g \in [fname : Seq(Chars), fd : Nat, junk : Chars, data : Seq(Chars),
              last : Nat, start : Nat, cnt : Nat]

\* What the programs rely on between two system calls.
FilesInv ==
    /\ pc \in {"catread", "ls", "grep", "grepread", "grepline", "grepclose"} =>
           fd \in Fds /\ fds[fd].kind # "free"
    /\ pc \in {"grepread", "grepline", "grepclose"} =>
           g.fd \in Fds /\ g.fd # fd /\ fds[g.fd].kind # "free" /\ Len(g.data) = BufSize + 1

\* The indices of do_one_file.
BufferInv ==
    /\ Len(g.data) \in {0, BufSize + 1}
    /\ g.last <= BufSize /\ g.start <= BufSize + 1 /\ g.cnt <= BufSize
    /\ pc = "grepline" => g.start <= g.last

IInv == TypeInv /\ FilesInv /\ BufferInv

\* The shells of the terminal, and a program over them, have a pid each.
ShellsInv ==
    /\ shells \in 1 .. NumPids
    /\ pc \notin {"prompt", "execute", "report"} => shells < NumPids

\* A line the shell has read holds no NUL.
LineInv == pc = "execute" => line \in Seq(Chars) /\ \A i \in 1 .. Len(line) : line[i] # Nul

-----------------------------------------------------------------------------
(* Lemmas about strings and names                                          *)

LEMMA Sizes ==
    /\ DirSize \in Nat /\ BufSize \in Nat /\ BufSize > 0 /\ NumFds \in Nat
    /\ NameLen \in Nat /\ NameLen > 0
    /\ Fds \subseteq Nat /\ Junk \subseteq Chars
<1>1. {NumPids, DirSize, BufSize, NumFds} \subseteq Nat \ {0} /\ Junk \subseteq Chars
  BY ProgramsAssumption, Zenon
<1>4. DirSize \in Nat \ {0} /\ BufSize \in Nat \ {0} /\ NumFds \in Nat \ {0}
  BY <1>1, Zenon
<1>5. BufSize > 0
  BY <1>4
<1>2. NameLen \in Nat /\ NameLen > 0
  BY NamesAssumption
<1>3. NumFds \in Nat => Fds \subseteq Nat
  BY DEF Fds
<1> QED
  BY <1>1, <1>2, <1>3, <1>4, <1>5, Zenon

LEMMA NulRight == Nul \in Chars
BY NamesAssumption, Zenon

\* Sequences of characters put together.
LEMMA Concatenated ==
    \A s, t \in Seq(Chars) : s \o t \in Seq(Chars) /\ Len(s \o t) = Len(s) + Len(t)
OBVIOUS

LEMMA Appended ==
    \A s \in Seq(Chars), c \in Chars :
        Append(s, c) \in Seq(Chars) /\ Len(Append(s, c)) = Len(s) + 1
OBVIOUS

LEMMA Suffix ==
    \A s \in Seq(Chars), i \in Nat : i <= Len(s) =>
        SubSeq(s, i + 1, Len(s)) \in Seq(Chars) /\ Len(SubSeq(s, i + 1, Len(s))) = Len(s) - i
OBVIOUS

LEMMA ImageRight == \A img \in Images : WellFormed(img)
BY ProgramsAssumption, Zenon

\* Min picks the least of a nonempty set of natural numbers.
LEMMA MinRight ==
    ASSUME NEW S \in SUBSET Nat, S # {}
    PROVE  Min(S) \in S /\ \A y \in S : Min(S) <= y
<1>1. PICK x \in S : \A y \in S : <<y, x>> \notin OpToRel(<, Nat)
  BY WFMin, NatLessThanWellFounded, Zenon
<1>2. \A y \in S : ~(y < x)
  BY <1>1, Zenon DEF OpToRel
<1>3. x \in S /\ \A y \in S : x <= y
  BY <1>2
<1> QED
  BY <1>3, Zenon DEF Min

\* strlen counts the characters in front of the first NUL.
LEMMA StrlenRight ==
    ASSUME NEW s \in Seq(Chars)
    PROVE  /\ strlen(s) \in 0 .. Len(s)
           /\ \A i \in 1 .. strlen(s) : s[i] # Nul
           /\ \A i \in 1 .. Len(s) : s[i] = Nul => strlen(s) < i
           /\ (\A i \in 1 .. Len(s) : s[i] # Nul) => strlen(s) = Len(s)
<1> DEFINE S == {i \in 1 .. Len(s) + 1 : At(s, i) = Nul}
           m == Min(S)
<1>1. Len(s) \in Nat
  OBVIOUS
<1>2. Len(s) + 1 \in S
  BY <1>1 DEF At
<1>3. S \subseteq Nat
  BY <1>1
<1>4. m \in S /\ \A y \in S : m <= y
  BY <1>2, <1>3, MinRight
<1>5. m \in 1 .. Len(s) + 1 /\ At(s, m) = Nul
  BY <1>4
<1>6. \A i \in 1 .. Len(s) + 1 : At(s, i) = Nul => m <= i
  BY <1>4
<1>7. strlen(s) = m - 1
  BY DEF strlen
<1> HIDE DEF S, m
<1>8. \A i \in 1 .. Len(s) : s[i] = Nul => m <= i
  BY <1>1, <1>6 DEF At
<1>9. (\A i \in 1 .. Len(s) : s[i] # Nul) => m = Len(s) + 1
  BY <1>1, <1>5 DEF At
<1> QED
  BY <1>1, <1>5, <1>7, <1>8, <1>9

\* The least of two or three numbers.
LEMMA MinOfTwo ==
    ASSUME NEW a \in Nat, NEW b \in Nat
    PROVE  Min({a, b}) \in Nat /\ Min({a, b}) = (IF a <= b THEN a ELSE b)
<1>1. Min({a, b}) \in {a, b} /\ \A y \in {a, b} : Min({a, b}) <= y
  <2>1. {a, b} \in SUBSET Nat /\ {a, b} # {}
    OBVIOUS
  <2> QED
    BY <2>1, MinRight, Zenon
<1>2. \A m \in {a, b} : (\A y \in {a, b} : m <= y) => m \in Nat /\ m = (IF a <= b THEN a ELSE b)
  OBVIOUS
<1> QED
  BY <1>1, <1>2, Zenon

LEMMA MinOfThree ==
    ASSUME NEW a \in Nat, NEW b \in Nat, NEW c \in Nat
    PROVE  Min({a, b, c}) \in {a, b, c} /\ Min({a, b, c}) <= a
           /\ Min({a, b, c}) <= b /\ Min({a, b, c}) <= c
<1>1. {a, b, c} \in SUBSET Nat /\ {a, b, c} # {}
  OBVIOUS
<1> QED
  BY <1>1, MinRight, Zenon

\* With no NUL in the first n characters of s1, they are compared one by one.
LEMMA SameRight ==
    ASSUME NEW s1, NEW s2, NEW n \in Nat, \A i \in 1 .. n : At(s1, i) # Nul
    PROVE  Same(s1, s2, n) <=> \A i \in 1 .. n : At(s1, i) = At(s2, i)
<1> DEFINE S == {i \in 1 .. n : At(s1, i) # At(s2, i) \/ At(s1, i) = Nul}
<1>1. S \in SUBSET Nat
  OBVIOUS
<1>2. S # {} => Min(S) \in S
  BY <1>1, MinRight
<1>3. S # {} => At(s1, Min(S)) # At(s2, Min(S))
  BY <1>2
<1>4. Same(s1, s2, n) <=> S = {}
  BY <1>3 DEF Same
<1> QED
  BY <1>4

\* SelectInSeq finds the first that passes the test.
LEMMA SelectedEntry ==
    ASSUME NEW dentries \in Dentries, NEW fname
    PROVE  LET i == read_dentry_by_name(dentries, fname)
               len == Min({strlen(fname), NameLen})
               Fits(j) == Same(fname, dentries[j].name, len) /\ strlen(dentries[j].name) = len
           IN  /\ i \in 0 .. Len(dentries)
               /\ i # 0 => Fits(i)
               /\ i = 0 => \A j \in 1 .. Len(dentries) : ~Fits(j)
<1> DEFINE len == Min({strlen(fname), NameLen})
           Fits(j) == Same(fname, dentries[j].name, len) /\ strlen(dentries[j].name) = len
           I == {j \in 1 .. Len(dentries) : Fits(j)}
<1>1. read_dentry_by_name(dentries, fname) = IF I # {} THEN Min(I) ELSE 0
  BY DEF read_dentry_by_name, SelectInSeq
<1>2. I \in SUBSET Nat /\ Len(dentries) \in Nat
  BY DEF Dentries
<1>3. I # {} => Min(I) \in I
  BY <1>2, MinRight
<1>4. CASE I # {}
  <2>1. read_dentry_by_name(dentries, fname) \in I
    BY <1>1, <1>3, <1>4
  <2>2. \A j \in I : j \in 0 .. Len(dentries) /\ j # 0 /\ Fits(j)
    BY <1>2
  <2> QED
    BY <2>1, <2>2, Zenon
<1>5. CASE I = {}
  <2>1. read_dentry_by_name(dentries, fname) = 0
    BY <1>1, <1>5
  <2>2. \A j \in 1 .. Len(dentries) : ~Fits(j)
    BY <1>5
  <2>3. 0 \in 0 .. Len(dentries)
    BY <1>2
  <2> QED
    BY <2>1, <2>2, <2>3, Zenon
<1> QED
  BY <1>4, <1>5

\* Every descriptor that open_handler makes is one of a file that has its bytes.
LEMMA OpenRight ==
    ASSUME NEW img \in Images, NEW name
    PROVE  LET d == open_handler(img.dentries, name)
           IN  /\ d \in Descriptors
               /\ d.kind = "file" => d.inode \in 1 .. Len(img.content)
               /\ d # NoFile => d.kind # "free"
<1> DEFINE dentries == img.dentries
           i == read_dentry_by_name(dentries, name)
           kind == IF At(name, 1) = Dot THEN "dir" ELSE "file"
           type == IF kind = "dir" THEN 1 ELSE 2
           d == open_handler(dentries, name)
<1>1. /\ dentries \in Dentries
      /\ \A j \in 1 .. Len(dentries) :
            dentries[j].type = 2 => dentries[j].inode \in 1 .. Len(img.content)
  BY ImageRight DEF WellFormed
<1>2. i \in 0 .. Len(dentries)
  BY <1>1, SelectedEntry, Zenon
<1>3. i # 0 => i \in 1 .. Len(dentries) /\ dentries[i].inode \in Nat
  <2> SUFFICES ASSUME i # 0 PROVE i \in 1 .. Len(dentries) /\ dentries[i].inode \in Nat
    OBVIOUS
  <2>1. i \in 1 .. Len(dentries) /\ Len(dentries) \in Nat
    BY <1>1, <1>2 DEF Dentries
  <2>2. dentries[i] \in DirEntry
    BY <1>1, <2>1 DEF Dentries
  <2> QED
    BY <2>1, <2>2 DEF DirEntry
<1>4. d = IF Same(RtcName, name, Len(RtcName)) THEN [kind |-> "rtc", inode |-> 0, pos |-> 0]
          ELSE IF i # 0 /\ dentries[i].type = type
               THEN [kind |-> kind, inode |-> dentries[i].inode, pos |-> 0]
               ELSE NoFile
  BY Zenon DEF open_handler
<1>5. kind \in {"dir", "file"} /\ (kind = "file" => type = 2)
  OBVIOUS
<1> HIDE DEF dentries, i, kind, type, d
<1>6. d \in Descriptors /\ (d.kind = "file" => d.inode \in 1 .. Len(img.content)) /\ (d # NoFile => d.kind # "free")
  <2>1. CASE Same(RtcName, name, Len(RtcName))
    BY <1>4, <2>1 DEF Descriptors, Kinds
  <2>2. CASE /\ ~Same(RtcName, name, Len(RtcName)) /\ i # 0 /\ dentries[i].type = type
    BY <1>1, <1>3, <1>4, <1>5, <2>2 DEF Descriptors, Kinds
  <2>3. CASE /\ ~Same(RtcName, name, Len(RtcName)) /\ ~(i # 0 /\ dentries[i].type = type)
    BY <1>4, <2>3 DEF Descriptors, Kinds, NoFile
  <2> QED
    BY <2>1, <2>2, <2>3
<1> QED
  BY <1>6 DEF d, dentries

-----------------------------------------------------------------------------
(* Lemmas about the system calls                                           *)

\* open fails or takes a free descriptor for a file that is there.
LEMMA OpenAtRight ==
    ASSUME TypeInv, NEW name, OpenAt(name) # -1
    PROVE  /\ OpenAt(name) \in Fds /\ fds[OpenAt(name)].kind = "free"
           /\ open_handler(image.dentries, name) # NoFile
<1> DEFINE Free == {n \in Fds : fds[n].kind = "free"}
<1>1. OpenAt(name) = IF Free = {} \/ open_handler(image.dentries, name) = NoFile THEN -1 ELSE Min(Free)
  BY Zenon DEF OpenAt
<1>2. Free # {} /\ open_handler(image.dentries, name) # NoFile /\ OpenAt(name) = Min(Free)
  BY <1>1, Zenon
<1>3. Free \in SUBSET Nat
  BY Sizes
<1>4. Min(Free) \in Free
  BY <1>2, <1>3, MinRight, Zenon
<1> QED
  BY <1>2, <1>4

\* A read of n bytes fails or returns n bytes at most.
LEMMA ReadAtMost ==
    ASSUME TypeInv, NEW k \in Fds, NEW n \in Nat, ReadAt(fds[k], n) # Fail
    PROVE  ReadAt(fds[k], n) \in Seq(Chars) /\ Len(ReadAt(fds[k], n)) <= n
<1> DEFINE d == fds[k]
<1>1. d \in Descriptors /\ (d.kind = "file" => d.inode \in 1 .. Len(image.content))
  BY DEF TypeInv
<1>2. /\ image.content \in Seq(Seq(Chars)) /\ image.dentries \in Dentries
  BY ImageRight DEF TypeInv, WellFormed
<1> HIDE DEF d
<1>3. CASE d.kind = "file"
  <2>1. image.content[d.inode] \in Seq(Chars)
    BY <1>1, <1>2, <1>3
  <2> DEFINE content == image.content[d.inode]
             m == Min({d.pos + n, Len(content)})
  <2>2. n > 0 /\ ReadAt(d, n) = SubSeq(content, d.pos + 1, m)
    <3>1. ~(n <= 0)
      BY <1>3 DEF ReadAt, d
    <3>2. ReadAt(d, n) = IF n <= 0 THEN Fail ELSE SubSeq(content, d.pos + 1, m)
      BY <1>3, Zenon DEF ReadAt
    <3>3. n > 0
      BY <3>1
    <3> QED
      BY <3>1, <3>2, <3>3, Zenon
  <2>3. d.pos \in Nat /\ Len(content) \in Nat
    BY <1>1, <2>1 DEF Descriptors
  <2>4. m \in Nat /\ m <= d.pos + n /\ m <= Len(content)
    <3>1. d.pos + n \in Nat
      BY <2>3
    <3>2. m = IF d.pos + n <= Len(content) THEN d.pos + n ELSE Len(content)
      BY <2>3, <3>1, MinOfTwo, Zenon
    <3> HIDE DEF m
    <3> QED
      BY <2>3, <3>1, <3>2
  <2> HIDE DEF content, m
  <2>5. content \in Seq(Chars)
    BY <2>1 DEF content
  <2>6. SubSeq(content, d.pos + 1, m) \in Seq(Chars) /\ Len(SubSeq(content, d.pos + 1, m)) <= n
    BY <2>3, <2>4, <2>5
  <2> QED
    BY <2>2, <2>6 DEF d
<1>4. CASE d.kind = "dir"
  <2>1. CASE d.pos >= Len(image.dentries)
    <3>1. ReadAt(d, n) = <<>>
      BY <1>4, <2>1 DEF ReadAt, d
    <3> QED
      BY <3>1 DEF d
  <2>2. CASE ~(d.pos >= Len(image.dentries))
    <3> DEFINE name == image.dentries[d.pos + 1].name
               m == Min({n, NameLen, strlen(name)})
    <3>1. ReadAt(d, n) = SubSeq(name, 1, m)
      BY <1>4, <2>2 DEF ReadAt, NameRead, d
    <3>2. name \in Seq(Chars)
      <4>1. d.pos + 1 \in 1 .. Len(image.dentries)
        BY <1>1, <1>2, <2>2 DEF Descriptors, Dentries
      <4>2. image.dentries[d.pos + 1] \in DirEntry
        BY <1>2, <4>1 DEF Dentries
      <4> QED
        BY <4>2 DEF DirEntry
    <3>3. strlen(name) \in 0 .. Len(name)
      BY <3>2, StrlenRight
    <3>4. m \in {n, NameLen, strlen(name)} /\ m <= n /\ m <= strlen(name)
      <4>1. strlen(name) \in Nat
        BY <3>2, <3>3
      <4> QED
        BY <4>1, Sizes, MinOfThree, Zenon
    <3> HIDE DEF name, m
    <3>5. m \in Nat /\ m <= Len(name)
      BY <3>2, <3>3, <3>4, Sizes
    <3>6. SubSeq(name, 1, m) \in Seq(Chars) /\ Len(SubSeq(name, 1, m)) <= n
      BY <3>2, <3>4, <3>5
    <3> QED
      BY <3>1, <3>6 DEF d
  <2> QED
    BY <2>1, <2>2
<1>5. CASE d.kind = "rtc"
  <2>1. ReadAt(d, n) = <<>>
    BY <1>5 DEF ReadAt
  <2> QED
    BY <2>1 DEF d
<1>6. CASE d.kind = "free"
  <2>1. ReadAt(d, n) = Fail
    BY <1>6 DEF ReadAt
  <2> QED
    BY <2>1 DEF d
<1> QED
  BY <1>1, <1>3, <1>4, <1>5, <1>6 DEF Descriptors, Kinds

\* A read moves the position and nothing else.
LEMMA AdvancedRight ==
    ASSUME NEW d \in Descriptors, NEW r \in Seq(Chars)
    PROVE  /\ Advanced(d, r) \in Descriptors
           /\ Advanced(d, r).kind = d.kind /\ Advanced(d, r).inode = d.inode
<1>1. Len(r) \in Nat
  OBVIOUS
<1> QED
  BY <1>1 DEF Advanced, Descriptors

\* One descriptor changes.
LEMMA FdsUpdate ==
    ASSUME TypeInv, image' = image, NEW k \in Fds, NEW d \in Descriptors,
           d.kind = "file" => d.inode \in 1 .. Len(image.content),
           fds' = [fds EXCEPT ![k] = d]
    PROVE  /\ fds' \in [Fds -> Descriptors]
           /\ \A n \in Fds : fds'[n].kind = "file" => fds'[n].inode \in 1 .. Len(image'.content)
           /\ fds'[k] = d
           /\ \A n \in Fds : n # k => fds'[n] = fds[n]
<1>1. fds \in [Fds -> Descriptors]
  BY DEF TypeInv
<1>2. fds'[k] = d /\ \A n \in Fds : n # k => fds'[n] = fds[n]
  BY <1>1
<1>3. fds' \in [Fds -> Descriptors]
  BY <1>1
<1>4. ASSUME NEW n \in Fds, fds'[n].kind = "file" PROVE fds'[n].inode \in 1 .. Len(image'.content)
  BY <1>2, <1>4, Zenon DEF TypeInv
<1> QED
  BY <1>2, <1>3, <1>4

LEMMA AllFreeRight ==
    /\ AllFree \in [Fds -> Descriptors]
    /\ \A n \in Fds : AllFree[n].kind = "free"
<1>1. NoFile \in Descriptors /\ NoFile.kind = "free"
  BY DEF NoFile, Descriptors, Kinds
<1> QED
  BY <1>1, Zenon DEF AllFree

\* The locals of grep before it has opened a file.
LEMMA NoGrepRight ==
    ASSUME NEW junk \in Chars
    PROVE  LET gg == [NoGrep EXCEPT !.junk = junk]
           IN  /\ gg \in [fname : Seq(Chars), fd : Nat, junk : Chars, data : Seq(Chars),
                          last : Nat, start : Nat, cnt : Nat]
               /\ gg.data = <<>> /\ gg.last = 0 /\ gg.start = 0 /\ gg.cnt = 0
<1>1. <<>> \in Seq(Chars)
  OBVIOUS
<1> QED
  BY <1>1 DEF NoGrep

LEMMA NoGrepType ==
    /\ NoGrep \in [fname : Seq(Chars), fd : Nat, junk : Chars, data : Seq(Chars),
                   last : Nat, start : Nat, cnt : Nat]
    /\ NoGrep.data = <<>> /\ NoGrep.last = 0 /\ NoGrep.start = 0 /\ NoGrep.cnt = 0
<1>1. <<>> \in Seq(Chars)
  OBVIOUS
<1> QED
  BY <1>1, NulRight DEF NoGrep

LEMMA InitRight == Init => IInv
<1> SUFFICES ASSUME Init PROVE IInv
  OBVIOUS
<1>1. g \in [fname : Seq(Chars), fd : Nat, junk : Chars, data : Seq(Chars),
              last : Nat, start : Nat, cnt : Nat]
      /\ g.data = <<>> /\ g.last = 0 /\ g.start = 0 /\ g.cnt = 0
  BY NoGrepType, Zenon DEF Init
<1>2. TypeInv
  BY <1>1, AllFreeRight DEF Init, TypeInv, Pcs
<1>3. FilesInv
  BY DEF Init, FilesInv
<1>4. BufferInv
  BY <1>1, Sizes DEF Init, BufferInv
<1> QED
  BY <1>2, <1>3, <1>4 DEF IInv

-----------------------------------------------------------------------------
(* The steps                                                               *)

\* A program ends.
LEMMA HaltRight ==
    ASSUME IInv, NEW s \in {0, 2, 3}, Halt(s), UNCHANGED <<image, prog, g>>
    PROVE  IInv'
<1>1. pc' = "report" /\ fds' = AllFree /\ status' = s
  BY DEF Halt
<1>2. TypeInv'
  BY <1>1, AllFreeRight DEF IInv, TypeInv, Pcs
<1>3. FilesInv'
  BY <1>1 DEF FilesInv
<1>4. BufferInv'
  BY <1>1 DEF IInv, BufferInv
<1> QED
  BY <1>2, <1>3, <1>4 DEF IInv

\* A step that opens and closes nothing and leaves grep's locals alone.
LEMMA QuietRight ==
    ASSUME IInv, UNCHANGED <<image, prog, fds, status, g>>,
           \/ pc' \in {"prompt", "execute", "stopped"}
           \/ pc' = pc /\ fd' = fd
    PROVE  IInv'
<1>1. TypeInv'
  BY DEF IInv, TypeInv, Pcs
<1>2. FilesInv'
  BY DEF IInv, FilesInv
<1>3. BufferInv'
  BY DEF IInv, BufferInv
<1> QED
  BY <1>1, <1>2, <1>3 DEF IInv

LEMMA ShellReadRight == IInv /\ ShellRead => IInv'
<1> SUFFICES ASSUME IInv, ShellRead PROVE IInv'
  OBVIOUS
<1>1. UNCHANGED <<image, prog, g>>
  BY DEF ShellRead
<1>2. \/ UNCHANGED <<fds, status>> /\ (pc' = "execute" \/ pc' = "prompt")
      \/ Halt(0)
  BY Zenon DEF ShellRead
<1>3. CASE Halt(0)
  BY <1>1, <1>3, HaltRight
<1>4. CASE UNCHANGED <<fds, status>> /\ (pc' = "execute" \/ pc' = "prompt")
  BY <1>1, <1>4, QuietRight
<1> QED
  BY <1>2, <1>3, <1>4

LEMMA ShellReportRight == IInv /\ (ShellReport \/ ShellStart) => IInv'
<1> SUFFICES ASSUME IInv, ShellReport \/ ShellStart PROVE IInv'
  OBVIOUS
<1>1. prog' = "shell" /\ pc' = "prompt" /\ g' = NoGrep /\ UNCHANGED <<image, fds, status>>
  BY DEF ShellReport, ShellStart
<1>2. /\ g' \in [fname : Seq(Chars), fd : Nat, junk : Chars, data : Seq(Chars),
              last : Nat, start : Nat, cnt : Nat]
      /\ g'.data = <<>> /\ g'.last = 0 /\ g'.start = 0 /\ g'.cnt = 0
  BY <1>1, NoGrepType, Zenon
<1>3. TypeInv'
  BY <1>1, <1>2 DEF IInv, TypeInv, Pcs
<1>4. FilesInv'
  BY <1>1 DEF FilesInv
<1>5. BufferInv'
  BY <1>1, <1>2, Sizes DEF BufferInv
<1> QED
  BY <1>3, <1>4, <1>5 DEF IInv

LEMMA ExecuteRight == IInv /\ Execute => IInv'
<1> SUFFICES ASSUME IInv, Execute PROVE IInv'
  OBVIOUS
<1>1. PICK junk \in Junk : g' = [NoGrep EXCEPT !.junk = junk]
  BY Zenon DEF Execute
<1>2. fds' = AllFree /\ image' = image
  BY DEF Execute
<1>3. \/ \E i \in 1 .. Len(image.dentries) :
            /\ image.dentries[i].type = 2
            /\ Executable(image.content[image.dentries[i].inode])
            /\ prog' = image.content[image.dentries[i].inode][2]
            /\ pc' = "start" /\ status' = 0
      \/ status' = -1 /\ pc' = "report" /\ prog' = prog
  <2>1. PICK command, others :
         LET i     == read_dentry_by_name(image.dentries, command.name)
             found == /\ i # 0
                      /\ image.dentries[i].type = 2
                      /\ Executable(image.content[image.dentries[i].inode])
             full  == shells + others = NumPids
         IN  IF found /\ ~full
             THEN /\ prog' = image.content[image.dentries[i].inode][2]
                  /\ args' = command.args
                  /\ pc' = "start" /\ status' = 0
             ELSE status' = -1 /\ pc' = "report" /\ UNCHANGED <<prog, args>>
    BY Zenon DEF Execute
  <2> DEFINE i == read_dentry_by_name(image.dentries, command.name)
  <2>2. image.dentries \in Dentries
    BY ImageRight DEF IInv, TypeInv, WellFormed
  <2>3. i \in 0 .. Len(image.dentries)
    BY <2>2, SelectedEntry, Zenon
  <2>4. i # 0 => i \in 1 .. Len(image.dentries)
    BY <2>2, <2>3 DEF Dentries
  <2> QED
    BY <2>1, <2>4, Zenon
<1>4. prog' \in {"shell", "cat", "ls", "grep", "hello", "sigtest"} /\ pc' \in {"start", "report"}
      /\ status' \in {-1, 0, 2, 3}
  <2>1. CASE \E i \in 1 .. Len(image.dentries) :
            /\ image.dentries[i].type = 2
            /\ Executable(image.content[image.dentries[i].inode])
            /\ prog' = image.content[image.dentries[i].inode][2]
            /\ pc' = "start" /\ status' = 0
    <3>1. PICK i \in 1 .. Len(image.dentries) :
            /\ image.dentries[i].type = 2
            /\ Executable(image.content[image.dentries[i].inode])
            /\ prog' = image.content[image.dentries[i].inode][2]
            /\ pc' = "start" /\ status' = 0
      BY <2>1
    <3>2. image.dentries[i].inode \in 1 .. Len(image.content)
      BY <3>1, ImageRight DEF IInv, TypeInv, WellFormed
    <3>3. prog' \in {"shell", "cat", "ls", "grep", "hello", "sigtest"}
      BY <3>1, <3>2, ImageRight, Zenon DEF IInv, TypeInv, WellFormed
    <3> QED
      BY <3>1, <3>3 DEF IInv, TypeInv
  <2>2. CASE status' = -1 /\ pc' = "report" /\ prog' = prog
    BY <2>2 DEF IInv, TypeInv
  <2> QED
    BY <1>3, <2>1, <2>2, Zenon
<1>5. /\ g' \in [fname : Seq(Chars), fd : Nat, junk : Chars, data : Seq(Chars),
              last : Nat, start : Nat, cnt : Nat]
      /\ g'.data = <<>> /\ g'.last = 0 /\ g'.start = 0 /\ g'.cnt = 0
  <2>1. junk \in Chars
    BY Sizes
  <2> QED
    BY <1>1, <2>1, NoGrepRight, Zenon
<1>6. TypeInv'
  BY <1>2, <1>4, <1>5, AllFreeRight DEF IInv, TypeInv, Pcs
<1>7. FilesInv'
  BY <1>4 DEF FilesInv
<1>8. BufferInv'
  BY <1>4, <1>5, Sizes DEF BufferInv
<1> QED
  BY <1>6, <1>7, <1>8 DEF IInv

\* A program opens its first file, or ends.
LEMMA OpenStepRight ==
    ASSUME IInv, UNCHANGED <<image, prog, status, g>>, NEW name, OpenAt(name) # -1,
           fd' = OpenAt(name), fds' = [fds EXCEPT ![fd'] = open_handler(image.dentries, name)],
           pc' \in {"catread", "ls", "grep"}
    PROVE  IInv'
<1> DEFINE d == open_handler(image.dentries, name)
<1>1. fd' \in Fds /\ d # NoFile
  BY OpenAtRight DEF IInv
<1>2. /\ d \in Descriptors /\ d.kind # "free"
      /\ d.kind = "file" => d.inode \in 1 .. Len(image.content)
  BY <1>1, OpenRight DEF IInv, TypeInv
<1> HIDE DEF d
<1>3. fds' = [fds EXCEPT ![fd'] = d]
  BY DEF d
<1>4. /\ fds' \in [Fds -> Descriptors]
      /\ \A n \in Fds : fds'[n].kind = "file" => fds'[n].inode \in 1 .. Len(image'.content)
      /\ fds'[fd'] = d
  BY <1>1, <1>2, <1>3, FdsUpdate DEF IInv
<1>5. TypeInv'
  BY <1>4 DEF IInv, TypeInv, Pcs
<1>6. FilesInv'
  BY <1>1, <1>2, <1>4 DEF FilesInv
<1>7. BufferInv'
  BY DEF IInv, BufferInv
<1> QED
  BY <1>5, <1>6, <1>7 DEF IInv

LEMMA StartRight == IInv /\ (CatStart \/ DirStart) => IInv'
<1> SUFFICES ASSUME IInv, CatStart \/ DirStart PROVE IInv'
  OBVIOUS
<1>1. CASE CatStart
  <2>1. CASE OpenAt(args) = -1
    BY <1>1, <2>1, HaltRight DEF CatStart, HaltWith
  <2>2. CASE OpenAt(args) # -1
    BY <1>1, <2>2, OpenStepRight DEF CatStart
  <2> QED
    BY <2>1, <2>2
<1>2. CASE DirStart
  <2>1. CASE OpenAt(<<Dot>>) = -1
    BY <1>2, <2>1, HaltRight DEF DirStart, HaltWith
  <2>2. CASE OpenAt(<<Dot>>) # -1
    <3>1. prog \in {"ls", "grep"}
      BY <1>2 DEF DirStart
    <3> QED
      BY <1>2, <2>2, <3>1, OpenStepRight DEF DirStart
  <2> QED
    BY <2>1, <2>2
<1> QED
  BY <1>1, <1>2

\* A program reads on from the file it has opened.
LEMMA ReadStepRight ==
    ASSUME IInv, UNCHANGED <<image, prog, fd, status, pc, g>>,
           pc \in {"catread", "ls"}, NEW n \in Nat, ReadAt(fds[fd], n) # Fail,
           fds' = [fds EXCEPT ![fd] = Advanced(@, ReadAt(fds[fd], n))]
    PROVE  IInv'
<1> DEFINE r == ReadAt(fds[fd], n)
           d == Advanced(fds[fd], r)
<1>1. fd \in Fds /\ fds[fd].kind # "free"
  BY DEF IInv, FilesInv
<1>2. r \in Seq(Chars)
  BY <1>1, ReadAtMost, Zenon DEF IInv
<1>3. fds[fd] \in Descriptors /\ (fds[fd].kind = "file" => fds[fd].inode \in 1 .. Len(image.content))
  BY <1>1 DEF IInv, TypeInv
<1> HIDE DEF r
<1>4. d \in Descriptors /\ d.kind = fds[fd].kind /\ d.inode = fds[fd].inode
  BY <1>2, <1>3, AdvancedRight, Zenon
<1>5. fds' = [fds EXCEPT ![fd] = d]
  BY DEF r
<1> HIDE DEF d
<1>6. /\ fds' \in [Fds -> Descriptors]
      /\ \A m \in Fds : fds'[m].kind = "file" => fds'[m].inode \in 1 .. Len(image'.content)
      /\ fds'[fd] = d
  <2>1. d.kind = "file" => d.inode \in 1 .. Len(image.content)
    BY <1>3, <1>4, Zenon
  <2> QED
    BY <1>1, <1>4, <1>5, <2>1, FdsUpdate, Zenon DEF IInv
<1>7. TypeInv'
  BY <1>6 DEF IInv, TypeInv
<1>8. FilesInv'
  BY <1>1, <1>4, <1>6 DEF IInv, FilesInv
<1>9. BufferInv'
  BY DEF IInv, BufferInv
<1> QED
  BY <1>7, <1>8, <1>9 DEF IInv

LEMMA ReadsRight == IInv /\ (CatRead \/ LsRead) => IInv'
<1> SUFFICES ASSUME IInv, CatRead \/ LsRead PROVE IInv'
  OBVIOUS
<1>1. CASE CatRead
  <2>1. \/ \E s \in {0, 3} : Halt(s) /\ UNCHANGED <<image, prog, g>>
        \/ /\ ReadAt(fds[fd], BufSize) # Fail
           /\ fds' = [fds EXCEPT ![fd] = Advanced(@, ReadAt(fds[fd], BufSize))]
           /\ pc = "catread" /\ UNCHANGED <<image, prog, fd, status, pc, g>>
    BY <1>1, Zenon DEF CatRead, HaltWith
  <2> QED
    BY <2>1, HaltRight, ReadStepRight, Sizes
<1>2. CASE LsRead
  <2>1. \/ \E s \in {0, 3} : Halt(s) /\ UNCHANGED <<image, prog, g>>
        \/ /\ ReadAt(fds[fd], NameLen) # Fail
           /\ fds' = [fds EXCEPT ![fd] = Advanced(@, ReadAt(fds[fd], NameLen))]
           /\ pc = "ls" /\ UNCHANGED <<image, prog, fd, status, pc, g>>
    BY <1>2, Zenon DEF LsRead, HaltWith
  <2> QED
    BY <2>1, HaltRight, ReadStepRight, Sizes
<1> QED
  BY <1>1, <1>2

LEMMA OthersRight == IInv /\ (Hello \/ Sigtest) => IInv'
<1> SUFFICES ASSUME IInv, Hello \/ Sigtest PROVE IInv'
  OBVIOUS
<1>1. CASE Hello
  BY <1>1, HaltRight DEF Hello
<1>2. CASE Sigtest
  BY <1>2, QuietRight DEF Sigtest
<1> QED
  BY <1>1, <1>2

-----------------------------------------------------------------------------
(* grep                                                                    *)

\* After a read of the directory, and perhaps the opening of the file.
LEMMA GrepEntryRight == IInv /\ GrepEntry => IInv'
<1> SUFFICES ASSUME IInv, GrepEntry PROVE IInv'
  OBVIOUS
<1> DEFINE r    == ReadAt(fds[fd], NameLen)
           d    == Advanced(fds[fd], r)
           next == [fds EXCEPT ![fd] = d]
           n    == OpenAt(r)
           e    == open_handler(image.dentries, r)
<1>1. /\ pc = "grep" /\ fd' = fd /\ UNCHANGED <<image, prog>>
      /\ \/ \E s \in {0, 3} : Halt(s) /\ UNCHANGED g
         \/ r # Fail /\ fds' = next /\ UNCHANGED <<pc, status, g>>
         \/ /\ r # Fail /\ n # -1
            /\ g' = [g EXCEPT !.fname = r, !.fd = n, !.last = 0, !.start = 0, !.cnt = 0,
                              !.data = [i \in 1 .. BufSize + 1 |-> g.junk]]
            /\ fds' = [next EXCEPT ![n] = e]
            /\ pc' = "grepread" /\ UNCHANGED status
  BY Zenon DEF GrepEntry, HaltWith
<1>2. fd \in Fds /\ fds[fd].kind # "free"
  BY <1>1 DEF IInv, FilesInv
<1>3. fds[fd] \in Descriptors /\ (fds[fd].kind = "file" => fds[fd].inode \in 1 .. Len(image.content))
  BY <1>2 DEF IInv, TypeInv
<1>4. r # Fail => r \in Seq(Chars)
  BY <1>2, Sizes, ReadAtMost, Zenon DEF IInv
<1>5. r # Fail => /\ d \in Descriptors /\ d.kind = fds[fd].kind /\ d.inode = fds[fd].inode
  BY <1>3, <1>4, AdvancedRight, Zenon
<1>6. r # Fail => (d.kind = "file" => d.inode \in 1 .. Len(image.content))
  BY <1>3, <1>5, Zenon
<1>7. n # -1 => n \in Fds /\ fds[n].kind = "free" /\ e # NoFile
  BY OpenAtRight, Zenon DEF IInv
<1>8. /\ e \in Descriptors /\ (e # NoFile => e.kind # "free")
      /\ e.kind = "file" => e.inode \in 1 .. Len(image.content)
  BY OpenRight, Zenon DEF IInv, TypeInv
<1> HIDE DEF r, d, n, e
<1>9. CASE \E s \in {0, 3} : Halt(s) /\ UNCHANGED g
  BY <1>1, <1>9, HaltRight
<1>10. CASE r # Fail /\ fds' = next /\ UNCHANGED <<pc, status, g>>
  <2>1. /\ fds' \in [Fds -> Descriptors]
        /\ \A m \in Fds : fds'[m].kind = "file" => fds'[m].inode \in 1 .. Len(image'.content)
        /\ fds'[fd] = d
    BY <1>1, <1>2, <1>5, <1>6, <1>10, FdsUpdate DEF IInv
  <2>2. TypeInv'
    BY <1>1, <1>10, <2>1 DEF IInv, TypeInv
  <2>3. FilesInv'
    BY <1>1, <1>2, <1>5, <1>10, <2>1 DEF FilesInv
  <2>4. BufferInv'
    BY <1>10 DEF IInv, BufferInv
  <2> QED
    BY <2>2, <2>3, <2>4 DEF IInv
<1>11. CASE /\ r # Fail /\ n # -1
            /\ g' = [g EXCEPT !.fname = r, !.fd = n, !.last = 0, !.start = 0, !.cnt = 0,
                              !.data = [i \in 1 .. BufSize + 1 |-> g.junk]]
            /\ fds' = [next EXCEPT ![n] = e]
            /\ pc' = "grepread" /\ UNCHANGED status
  <2>1. fds \in [Fds -> Descriptors] /\ n \in Fds /\ n # fd /\ fd \in Fds
    BY <1>2, <1>7, <1>11 DEF IInv, TypeInv
  <2>2. fds' = [m \in Fds |-> IF m = n THEN e ELSE IF m = fd THEN d ELSE fds[m]]
    BY <1>11, <2>1
  <2>3. /\ fds' \in [Fds -> Descriptors] /\ fds'[n] = e /\ fds'[fd] = d
        /\ \A m \in Fds : m # n /\ m # fd => fds'[m] = fds[m]
    BY <1>5, <1>8, <1>11, <2>1, <2>2
  <2>4. ASSUME NEW m \in Fds, fds'[m].kind = "file"
        PROVE  fds'[m].inode \in 1 .. Len(image.content)
    BY <1>6, <1>8, <1>11, <2>3, <2>4, Zenon DEF IInv, TypeInv
  <2> DEFINE data == [i \in 1 .. BufSize + 1 |-> g.junk]
  <2>5. g \in [fname : Seq(Chars), fd : Nat, junk : Chars, data : Seq(Chars),
               last : Nat, start : Nat, cnt : Nat]
    BY DEF IInv, TypeInv
  <2>6. data \in Seq(Chars) /\ Len(data) = BufSize + 1
    BY <2>5, Sizes
  <2> HIDE DEF data
  <2>7. n \in Nat /\ r \in Seq(Chars)
    BY <1>4, <1>11, <2>1, Sizes
  <2>8. /\ g' \in [fname : Seq(Chars), fd : Nat, junk : Chars, data : Seq(Chars),
                   last : Nat, start : Nat, cnt : Nat]
        /\ g'.fd = n /\ g'.last = 0 /\ g'.start = 0 /\ g'.cnt = 0 /\ g'.data = data
    <3>1. g' = [g EXCEPT !.fname = r, !.fd = n, !.last = 0, !.start = 0, !.cnt = 0, !.data = data]
      BY <1>11 DEF data
    <3> QED
      BY <2>5, <2>6, <2>7, <3>1
  <2>9. TypeInv'
    BY <1>1, <1>11, <2>3, <2>4, <2>8 DEF IInv, TypeInv, Pcs
  <2>10. FilesInv'
    BY <1>1, <1>2, <1>5, <1>7, <1>8, <1>11, <2>1, <2>3, <2>6, <2>8 DEF FilesInv
  <2>11. BufferInv'
    BY <1>11, <2>6, <2>8, Sizes DEF BufferInv
  <2> QED
    BY <2>9, <2>10, <2>11 DEF IInv
<1> QED
  BY <1>1, <1>9, <1>10, <1>11

\* What is read goes where there is room.
LEMMA GrepReadRight == IInv /\ GrepRead => IInv'
<1> SUFFICES ASSUME IInv, GrepRead PROVE IInv'
  OBVIOUS
<1> DEFINE r == ReadAt(fds[g.fd], Room(g.last))
           d == Advanced(fds[g.fd], r)
<1>1. /\ pc = "grepread" /\ fd' = fd /\ UNCHANGED <<image, prog>>
      /\ \/ Halt(3) /\ UNCHANGED g
         \/ /\ r # Fail
            /\ g' = [g EXCEPT !.data = Written(g.last, r), !.last = @ + Len(r),
                              !.cnt = Len(r), !.start = 0]
            /\ fds' = [fds EXCEPT ![g.fd] = d]
            /\ pc' = "grepline" /\ UNCHANGED status
  BY Zenon DEF GrepRead, HaltWith
<1>2. CASE Halt(3) /\ UNCHANGED g
  BY <1>1, <1>2, HaltRight
<1>3. CASE /\ r # Fail
           /\ g' = [g EXCEPT !.data = Written(g.last, r), !.last = @ + Len(r),
                             !.cnt = Len(r), !.start = 0]
           /\ fds' = [fds EXCEPT ![g.fd] = d]
           /\ pc' = "grepline" /\ UNCHANGED status
  <2>1. /\ fd \in Fds /\ fds[fd].kind # "free" /\ g.fd \in Fds /\ g.fd # fd
        /\ fds[g.fd].kind # "free" /\ Len(g.data) = BufSize + 1
    BY <1>1 DEF IInv, FilesInv
  <2>2. g \in [fname : Seq(Chars), fd : Nat, junk : Chars, data : Seq(Chars),
               last : Nat, start : Nat, cnt : Nat]
    BY DEF IInv, TypeInv
  <2>3. g.last \in Nat /\ g.last <= BufSize /\ BufSize \in Nat /\ g.data \in Seq(Chars)
    BY <2>2, Sizes DEF IInv, BufferInv
  <2>4. Room(g.last) \in Nat /\ g.last + Room(g.last) = BufSize
    BY <2>3 DEF Room
  <2>5. r \in Seq(Chars) /\ Len(r) <= Room(g.last)
    BY <1>3, <2>1, <2>4, ReadAtMost, Zenon DEF IInv
  <2>6. fds[g.fd] \in Descriptors /\ (fds[g.fd].kind = "file" => fds[g.fd].inode \in 1 .. Len(image.content))
    BY <2>1 DEF IInv, TypeInv
  <2>7. d \in Descriptors /\ d.kind = fds[g.fd].kind /\ d.inode = fds[g.fd].inode
    BY <2>5, <2>6, AdvancedRight, Zenon
  <2> HIDE DEF r, d
  <2>8. /\ fds' \in [Fds -> Descriptors]
        /\ \A m \in Fds : fds'[m].kind = "file" => fds'[m].inode \in 1 .. Len(image'.content)
        /\ fds'[g.fd] = d /\ fds'[fd] = fds[fd]
    <3>1. d.kind = "file" => d.inode \in 1 .. Len(image.content)
      BY <2>6, <2>7, Zenon
    <3> QED
      BY <1>1, <1>3, <2>1, <2>7, <3>1, FdsUpdate DEF IInv
  <2>9. Len(r) \in Nat /\ g.last + Len(r) <= BufSize
    BY <2>3, <2>4, <2>5
  <2> DEFINE data == Written(g.last, r)
  <2>10. data \in Seq(Chars) /\ Len(data) = BufSize + 1
    <3> DEFINE a == SubSeq(g.data, 1, g.last)
               b == SubSeq(g.data, g.last + Len(r) + 1, Len(g.data))
    <3>1. a \in Seq(Chars) /\ Len(a) = g.last
      BY <2>1, <2>3
    <3>2. b \in Seq(Chars) /\ Len(b) = BufSize + 1 - (g.last + Len(r))
      <4>1. g.last + Len(r) \in Nat /\ g.last + Len(r) <= Len(g.data)
        BY <2>1, <2>3, <2>9
      <4>2. b \in Seq(Chars) /\ Len(b) = Len(g.data) - (g.last + Len(r))
        BY <2>3, <4>1, Suffix, Zenon
      <4>3. Len(b) = Len(g.data) - (g.last + Len(r)) /\ Len(g.data) = BufSize + 1
        BY <2>1, <4>2
      <4> HIDE DEF b
      <4> QED
        BY <2>3, <4>1, <4>2, <4>3, SMTT(30)
    <3>3. data = a \o r \o b
      BY DEF Written
    <3> HIDE DEF a, b, data
    <3> QED
      <4>1. a \o r \in Seq(Chars) /\ Len(a \o r) = g.last + Len(r)
        <5>1. Len(a \o r) = Len(a) + Len(r) /\ a \o r \in Seq(Chars)
          BY <2>5, <3>1, Concatenated, Zenon
        <5> QED
          BY <3>1, <5>1
      <4>2. (a \o r) \o b \in Seq(Chars) /\ Len((a \o r) \o b) = Len(a \o r) + Len(b)
        BY <3>2, <4>1, Concatenated, Zenon
      <4> QED
        BY <2>3, <2>9, <3>2, <3>3, <4>1, <4>2
  <2> HIDE DEF data
  <2>11. /\ g' \in [fname : Seq(Chars), fd : Nat, junk : Chars, data : Seq(Chars),
                   last : Nat, start : Nat, cnt : Nat]
         /\ g'.fd = g.fd /\ g'.last = g.last + Len(r) /\ g'.start = 0 /\ g'.cnt = Len(r)
         /\ g'.data = data
    <3>1. g' = [g EXCEPT !.data = data, !.last = g.last + Len(r), !.cnt = Len(r), !.start = 0]
      BY <1>3 DEF data
    <3>2. g.last + Len(r) \in Nat
      BY <2>3, <2>9
    <3> QED
      BY <2>2, <2>9, <2>10, <3>1, <3>2
  <2>12. TypeInv'
    BY <1>1, <1>3, <2>8, <2>11 DEF IInv, TypeInv, Pcs
  <2>13. FilesInv'
    BY <1>1, <1>3, <2>1, <2>7, <2>8, <2>10, <2>11 DEF FilesInv
  <2>14. BufferInv'
    <3>1. g.last + Len(r) >= 0 /\ Len(r) <= BufSize
      BY <2>3, <2>9
    <3> QED
      BY <1>3, <2>3, <2>9, <2>10, <2>11, <3>1 DEF BufferInv
  <2> QED
    BY <2>12, <2>13, <2>14 DEF IInv
<1> QED
  BY <1>1, <1>2, <1>3

\* The end of a line lies in the text that was read.
LEMMA LineEndRight ==
    ASSUME IInv, pc = "grepline"
    PROVE  /\ LineEnd \in Nat /\ g.start <= LineEnd /\ LineEnd <= g.last
           /\ g.last <= BufSize /\ BufSize \in Nat /\ g.start \in Nat /\ g.last \in Nat
<1> DEFINE S == {i \in g.start .. g.last : i = g.last \/ g.data[i + 1] = Newline}
<1>1. /\ g.start \in Nat /\ g.last \in Nat /\ g.start <= g.last /\ g.last <= BufSize
      /\ BufSize \in Nat
  BY Sizes DEF IInv, TypeInv, BufferInv
<1>2. S \in SUBSET Nat /\ g.last \in S
  BY <1>1
<1>3. LineEnd \in S
  <2>1. Min(S) \in S
    BY <1>2, MinRight, Zenon
  <2> QED
    BY <2>1, Zenon DEF LineEnd
<1> QED
  BY <1>1, <1>3

\* A step of grep over the lines in its buffer.
LEMMA LineStepRight ==
    ASSUME IInv, UNCHANGED <<image, prog, fds, fd, status>>, pc = "grepline",
           pc' \in {"grepread", "grepline", "grepclose"},
           NEW data \in Seq(Chars), Len(data) = BufSize + 1,
           NEW last \in Nat, NEW start \in Nat, last <= BufSize, start <= BufSize + 1,
           g' = [g EXCEPT !.data = data, !.last = last, !.start = start],
           pc' = "grepline" => start <= last
    PROVE  IInv'
<1>1. g \in [fname : Seq(Chars), fd : Nat, junk : Chars, data : Seq(Chars),
             last : Nat, start : Nat, cnt : Nat]
  BY DEF IInv, TypeInv
<1>2. /\ g' \in [fname : Seq(Chars), fd : Nat, junk : Chars, data : Seq(Chars),
                 last : Nat, start : Nat, cnt : Nat]
      /\ g'.fd = g.fd /\ g'.last = last /\ g'.start = start /\ g'.cnt = g.cnt /\ g'.data = data
  BY <1>1
<1>3. TypeInv'
  BY <1>2 DEF IInv, TypeInv, Pcs
<1>4. FilesInv'
  BY <1>2 DEF IInv, FilesInv
<1>5. BufferInv'
  BY <1>2 DEF IInv, BufferInv
<1> QED
  BY <1>3, <1>4, <1>5 DEF IInv

\* The rest of the buffer moves to its front.
LEMMA GrepCarryRight == IInv /\ GrepCarry => IInv'
<1> SUFFICES ASSUME IInv, GrepCarry PROVE IInv'
  OBVIOUS
<1>1. /\ pc = "grepline" /\ pc' = "grepread" /\ UNCHANGED <<image, prog, fds, fd, status>>
      /\ g' = [g EXCEPT !.data = Carried, !.last = @ - g.start] /\ g.start # 0
  BY DEF GrepCarry, Incomplete
<1>2. /\ LineEnd \in Nat /\ g.start <= LineEnd /\ LineEnd <= g.last
      /\ g.last <= BufSize /\ BufSize \in Nat /\ g.start \in Nat /\ g.last \in Nat
  BY <1>1, LineEndRight
<1>3. Len(g.data) = BufSize + 1 /\ g.data \in Seq(Chars)
  BY <1>1 DEF IInv, FilesInv, TypeInv
<1> DEFINE data == [g.data EXCEPT ![LineEnd + 1] = Nul]
           s    == SubSeq(data, g.start + 1, Len(data))
           t    == SubSeq(s, 1, strlen(s))
           rest == Append(t, Nul)
           tail == SubSeq(data, Len(rest) + 1, Len(data))
<1>4. data \in Seq(Chars) /\ Len(data) = BufSize + 1
  BY <1>2, <1>3, NulRight
<1> HIDE DEF data
<1>5. s \in Seq(Chars) /\ Len(s) = BufSize + 1 - g.start
  BY <1>2, <1>4
<1> HIDE DEF s
<1>6. strlen(s) \in 0 .. Len(s)
  BY <1>5, StrlenRight
<1>7. t \in Seq(Chars) /\ Len(t) = strlen(s)
  BY <1>5, <1>6
<1> HIDE DEF t
<1>8. rest \in Seq(Chars) /\ Len(rest) = strlen(s) + 1
  <2>1. rest \in Seq(Chars) /\ Len(rest) = Len(t) + 1
    BY <1>7, NulRight, Appended, Zenon
  <2> QED
    BY <1>7, <2>1
<1>9. Len(rest) \in Nat /\ Len(rest) <= BufSize + 1
  BY <1>1, <1>2, <1>5, <1>6, <1>8
<1> HIDE DEF rest
<1>10. tail \in Seq(Chars) /\ Len(tail) = BufSize + 1 - Len(rest)
  BY <1>2, <1>4, <1>9
<1> HIDE DEF tail
<1>11. Carried = rest \o tail
  BY DEF Carried, StringAt, rest, tail, t, s, data
<1>12. rest \o tail \in Seq(Chars) /\ Len(rest \o tail) = BufSize + 1
  BY <1>2, <1>8, <1>9, <1>10
<1>13. g.last - g.start \in Nat /\ g.last - g.start <= BufSize
  BY <1>2
<1>14. g' = [g EXCEPT !.data = Carried, !.last = g.last - g.start, !.start = g.start]
  BY <1>1 DEF IInv, TypeInv
<1> QED
  <2>1. Carried \in Seq(Chars) /\ Len(Carried) = BufSize + 1
    BY <1>11, <1>12, Zenon
  <2>2. g.start <= BufSize + 1
    BY <1>2
  <2> QED
    BY <1>1, <1>2, <1>13, <1>14, <2>1, <2>2, LineStepRight

LEMMA GrepLineRight == IInv /\ GrepLine => IInv'
<1> SUFFICES ASSUME IInv, GrepLine PROVE IInv'
  OBVIOUS
<1> DEFINE end  == LineEnd
           data == [g.data EXCEPT ![end + 1] = Nul]
           done == end + 1 >= g.last
           last == IF done THEN 0 ELSE g.last
<1>1. /\ pc = "grepline" /\ UNCHANGED <<image, prog, fds, fd, status>>
      /\ g' = [g EXCEPT !.data = data, !.start = end + 1, !.last = IF done THEN 0 ELSE @]
      /\ pc' = IF ~done THEN "grepline" ELSE IF g.cnt = 0 THEN "grepclose" ELSE "grepread"
  BY DEF GrepLine
<1>2. /\ end \in Nat /\ g.start <= end /\ end <= g.last
      /\ g.last <= BufSize /\ BufSize \in Nat /\ g.start \in Nat /\ g.last \in Nat
  BY <1>1, LineEndRight
<1>3. Len(g.data) = BufSize + 1 /\ g.data \in Seq(Chars)
  BY <1>1 DEF IInv, FilesInv, TypeInv
<1>4. data \in Seq(Chars) /\ Len(data) = BufSize + 1
  <2>1. end + 1 \in 1 .. Len(g.data)
    BY <1>2, <1>3
  <2> HIDE DEF end
  <2> QED
    BY <1>3, <2>1, NulRight
<1>5. g' = [g EXCEPT !.data = data, !.last = last, !.start = end + 1]
  BY <1>1 DEF IInv, TypeInv
<1>6. end + 1 \in Nat /\ end + 1 <= BufSize + 1
  BY <1>2
<1>7. last \in Nat /\ last <= BufSize
  BY <1>2
<1>8. pc' \in {"grepread", "grepline", "grepclose"} /\ (pc' = "grepline" => end + 1 <= last)
  BY <1>1, <1>2
<1> HIDE DEF end, data, done, last
<1> QED
  BY <1>1, <1>4, <1>5, <1>6, <1>7, <1>8, LineStepRight

LEMMA GrepCloseRight == IInv /\ GrepClose => IInv'
<1> SUFFICES ASSUME IInv, GrepClose PROVE IInv'
  OBVIOUS
<1>1. /\ pc = "grepclose" /\ pc' = "grep" /\ UNCHANGED <<image, prog, fd, status, g>>
      /\ fds' = [fds EXCEPT ![g.fd] = NoFile]
  BY DEF GrepClose, Closed
<1>2. fd \in Fds /\ fds[fd].kind # "free" /\ g.fd \in Fds /\ g.fd # fd
  BY <1>1 DEF IInv, FilesInv
<1>3. NoFile \in Descriptors /\ NoFile.kind # "file"
  BY DEF NoFile, Descriptors, Kinds
<1>4. /\ fds' \in [Fds -> Descriptors]
      /\ \A m \in Fds : fds'[m].kind = "file" => fds'[m].inode \in 1 .. Len(image'.content)
      /\ fds'[fd] = fds[fd]
  BY <1>1, <1>2, <1>3, FdsUpdate DEF IInv
<1>5. TypeInv'
  BY <1>1, <1>4 DEF IInv, TypeInv, Pcs
<1>6. FilesInv'
  BY <1>1, <1>2, <1>4 DEF FilesInv
<1>7. BufferInv'
  BY <1>1 DEF IInv, BufferInv
<1> QED
  BY <1>5, <1>6, <1>7 DEF IInv

-----------------------------------------------------------------------------
(* The theorems                                                            *)

LEMMA StepRight == IInv /\ [Next]_vars => IInv'
<1> SUFFICES ASSUME IInv, [Next]_vars PROVE IInv'
  OBVIOUS
<1>1. CASE ShellRead
  BY <1>1, ShellReadRight
<1>2. CASE Execute \/ ShellReport \/ ShellStart
  BY <1>2, ExecuteRight, ShellReportRight
<1>3. CASE CatStart \/ DirStart
  BY <1>3, StartRight
<1>4. CASE CatRead \/ LsRead
  BY <1>4, ReadsRight
<1>5. CASE Hello \/ Sigtest
  BY <1>5, OthersRight
<1>6. CASE GrepEntry \/ GrepRead \/ GrepCarry \/ GrepLine \/ GrepClose
  BY <1>6, GrepEntryRight, GrepReadRight, GrepCarryRight, GrepLineRight, GrepCloseRight
<1>7. CASE UNCHANGED vars
  <2>1. UNCHANGED <<image, prog, pc, fds, fd, status, g>>
    BY <1>7 DEF vars
  <2> QED
    BY <2>1, QuietRight
<1> QED
  BY <1>1, <1>2, <1>3, <1>4, <1>5, <1>6, <1>7 DEF Next, Run

\* The inductive invariant: types, the descriptors a program keeps between its system
\* calls, and the indices of grep.
THEOREM Invariance == Spec => []IInv
<1>1. Init => IInv
  BY InitRight
<1>2. IInv /\ [Next]_vars => IInv'
  BY StepRight
<1> QED
  BY <1>1, <1>2, PTL DEF Spec

LEMMA PidsRight == NumPids \in Nat /\ NumPids > 0
<1>1. NumPids \in Nat \ {0}
  BY ProgramsAssumption, Zenon
<1> QED
  BY <1>1

\* Only a shell that starts or exits changes their number, and execute starts
\* a program only if a pid is left.
LEMMA ShellsStep == ShellsInv /\ [Next]_vars => ShellsInv'
<1> SUFFICES ASSUME ShellsInv, [Next]_vars PROVE ShellsInv'
  OBVIOUS
<1> DEFINE InShell(p) == p \in {"prompt", "execute", "report"}
<1>1. CASE ShellRead
  <2>1. \/ shells' = shells
        \/ shells' = shells - 1 /\ shells > 1
    BY <1>1, Zenon DEF ShellRead
  <2>2. pc' = "execute" \/ pc' = pc \/ pc' = "report"
    BY <1>1, Zenon DEF ShellRead, Halt
  <2>3. pc = "prompt"
    BY <1>1 DEF ShellRead
  <2> QED
    BY <2>1, <2>2, <2>3, PidsRight DEF ShellsInv
<1>2. CASE Execute
  <2>1. \E others \in 0 .. NumPids - shells : shells + others # NumPids \/ pc' = "report"
    BY <1>2, Zenon DEF Execute
  <2>2. shells' = shells
    BY <1>2, Zenon DEF Execute
  <2> QED
    BY <2>1, <2>2, PidsRight DEF ShellsInv
<1>3. CASE ShellStart
  <2>1. shells' = shells + 1 /\ pc = "start" /\ pc' = "prompt"
    BY <1>3, Zenon DEF ShellStart
  <2> QED
    BY <2>1, PidsRight DEF ShellsInv
<1>4. CASE UNCHANGED vars
  <2>1. shells' = shells /\ pc' = pc
    BY <1>4 DEF vars
  <2> QED
    BY <2>1 DEF ShellsInv
<1>5. CASE Run /\ ~Execute /\ ~ShellStart
  <2>1. shells' = shells
    BY <1>5, Zenon DEF Run, ShellReport, CatStart, CatRead, DirStart, LsRead, Hello, Sigtest,
       GrepEntry, GrepRead, GrepCarry, GrepLine, GrepClose
  <2>2. InShell(pc') \/ ~InShell(pc)
    <3>1. CASE ShellReport
      BY <3>1, Zenon DEF ShellReport
    <3>2. CASE ~ShellReport
      <4>1. pc \in {"start", "catread", "ls", "grep", "grepread", "grepline", "grepclose"}
        BY <1>5, <3>2, Zenon DEF Run, CatStart, CatRead, DirStart, LsRead, Hello, Sigtest,
           GrepEntry, GrepRead, GrepCarry, GrepLine, GrepClose
      <4> QED
        BY <4>1
    <3> QED
      BY <3>1, <3>2
  <2> QED
    BY <2>1, <2>2 DEF ShellsInv
<1> QED
  BY <1>1, <1>2, <1>3, <1>4, <1>5 DEF Next

\* For every image, command and size of the buffer: grep's indices stay within its array
\* without a check of its own, and a program never reads a descriptor it has not open.
THEOREM BuffersAreHeld == Spec => []BuffersHold
<1>1. IInv /\ ShellsInv => BuffersHold
  <2> SUFFICES ASSUME IInv, ShellsInv PROVE BuffersHold
    OBVIOUS
  <2>1. g.last \in Nat /\ g.start \in Nat /\ g.cnt \in Nat
    BY DEF IInv, TypeInv
  <2>2. g.last \in 0 .. BufSize /\ g.start \in 0 .. BufSize + 1 /\ g.cnt \in 0 .. BufSize
    BY <2>1, Sizes DEF IInv, BufferInv
  <2> QED
    BY <2>2, Zenon DEF IInv, TypeInv, FilesInv, BufferInv, ShellsInv, BuffersHold
<1>2. Init => ShellsInv
  BY PidsRight DEF Init, ShellsInv
<1>3. ShellsInv /\ [Next]_vars => ShellsInv'
  BY ShellsStep
<1> QED
  BY <1>1, <1>2, <1>3, Invariance, PTL DEF Spec

-----------------------------------------------------------------------------
(* What the shell starts                                                    *)

\* A sequence cut twice; sequences with the same elements.
LEMMA CutTwice ==
    \A s \in Seq(Chars), m, n \in Nat : n <= m /\ m <= Len(s) =>
        SubSeq(SubSeq(s, 1, m), 1, n) = SubSeq(s, 1, n)
OBVIOUS

LEMMA Whole == \A s \in Seq(Chars) : SubSeq(s, 1, Len(s)) = s
OBVIOUS

LEMMA Empty == \A s \in Seq(Chars), m \in Nat : m > Len(s) => SubSeq(s, m, Len(s)) = <<>>
OBVIOUS

LEMMA SameElements ==
    \A s, t \in Seq(Chars) : Len(s) = Len(t) /\ (\A i \in 1 .. Len(s) : s[i] = t[i]) => s = t
OBVIOUS

\* At most NameLen characters of a name count.
LEMMA CutRight ==
    ASSUME NEW s \in Seq(Chars)
    PROVE  /\ Cut(s) \in Seq(Chars) /\ Len(Cut(s)) = Min({Len(s), NameLen})
           /\ Len(Cut(s)) \in Nat /\ Len(Cut(s)) <= Len(s) /\ Len(Cut(s)) <= NameLen
           /\ \A i \in 1 .. Len(Cut(s)) : Cut(s)[i] = s[i]
           /\ Len(s) <= NameLen => Cut(s) = s
<1> DEFINE n == Min({Len(s), NameLen})
<1>1. Len(s) \in Nat /\ NameLen \in Nat
  BY Sizes
<1>2. n \in Nat /\ n = IF Len(s) <= NameLen THEN Len(s) ELSE NameLen
  BY <1>1, MinOfTwo, Zenon
<1>3. Cut(s) = SubSeq(s, 1, n)
  BY Zenon DEF Cut
<1> HIDE DEF n
<1>4. n <= Len(s) /\ n <= NameLen /\ (Len(s) <= NameLen => n = Len(s))
  BY <1>1, <1>2
<1>5. \A k \in Nat : k <= Len(s) => /\ SubSeq(s, 1, k) \in Seq(Chars) /\ Len(SubSeq(s, 1, k)) = k
                                  /\ \A i \in 1 .. k : SubSeq(s, 1, k)[i] = s[i]
                                  /\ k = Len(s) => SubSeq(s, 1, k) = s
  BY <1>1
<1>6. /\ Cut(s) \in Seq(Chars) /\ Len(Cut(s)) = n /\ \A i \in 1 .. n : Cut(s)[i] = s[i]
      /\ n = Len(s) => Cut(s) = s
  <2>1. /\ SubSeq(s, 1, n) \in Seq(Chars) /\ Len(SubSeq(s, 1, n)) = n
        /\ \A i \in 1 .. n : SubSeq(s, 1, n)[i] = s[i]
        /\ n = Len(s) => SubSeq(s, 1, n) = s
    BY <1>2, <1>4, <1>5
  <2> QED
    BY <1>3, <2>1
<1> QED
  BY <1>2, <1>4, <1>6 DEF n

\* A name without a NUL is compared with another one as far as it counts.
LEMMA NameFits ==
    ASSUME NEW s \in Seq(Chars), NEW t \in Seq(Chars),
           \A i \in 1 .. Len(s) : s[i] # Nul, \A i \in 1 .. Len(t) : t[i] # Nul
    PROVE  LET len == Min({strlen(s), NameLen})
           IN  Same(s, t, len) /\ strlen(t) = len <=> t = Cut(s)
<1> DEFINE len == Min({strlen(s), NameLen})
           c == Cut(s)
<1>1. strlen(s) = Len(s) /\ strlen(t) = Len(t) /\ Len(s) \in Nat /\ Len(t) \in Nat
  <2>1. strlen(s) = Len(s) /\ strlen(t) = Len(t)
    BY StrlenRight, Zenon
  <2> QED
    BY <2>1
<1>2. /\ c \in Seq(Chars) /\ Len(c) = len /\ len \in Nat /\ len <= Len(s)
      /\ \A i \in 1 .. len : c[i] = s[i]
  <2>1. len = Min({Len(s), NameLen})
    BY <1>1
  <2>2. /\ c \in Seq(Chars) /\ Len(c) = Min({Len(s), NameLen})
        /\ Len(c) \in Nat /\ Len(c) <= Len(s) /\ \A i \in 1 .. Len(c) : c[i] = s[i]
    BY CutRight, Zenon
  <2> HIDE DEF len, c
  <2>3. Len(c) = len
    BY <2>1, <2>2, Zenon
  <2> QED
    BY <2>2, <2>3, Zenon
<1> HIDE DEF len, c
<1>3. Same(s, t, len) <=> \A i \in 1 .. len : At(s, i) = At(t, i)
  <2>1. \A i \in 1 .. len : At(s, i) # Nul
    BY <1>1, <1>2 DEF At
  <2> QED
    BY <1>2, <2>1, SameRight, Zenon
<1>4. Len(t) = len => ((\A i \in 1 .. len : At(s, i) = At(t, i)) <=> \A i \in 1 .. len : c[i] = t[i])
  BY <1>1, <1>2 DEF At
<1>5. (Len(t) = len /\ \A i \in 1 .. len : c[i] = t[i]) <=> t = c
  BY <1>2, SameElements, Zenon
<1> QED
  <2>1. Same(s, t, len) /\ Len(t) = len <=> t = c
    BY <1>3, <1>4, <1>5, Zenon
  <2> QED
    BY <1>1, <2>1, Zenon DEF len, c

\* The entry found for a name is the one with that name.
LEMMA NameFound ==
    ASSUME NEW img \in Images, NEW s \in Seq(Chars), \A i \in 1 .. Len(s) : s[i] # Nul
    PROVE  LET i == read_dentry_by_name(img.dentries, s)
           IN  /\ i # 0 => i \in 1 .. Len(img.dentries) /\ img.dentries[i].name = Cut(s)
               /\ \A j \in 1 .. Len(img.dentries) : img.dentries[j].name = Cut(s) => i = j
<1> DEFINE dentries == img.dentries
           i == read_dentry_by_name(dentries, s)
           len == Min({strlen(s), NameLen})
           Passes(j) == Same(s, dentries[j].name, len) /\ strlen(dentries[j].name) = len
<1>1. /\ dentries \in Dentries
      /\ \A j \in 1 .. Len(dentries) :
            /\ \A k \in 1 .. Len(dentries[j].name) : dentries[j].name[k] # Nul
            /\ \A k \in 1 .. Len(dentries) : dentries[k].name = dentries[j].name => k = j
  BY ImageRight, Zenon DEF WellFormed
<1>2. \A j \in 1 .. Len(dentries) : dentries[j].name \in Seq(Chars)
  <2> TAKE j \in 1 .. Len(dentries)
  <2>1. dentries[j] \in DirEntry
    BY <1>1 DEF Dentries
  <2> QED
    BY <2>1 DEF DirEntry
<1>3. \A j \in 1 .. Len(dentries) : Passes(j) <=> dentries[j].name = Cut(s)
  <2> TAKE j \in 1 .. Len(dentries)
  <2> QED
    BY <1>1, <1>2, NameFits, Zenon
<1>4. /\ i \in 0 .. Len(dentries)
      /\ i # 0 => Passes(i)
      /\ i = 0 => \A j \in 1 .. Len(dentries) : ~Passes(j)
  BY <1>1, SelectedEntry, Zenon
<1>5. i # 0 => i \in 1 .. Len(dentries)
  BY <1>1, <1>4 DEF Dentries
<1> HIDE DEF dentries, i, Passes
<1>6. i # 0 => dentries[i].name = Cut(s)
  BY <1>3, <1>4, <1>5, Zenon
<1>7. ASSUME NEW j \in 1 .. Len(dentries), dentries[j].name = Cut(s) PROVE i = j
  BY <1>1, <1>3, <1>4, <1>5, <1>6, <1>7, Zenon
<1> QED
  BY <1>5, <1>6, <1>7, Zenon DEF i, dentries

\* The name of a command is its first word, cut off at NameLen; what follows the space are
\* the arguments, unless the name leaves no room for a terminator.
LEMMA ParsedRight ==
    ASSUME line \in Seq(Chars), \A i \in 1 .. Len(line) : line[i] # Nul, NEW leftover
    PROVE  LET command == Parsed(line, leftover)
           IN  /\ command.name = Cut(Word) /\ command.name \in Seq(Chars)
               /\ Len(command.name) <= NameLen
               /\ \A i \in 1 .. Len(command.name) : command.name[i] # Nul
               /\ Len(Word) < NameLen => command.args = Rest
<1> DEFINE S == {i \in 1 .. NameLen : At(line, i) \in {Nul, Space}}
           command == Parsed(line, leftover)
           L == Len(line)
<1>1. L \in Nat /\ NameLen \in Nat /\ NameLen > 0
  BY Sizes
<1>2. \/ Ends = {} /\ Word = line /\ Rest = <<>>
      \/ /\ Ends # {} /\ Min(Ends) \in 1 .. L /\ line[Min(Ends)] = Space
         /\ \A i \in 1 .. Min(Ends) - 1 : line[i] # Space
         /\ Word = SubSeq(line, 1, Min(Ends) - 1) /\ Rest = SubSeq(line, Min(Ends) + 1, L)
  <2>1. CASE Ends = {}
    BY <2>1, Zenon DEF Word, Rest
  <2>2. CASE Ends # {}
    <3>1. Ends \in SUBSET Nat
      BY DEF Ends
    <3>2. Min(Ends) \in Ends /\ \A y \in Ends : Min(Ends) <= y
      BY <2>2, <3>1, MinRight, Zenon
    <3>3. \A m \in Ends : (\A y \in Ends : m <= y) =>
             m \in 1 .. L /\ line[m] = Space /\ \A i \in 1 .. m - 1 : line[i] # Space
      BY <1>1 DEF Ends
    <3> QED
      BY <2>2, <3>2, <3>3, Zenon DEF Word, Rest
  <2> QED
    BY <2>1, <2>2
<1>3. Word \in Seq(Chars) /\ Len(Word) <= L /\ (\A i \in 1 .. Len(Word) : line[i] # Space)
      /\ Word = SubSeq(line, 1, Len(Word))
  <2>1. CASE Ends = {} /\ Word = line
    BY <2>1, Whole DEF Ends
  <2>2. CASE /\ Min(Ends) \in 1 .. L
             /\ \A i \in 1 .. Min(Ends) - 1 : line[i] # Space
             /\ Word = SubSeq(line, 1, Min(Ends) - 1)
    <3>1. \A m \in 1 .. L : /\ SubSeq(line, 1, m - 1) \in Seq(Chars)
                            /\ Len(SubSeq(line, 1, m - 1)) = m - 1 /\ m - 1 <= L
      BY <1>1
    <3> QED
      BY <2>2, <3>1, Zenon
  <2> QED
    BY <1>2, <2>1, <2>2, Zenon
<1>4. Len(Word) \in Nat /\ Cut(Word) = SubSeq(line, 1, IF Len(Word) <= NameLen THEN Len(Word) ELSE NameLen)
  <2>1. Len(Word) \in Nat
    BY <1>3
  <2>2. Cut(Word) = SubSeq(Word, 1, IF Len(Word) <= NameLen THEN Len(Word) ELSE NameLen)
    BY <1>1, <2>1, MinOfTwo, Zenon DEF Cut
  <2> DEFINE n == IF Len(Word) <= NameLen THEN Len(Word) ELSE NameLen
  <2>3. n \in Nat /\ n <= Len(Word) /\ Len(Word) <= Len(line)
    BY <1>1, <1>3, <2>1
  <2> HIDE DEF n
  <2>4. SubSeq(SubSeq(line, 1, Len(Word)), 1, n) = SubSeq(line, 1, n)
    BY <2>1, <2>3, CutTwice, Zenon
  <2> QED
    BY <1>3, <2>1, <2>2, <2>4, Zenon DEF n
<1>5. CASE S = {}
  <2>1. command = [name |-> SubSeq(line, 1, NameLen), args |-> leftover]
    BY <1>5, Zenon DEF Parsed
  <2>2. \A i \in 1 .. NameLen : At(line, i) # Nul /\ At(line, i) # Space
    BY <1>5
  <2>3. NameLen <= L /\ \A i \in 1 .. NameLen : line[i] # Space
    <3>1. At(line, NameLen) # Nul
      BY <1>1, <2>2
    <3>2. NameLen <= L
      BY <1>1, <3>1 DEF At
    <3> QED
      BY <1>1, <2>2, <3>2 DEF At
  <2>4. NameLen <= Len(Word)
    <3>1. CASE Word = line
      BY <2>3, <3>1
    <3>2. CASE Word # line
      <4>1. Min(Ends) \in 1 .. L /\ line[Min(Ends)] = Space /\ Word = SubSeq(line, 1, Min(Ends) - 1)
        BY <1>2, <3>2, Zenon
      <4>2. \A m \in 1 .. L : line[m] = Space => Len(SubSeq(line, 1, m - 1)) >= NameLen
        BY <1>1, <2>3
      <4> QED
        BY <1>1, <1>4, <4>1, <4>2
    <3> QED
      BY <3>1, <3>2
  <2>5. Cut(Word) = SubSeq(line, 1, NameLen)
    <3>1. (IF Len(Word) <= NameLen THEN Len(Word) ELSE NameLen) = NameLen
      BY <1>1, <1>4, <2>4
    <3> QED
      BY <1>4, <3>1, Zenon
  <2>6. ~(Len(Word) < NameLen)
    BY <1>1, <1>4, <2>4
  <2>7. /\ SubSeq(line, 1, NameLen) \in Seq(Chars) /\ Len(SubSeq(line, 1, NameLen)) = NameLen
        /\ \A i \in 1 .. NameLen : SubSeq(line, 1, NameLen)[i] # Nul
    BY <1>1, <2>3
  <2> QED
    BY <1>1, <2>1, <2>5, <2>6, <2>7
<1>6. CASE S # {}
  <2> DEFINE m == Min(S)
  <2>1. S \in SUBSET Nat
    BY <1>1
  <2>2. m \in S /\ \A y \in S : m <= y
    BY <1>6, <2>1, MinRight, Zenon
  <2>3. command = [name |-> SubSeq(line, 1, m - 1), args |-> SubSeq(line, m + 1, L)]
    BY <1>6, Zenon DEF Parsed
  <2>4. \A k \in S : (\A y \in S : k <= y) =>
            /\ k \in 1 .. NameLen /\ k <= L + 1 /\ (k <= L => line[k] = Space)
            /\ \A i \in 1 .. k - 1 : line[i] # Space
    <3> TAKE k \in S
    <3> HAVE \A y \in S : k <= y
    <3>1. k \in 1 .. NameLen /\ At(line, k) \in {Nul, Space}
      OBVIOUS
    <3>2. k <= L + 1
      <4>1. L + 1 <= NameLen => L + 1 \in S
        BY <1>1 DEF At
      <4> HIDE DEF S
      <4> QED
        BY <1>1, <3>1, <4>1
    <3>3. k <= L => line[k] = Space
      BY <1>1, <3>1 DEF At
    <3>4. \A i \in 1 .. k - 1 : line[i] # Space
      <4> SUFFICES ASSUME NEW i \in 1 .. k - 1, line[i] = Space PROVE FALSE
        OBVIOUS
      <4>1. i \in S
        BY <1>1, <3>1, <3>2 DEF At
      <4>2. k <= i
        BY <4>1
      <4> QED
        BY <3>1, <4>2
    <3> QED
      BY <3>1, <3>2, <3>3, <3>4
  <2>5. /\ m \in 1 .. NameLen /\ m <= L + 1 /\ (m <= L => line[m] = Space)
        /\ \A i \in 1 .. m - 1 : line[i] # Space
    BY <2>2, <2>4, Zenon
  <2> HIDE DEF m
  <2>6. Len(Word) = m - 1 /\ Rest = SubSeq(line, m + 1, L)
    <3>1. CASE Ends = {} /\ Word = line /\ Rest = <<>>
      <4>1. m > L
        BY <1>1, <2>5, <3>1 DEF Ends
      <4>2. SubSeq(line, m + 1, L) = <<>>
        <5>1. m + 1 \in Nat /\ m + 1 > L
          BY <1>1, <2>5, <4>1
        <5> QED
          BY <5>1, Empty, Zenon
      <4> QED
        BY <1>1, <2>5, <3>1, <4>1, <4>2
    <3>2. CASE /\ Ends # {} /\ Min(Ends) \in 1 .. L /\ line[Min(Ends)] = Space
               /\ \A i \in 1 .. Min(Ends) - 1 : line[i] # Space
               /\ Word = SubSeq(line, 1, Min(Ends) - 1) /\ Rest = SubSeq(line, Min(Ends) + 1, L)
      <4> DEFINE e == Min(Ends)
      <4> HIDE DEF e
      <4>1. e \in 1 .. L /\ line[e] = Space /\ \A i \in 1 .. e - 1 : line[i] # Space
        BY <3>2 DEF e
      <4>2. e = m
        <5>1. ~(e < m)
          BY <1>1, <2>5, <4>1
        <5>2. ~(m < e)
          BY <1>1, <2>5, <4>1
        <5> QED
          BY <1>1, <2>5, <4>1, <5>1, <5>2
      <4>3. Word = SubSeq(line, 1, m - 1) /\ Rest = SubSeq(line, m + 1, L)
        BY <3>2, <4>2 DEF e
      <4>4. Len(SubSeq(line, 1, m - 1)) = m - 1
        BY <1>1, <2>5, <4>1, <4>2
      <4> QED
        BY <4>3, <4>4
    <3> QED
      BY <1>2, <3>1, <3>2, Zenon
  <2>7. Cut(Word) = SubSeq(line, 1, m - 1)
    <3>1. (IF Len(Word) <= NameLen THEN Len(Word) ELSE NameLen) = m - 1
      BY <1>1, <2>5, <2>6
    <3> QED
      BY <1>4, <3>1, Zenon
  <2>8. /\ SubSeq(line, 1, m - 1) \in Seq(Chars) /\ Len(SubSeq(line, 1, m - 1)) = m - 1
        /\ m - 1 <= NameLen /\ \A i \in 1 .. m - 1 : SubSeq(line, 1, m - 1)[i] # Nul
    BY <1>1, <2>5
  <2> DEFINE name == SubSeq(line, 1, m - 1)
  <2> HIDE DEF name, command
  <2>9. command.name = name /\ command.args = Rest
    BY <2>3, <2>6 DEF name
  <2>10. /\ name \in Seq(Chars) /\ Len(name) <= NameLen
         /\ \A i \in 1 .. Len(name) : name[i] # Nul
    BY <2>5, <2>8 DEF name
  <2> QED
    BY <2>7, <2>9, <2>10, Zenon DEF name, command
<1> QED
  BY <1>5, <1>6

-----------------------------------------------------------------------------
\* What execute starts, or refuses to start.
LEMMA ExecuteAsTyped ==
    ASSUME IInv, LineInv, Execute
    PROVE  StartedAsTyped'
<1>1. /\ pc = "execute" /\ image' = image /\ line' = line /\ image \in Images
      /\ line \in Seq(Chars) /\ \A i \in 1 .. Len(line) : line[i] # Nul
  BY DEF Execute, LineInv, IInv, TypeInv
<1>2. PICK leftover \in Leftovers, others \in 0 .. NumPids - shells :
         LET command == Parsed(line, leftover)
             i     == read_dentry_by_name(image.dentries, command.name)
             found == /\ i # 0
                      /\ image.dentries[i].type = 2
                      /\ Executable(image.content[image.dentries[i].inode])
             full  == shells + others = NumPids
         IN  /\ IF found /\ ~full
                THEN /\ prog' = image.content[image.dentries[i].inode][2]
                     /\ args' = command.args
                     /\ pc' = "start" /\ status' = 0
                ELSE status' = -1 /\ pc' = "report" /\ UNCHANGED <<prog, args>>
             /\ out' = IF found /\ full THEN <<"Too many processes">> ELSE <<>>
  BY Zenon DEF Execute
<1> DEFINE command == Parsed(line, leftover)
           i     == read_dentry_by_name(image.dentries, command.name)
<1>3. /\ command.name = Cut(Word) /\ command.name \in Seq(Chars)
      /\ Len(command.name) <= NameLen
      /\ \A k \in 1 .. Len(command.name) : command.name[k] # Nul
      /\ Len(Word) < NameLen => command.args = Rest
  BY <1>1, ParsedRight, Zenon
<1>4. /\ i # 0 => i \in 1 .. Len(image.dentries) /\ image.dentries[i].name = Cut(Word)
      /\ \A j \in 1 .. Len(image.dentries) : image.dentries[j].name = Cut(Word) => i = j
  <2>1. Cut(command.name) = Cut(Word)
    BY <1>3, CutRight, Zenon
  <2>2. /\ i # 0 => i \in 1 .. Len(image.dentries) /\ image.dentries[i].name = Cut(command.name)
        /\ \A j \in 1 .. Len(image.dentries) : image.dentries[j].name = Cut(command.name) => i = j
    BY <1>1, <1>3, NameFound, ZenonT(40)
  <2> QED
    BY <2>1, <2>2, Zenon
<1>5. i # 0 /\ image.dentries[i].type = 2 /\ Executable(image.content[image.dentries[i].inode])
        <=> Typed # {}
  <2>1. ASSUME NEW j \in Typed PROVE i = j
    BY <1>4, <2>1, Zenon DEF Typed, Files
  <2>2. 0 \notin 1 .. Len(image.dentries)
    OBVIOUS
  <2>3. ASSUME NEW j \in Typed
        PROVE j # 0 /\ image.dentries[j].type = 2 /\ Executable(image.content[image.dentries[j].inode])
    BY <2>2, <2>3, Zenon DEF Typed, Files
  <2>4. ASSUME i # 0, image.dentries[i].type = 2, Executable(image.content[image.dentries[i].inode])
        PROVE  i \in Typed
    BY <1>4, <2>4, Zenon DEF Typed, Files
  <2> HIDE DEF i
  <2> QED
    BY <2>1, <2>3, <2>4, Zenon
<1>6. i # 0 => image.dentries[i].name = Cut(Word) /\ (Typed # {} => i \in Typed)
  BY <1>4, <1>5, Zenon DEF Typed, Files
<1>7. Typed' = Typed /\ Word' = Word /\ Rest' = Rest
  <2>1. Ends' = Ends
    BY <1>1, Zenon DEF Ends
  <2>2. Word' = Word /\ Rest' = Rest
    BY <1>1, <2>1, Zenon DEF Word, Rest
  <2>3. Files' = Files /\ Cut(Word)' = Cut(Word)
    BY <1>1, <2>2, Zenon DEF Files, Cut
  <2> QED
    BY <1>1, <2>2, <2>3, Zenon DEF Typed
<1>8. CASE Typed # {} /\ shells + others # NumPids
  <2>1. /\ prog' = image.content[image.dentries[i].inode][2] /\ args' = command.args
        /\ pc' = "start"
    BY <1>2, <1>5, <1>8, Zenon
  <2>2. i \in Typed
    BY <1>5, <1>6, <1>8, Zenon
  <2> HIDE DEF i, command
  <2>3. \E k \in Typed : prog' = image.content[image.dentries[k].inode][2]
    BY <2>1, <2>2, Zenon
  <2>4. pc' # "report"
    BY <2>1
  <2> QED
    BY <1>1, <1>3, <1>7, <2>1, <2>3, <2>4, Zenon DEF StartedAsTyped, command
<1>10. CASE Typed # {} /\ shells + others = NumPids
  <2>1. pc' = "report" /\ out' = <<"Too many processes">>
    BY <1>2, <1>5, <1>10, Zenon
  <2>2. pc' # "start"
    BY <2>1
  <2> QED
    BY <2>1, <2>2, Zenon DEF StartedAsTyped
<1>9. CASE Typed = {}
  <2>1. pc' = "report"
    BY <1>2, <1>5, <1>9, Zenon
  <2>2. pc' # "start"
    BY <2>1
  <2> QED
    BY <1>7, <1>9, <2>2, Zenon DEF StartedAsTyped
<1> QED
  BY <1>8, <1>9, <1>10

\* No other step comes to where a program starts, or reports that there is no command.
LEMMA OthersStartNothing ==
    ASSUME Next, ~Execute
    PROVE  pc' # "start" /\ ~(pc' = "report" /\ status' = -1) /\ (pc' = "execute" => ShellRead)
<1> DEFINE Ended == (\E s \in {0, 2, 3} : Halt(s)) \/ pc' \notin {"start", "report", "execute"}
<1>1. CASE Ended
  <2>1. CASE \E s \in {0, 2, 3} : Halt(s)
    BY <2>1 DEF Halt
  <2> QED
    BY <1>1, <2>1
<1>2. Ended \/ ShellRead
  <2>1. ShellReport \/ ShellStart => Ended
    BY DEF ShellReport, ShellStart
  <2>2. CatStart => Ended
    BY Zenon DEF CatStart, HaltWith
  <2>3. DirStart => Ended
    BY Zenon DEF DirStart, HaltWith
  <2>4. CatRead \/ LsRead => Ended
    BY Zenon DEF CatRead, LsRead, HaltWith
  <2>5. Hello \/ Sigtest => Ended
    BY Zenon DEF Hello, Sigtest
  <2>6. GrepEntry => Ended
    BY Zenon DEF GrepEntry, HaltWith
  <2>7. GrepRead => Ended
    BY Zenon DEF GrepRead, HaltWith
  <2>8. GrepCarry \/ GrepClose => Ended
    BY Zenon DEF GrepCarry, GrepClose
  <2>9. GrepLine => pc' \in {"grepline", "grepclose", "grepread"}
    BY Zenon DEF GrepLine
  <2> QED
    BY <2>1, <2>2, <2>3, <2>4, <2>5, <2>6, <2>7, <2>8, <2>9 DEF Next, Run
<1>3. CASE ShellRead
  <2>1. pc' = pc \/ pc' = "execute" \/ Halt(0)
    BY <1>3, Zenon DEF ShellRead
  <2>2. pc = "prompt"
    BY <1>3 DEF ShellRead
  <2> QED
    BY <1>3, <2>1, <2>2 DEF Halt
<1> QED
  BY <1>1, <1>2, <1>3

LEMMA LineStep == IInv /\ LineInv /\ [Next]_vars => LineInv'
<1> SUFFICES ASSUME IInv, LineInv, [Next]_vars, pc' = "execute"
             PROVE  line' \in Seq(Chars) /\ \A i \in 1 .. Len(line') : line'[i] # Nul
  BY Zenon DEF LineInv
<1>1. CASE UNCHANGED vars
  <2>1. pc' = pc /\ line' = line
    BY <1>1 DEF vars
  <2> QED
    BY <2>1, Zenon DEF LineInv
<1>2. CASE Next
  <2>1. ~Execute
    BY DEF Execute
  <2>2. ShellRead
    BY <1>2, <2>1, OthersStartNothing
  <2>3. PICK l \in Lines(image) : line' = l
    <3>1. pc = "prompt"
      BY <2>2 DEF ShellRead
    <3>2. pc' # pc /\ pc' # "report"
      BY <3>1
    <3> QED
      BY <2>2, <3>2, Zenon DEF ShellRead, Halt
  <2>4. image \in Images
    BY DEF IInv, TypeInv
  <2> QED
    BY <2>3, <2>4, ProgramsAssumption, Zenon DEF IsString
<1> QED
  BY <1>1, <1>2

LEMMA StartStep == IInv /\ LineInv /\ StartedAsTyped /\ [Next]_vars => StartedAsTyped'
<1> SUFFICES ASSUME IInv, LineInv, StartedAsTyped, [Next]_vars PROVE StartedAsTyped'
  OBVIOUS
<1>1. CASE UNCHANGED vars
  <2>1. /\ image' = image /\ line' = line /\ prog' = prog /\ args' = args /\ pc' = pc
        /\ status' = status /\ out' = out
    BY <1>1 DEF vars
  <2>2. Ends' = Ends /\ Files' = Files
    BY <2>1, Zenon DEF Ends, Files
  <2>3. Word' = Word /\ Rest' = Rest
    BY <2>1, <2>2, Zenon DEF Word, Rest
  <2>4. Typed' = Typed
    BY <2>1, <2>2, <2>3, Zenon DEF Typed, Cut
  <2> QED
    BY <2>1, <2>3, <2>4, Zenon DEF StartedAsTyped
<1>2. CASE Execute
  BY <1>2, ExecuteAsTyped
<1>3. CASE Next /\ ~Execute
  BY <1>3, OthersStartNothing, Zenon DEF StartedAsTyped
<1> QED
  BY <1>1, <1>2, <1>3

\* For every image with distinct names and every line: the shell starts the program whose
\* name was typed, with the rest of the line, and says "no such command" only if there
\* is none or the kernel has said that there is no pid for it (the lookup by prefixes in
\* read_dentry_by_name never takes one name for another).
THEOREM StartsAsTyped == Spec => []StartedAsTyped
<1>1. Init => LineInv /\ StartedAsTyped
  BY DEF Init, LineInv, StartedAsTyped
<1>2. IInv /\ LineInv /\ [Next]_vars => LineInv'
  BY LineStep
<1>3. IInv /\ LineInv /\ StartedAsTyped /\ [Next]_vars => StartedAsTyped'
  BY StartStep
<1> QED
  BY <1>1, <1>2, <1>3, Invariance, PTL DEF Spec

-----------------------------------------------------------------------------
(* What the programs print                                                 *)

\* What the first k pieces of s make.
Upto(s, k) == FlattenSeq([i \in 1 .. k |-> s[i]])

\* The text that is read from a descriptor; the RTC has none.
TextOf(img, d) == IF d.kind = "file" THEN img.content[d.inode] ELSE <<>>
TextNow        == TextOf(image, fds[g.fd])

\* A program is started with a line as its arguments, and nothing open or printed.
StartInv ==
    /\ IsString(args)
    /\ pc = "start" => fds = AllFree /\ out = <<>>
    /\ pc = "prompt" => prog = "shell"

\* What cat and ls have printed is what they have read.
CatInv ==
    pc = "catread" =>
        /\ prog = "cat"
        /\ LET d == fds[fd]
           IN  \/ /\ d.kind = "file" /\ d.pos <= Len(image.content[d.inode])
                  /\ \E i \in Files : Cut(args) = Names[i] /\ d.inode = image.dentries[i].inode
                  /\ out = Upto(Kept(image.content[d.inode]), d.pos)
               \/ /\ d.kind = "dir" /\ d.pos <= Len(image.dentries)
                  /\ At(args, 1) = Dot /\ out = Upto(Names, d.pos)
               \/ d.kind = "rtc" /\ Same(RtcName, args, Len(RtcName)) /\ out = <<>>

LsInv ==
    pc = "ls" => /\ prog = "ls" /\ fds[fd].kind = "dir" /\ fds[fd].pos <= Len(image.dentries)
                 /\ out = Upto(NameLines, fds[fd].pos)

\* grep has its directory open, and the file of the entry read last.
EntryInv ==
    /\ pc \in {"grep", "grepread", "grepline", "grepclose"} =>
          prog = "grep" /\ fds[fd].kind = "dir" /\ fds[fd].pos <= Len(image.dentries)
    /\ pc = "grep" => \A n \in Fds \ {fd} : fds[n].kind = "free"
    /\ pc \in {"grepread", "grepline", "grepclose"} =>
          /\ \A n \in Fds \ {fd, g.fd} : fds[n].kind = "free"
          /\ fds[g.fd].kind # "dir" /\ fds[g.fd].pos <= Len(TextNow)
          /\ fds[fd].pos # 0 /\ g.fname = Names[fds[fd].pos]
          /\ InFiles(args)[fds[fd].pos] = FlattenSeq(InText(g.fname, TextNow, args))
          /\ AllTexts => IsText(TextNow)
    /\ pc = "grepread" => g.last < BufSize

\* The first s characters of a text end with a line, its newline included or not.
Boundary(text, s) == s = 0 \/ s = Len(text) \/ text[s] = Newline \/ text[s + 1] = Newline

\* The buffer holds the text before p, from the place first on; what is before that
\* has been searched and printed.
Buffered(text, p, first) ==
    /\ g.last <= p /\ g.data[BufSize + 1] # Newline
    /\ \A i \in first + 1 .. g.last : g.data[i] = text[p - g.last + i]
    /\ Boundary(text, p - g.last + first)
    /\ out = Upto(InFiles(args), fds[fd].pos - 1) \o Upto(InText(g.fname, text, args), p - g.last + first)

TextInv ==
    AllTexts /\ g.junk # Newline =>
        /\ pc \in {"grep", "grepclose"} => out = Upto(InFiles(args), fds[fd].pos)
        /\ pc = "grepread" => Buffered(TextNow, fds[g.fd].pos, 0)
        /\ pc = "grepline" => /\ Buffered(TextNow, fds[g.fd].pos, g.start)
                              /\ fds[g.fd].pos # Len(TextNow) => g.last = BufSize /\ g.cnt # 0

\* What is known of a state, apart from StartInv.
Printed == CatInv /\ LsInv /\ EntryInv /\ TextInv /\ OutputAsPromised

-----------------------------------------------------------------------------
(* Sequences put together                                                  *)

\* A set of numbers that has 0 and, with every number, the next one, has all.
LEMMA AllNumbers ==
    ASSUME NEW T, 0 \in T, \A n \in Nat : n \in T => n + 1 \in T
    PROVE  \A n \in Nat : n \in T
<1> DEFINE Wrong == {n \in Nat : n \notin T}
<1>1. CASE Wrong # {}
  <2>1. Wrong \in SUBSET Nat
    OBVIOUS
  <2>2. PICK n \in Wrong : \A i \in Wrong : <<i, n>> \notin OpToRel(<, Nat)
    BY <1>1, <2>1, WFMin, NatLessThanWellFounded, Zenon
  <2>3. \A i \in Wrong : ~(i < n)
    BY <2>1, <2>2, Zenon DEF OpToRel
  <2>4. n \in Nat /\ n \notin T
    BY <2>2
  <2>5. n # 0
    BY <2>4
  <2>6. n - 1 \in Nat /\ n - 1 < n /\ (n - 1) + 1 = n
    BY <2>4, <2>5
  <2>7. n - 1 \in T
    BY <2>3, <2>6
  <2> QED
    BY <2>4, <2>6, <2>7
<1>2. CASE Wrong = {}
  BY <1>2
<1> QED
  BY <1>1, <1>2

\* A loop can be run.
LEMMA LoopExists ==
    ASSUME NEW S, NEW b \in S, NEW k \in Nat, NEW step \in [1 .. k -> [S -> S]]
    PROVE  \E f \in [0 .. k -> S] : f[0] = b /\ \A j \in 1 .. k : f[j] = step[j][f[j - 1]]
<1> DEFINE Loop(n, f) == f \in [0 .. n -> S] /\ f[0] = b /\ \A j \in 1 .. n : f[j] = step[j][f[j - 1]]
           T == {n \in Nat : n <= k => \E f : Loop(n, f)}
<1>1. 0 \in T
  <2>1. Loop(0, [j \in 0 .. 0 |-> b])
    OBVIOUS
  <2> QED
    BY <2>1
<1>2. \A n \in Nat : n \in T => n + 1 \in T
  <2> HIDE DEF Loop
  <2> SUFFICES ASSUME NEW n \in Nat, n \in T, n + 1 <= k PROVE \E f : Loop(n + 1, f)
    OBVIOUS
  <2>1. n <= k
    OBVIOUS
  <2>2. PICK f : Loop(n, f)
    BY <2>1
  <2> USE DEF Loop
  <2> DEFINE h == [j \in 0 .. n + 1 |-> IF j <= n THEN f[j] ELSE step[n + 1][f[n]]]
  <2>3. step[n + 1][f[n]] \in S
    BY <2>2
  <2>4. h \in [0 .. n + 1 -> S] /\ h[0] = b
    BY <2>2, <2>3
  <2>5. \A j \in 1 .. n + 1 : h[j] = step[j][h[j - 1]]
    <3> TAKE j \in 1 .. n + 1
    <3>1. j - 1 \in 0 .. n /\ h[j - 1] = f[j - 1]
      OBVIOUS
    <3>2. CASE j = n + 1
      BY <3>1, <3>2
    <3>3. CASE j # n + 1
      <4>1. j \in 1 .. n
        BY <3>3
      <4> QED
        BY <2>2, <3>1, <4>1
    <3> QED
      BY <3>2, <3>3
  <2> QED
    BY <2>4, <2>5, Zenon
<1> HIDE DEF T
<1>3. k \in T
  BY <1>1, <1>2, AllNumbers, Zenon
<1> QED
  BY <1>3 DEF T

\* f runs the loop of the k steps from b on.
IsLoop(k, S, step)    == k \in Nat /\ step \in [1 .. k -> [S -> S]]
Runs(f, b, k, S, step) == f \in [0 .. k -> S] /\ f[0] = b /\ \A j \in 1 .. k : f[j] = step[j][f[j - 1]]

LEMMA LoopRuns ==
    ASSUME NEW S, NEW b \in S, NEW k, NEW step, IsLoop(k, S, step)
    PROVE  \E f : Runs(f, b, k, S, step)
<1>1. k \in Nat /\ step \in [1 .. k -> [S -> S]]
  BY DEF IsLoop
<1>2. \E f \in [0 .. k -> S] : f[0] = b /\ \A j \in 1 .. k : f[j] = step[j][f[j - 1]]
  BY <1>1, LoopExists
<1> QED
  BY <1>2, Zenon DEF Runs

LEMMA FlattenLoop ==
    ASSUME NEW S, NEW n \in Nat, NEW s \in [1 .. n -> Seq(S)], NEW e \in [0 .. n -> Seq(S)],
           e[0] = <<>>, \A j \in 1 .. n : e[j] = e[j - 1] \o s[j]
    PROVE  FlattenSeq(s) = e[n]
<1> DEFINE Is(f) == f = [i \in 1 .. Len(s) |-> IF i = 1 THEN s[i] ELSE f[i - 1] \o s[i]]
           f == CHOOSE f : Is(f)
<1>1. Len(s) = n /\ s \in Seq(Seq(S))
  OBVIOUS
<1>2. CASE n = 0
  <2>1. s = <<>>
    BY <1>1, <1>2
  <2> QED
    BY <1>1, <1>2, <2>1 DEF FlattenSeq
<1>3. CASE n # 0
  <2>1. FlattenSeq(s) = f[n]
    <3>1. Len(s) # 0
      BY <1>1, <1>3
    <3> QED
      BY <1>1, <3>1, Zenon DEF FlattenSeq
  <2>2. 1 \in 1 .. n /\ e[1] = s[1]
    <3>1. 1 \in 1 .. n /\ 1 - 1 = 0
      BY <1>3
    <3>2. e[1] = <<>> \o s[1] /\ s[1] \in Seq(S)
      BY <3>1
    <3> QED
      BY <3>1, <3>2
  <2> DEFINE h == [i \in 1 .. n |-> e[i]]
  <2>3. \A i \in 1 .. n : h[i] = IF i = 1 THEN s[i] ELSE h[i - 1] \o s[i]
    <3> TAKE i \in 1 .. n
    <3>1. CASE i = 1
      BY <2>2, <3>1
    <3>2. CASE i # 1
      <4>1. i - 1 \in 1 .. n
        BY <3>2
      <4> QED
        BY <3>2, <4>1
    <3> QED
      BY <3>1, <3>2
  <2>4. Is(h)
    BY <1>1, <2>3, Zenon
  <2>5. Is(f)
    BY <2>4, Zenon
  <2> HIDE DEF f
  <2>6. \A i \in 1 .. n : f[i] = IF i = 1 THEN s[i] ELSE f[i - 1] \o s[i]
    BY <1>1, <2>5, Zenon
  <2> DEFINE T == {j \in Nat : j + 1 <= n => f[j + 1] = e[j + 1]}
  <2>7. 0 \in T
    <3>1. f[1] = e[1]
      BY <2>2, <2>6
    <3>2. 0 + 1 = 1
      OBVIOUS
    <3> QED
      BY <3>1, <3>2
  <2>8. \A j \in Nat : j \in T => j + 1 \in T
    <3> TAKE j \in Nat
    <3> HAVE j \in T
    <3> SUFFICES ASSUME (j + 1) + 1 <= n PROVE f[(j + 1) + 1] = e[(j + 1) + 1]
      OBVIOUS
    <3> DEFINE i == (j + 1) + 1
    <3>1. i \in 1 .. n /\ i # 1 /\ i - 1 = j + 1
      OBVIOUS
    <3>2. f[j + 1] = e[j + 1]
      OBVIOUS
    <3> HIDE DEF i
    <3>3. f[i] = f[i - 1] \o s[i] /\ e[i] = e[i - 1] \o s[i]
      BY <2>6, <3>1
    <3> QED
      BY <3>1, <3>2, <3>3 DEF i
  <2> HIDE DEF T
  <2>9. \A j \in Nat : j \in T
    BY <2>7, <2>8, AllNumbers, Zenon
  <2>10. f[n] = e[n]
    <3>1. n - 1 \in T /\ (n - 1) + 1 = n
      BY <1>3, <2>9
    <3> QED
      BY <3>1 DEF T
  <2> QED
    BY <2>1, <2>10
<1> QED
  BY <1>2, <1>3

LEMMA UptoNext ==
    ASSUME NEW S, NEW n \in Nat, NEW s \in [1 .. n -> Seq(S)]
    PROVE  /\ Upto(s, 0) = <<>>
           /\ \A k \in 0 .. n : Upto(s, k) \in Seq(S)
           /\ \A k \in 1 .. n : Upto(s, k) = Upto(s, k - 1) \o s[k]
           /\ FlattenSeq(s) = Upto(s, n)
<1> DEFINE step == [j \in 1 .. n |-> [x \in Seq(S) |-> x \o s[j]]]
           Q == Seq(S)
<1>1. \A j \in 1 .. n : \A x \in Q : step[j][x] = x \o s[j] /\ x \o s[j] \in Q
  OBVIOUS
<1>2. step \in [1 .. n -> [Q -> Q]] /\ <<>> \in Q
  BY <1>1
<1>3. \E e \in [0 .. n -> Q] : e[0] = <<>> /\ \A j \in 1 .. n : e[j] = step[j][e[j - 1]]
  <2> HIDE DEF step, Q
  <2>1. IsLoop(n, Q, step)
    BY <1>2, Zenon DEF IsLoop
  <2>2. \E e : Runs(e, <<>>, n, Q, step)
    BY <1>2, <2>1, LoopRuns, Zenon
  <2> QED
    BY <2>2, Zenon DEF Runs
<1> HIDE DEF step
<1>4. PICK e \in [0 .. n -> Q] : e[0] = <<>> /\ \A j \in 1 .. n : e[j] = step[j][e[j - 1]]
  BY <1>3, Zenon
<1>5. \A j \in 1 .. n : e[j] = e[j - 1] \o s[j]
  <2> TAKE j \in 1 .. n
  <2>1. j - 1 \in 0 .. n
    OBVIOUS
  <2> HIDE DEF Q
  <2>2. e[j - 1] \in Q
    BY <2>1
  <2> QED
    BY <1>1, <1>4, <2>2, Zenon
<1>6. ASSUME NEW k \in 0 .. n PROVE Upto(s, k) = e[k]
  <2> DEFINE t == [i \in 1 .. k |-> s[i]]
             d == [j \in 0 .. k |-> e[j]]
  <2>1. k \in Nat /\ t \in [1 .. k -> Seq(S)] /\ d \in [0 .. k -> Seq(S)]
    OBVIOUS
  <2>2. d[0] = <<>> /\ \A j \in 1 .. k : d[j] = d[j - 1] \o t[j]
    <3>1. d[0] = <<>>
      BY <1>4
    <3>2. \A j \in 1 .. k : j \in 1 .. n /\ j \in 0 .. k /\ j - 1 \in 0 .. k
      OBVIOUS
    <3> QED
      BY <1>5, <3>1, <3>2
  <2>3. d[k] = e[k]
    OBVIOUS
  <2>4. FlattenSeq(t) = d[k]
    <3> HIDE DEF t, d
    <3> QED
      BY <2>1, <2>2, FlattenLoop
  <2> QED
    BY <2>3, <2>4, Zenon DEF Upto
<1>7. Upto(s, 0) = <<>>
  BY <1>4, <1>6
<1>8. \A k \in 0 .. n : Upto(s, k) \in Seq(S)
  BY <1>6
<1>9. \A k \in 1 .. n : Upto(s, k) = Upto(s, k - 1) \o s[k]
  <2> TAKE k \in 1 .. n
  <2>1. k \in 0 .. n /\ k - 1 \in 0 .. n
    OBVIOUS
  <2> QED
    BY <1>5, <1>6, <2>1
<1>10. FlattenSeq(s) = Upto(s, n)
  <2>1. FlattenSeq(s) = e[n]
    BY <1>4, <1>5, FlattenLoop
  <2> QED
    BY <1>6, <2>1
<1> QED
  BY <1>7, <1>8, <1>9, <1>10

\* Each of the n sequences of s is put behind those before it.
Unrolls(s, n) == \A k \in 1 .. n : Upto(s, k) = Upto(s, k - 1) \o s[k]

LEMMA UptoUnrolls ==
    ASSUME NEW S, NEW n \in Nat, NEW s \in [1 .. n -> Seq(S)]
    PROVE  Unrolls(s, n)
  BY UptoNext, Zenon DEF Unrolls


\* n sequences over S.
Pieces(s, n, S) == n \in Nat /\ s \in [1 .. n -> Seq(S)]

LEMMA UptoRight ==
    ASSUME NEW S, NEW n, NEW s, Pieces(s, n, S)
    PROVE  /\ Upto(s, 0) = <<>>
           /\ \A k \in 0 .. n : Upto(s, k) \in Seq(S)
           /\ Unrolls(s, n)
           /\ FlattenSeq(s) = Upto(s, n)
<1>1. n \in Nat /\ s \in [1 .. n -> Seq(S)]
  BY DEF Pieces
<1> QED
  BY <1>1, UptoNext, UptoUnrolls

\* It does not matter which two are put together first.
Associates(a, b, c) == a \o (b \o c) = (a \o b) \o c

LEMMA Associative ==
    ASSUME NEW S, NEW a \in Seq(S), NEW b \in Seq(S), NEW c \in Seq(S)
    PROVE  Associates(a, b, c)
BY DEF Associates

LEMMA NothingBehind == ASSUME NEW S, NEW a \in Seq(S) PROVE a \o <<>> = a
OBVIOUS

\* The pieces behind the first a, put together, continue them.
IsPart(t, s, a, m)   == t = [i \in 1 .. m |-> s[a + i]]
Continues(t, s, a, m) == Upto(s, a + m) = Upto(s, a) \o FlattenSeq(t)

LEMMA UptoMore ==
    ASSUME NEW S, NEW n, NEW s, Pieces(s, n, S), NEW a \in Nat, NEW m \in Nat, a + m <= n,
           NEW t, IsPart(t, s, a, m)
    PROVE  Continues(t, s, a, m) /\ Pieces(t, m, S)
<1>1. n \in Nat /\ s \in [1 .. n -> Seq(S)]
  BY DEF Pieces
<1>2. Pieces(t, m, S)
  <2>1. \A i \in 1 .. m : a + i \in 1 .. n
    BY <1>1
  <2>2. t \in [1 .. m -> Seq(S)]
    BY <1>1, <2>1 DEF IsPart
  <2> QED
    BY <2>2 DEF Pieces
<1>3. /\ Upto(t, 0) = <<>> /\ Unrolls(t, m) /\ FlattenSeq(t) = Upto(t, m)
      /\ \A k \in 0 .. m : Upto(t, k) \in Seq(S)
  BY <1>2, UptoRight, Zenon
<1>4. Unrolls(s, n) /\ \A k \in 0 .. n : Upto(s, k) \in Seq(S)
  BY UptoRight, Zenon
<1> DEFINE P(k) == k <= m => Upto(s, a + k) = Upto(s, a) \o Upto(t, k)
           T == {k \in Nat : P(k)}
<1>5. a \in 0 .. n /\ a + 0 = a
  BY <1>1
<1>6. P(0)
  <2>1. Upto(s, a) = Upto(s, a) \o <<>>
    BY <1>4, <1>5, NothingBehind
  <2> QED
    BY <1>3, <1>5, <2>1
<1>7. ASSUME NEW k \in Nat, P(k) PROVE P(k + 1)
  <2> SUFFICES ASSUME k + 1 <= m
               PROVE  Upto(s, a + (k + 1)) = Upto(s, a) \o Upto(t, k + 1)
    OBVIOUS
  <2>1. /\ k + 1 \in 1 .. m /\ (k + 1) - 1 = k /\ k \in 0 .. m /\ k <= m
        /\ a + (k + 1) \in 1 .. n /\ (a + (k + 1)) - 1 = a + k
    BY <1>1
  <2>2. Upto(s, a + k) = Upto(s, a) \o Upto(t, k)
    BY <1>7, <2>1
  <2>3. t[k + 1] = s[a + (k + 1)] /\ t[k + 1] \in Seq(S)
    BY <1>1, <2>1 DEF IsPart
  <2>4. Upto(t, k + 1) = Upto(t, k) \o t[k + 1]
    BY <1>3, <2>1, Zenon DEF Unrolls
  <2>5. Upto(s, a + (k + 1)) = Upto(s, a + k) \o s[a + (k + 1)]
    BY <1>4, <2>1, Zenon DEF Unrolls
  <2>6. Upto(s, a) \in Seq(S) /\ Upto(t, k) \in Seq(S)
    BY <1>3, <1>4, <1>5, <2>1, Zenon
  <2>7. Associates(Upto(s, a), Upto(t, k), t[k + 1])
    BY <2>3, <2>6, Associative, Zenon
  <2> QED
    BY <2>2, <2>3, <2>4, <2>5, <2>7, Zenon DEF Associates
<1> HIDE DEF P
<1>8. \A k \in Nat : k \in T
  <2>1. 0 \in T /\ \A k \in Nat : k \in T => k + 1 \in T
    BY <1>6, <1>7
  <2> QED
    BY <2>1, AllNumbers, Zenon
<1>9. P(m)
  BY <1>8
<1>10. Upto(s, a + m) = Upto(s, a) \o Upto(t, m)
  BY <1>9 DEF P
<1> QED
  BY <1>2, <1>3, <1>10, Zenon DEF Continues

\* Empty pieces make nothing.
LEMMA UptoEmpty ==
    ASSUME NEW S, NEW n, NEW s, Pieces(s, n, S), NEW a \in Nat, NEW b \in Nat, a <= b, b <= n,
           \A k \in a + 1 .. b : s[k] = <<>>
    PROVE  Upto(s, b) = Upto(s, a)
<1>1. n \in Nat /\ Unrolls(s, n) /\ \A k \in 0 .. n : Upto(s, k) \in Seq(S)
  BY UptoRight, Zenon DEF Pieces
<1> DEFINE T == {k \in Nat : a + k <= b => Upto(s, a + k) = Upto(s, a)}
<1>2. 0 \in T
  OBVIOUS
<1>3. \A k \in Nat : k \in T => k + 1 \in T
  <2> SUFFICES ASSUME NEW k \in Nat, k \in T, a + (k + 1) <= b
               PROVE  Upto(s, a + (k + 1)) = Upto(s, a)
    OBVIOUS
  <2>1. /\ a + k <= b /\ a + (k + 1) \in 1 .. n /\ (a + (k + 1)) - 1 = a + k
        /\ a + (k + 1) \in a + 1 .. b /\ a \in 0 .. n
    BY <1>1
  <2>2. Upto(s, a + k) = Upto(s, a)
    BY <2>1
  <2>3. Upto(s, a + (k + 1)) = Upto(s, a + k) \o s[a + (k + 1)]
    BY <1>1, <2>1, Zenon DEF Unrolls
  <2>4. s[a + (k + 1)] = <<>>
    BY <2>1, Zenon
  <2>5. Upto(s, a) \in Seq(S)
    BY <1>1, <2>1, Zenon
  <2>6. Upto(s, a) \o <<>> = Upto(s, a)
    BY <2>5, NothingBehind, Zenon
  <2> QED
    BY <2>2, <2>3, <2>4, <2>6, Zenon
<1> HIDE DEF T
<1>4. b - a \in Nat /\ a + (b - a) = b
  OBVIOUS
<1>5. b - a \in T
  BY <1>2, <1>3, <1>4, AllNumbers, Zenon
<1> QED
  BY <1>4, <1>5 DEF T

\* One piece, with empty ones behind it.
OneMore(s, a, b) == Upto(s, b) = Upto(s, a) \o s[a + 1]

LEMMA UptoOne ==
    ASSUME NEW S, NEW n, NEW s, Pieces(s, n, S), NEW a \in Nat, NEW b \in Nat, a < b, b <= n,
           \A k \in a + 2 .. b : s[k] = <<>>
    PROVE  OneMore(s, a, b)
<1>1. n \in Nat /\ Unrolls(s, n)
  BY UptoRight, Zenon DEF Pieces
<1>2. a + 1 \in Nat /\ a + 1 <= b /\ a + 1 \in 1 .. n /\ (a + 1) - 1 = a /\ (a + 1) + 1 = a + 2
  BY <1>1
<1>3. \A k \in (a + 1) + 1 .. b : s[k] = <<>>
  BY <1>2
<1>4. Upto(s, b) = Upto(s, a + 1)
  BY <1>2, <1>3, UptoEmpty
<1>5. Upto(s, a + 1) = Upto(s, a) \o s[a + 1]
  BY <1>1, <1>2, Zenon DEF Unrolls
<1> QED
  BY <1>4, <1>5, Zenon DEF OneMore

-----------------------------------------------------------------------------
(* What is put on the screen                                               *)

LEMMA KeptRight ==
    ASSUME NEW S, NEW s \in Seq(S)
    PROVE  Pieces(Kept(s), Len(s), S)
<1>1. Len(s) \in Nat /\ \A i \in 1 .. Len(s) : s[i] \in S
  OBVIOUS
<1>2. ASSUME NEW i \in 1 .. Len(s) PROVE (IF s[i] = Nul THEN <<>> ELSE <<s[i]>>) \in Seq(S)
  BY <1>1
<1>3. Kept(s) \in [1 .. Len(s) -> Seq(S)]
  BY <1>2 DEF Kept
<1> QED
  BY <1>1, <1>3 DEF Pieces

\* A text that is printed in parts.
LEMMA KeptMore ==
    ASSUME NEW s \in Seq(Chars), NEW p \in Nat, NEW m \in Nat, p <= m, m <= Len(s)
    PROVE  Upto(Kept(s), m) = Upto(Kept(s), p) \o Str(SubSeq(s, p + 1, m))
<1> DEFINE r == SubSeq(s, p + 1, m)
           t == [i \in 1 .. m - p |-> Kept(s)[p + i]]
<1>1. m - p \in Nat /\ p + (m - p) = m /\ Len(s) \in Nat
  OBVIOUS
<1>2. Pieces(Kept(s), Len(s), Chars)
  BY KeptRight, Zenon
<1>3. Continues(t, Kept(s), p, m - p)
  <2>1. p + (m - p) <= Len(s)
    OBVIOUS
  <2>2. IsPart(t, Kept(s), p, m - p)
    BY DEF IsPart
  <2> HIDE DEF t
  <2> QED
    BY <1>1, <1>2, <2>1, <2>2, UptoMore, Zenon
<1>4. Kept(r) = t
  <2>1. r \in Seq(Chars) /\ Len(r) = m - p /\ \A i \in 1 .. m - p : r[i] = s[p + i] /\ p + i \in 1 .. Len(s)
    OBVIOUS
  <2> HIDE DEF r
  <2>2. \A i \in 1 .. m - p : Kept(s)[p + i] = (IF r[i] = Nul THEN <<>> ELSE <<r[i]>>)
    BY <2>1 DEF Kept
  <2>3. t = [i \in 1 .. m - p |-> IF r[i] = Nul THEN <<>> ELSE <<r[i]>>]
    BY <2>2
  <2> QED
    BY <2>1, <2>3, Zenon DEF Kept
<1> QED
  BY <1>1, <1>3, <1>4, Zenon DEF Str, Continues

LEMMA StrKept ==
    ASSUME NEW s \in Seq(Chars)
    PROVE  Str(s) = Upto(Kept(s), Len(s)) /\ Upto(Kept(s), 0) = <<>>
<1>1. Pieces(Kept(s), Len(s), Chars)
  BY KeptRight, Zenon
<1> QED
  BY <1>1, UptoRight, Zenon DEF Str

\* Without a NUL, all of it.
LEMMA StrWhole ==
    ASSUME NEW S, NEW s \in Seq(S), \A i \in 1 .. Len(s) : s[i] # Nul
    PROVE  Str(s) = s
<1> DEFINE n == Len(s)
           P(k) == k <= n => Upto(Kept(s), k) = SubSeq(s, 1, k)
           T == {k \in Nat : P(k)}
<1>1. Pieces(Kept(s), n, S)
  BY KeptRight, Zenon
<1>2. /\ Upto(Kept(s), 0) = <<>> /\ Unrolls(Kept(s), n) /\ FlattenSeq(Kept(s)) = Upto(Kept(s), n)
  BY <1>1, UptoRight, Zenon
<1>3. P(0)
  <2>1. SubSeq(s, 1, 0) = <<>>
    OBVIOUS
  <2> QED
    BY <1>2, <2>1
<1>4. ASSUME NEW k \in Nat, P(k) PROVE P(k + 1)
  <2> SUFFICES ASSUME k + 1 <= n
               PROVE  Upto(Kept(s), k + 1) = SubSeq(s, 1, k + 1)
    OBVIOUS
  <2>1. k + 1 \in 1 .. n /\ (k + 1) - 1 = k /\ k <= n
    OBVIOUS
  <2>2. Upto(Kept(s), k) = SubSeq(s, 1, k)
    BY <1>4, <2>1
  <2>3. Upto(Kept(s), k + 1) = Upto(Kept(s), k) \o Kept(s)[k + 1]
    BY <1>2, <2>1, Zenon DEF Unrolls
  <2>4. Kept(s)[k + 1] = <<s[k + 1]>>
    BY <2>1 DEF Kept
  <2>5. SubSeq(s, 1, k) \o <<s[k + 1]>> = SubSeq(s, 1, k + 1)
    BY <2>1
  <2> QED
    BY <2>2, <2>3, <2>4, <2>5, Zenon
<1>5. n \in Nat
  OBVIOUS
<1> HIDE DEF P, n
<1>6. \A k \in Nat : k \in T
  <2>1. 0 \in T /\ \A k \in Nat : k \in T => k + 1 \in T
    BY <1>3, <1>4
  <2> QED
    BY <2>1, AllNumbers, Zenon
<1>7. P(n)
  BY <1>5, <1>6
<1>8. Upto(Kept(s), n) = SubSeq(s, 1, n) /\ SubSeq(s, 1, n) = s
  <2> USE DEF n
  <2>1. SubSeq(s, 1, n) = s
    OBVIOUS
  <2> QED
    BY <1>5, <1>7, <2>1 DEF P
<1> QED
  BY <1>2, <1>8, Zenon DEF Str

-----------------------------------------------------------------------------
(* The directory and the files                                             *)

IsEntry(img, i) ==
    LET d == img.dentries[i]
    IN  /\ IsString(d.name) /\ Len(d.name) \in 1 .. NameLen /\ strlen(d.name) = Len(d.name)
        /\ d.type \in 0 .. 2 /\ d.inode \in Nat
        /\ d.type = 0 => Same(RtcName, d.name, Len(RtcName))
        /\ d.type = 1 <=> d.name[1] = Dot
        /\ d.type = 2 => d.inode \in 1 .. Len(img.content) /\ img.content[d.inode] \in Seq(Chars)

LEMMA DirectoryRight ==
    ASSUME NEW img \in Images
    PROVE  /\ Len(img.dentries) \in Nat /\ Len(img.dentries) <= DirSize
           /\ 1 \in 1 .. Len(img.dentries) /\ img.dentries[1].name = <<Dot>>
           /\ \A i \in 1 .. Len(img.dentries) : IsEntry(img, i)
<1>1. /\ img.dentries \in Dentries /\ img.content \in Seq(Seq(Chars))
      /\ Len(img.dentries) \in 1 .. DirSize /\ img.dentries[1].name = <<Dot>>
  BY ImageRight DEF WellFormed
<1>2. /\ Len(img.dentries) \in Nat /\ Len(img.dentries) <= DirSize
      /\ 1 \in 1 .. Len(img.dentries)
  BY <1>1, Sizes
<1>3. ASSUME NEW i \in 1 .. Len(img.dentries) PROVE IsEntry(img, i)
  <2> DEFINE d == img.dentries[i]
  <2>1. d \in DirEntry
    BY <1>1 DEF Dentries
  <2>2. d.name \in Seq(Chars) /\ d.type \in 0 .. 2 /\ d.inode \in Nat
    BY <2>1 DEF DirEntry
  <2>3. /\ Len(d.name) \in 1 .. NameLen /\ \A k \in 1 .. Len(d.name) : d.name[k] # Nul
        /\ d.type = 0 => Same(RtcName, d.name, Len(RtcName))
        /\ d.type = 1 <=> d.name[1] = Dot
        /\ d.type = 2 => d.inode \in 1 .. Len(img.content)
    BY ImageRight, Zenon DEF WellFormed
  <2>4. strlen(d.name) = Len(d.name)
    BY <2>2, <2>3, StrlenRight, Zenon
  <2>5. \A k \in 1 .. Len(img.content) : img.content[k] \in Seq(Chars)
    BY <1>1
  <2> QED
    BY <2>2, <2>3, <2>4, <2>5, Zenon DEF IsEntry, IsString
<1> QED
  BY <1>1, <1>2, <1>3, Zenon

\* Whether a string begins with "rtc".
LEMMA SameRtc ==
    ASSUME NEW s
    PROVE  Same(RtcName, s, Len(RtcName)) <=> \A i \in 1 .. Len(RtcName) : RtcName[i] = At(s, i)
<1>1. IsString(RtcName)
  BY ProgramsAssumption, Zenon
<1>2. Len(RtcName) \in Nat /\ \A i \in 1 .. Len(RtcName) : At(RtcName, i) = RtcName[i] /\ RtcName[i] # Nul
  BY <1>1 DEF IsString, At
<1>3. \A i \in 1 .. Len(RtcName) : At(RtcName, i) # Nul
  BY <1>2
<1>4. Same(RtcName, s, Len(RtcName)) <=> \A i \in 1 .. Len(RtcName) : At(RtcName, i) = At(s, i)
  BY <1>2, <1>3, SameRight, Zenon
<1> QED
  BY <1>2, <1>4

\* The file of an image with the name s.
FileNamed(img, s, j) ==
    j \in 1 .. Len(img.dentries) /\ img.dentries[j].type = 2 /\ img.dentries[j].name = Cut(s)

\* What open makes of a name.
LEMMA OpenHandlerRight ==
    ASSUME NEW img \in Images, NEW s, IsString(s)
    PROVE  LET d   == open_handler(img.dentries, s)
               rtc == Same(RtcName, s, Len(RtcName))
           IN  \/ rtc /\ d = [kind |-> "rtc", inode |-> 0, pos |-> 0]
               \/ /\ ~rtc /\ At(s, 1) = Dot /\ \A j : ~FileNamed(img, s, j)
                  /\ d = NoFile \/ (d.kind = "dir" /\ d.pos = 0)
                  /\ s = <<Dot>> => d # NoFile
               \/ /\ ~rtc /\ At(s, 1) # Dot
                  /\ \E j : FileNamed(img, s, j) /\ d = [kind |-> "file", inode |-> img.dentries[j].inode, pos |-> 0]
               \/ ~rtc /\ At(s, 1) # Dot /\ (\A j : ~FileNamed(img, s, j)) /\ d = NoFile
<1> DEFINE d    == open_handler(img.dentries, s)
           rtc  == Same(RtcName, s, Len(RtcName))
           i    == read_dentry_by_name(img.dentries, s)
           kind == IF At(s, 1) = Dot THEN "dir" ELSE "file"
           type == IF kind = "dir" THEN 1 ELSE 2
           L    == Len(img.dentries)
<1>1. d = IF rtc THEN [kind |-> "rtc", inode |-> 0, pos |-> 0]
          ELSE IF i # 0 /\ img.dentries[i].type = type
               THEN [kind |-> kind, inode |-> img.dentries[i].inode, pos |-> 0]
               ELSE NoFile
  BY Zenon DEF open_handler
<1>2. s \in Seq(Chars) /\ \A k \in 1 .. Len(s) : s[k] # Nul
  BY DEF IsString
<1>3. /\ i # 0 => i \in 1 .. L /\ img.dentries[i].name = Cut(s)
      /\ \A j \in 1 .. L : img.dentries[j].name = Cut(s) => i = j
  BY <1>2, NameFound, ZenonT(40)
<1>4. ASSUME NEW j \in 1 .. L, img.dentries[j].name = Cut(s)
      PROVE  img.dentries[j].type = 1 <=> At(s, 1) = Dot
  <2>1. /\ Len(img.dentries[j].name) \in 1 .. NameLen
        /\ img.dentries[j].type = 1 <=> img.dentries[j].name[1] = Dot
    BY DirectoryRight, Zenon DEF IsEntry
  <2>2. /\ Len(Cut(s)) \in Nat /\ Len(Cut(s)) <= Len(s)
        /\ \A k \in 1 .. Len(Cut(s)) : Cut(s)[k] = s[k]
    BY <1>2, CutRight, Zenon
  <2>3. Len(Cut(s)) \in 1 .. NameLen /\ (img.dentries[j].type = 1 <=> Cut(s)[1] = Dot)
    BY <1>4, <2>1
  <2>4. 1 <= Len(s) /\ Cut(s)[1] = s[1]
    BY <1>2, <2>2, <2>3, Sizes
  <2> QED
    BY <2>3, <2>4 DEF At
<1>5. \A j : FileNamed(img, s, j) => i = j /\ j # 0
  <2>1. 0 \notin 1 .. L
    OBVIOUS
  <2> QED
    BY <1>3, <2>1, Zenon DEF FileNamed
<1> HIDE DEF i
<1>6. CASE rtc
  BY <1>1, <1>6, Zenon
<1>7. CASE ~rtc /\ At(s, 1) = Dot
  <2>1. \A j : ~FileNamed(img, s, j)
    <3> SUFFICES ASSUME NEW j, FileNamed(img, s, j) PROVE FALSE
      OBVIOUS
    <3>1. img.dentries[j].type = 1 /\ img.dentries[j].type = 2
      BY <1>4, <1>7, Zenon DEF FileNamed
    <3> QED
      BY <3>1
  <2>2. d = IF i # 0 /\ img.dentries[i].type = 1
            THEN [kind |-> "dir", inode |-> img.dentries[i].inode, pos |-> 0] ELSE NoFile
    <3>1. type = 1 /\ kind = "dir"
      BY <1>7
    <3> HIDE DEF type, kind
    <3> QED
      BY <1>1, <1>7, <3>1, Zenon
  <2>3. d = NoFile \/ (d.kind = "dir" /\ d.pos = 0)
    BY <2>2
  <2>4. ASSUME s = <<Dot>> PROVE d # NoFile
    <3>1. Len(s) <= NameLen
      BY <2>4, Sizes
    <3>2. Cut(s) = <<Dot>>
      BY <1>2, <2>4, <3>1, CutRight, Zenon
    <3>3. 1 \in 1 .. L /\ img.dentries[1].name = Cut(s)
      BY <3>2, DirectoryRight, Zenon
    <3>4. i = 1 /\ img.dentries[1].type = 1
      BY <1>3, <1>4, <1>7, <3>3, Zenon
    <3>5. d.kind = "dir"
      BY <2>2, <3>4
    <3> QED
      BY <3>5 DEF NoFile
  <2> QED
    BY <1>7, <2>1, <2>3, <2>4, Zenon
<1>8. CASE ~rtc /\ At(s, 1) # Dot
  <2>1. d = IF i # 0 /\ img.dentries[i].type = 2
            THEN [kind |-> "file", inode |-> img.dentries[i].inode, pos |-> 0] ELSE NoFile
    <3>1. type = 2 /\ kind = "file"
      BY <1>8
    <3> HIDE DEF type, kind
    <3> QED
      BY <1>1, <1>8, <3>1, Zenon
  <2>2. CASE i # 0 /\ img.dentries[i].type = 2
    <3>1. FileNamed(img, s, i)
      BY <1>3, <2>2, Zenon DEF FileNamed
    <3>2. d = [kind |-> "file", inode |-> img.dentries[i].inode, pos |-> 0]
      BY <2>1, <2>2, Zenon
    <3> QED
      BY <1>8, <3>1, <3>2, Zenon
  <2>3. CASE ~(i # 0 /\ img.dentries[i].type = 2)
    <3>1. \A j : ~FileNamed(img, s, j)
      BY <1>5, <2>3, Zenon DEF FileNamed
    <3>2. d = NoFile
      BY <2>1, <2>3, Zenon
    <3> QED
      BY <1>8, <3>1, <3>2, Zenon
  <2> QED
    BY <2>2, <2>3
<1> QED
  BY <1>6, <1>7, <1>8

\* open fails only if the name cannot be opened, or there is no descriptor left.
LEMMA OpenAtFails ==
    ASSUME NEW name, NEW n \in Fds, fds[n].kind = "free", OpenAt(name) = -1
    PROVE  open_handler(image.dentries, name) = NoFile
<1> DEFINE Free == {k \in Fds : fds[k].kind = "free"}
<1>1. OpenAt(name) = IF Free = {} \/ open_handler(image.dentries, name) = NoFile THEN -1 ELSE Min(Free)
  BY Zenon DEF OpenAt
<1>2. Free # {} /\ Free \in SUBSET Nat
  BY Sizes
<1>3. Min(Free) \in Nat
  BY <1>2, MinRight
<1> HIDE DEF Free
<1> SUFFICES ASSUME open_handler(image.dentries, name) # NoFile PROVE FALSE
  OBVIOUS
<1>4. OpenAt(name) = Min(Free)
  BY <1>1, <1>2, Zenon
<1>5. Min(Free) = -1
  BY <1>4
<1> QED
  BY <1>3, <1>5

\* grep can open a file while its directory is open.
LEMMA TwoFds == 2 \in Fds /\ 3 \in Fds
<1>1. NumFds > 3 /\ NumFds \in Nat
  BY ProgramsAssumption, Sizes
<1> QED
  BY <1>1 DEF Fds

\* Characters are never taken for a failure.
LEMMA NotFail == \A s \in Seq(Chars) : s # Fail
<1> SUFFICES ASSUME NEW s \in Seq(Chars), s = Fail PROVE FALSE
  OBVIOUS
<1>1. 1 \in 1 .. Len(s) /\ s[1] = "fail"
  BY DEF Fail
<1>2. s[1] \in Chars
  BY <1>1
<1> QED
  BY <1>1, <1>2, ProgramsAssumption, Zenon

\* A read of the directory gives the name of the next entry.
LEMMA NextEntry ==
    ASSUME image \in Images, NEW d \in Descriptors, d.kind = "dir", NEW n \in Nat, NameLen <= n
    PROVE  LET r == ReadAt(d, n)
               L == Len(image.dentries)
           IN  \/ d.pos >= DirSize /\ r = Fail
               \/ d.pos < DirSize /\ d.pos >= L /\ r = <<>> /\ r # Fail
               \/ /\ d.pos + 1 \in 1 .. L /\ d.pos < DirSize
                  /\ r = image.dentries[d.pos + 1].name /\ r # <<>> /\ r # Fail
                  /\ Advanced(d, r).pos = d.pos + 1
<1> DEFINE r == ReadAt(d, n)
           L == Len(image.dentries)
<1>1. d.pos \in Nat /\ L \in Nat /\ L <= DirSize /\ DirSize \in Nat
  BY DirectoryRight, Sizes DEF Descriptors
<1>2. r = IF d.pos >= DirSize THEN Fail
          ELSE IF d.pos >= Len(image.dentries) THEN <<>>
          ELSE NameRead(image.dentries[d.pos + 1], n)
  BY DEF ReadAt
<1>3. CASE d.pos >= DirSize
  BY <1>2, <1>3, Zenon
<1>4. CASE ~(d.pos >= DirSize) /\ d.pos >= L
  <2>1. r = <<>>
    BY <1>2, <1>4, Zenon
  <2>2. <<>> # Fail
    BY DEF Fail
  <2>3. d.pos < DirSize
    BY <1>1, <1>4
  <2> QED
    BY <1>4, <2>1, <2>2, <2>3, Zenon
<1>5. CASE ~(d.pos >= DirSize) /\ ~(d.pos >= L)
  <2> DEFINE name == image.dentries[d.pos + 1].name
             m == Min({n, NameLen, strlen(name)})
  <2>1. d.pos + 1 \in 1 .. L /\ d.pos < DirSize
    BY <1>1, <1>5
  <2>2. /\ name \in Seq(Chars) /\ Len(name) \in 1 .. NameLen /\ strlen(name) = Len(name)
    BY <2>1, DirectoryRight, Zenon DEF IsEntry, IsString
  <2>3. r = SubSeq(name, 1, m)
    BY <1>2, <1>5, Zenon DEF NameRead
  <2>4. m = Len(name)
    <3>1. strlen(name) \in Nat /\ strlen(name) <= NameLen /\ NameLen \in Nat
      BY <2>2, Sizes
    <3>2. m \in {n, NameLen, strlen(name)} /\ m <= strlen(name)
      BY <3>1, MinOfThree, Zenon
    <3> HIDE DEF m, name
    <3> QED
      BY <2>2, <3>1, <3>2
  <2> HIDE DEF m, name, r
  <2>5. r = name /\ Len(name) # 0
    <3>1. SubSeq(name, 1, Len(name)) = name
      BY <2>2, Whole, Zenon
    <3>2. Len(name) # 0
      BY <2>2
    <3> QED
      BY <2>3, <2>4, <3>1, <3>2, Zenon
  <2>6. r # <<>>
    BY <2>5
  <2>7. r # Fail
    BY <2>2, <2>5, NotFail, Zenon
  <2>8. Advanced(d, r).pos = d.pos + 1
    BY <1>1 DEF Advanced, Descriptors
  <2> QED
    BY <2>1, <2>5, <2>6, <2>7, <2>8, Zenon DEF r, name
<1> QED
  BY <1>3, <1>4, <1>5

\* A read of a file, or of the RTC, gives the next bytes.
LEMMA NextBytes ==
    ASSUME image \in Images, NEW d \in Descriptors, d.kind \in {"file", "rtc"},
           d.kind = "file" => d.inode \in 1 .. Len(image.content),
           d.pos <= Len(TextOf(image, d)), NEW n \in Nat, n > 0
    PROVE  LET T == TextOf(image, d)
               r == ReadAt(d, n)
           IN  /\ T \in Seq(Chars) /\ r \in Seq(Chars) /\ r # Fail /\ Len(r) <= n
               /\ Len(r) = IF d.pos + n <= Len(T) THEN n ELSE Len(T) - d.pos
               /\ r = SubSeq(T, d.pos + 1, d.pos + Len(r)) /\ d.pos + Len(r) <= Len(T)
               /\ Advanced(d, r).pos = d.pos + Len(r) /\ TextOf(image, Advanced(d, r)) = T
<1> DEFINE T == TextOf(image, d)
           r == ReadAt(d, n)
           m == Min({d.pos + n, Len(T)})
<1>1. T \in Seq(Chars)
  <2>1. image.content \in Seq(Seq(Chars))
    BY ImageRight DEF WellFormed
  <2>2. d.kind = "file" => image.content[d.inode] \in Seq(Chars)
    BY <2>1
  <2>3. <<>> \in Seq(Chars)
    OBVIOUS
  <2> QED
    BY <2>2, <2>3, Zenon DEF TextOf
<1>2. d.pos \in Nat /\ Len(T) \in Nat
  BY <1>1 DEF Descriptors
<1>3. m = IF d.pos + n <= Len(T) THEN d.pos + n ELSE Len(T)
  <2>1. d.pos + n \in Nat
    BY <1>2
  <2> QED
    BY <1>2, <2>1, MinOfTwo, Zenon
<1>4. r = SubSeq(T, d.pos + 1, m)
  <2>1. CASE d.kind = "file"
    <3>1. ~(n <= 0)
      OBVIOUS
    <3>2. r = IF n <= 0 THEN Fail
              ELSE SubSeq(image.content[d.inode], d.pos + 1, Min({d.pos + n, Len(image.content[d.inode])}))
      BY <2>1, Zenon DEF ReadAt
    <3>3. T = image.content[d.inode]
      BY <2>1, Zenon DEF TextOf
    <3> QED
      BY <3>1, <3>2, <3>3, Zenon
  <2>2. CASE d.kind = "rtc"
    <3>1. r = <<>> /\ T = <<>>
      BY <2>2 DEF ReadAt, TextOf
    <3>2. m = 0
      BY <1>2, <1>3, <3>1
    <3> HIDE DEF m, r, T
    <3>3. SubSeq(<<>>, d.pos + 1, 0) = <<>>
      BY <1>2
    <3> QED
      BY <3>1, <3>2, <3>3, Zenon
  <2> QED
    BY <2>1, <2>2
<1> HIDE DEF T, r, m
<1>5. m \in Nat /\ d.pos <= m /\ m <= Len(T) /\ m <= d.pos + n
  BY <1>2, <1>3 DEF T
<1>6. r \in Seq(Chars) /\ Len(r) = m - d.pos
  BY <1>1, <1>2, <1>4, <1>5
<1>7. /\ Len(r) <= n /\ Len(r) = IF d.pos + n <= Len(T) THEN n ELSE Len(T) - d.pos
      /\ m = d.pos + Len(r)
  BY <1>2, <1>3, <1>5, <1>6
<1>8. r # Fail
  BY <1>6, NotFail, Zenon
<1>9. Advanced(d, r).pos = d.pos + Len(r)
  <2>1. CASE d.kind = "file"
    BY <2>1 DEF Advanced, Descriptors
  <2>2. CASE d.kind = "rtc"
    <3>1. T = <<>>
      BY <2>2 DEF TextOf, T
    <3>2. Len(r) = 0
      BY <1>2, <1>5, <1>6, <3>1
    <3> QED
      BY <1>2, <2>2, <3>2 DEF Advanced, Descriptors
  <2> QED
    BY <2>1, <2>2
<1>10. TextOf(image, Advanced(d, r)) = T
  <2>1. Advanced(d, r).kind = d.kind /\ Advanced(d, r).inode = d.inode
    BY <1>6, AdvancedRight, Zenon
  <2> QED
    BY <2>1, Zenon DEF TextOf, T
<1> QED
  BY <1>1, <1>4, <1>5, <1>6, <1>7, <1>8, <1>9, <1>10 DEF T, r


-----------------------------------------------------------------------------
(* cat and ls                                                              *)

LEMMA PrintedElsewhere ==
    ASSUME pc' \in {"prompt", "execute", "start", "stopped"}
    PROVE  Printed'
BY DEF Printed, CatInv, LsInv, EntryInv, TextInv, OutputAsPromised

LEMMA PrintedReport ==
    ASSUME pc' = "report",
           status' = -1 \/ prog' \notin {"cat", "ls", "grep"}
           \/ (prog' = "cat" /\ CatAsPromised') \/ (prog' = "ls" /\ LsAsPromised')
           \/ (prog' = "grep" /\ GrepAsPromised')
    PROVE  Printed'
<1>1. CatInv' /\ LsInv' /\ EntryInv' /\ TextInv'
  BY DEF CatInv, LsInv, EntryInv, TextInv
<1>2. OutputAsPromised'
  BY DEF OutputAsPromised
<1> QED
  BY <1>1, <1>2, Zenon DEF Printed

LEMMA PrintedCat == ASSUME pc' = "catread", CatInv' PROVE Printed'
<1>1. LsInv' /\ EntryInv' /\ TextInv' /\ OutputAsPromised'
  BY DEF LsInv, EntryInv, TextInv, OutputAsPromised
<1> QED
  BY <1>1, Zenon DEF Printed

LEMMA PrintedLs == ASSUME pc' = "ls", LsInv' PROVE Printed'
<1>1. CatInv' /\ EntryInv' /\ TextInv' /\ OutputAsPromised'
  BY DEF CatInv, EntryInv, TextInv, OutputAsPromised
<1> QED
  BY <1>1, Zenon DEF Printed

LEMMA PrintedGrep ==
    ASSUME pc' \in {"grep", "grepread", "grepline", "grepclose"}, EntryInv', TextInv'
    PROVE  Printed'
<1>1. CatInv' /\ LsInv' /\ OutputAsPromised'
  BY DEF CatInv, LsInv, OutputAsPromised
<1> QED
  BY <1>1, Zenon DEF Printed

\* The image and the arguments do not change while a program runs.
LEMMA SameImage ==
    ASSUME image' = image, args' = args
    PROVE  /\ Files' = Files /\ Names' = Names /\ NameLines' = NameLines
           /\ Full' = Full /\ AllTexts' = AllTexts /\ InFiles(args)' = InFiles(args)
<1>1. Files' = Files /\ Names' = Names /\ NameLines' = NameLines /\ Full' = Full
  BY Zenon DEF Files, Names, NameLines, Full
<1>2. AllTexts' = AllTexts
  BY <1>1, Zenon DEF AllTexts
<1>3. InFiles(args)' = InFiles(args)
  BY Zenon DEF InFiles
<1> QED
  BY <1>1, <1>2, <1>3, Zenon

LEMMA FilesNamed ==
    ASSUME NEW s
    PROVE  \A i : FileNamed(image, s, i) <=> i \in Files /\ Cut(s) = Names[i]
<1> SUFFICES ASSUME NEW i PROVE FileNamed(image, s, i) <=> i \in Files /\ Cut(s) = Names[i]
  OBVIOUS
<1>1. i \in 1 .. Len(image.dentries) => Names[i] = image.dentries[i].name
  BY DEF Names
<1>2. i \in Files <=> i \in 1 .. Len(image.dentries) /\ image.dentries[i].type = 2
  BY DEF Files
<1> QED
  BY <1>1, <1>2, Zenon DEF FileNamed

\* The names of an image are printed as they are.
LEMMA NamesRight ==
    ASSUME image \in Images
    PROVE  /\ Pieces(Names, Len(image.dentries), Chars)
           /\ Pieces(NameLines, Len(image.dentries), Chars)
           /\ \A i \in 1 .. Len(image.dentries) :
                 /\ Names[i] = image.dentries[i].name /\ Str(Names[i]) = Names[i]
                 /\ NameLines[i] = Append(image.dentries[i].name, Newline)
                 /\ Str(NameLines[i]) = NameLines[i]
<1>1. /\ Len(image.dentries) \in Nat
      /\ \A i \in 1 .. Len(image.dentries) : IsString(image.dentries[i].name)
  BY DirectoryRight, Zenon DEF IsEntry
<1>2. Newline \in Chars /\ Newline # Nul
  <2>1. Newline \in Chars
    BY NamesAssumption, Zenon
  <2> QED
    BY <2>1 DEF Newline, Nul
<1>3. \A s : IsString(s) => /\ s \in Seq(Chars) /\ Append(s, Newline) \in Seq(Chars)
                            /\ \A k \in 1 .. Len(Append(s, Newline)) : Append(s, Newline)[k] # Nul
                            /\ \A k \in 1 .. Len(s) : s[k] # Nul
  BY <1>2 DEF IsString
<1>4. Pieces(Names, Len(image.dentries), Chars) /\ Pieces(NameLines, Len(image.dentries), Chars)
  <2>1. Names \in [1 .. Len(image.dentries) -> Seq(Chars)]
    BY <1>1, <1>3, Zenon DEF Names
  <2>2. NameLines \in [1 .. Len(image.dentries) -> Seq(Chars)]
    BY <1>1, <1>3, Zenon DEF NameLines
  <2> QED
    BY <1>1, <2>1, <2>2, Zenon DEF Pieces
<1>5. ASSUME NEW i \in 1 .. Len(image.dentries)
      PROVE  /\ Names[i] = image.dentries[i].name
             /\ NameLines[i] = Append(image.dentries[i].name, Newline)
  BY Zenon DEF Names, NameLines
<1>6. ASSUME NEW i \in 1 .. Len(image.dentries)
      PROVE  Str(Names[i]) = Names[i] /\ Str(NameLines[i]) = NameLines[i]
  <2> DEFINE s == image.dentries[i].name
             l == Append(s, Newline)
  <2>1. s \in Seq(Chars) /\ l \in Seq(Chars) /\ (\A k \in 1 .. Len(l) : l[k] # Nul) /\ \A k \in 1 .. Len(s) : s[k] # Nul
    BY <1>1, <1>3, Zenon
  <2> HIDE DEF s, l
  <2>2. Str(s) = s /\ Str(l) = l
    BY <2>1, StrWhole
  <2> QED
    BY <1>5, <2>2, Zenon DEF s, l
<1> QED
  BY <1>4, <1>5, <1>6, Zenon

\* cat opens what its arguments name.
LEMMA CatStartPrints ==
    ASSUME IInv, StartInv, CatStart
    PROVE  Printed'
<1>1. /\ pc = "start" /\ prog = "cat" /\ image' = image /\ args' = args /\ prog' = prog
      /\ fds = AllFree /\ out = <<>> /\ IsString(args) /\ image \in Images
  BY DEF CatStart, StartInv, IInv, TypeInv
<1>2. 2 \in Fds /\ fds[2].kind = "free"
  BY <1>1, TwoFds, AllFreeRight
<1>3. Files' = Files /\ Names' = Names /\ Full' = Full /\ Cut(args)' = Cut(args) /\ At(args, 1)' = At(args, 1)
  BY <1>1, SameImage, Zenon
<1> DEFINE d   == open_handler(image.dentries, args)
           rtc == Same(RtcName, args, Len(RtcName))
<1>4. \/ rtc /\ d = [kind |-> "rtc", inode |-> 0, pos |-> 0]
      \/ /\ ~rtc /\ At(args, 1) = Dot /\ \A j : ~FileNamed(image, args, j)
         /\ d = NoFile \/ (d.kind = "dir" /\ d.pos = 0)
      \/ \E j : FileNamed(image, args, j) /\ d = [kind |-> "file", inode |-> image.dentries[j].inode, pos |-> 0]
      \/ (\A j : ~FileNamed(image, args, j)) /\ d = NoFile
  BY <1>1, OpenHandlerRight, Zenon
<1>5. \A j : FileNamed(image, args, j) <=> j \in Files /\ Cut(args) = Names[j]
  BY FilesNamed, Zenon
<1>6. CASE OpenAt(args) = -1
  <2>1. d = NoFile
    BY <1>2, <1>6, OpenAtFails, Zenon
  <2>2. d.kind = "free"
    BY <2>1 DEF NoFile
  <2>3. \A j : ~FileNamed(image, args, j)
    <3>1. d # [kind |-> "rtc", inode |-> 0, pos |-> 0]
      BY <2>2
    <3>2. \A n : d # [kind |-> "file", inode |-> n, pos |-> 0]
      BY <2>2
    <3> HIDE DEF d
    <3> QED
      BY <1>4, <3>1, <3>2, Zenon
  <2>4. \A i \in Files : Cut(args) # Names[i]
    BY <1>5, <2>3, Zenon
  <2>5. pc' = "report" /\ status' = 2
    BY <1>6 DEF CatStart, HaltWith, Halt
  <2>6. status' # 0
    BY <2>5
  <2>7. CatAsPromised'
    BY <1>3, <2>4, <2>6, Zenon DEF CatAsPromised
  <2> QED
    BY <1>1, <2>5, <2>7, PrintedReport, Zenon
<1>7. CASE OpenAt(args) # -1
  <2>1. /\ fd' = OpenAt(args) /\ fds' = [fds EXCEPT ![fd'] = d] /\ pc' = "catread"
        /\ out' = out
    BY <1>7, Zenon DEF CatStart
  <2>2. fd' \in Fds /\ d # NoFile
    BY <1>7, <2>1, OpenAtRight, Zenon DEF IInv
  <2>3. fds'[fd'] = d
    BY <2>1, <2>2 DEF IInv, TypeInv
  <2>4. out' = <<>> /\ prog' = "cat"
    BY <1>1, <2>1
  <2> HIDE DEF d, rtc
  <2>5. CASE rtc /\ d = [kind |-> "rtc", inode |-> 0, pos |-> 0]
    <3>1. d.kind = "rtc"
      BY <2>5
    <3> QED
      <4>1. CatInv'
        BY <1>1, <2>3, <2>4, <2>5, <3>1, Zenon DEF CatInv, rtc
      <4> QED
        BY <2>1, <4>1, PrintedCat, Zenon
  <2>6. CASE At(args, 1) = Dot /\ d.kind = "dir" /\ d.pos = 0
    <3>1. Upto(Names, 0) = <<>>
      BY <1>1, NamesRight, UptoRight, Zenon
    <3>2. 0 <= Len(image.dentries)
      BY <1>1, DirectoryRight
    <3>3. CatInv'
      BY <1>1, <1>3, <2>3, <2>4, <2>6, <3>1, <3>2, Zenon DEF CatInv
    <3> QED
      BY <2>1, <3>3, PrintedCat, Zenon
  <2>7. CASE \E j : FileNamed(image, args, j) /\ d = [kind |-> "file", inode |-> image.dentries[j].inode, pos |-> 0]
    <3>1. PICK j : FileNamed(image, args, j) /\ d = [kind |-> "file", inode |-> image.dentries[j].inode, pos |-> 0]
      BY <2>7
    <3>2. d.kind = "file" /\ d.inode = image.dentries[j].inode /\ d.pos = 0
      BY <3>1
    <3>3. j \in Files /\ Cut(args) = Names[j]
      BY <1>5, <3>1, Zenon
    <3>4. IsEntry(image, j) /\ image.dentries[j].type = 2
      BY <1>1, <3>1, DirectoryRight, Zenon DEF FileNamed
    <3> DEFINE T == image.content[d.inode]
    <3>5. T \in Seq(Chars)
      BY <3>2, <3>4, Zenon DEF IsEntry
    <3>6. 0 <= Len(T) /\ Upto(Kept(T), 0) = <<>>
      <4>1. 0 <= Len(T)
        BY <3>5
      <4> QED
        BY <3>5, <4>1, StrKept, Zenon
    <3> HIDE DEF T
    <3>7. d.pos <= Len(T) /\ out' = Upto(Kept(T), d.pos)
      BY <2>4, <3>2, <3>6, Zenon
    <3>8. \E i \in Files : Cut(args) = Names[i] /\ d.inode = image.dentries[i].inode
      BY <3>2, <3>3, Zenon
    <3>9. CatInv'
      BY <1>1, <1>3, <2>3, <2>4, <3>2, <3>7, <3>8, Zenon DEF CatInv, T
    <3> QED
      BY <2>1, <3>9, PrintedCat, Zenon
  <2> QED
    BY <1>4, <2>2, <2>5, <2>6, <2>7, Zenon
<1> QED
  BY <1>6, <1>7


\* cat prints what it reads, until there is no more.
LEMMA CatReadPrints ==
    ASSUME IInv, CatInv, CatRead
    PROVE  Printed'
<1> DEFINE d == fds[fd]
           r == ReadAt(d, BufSize)
           L == Len(image.dentries)
<1>1. /\ pc = "catread" /\ prog = "cat" /\ image' = image /\ args' = args /\ prog' = prog /\ fd' = fd
      /\ image \in Images
  BY DEF CatRead, CatInv, IInv, TypeInv
<1>2. /\ \/ d.kind = "file" /\ d.pos <= Len(image.content[d.inode])
            /\ \E i \in Files : Cut(args) = Names[i] /\ d.inode = image.dentries[i].inode
            /\ out = Upto(Kept(image.content[d.inode]), d.pos)
         \/ d.kind = "dir" /\ d.pos <= L /\ At(args, 1) = Dot /\ out = Upto(Names, d.pos)
         \/ d.kind = "rtc" /\ Same(RtcName, args, Len(RtcName)) /\ out = <<>>
  BY <1>1, Zenon DEF CatInv
<1>3. fd \in Fds /\ d \in Descriptors /\ (d.kind = "file" => d.inode \in 1 .. Len(image.content))
  BY <1>1 DEF IInv, FilesInv, TypeInv
<1>4. \/ r = Fail /\ pc' = "report" /\ status' = 3
      \/ r = <<>> /\ pc' = "report" /\ status' = 0 /\ out' = out
      \/ /\ r # Fail /\ r # <<>> /\ out' = out \o Str(r)
         /\ fds' = [fds EXCEPT ![fd] = Advanced(@, r)] /\ pc' = "catread"
  <2>1. PICK x \in {ReadAt(fds[fd], BufSize)} :
           \/ x = Fail /\ HaltWith("file read failed", 3)
           \/ x = <<>> /\ Halt(0) /\ UNCHANGED out
           \/ /\ x \notin {Fail, <<>>}
              /\ out' = out \o write(x)
              /\ fds' = [fds EXCEPT ![fd] = Advanced(@, x)]
              /\ UNCHANGED <<pc, status>>
    BY Zenon DEF CatRead
  <2>2. x = r
    BY <2>1
  <2> HIDE DEF r
  <2>3. CASE x = Fail /\ HaltWith("file read failed", 3)
    BY <2>2, <2>3, Zenon DEF HaltWith, Halt
  <2>4. CASE x = <<>> /\ Halt(0) /\ UNCHANGED out
    BY <2>2, <2>4, Zenon DEF Halt
  <2>5. CASE /\ x \notin {Fail, <<>>}
             /\ out' = out \o write(x)
             /\ fds' = [fds EXCEPT ![fd] = Advanced(@, x)]
             /\ UNCHANGED <<pc, status>>
    BY <1>1, <2>2, <2>5, Zenon DEF write
  <2> QED
    BY <2>1, <2>3, <2>4, <2>5, Zenon
<1>5. Files' = Files /\ Names' = Names /\ Full' = Full /\ Cut(args)' = Cut(args) /\ At(args, 1)' = At(args, 1)
  BY <1>1, SameImage, Zenon
<1>6. /\ r # Fail /\ r # <<>> => fds'[fd'] = Advanced(d, r) /\ pc' = "catread" /\ out' = out \o Str(r)
  BY <1>1, <1>3, <1>4 DEF IInv, TypeInv
<1>7. prog' = "cat" /\ fds \in [Fds -> Descriptors]
  BY <1>1 DEF IInv, TypeInv
<1>8. CASE d.kind = "file"
  <2> DEFINE T == TextOf(image, d)
  <2>1. T = image.content[d.inode]
    BY <1>8, Zenon DEF TextOf
  <2>2. d.pos <= Len(T) /\ out = Upto(Kept(T), d.pos)
    BY <1>2, <1>8, <2>1
  <2>3. PICK i \in Files : Cut(args) = Names[i] /\ d.inode = image.dentries[i].inode
    BY <1>2, <1>8
  <2>4. BufSize \in Nat /\ BufSize > 0
    BY Sizes
  <2>5. /\ T \in Seq(Chars) /\ r \in Seq(Chars) /\ r # Fail /\ Len(r) <= BufSize
        /\ Len(r) = IF d.pos + BufSize <= Len(T) THEN BufSize ELSE Len(T) - d.pos
        /\ r = SubSeq(T, d.pos + 1, d.pos + Len(r)) /\ d.pos + Len(r) <= Len(T)
        /\ Advanced(d, r).pos = d.pos + Len(r) /\ TextOf(image, Advanced(d, r)) = T
    BY <1>1, <1>3, <1>8, <2>2, <2>4, NextBytes
  <2>6. d.pos \in Nat /\ Len(r) \in Nat /\ Len(T) \in Nat
    BY <1>3, <2>5 DEF Descriptors
  <2>7. Advanced(d, r).kind = "file" /\ Advanced(d, r).inode = d.inode
    BY <1>3, <1>8, <2>5, AdvancedRight, Zenon
  <2> HIDE DEF d, r, T
  <2>8. CASE r = <<>>
    <3>1. Len(r) = 0
      BY <2>8
    <3>2. d.pos = Len(T)
      <4> DEFINE p == d.pos
                 n == Len(T)
      <4>1. p \in Nat /\ n \in Nat /\ p <= n /\ 0 = (IF p + BufSize <= n THEN BufSize ELSE n - p)
        BY <2>2, <2>5, <2>6, <3>1, Zenon
      <4> HIDE DEF p, n
      <4>2. p = n
        BY <2>4, <4>1
      <4> QED
        BY <4>2 DEF p, n
    <3>3. status' = 0 /\ out' = Str(T) /\ pc' = "report"
      <4>1. status' = 0 /\ out' = out /\ pc' = "report"
        BY <1>4, <2>5, <2>8, Zenon
      <4>2. Str(T) = Upto(Kept(T), Len(T))
        BY <2>5, StrKept, Zenon
      <4> QED
        BY <2>2, <3>2, <4>1, <4>2, Zenon
    <3>4. T = image'.content[image'.dentries[i].inode]
      BY <1>1, <2>1, <2>3, Zenon
    <3>5. CatAsPromised'
      BY <1>5, <2>3, <3>3, <3>4, Zenon DEF CatAsPromised
    <3> QED
      BY <1>7, <3>3, <3>5, PrintedReport, Zenon
  <2>9. CASE r # <<>>
    <3> DEFINE e == Advanced(d, r)
    <3>1. fds'[fd'] = e /\ pc' = "catread" /\ out' = out \o Str(r)
      BY <1>6, <2>5, <2>9, Zenon
    <3>2. e.kind = "file" /\ e.inode = d.inode /\ e.pos = d.pos + Len(r) /\ e.pos <= Len(T)
      BY <2>5, <2>7
    <3>3. out' = Upto(Kept(T), e.pos)
      <4> DEFINE m == d.pos + Len(r)
      <4>1. m \in Nat /\ d.pos <= m /\ m <= Len(T)
        BY <2>5, <2>6
      <4>2. e.pos = m /\ r = SubSeq(T, d.pos + 1, m)
        BY <2>5, <3>2
      <4> HIDE DEF m, e
      <4>3. Upto(Kept(T), m) = Upto(Kept(T), d.pos) \o Str(SubSeq(T, d.pos + 1, m))
        BY <2>5, <2>6, <4>1, KeptMore
      <4> QED
        BY <2>2, <3>1, <4>2, <4>3, Zenon
    <3> HIDE DEF e
    <3>4. CatInv'
      BY <1>1, <1>5, <1>7, <2>1, <2>3, <3>1, <3>2, <3>3, Zenon DEF CatInv
    <3> QED
      BY <3>1, <3>4, PrintedCat, Zenon
  <2> QED
    BY <2>8, <2>9
<1>9. CASE d.kind = "dir"
  <2>1. d.pos <= L /\ At(args, 1) = Dot /\ out = Upto(Names, d.pos)
    BY <1>2, <1>9
  <2>2. BufSize \in Nat /\ NameLen <= BufSize /\ L \in Nat /\ L <= DirSize /\ d.pos \in Nat /\ DirSize \in Nat
    BY <1>1, <1>3, Sizes, ProgramsAssumption, DirectoryRight DEF Descriptors
  <2>3. \/ d.pos >= DirSize /\ r = Fail
        \/ d.pos < DirSize /\ d.pos >= L /\ r = <<>> /\ r # Fail
        \/ /\ d.pos + 1 \in 1 .. L /\ d.pos < DirSize
           /\ r = image.dentries[d.pos + 1].name /\ r # <<>> /\ r # Fail
           /\ Advanced(d, r).pos = d.pos + 1
    BY <1>1, <1>3, <1>9, <2>2, NextEntry
  <2>4. Pieces(Names, L, Chars)
    BY <1>1, NamesRight, Zenon
  <2> HIDE DEF d, r, L
  <2>5. CASE d.pos >= DirSize /\ r = Fail
    <3>1. Full
      <4>1. L = DirSize
        BY <2>1, <2>2, <2>5
      <4> QED
        BY <4>1 DEF Full, L
    <3>2. Fail # <<>>
      BY DEF Fail
    <3>3. status' = 3 /\ pc' = "report"
      BY <1>4, <2>5, <3>2, Zenon
    <3>4. status' # 0
      BY <3>3
    <3>5. CatAsPromised'
      BY <1>5, <2>1, <3>1, <3>4, Zenon DEF CatAsPromised
    <3> QED
      BY <1>7, <3>3, <3>5, PrintedReport, Zenon
  <2>6. CASE d.pos < DirSize /\ d.pos >= L /\ r = <<>> /\ r # Fail
    <3>1. d.pos = L
      BY <2>1, <2>2, <2>6
    <3>2. status' = 0 /\ pc' = "report" /\ out' = out
      BY <1>4, <2>6, Zenon
    <3>3. FlattenSeq(Names) = Upto(Names, L)
      BY <2>4, UptoRight, Zenon
    <3>4. CatAsPromised'
      BY <1>5, <2>1, <3>1, <3>2, <3>3, Zenon DEF CatAsPromised
    <3> QED
      BY <1>7, <3>2, <3>4, PrintedReport, Zenon
  <2>7. CASE /\ d.pos + 1 \in 1 .. L /\ d.pos < DirSize
             /\ r = image.dentries[d.pos + 1].name /\ r # <<>> /\ r # Fail
             /\ Advanced(d, r).pos = d.pos + 1
    <3> DEFINE k == d.pos + 1
               e == Advanced(d, r)
    <3>1. fds'[fd'] = e /\ pc' = "catread" /\ out' = out \o Str(r)
      BY <1>6, <2>7, Zenon
    <3>2. e.pos = k /\ k \in 1 .. L /\ k - 1 = d.pos /\ k <= L
      BY <2>2, <2>7
    <3>3. r \in Seq(Chars)
      BY <1>1, <2>7, DirectoryRight, Zenon DEF IsEntry, IsString, L
    <3>4. e.kind = "dir"
      BY <1>3, <1>9, <3>3, AdvancedRight, Zenon
    <3> HIDE DEF e
    <3>5. Names[k] = r /\ Str(r) = r
      BY <1>1, <2>7, NamesRight, Zenon DEF L
    <3>6. Upto(Names, k) = Upto(Names, k - 1) \o Names[k]
      <4>1. Unrolls(Names, L)
        BY <2>4, UptoRight, Zenon
      <4> HIDE DEF k
      <4> QED
        BY <3>2, <4>1, Zenon DEF Unrolls
    <3>7. out' = Upto(Names, k)
      BY <2>1, <3>1, <3>2, <3>5, <3>6, Zenon
    <3> HIDE DEF k
    <3>8. CatInv'
      BY <1>1, <1>5, <1>7, <2>1, <3>1, <3>2, <3>4, <3>7, Zenon DEF CatInv, L
    <3> QED
      BY <3>1, <3>8, PrintedCat, Zenon
  <2> QED
    BY <2>3, <2>5, <2>6, <2>7, Zenon
<1>10. CASE d.kind = "rtc"
  <2>1. Same(RtcName, args, Len(RtcName)) /\ out = <<>>
    BY <1>2, <1>10
  <2>2. r = <<>>
    BY <1>10 DEF ReadAt
  <2>3. status' = 0 /\ pc' = "report" /\ out' = out
    <3>1. Fail # <<>>
      BY DEF Fail
    <3> HIDE DEF r
    <3> QED
      BY <1>4, <2>2, <3>1, Zenon
  <2>4. CatAsPromised'
    BY <1>1, <1>5, <2>1, <2>3, Zenon DEF CatAsPromised
  <2> QED
    BY <1>7, <2>3, <2>4, PrintedReport, Zenon
<1> QED
  BY <1>2, <1>8, <1>9, <1>10, Zenon

\* The directory can always be opened.
LEMMA DirStartPrints ==
    ASSUME IInv, StartInv, DirStart
    PROVE  Printed'
<1> DEFINE d == open_handler(image.dentries, <<Dot>>)
           L == Len(image.dentries)
<1>1. /\ pc = "start" /\ prog \in {"ls", "grep"} /\ image' = image /\ args' = args /\ prog' = prog
      /\ fds = AllFree /\ out = <<>> /\ image \in Images
  BY DEF DirStart, StartInv, IInv, TypeInv
<1>2. 2 \in Fds /\ fds[2].kind = "free"
  BY <1>1, TwoFds, AllFreeRight
<1>3. IsString(<<Dot>>) /\ ~Same(RtcName, <<Dot>>, Len(RtcName)) /\ At(<<Dot>>, 1) = Dot
  <2>1. Dot \in Chars
    BY NamesAssumption, Zenon
  <2>2. Dot # Nul
    BY DEF Dot, Nul
  <2>3. IsString(<<Dot>>) /\ At(<<Dot>>, 1) = Dot
    BY <2>1, <2>2 DEF IsString, At
  <2>4. RtcName[1] # Dot /\ IsString(RtcName) /\ RtcName # <<>>
    BY ProgramsAssumption, Zenon
  <2>5. 1 \in 1 .. Len(RtcName)
    BY <2>4 DEF IsString
  <2>6. ~Same(RtcName, <<Dot>>, Len(RtcName))
    BY <2>3, <2>4, <2>5, SameRtc, Zenon
  <2> QED
    BY <2>3, <2>6
<1>4. d # NoFile /\ d.kind = "dir" /\ d.pos = 0
  BY <1>1, <1>3, OpenHandlerRight, Zenon
<1>5. OpenAt(<<Dot>>) # -1
  BY <1>2, <1>4, OpenAtFails, Zenon
<1>6. fd' = OpenAt(<<Dot>>) /\ fds' = [fds EXCEPT ![fd'] = d] /\ pc' = prog /\ out' = out /\ g' = g
  BY <1>5, Zenon DEF DirStart
<1>7. fd' \in Fds
  BY <1>5, <1>6, OpenAtRight, Zenon DEF IInv
<1>8. fds'[fd'] = d /\ \A n \in Fds \ {fd'} : fds'[n] = AllFree[n]
  BY <1>1, <1>6, <1>7 DEF IInv, TypeInv
<1>9. Names' = Names /\ NameLines' = NameLines /\ InFiles(args)' = InFiles(args)
  BY <1>1, SameImage, Zenon
<1>10. 0 <= L
  BY <1>1, DirectoryRight
<1>11. out' = <<>> /\ pc' = prog' /\ prog' = prog
  BY <1>1, <1>6
<1> HIDE DEF d
<1>12. CASE prog = "ls"
  <2>1. Upto(NameLines, 0) = <<>>
    BY <1>1, NamesRight, UptoRight, Zenon
  <2>2. LsInv'
    BY <1>1, <1>4, <1>8, <1>9, <1>10, <1>11, <1>12, <2>1, Zenon DEF LsInv
  <2> QED
    BY <1>11, <1>12, <2>2, PrintedLs, Zenon
<1>13. CASE prog = "grep"
  <2>1. pc' = "grep" /\ pc' \notin {"grepread", "grepline", "grepclose"}
    BY <1>11, <1>13
  <2>2. \A n \in Fds \ {fd'} : fds'[n].kind = "free"
    BY <1>8, AllFreeRight
  <2>3. EntryInv'
    BY <1>1, <1>4, <1>8, <1>10, <1>11, <1>13, <2>1, <2>2, Zenon DEF EntryInv
  <2>4. Upto(InFiles(args), 0) = <<>>
    <3>1. [i \in 1 .. 0 |-> InFiles(args)[i]] = <<>>
      OBVIOUS
    <3> QED
      BY <3>1 DEF Upto, FlattenSeq
  <2>5. TextInv'
    <3>1. fds'[fd'].pos = 0
      BY <1>4, <1>8
    <3>2. out' = Upto(InFiles(args)', fds'[fd'].pos)
      BY <1>9, <1>11, <2>4, <3>1, Zenon
    <3> QED
      BY <2>1, <3>2 DEF TextInv
  <2> QED
    BY <2>1, <2>3, <2>5, PrintedGrep, Zenon
<1> QED
  BY <1>1, <1>12, <1>13

\* ls prints the names, each on a line.
LEMMA LsReadPrints ==
    ASSUME IInv, LsInv, LsRead
    PROVE  Printed'
<1> DEFINE d == fds[fd]
           r == ReadAt(d, NameLen)
           L == Len(image.dentries)
<1>1. /\ pc = "ls" /\ prog = "ls" /\ image' = image /\ args' = args /\ prog' = prog /\ fd' = fd
      /\ image \in Images /\ d.kind = "dir" /\ d.pos <= L /\ out = Upto(NameLines, d.pos)
  BY DEF LsRead, LsInv, IInv, TypeInv
<1>2. fd \in Fds /\ d \in Descriptors
  BY <1>1 DEF IInv, FilesInv, TypeInv
<1>3. \/ r = Fail /\ pc' = "report" /\ status' = 3 /\ out' = Append(out, "directory entry read failed")
      \/ r = <<>> /\ pc' = "report" /\ status' = 0 /\ out' = out
      \/ /\ r # Fail /\ r # <<>> /\ out' = out \o Str(Append(r, Newline))
         /\ fds' = [fds EXCEPT ![fd] = Advanced(@, r)] /\ pc' = "ls"
  <2>1. PICK x \in {ReadAt(fds[fd], NameLen)} :
           \/ x = Fail /\ HaltWith("directory entry read failed", 3)
           \/ x = <<>> /\ Halt(0) /\ UNCHANGED out
           \/ /\ x \notin {Fail, <<>>}
              /\ out' = out \o write(Append(x, Newline))
              /\ fds' = [fds EXCEPT ![fd] = Advanced(@, x)]
              /\ UNCHANGED <<pc, status>>
    BY Zenon DEF LsRead
  <2>2. x = r
    BY <2>1
  <2> HIDE DEF r
  <2>3. CASE x = Fail /\ HaltWith("directory entry read failed", 3)
    BY <2>2, <2>3, Zenon DEF HaltWith, Halt
  <2>4. CASE x = <<>> /\ Halt(0) /\ UNCHANGED out
    BY <2>2, <2>4, Zenon DEF Halt
  <2>5. CASE /\ x \notin {Fail, <<>>}
             /\ out' = out \o write(Append(x, Newline))
             /\ fds' = [fds EXCEPT ![fd] = Advanced(@, x)]
             /\ UNCHANGED <<pc, status>>
    BY <1>1, <2>2, <2>5, Zenon DEF write
  <2> QED
    BY <2>1, <2>3, <2>4, <2>5, Zenon
<1>4. NameLines' = NameLines /\ Full' = Full
  BY <1>1, SameImage, Zenon
<1>5. r # Fail /\ r # <<>> => fds'[fd'] = Advanced(d, r) /\ pc' = "ls" /\ out' = out \o Str(Append(r, Newline))
  BY <1>1, <1>2, <1>3 DEF IInv, TypeInv
<1>6. prog' = "ls"
  BY <1>1
<1>7. NameLen \in Nat /\ NameLen <= NameLen /\ L \in Nat /\ L <= DirSize /\ d.pos \in Nat /\ DirSize \in Nat
  BY <1>1, <1>2, Sizes, DirectoryRight DEF Descriptors
<1>8. \/ d.pos >= DirSize /\ r = Fail
      \/ d.pos < DirSize /\ d.pos >= L /\ r = <<>> /\ r # Fail
      \/ /\ d.pos + 1 \in 1 .. L /\ d.pos < DirSize
         /\ r = image.dentries[d.pos + 1].name /\ r # <<>> /\ r # Fail
         /\ Advanced(d, r).pos = d.pos + 1
  BY <1>1, <1>2, <1>7, NextEntry
<1>9. Pieces(NameLines, L, Chars)
  BY <1>1, NamesRight, Zenon
<1>10. FlattenSeq(NameLines) = Upto(NameLines, L)
  BY <1>9, UptoRight, Zenon
<1> HIDE DEF d, r, L
<1>11. CASE d.pos >= DirSize /\ r = Fail
  <2>1. d.pos = L /\ L = DirSize
    BY <1>1, <1>7, <1>11
  <2>2. Full
    BY <2>1 DEF Full, L
  <2>3. Fail # <<>>
    BY DEF Fail
  <2>4. status' = 3 /\ pc' = "report" /\ out' = Append(out, "directory entry read failed")
    BY <1>3, <1>11, <2>3, Zenon
  <2>5. status' # 0 /\ out' = Append(FlattenSeq(NameLines), "directory entry read failed")
    <3>1. status' # 0
      <4>1. status' = 3
        BY <2>4, Zenon
      <4> QED
        BY <4>1
    <3>2. out = FlattenSeq(NameLines)
      BY <1>1, <1>10, <2>1, Zenon
    <3> QED
      BY <2>4, <3>1, <3>2, Zenon
  <2>6. LsAsPromised'
    BY <1>4, <2>2, <2>5, Zenon DEF LsAsPromised, ToTheEnd
  <2> QED
    BY <1>6, <2>4, <2>6, PrintedReport, Zenon
<1>12. CASE d.pos < DirSize /\ d.pos >= L /\ r = <<>> /\ r # Fail
  <2>1. d.pos = L /\ L # DirSize
    BY <1>1, <1>7, <1>12
  <2>2. ~Full
    BY <2>1 DEF Full, L
  <2>3. status' = 0 /\ pc' = "report" /\ out' = out
    BY <1>3, <1>12, Zenon
  <2>4. out' = FlattenSeq(NameLines)
    BY <1>1, <1>10, <2>1, <2>3, Zenon
  <2>5. LsAsPromised'
    BY <1>4, <2>2, <2>3, <2>4, Zenon DEF LsAsPromised, ToTheEnd
  <2> QED
    BY <1>6, <2>3, <2>5, PrintedReport, Zenon
<1>13. CASE /\ d.pos + 1 \in 1 .. L /\ d.pos < DirSize
            /\ r = image.dentries[d.pos + 1].name /\ r # <<>> /\ r # Fail
            /\ Advanced(d, r).pos = d.pos + 1
  <2> DEFINE k == d.pos + 1
             e == Advanced(d, r)
  <2>1. fds'[fd'] = e /\ pc' = "ls" /\ out' = out \o Str(Append(r, Newline))
    BY <1>5, <1>13, Zenon
  <2>2. e.pos = k /\ k \in 1 .. L /\ k - 1 = d.pos /\ k <= L
    BY <1>7, <1>13
  <2>3. r \in Seq(Chars)
    BY <1>1, <1>13, DirectoryRight, Zenon DEF IsEntry, IsString, L
  <2>4. e.kind = "dir"
    BY <1>1, <1>2, <2>3, AdvancedRight, Zenon
  <2> HIDE DEF e
  <2>5. NameLines[k] = Append(r, Newline) /\ Str(NameLines[k]) = NameLines[k]
    BY <1>1, <1>13, NamesRight, Zenon DEF L
  <2>6. Upto(NameLines, k) = Upto(NameLines, k - 1) \o NameLines[k]
    <3>1. Unrolls(NameLines, L)
      BY <1>9, UptoRight, Zenon
    <3> HIDE DEF k
    <3> QED
      BY <2>2, <3>1, Zenon DEF Unrolls
  <2>7. out' = Upto(NameLines, k)
    BY <1>1, <2>1, <2>2, <2>5, <2>6, Zenon
  <2> HIDE DEF k
  <2>8. LsInv'
    BY <1>1, <1>4, <1>6, <2>1, <2>2, <2>4, <2>7, Zenon DEF LsInv, L
  <2> QED
    BY <2>1, <2>8, PrintedLs, Zenon
<1> QED
  BY <1>8, <1>11, <1>12, <1>13, Zenon


-----------------------------------------------------------------------------
(* The lines of a text                                                     *)

\* The line from k on ends at e.
EndsLine(text, k, e) ==
    /\ e \in Nat /\ k <= e + 1 /\ e <= Len(text)
    /\ \A i \in k .. e : text[i] # Newline
    /\ e = Len(text) \/ text[e + 1] = Newline

LEMMA LineFromRight ==
    ASSUME NEW T \in Seq(Chars), NEW k \in Nat, NEW e, EndsLine(T, k, e)
    PROVE  LineFrom(T, k) = SubSeq(T, k, e)
<1> DEFINE n == Len(T)
           S == {i \in k .. n + 1 : i = n + 1 \/ T[i] = Newline}
           m == Min(S)
<1>1. /\ n \in Nat /\ e \in Nat /\ k <= e + 1 /\ e <= n
      /\ \A i \in k .. e : T[i] # Newline
      /\ e = n \/ T[e + 1] = Newline
  BY DEF EndsLine
<1>2. e + 1 \in S /\ S \in SUBSET Nat
  <2> HIDE DEF n
  <2>1. e + 1 \in k .. n + 1 /\ (e + 1 = n + 1 \/ T[e + 1] = Newline)
    BY <1>1
  <2> QED
    BY <1>1, <2>1
<1>3. m \in S /\ \A y \in S : m <= y
  BY <1>2, MinRight, Zenon
<1>4. m \in k .. n + 1 /\ (m = n + 1 \/ T[m] = Newline) /\ m <= e + 1
  <2>1. m <= e + 1
    BY <1>2, <1>3, Zenon
  <2>2. \A x \in S : x \in k .. n + 1 /\ (x = n + 1 \/ T[x] = Newline)
    OBVIOUS
  <2> HIDE DEF m, S, n
  <2> QED
    BY <1>3, <2>1, <2>2, Zenon
<1>5. LineFrom(T, k) = SubSeq(T, k, m - 1)
  BY Zenon DEF LineFrom
<1> HIDE DEF m, S, n
<1>6. m = e + 1
  <2>1. ~(m < e + 1)
    BY <1>1, <1>4
  <2> QED
    BY <1>1, <1>4, <2>1
<1>7. m - 1 = e
  BY <1>1, <1>6
<1> QED
  BY <1>5, <1>7, Zenon

\* Every line has an end.
LEMMA LineHasEnd ==
    ASSUME NEW T \in Seq(Chars), NEW k \in 1 .. Len(T)
    PROVE  \E e : EndsLine(T, k, e)
<1> DEFINE n == Len(T)
           S == {i \in k .. n + 1 : i = n + 1 \/ T[i] = Newline}
           m == Min(S)
<1>1. n \in Nat /\ k \in Nat /\ k >= 1 /\ k <= n
  OBVIOUS
<1>2. n + 1 \in S /\ S \in SUBSET Nat
  <2> HIDE DEF n
  <2> QED
    BY <1>1
<1>3. m \in S /\ \A y \in S : m <= y
  BY <1>2, MinRight, Zenon
<1>4. \A x \in S : (\A y \in S : x <= y) =>
         /\ x - 1 \in Nat /\ k <= (x - 1) + 1 /\ x - 1 <= n
         /\ \A i \in k .. x - 1 : T[i] # Newline
         /\ x - 1 = n \/ T[(x - 1) + 1] = Newline
  <2> HIDE DEF n
  <2> TAKE x \in S
  <2> HAVE \A y \in S : x <= y
  <2>1. x \in k .. n + 1 /\ (x = n + 1 \/ T[x] = Newline)
    OBVIOUS
  <2>2. ASSUME NEW i \in k .. x - 1 PROVE T[i] # Newline
    <3>1. i \in k .. n + 1 /\ ~(x <= i)
      BY <1>1, <2>1
    <3> QED
      BY <3>1
  <2>3. x - 1 \in Nat /\ k <= (x - 1) + 1 /\ x - 1 <= n /\ (x - 1) + 1 = x
    BY <1>1, <2>1
  <2>4. x - 1 = n \/ T[(x - 1) + 1] = Newline
    BY <1>1, <2>1, <2>3
  <2> QED
    BY <2>2, <2>3, <2>4
<1>5. EndsLine(T, k, m - 1)
  <2> HIDE DEF S, m
  <2> QED
    BY <1>3, <1>4, Zenon DEF EndsLine, n
<1> QED
  BY <1>5, Zenon

Printable == Chars \cup {":"}

LEMMA ShownRight ==
    ASSUME NEW name, IsString(name), NEW l, IsString(l)
    PROVE  Shown(name, l) \in Seq(Printable) /\ Str(Shown(name, l)) = Shown(name, l)
<1>1. Newline \in Chars /\ Newline # Nul /\ ":" # Nul
  <2>1. Newline \in Chars
    BY NamesAssumption, Zenon
  <2> QED
    BY <2>1 DEF Newline, Nul
<1>2. /\ name \in Seq(Chars) /\ l \in Seq(Chars)
      /\ (\A i \in 1 .. Len(name) : name[i] # Nul) /\ \A i \in 1 .. Len(l) : l[i] # Nul
  BY DEF IsString
<1> DEFINE a == name \o <<":">>
           b == a \o l
           c == b \o <<Newline>>
<1>3. a \in Seq(Printable) /\ \A i \in 1 .. Len(a) : a[i] # Nul
  BY <1>1, <1>2 DEF Printable
<1> HIDE DEF a
<1>4. b \in Seq(Printable) /\ \A i \in 1 .. Len(b) : b[i] # Nul
  BY <1>2, <1>3 DEF Printable
<1> HIDE DEF b
<1>5. c \in Seq(Printable) /\ \A i \in 1 .. Len(c) : c[i] # Nul
  BY <1>1, <1>4 DEF Printable
<1>6. Shown(name, l) = c
  BY Zenon DEF Shown, a, b
<1> HIDE DEF c
<1>7. Str(c) = c
  BY <1>5, StrWhole
<1> QED
  BY <1>5, <1>6, <1>7

\* A part of a text without NULs.
LEMMA PartIsString ==
    ASSUME NEW T, IsString(T), NEW k \in Nat, NEW e \in Nat, 1 <= k, e <= Len(T)
    PROVE  IsString(SubSeq(T, k, e))
BY DEF IsString

LEMMA TextPieces ==
    ASSUME NEW T, IsString(T), NEW name, IsString(name), NEW P
    PROVE  Pieces(InText(name, T, P), Len(T), Printable)
<1>1. T \in Seq(Chars) /\ Len(T) \in Nat
  BY DEF IsString
<1>2. ASSUME NEW k \in 1 .. Len(T) PROVE Shown(name, LineFrom(T, k)) \in Seq(Printable)
  <2>1. PICK e : EndsLine(T, k, e)
    BY <1>1, LineHasEnd
  <2>2. k \in Nat /\ 1 <= k
    BY <1>1
  <2>3. LineFrom(T, k) = SubSeq(T, k, e)
    BY <1>1, <2>1, <2>2, LineFromRight, Zenon
  <2>4. IsString(SubSeq(T, k, e))
    BY <2>1, <2>2, PartIsString, Zenon DEF EndsLine
  <2> QED
    BY <2>3, <2>4, ShownRight, Zenon
<1>3. <<>> \in Seq(Printable)
  OBVIOUS
<1>4. InText(name, T, P) \in [1 .. Len(T) -> Seq(Printable)]
  BY <1>2, <1>3, Zenon DEF InText
<1> QED
  BY <1>1, <1>4, Zenon DEF Pieces

\* A search from s to the end e of the line, that goes on at t.
Searches(text, name, pattern, s, e, t) ==
    /\ IsString(text) /\ IsString(name) /\ pattern \in Seq(Chars)
    /\ s \in Nat /\ EndsLine(text, s + 1, e) /\ Boundary(text, s)
    /\ t = e \/ (t = e + 1 /\ e < Len(text))

\* From s to t the text makes one line that is to be printed, if it holds the pattern,
\* and nothing else.
Prints(text, name, pattern, s, e, t) ==
    LET l == SubSeq(text, s + 1, e)
        u == InText(name, text, pattern)
    IN  /\ Boundary(text, t)
        /\ Holds(l, pattern) => Upto(u, t) = Upto(u, s) \o Shown(name, l)
        /\ ~Holds(l, pattern) => Upto(u, t) = Upto(u, s)

LEMMA SearchPrints ==
    ASSUME NEW T, NEW name, NEW P, NEW s, NEW e, NEW t, Searches(T, name, P, s, e, t)
    PROVE  Prints(T, name, P, s, e, t)
<1> USE DEF Searches
<1>0. /\ IsString(T) /\ IsString(name) /\ P \in Seq(Chars)
      /\ s \in Nat /\ EndsLine(T, s + 1, e) /\ Boundary(T, s)
      /\ t = e \/ (t = e + 1 /\ e < Len(T))
  BY Zenon
<1> USE <1>0
<1> HIDE DEF Searches
<1> DEFINE l == SubSeq(T, s + 1, e)
           u == InText(name, T, P)
           n == Len(T)
<1>1. /\ T \in Seq(Chars) /\ n \in Nat /\ e \in Nat /\ s <= e /\ e <= n
      /\ \A i \in s + 1 .. e : T[i] # Newline
      /\ e = n \/ T[e + 1] = Newline
  BY DEF EndsLine, IsString
<1>2. s = 0 \/ s = n \/ T[s] = Newline \/ T[s + 1] = Newline
  BY DEF Boundary
<1>3. t \in Nat /\ t <= n /\ s <= t
  BY <1>1
<1>4. Boundary(T, t)
  BY <1>1, <1>3 DEF Boundary
<1>5. Pieces(u, n, Printable)
  BY TextPieces
<1>6. \A k \in 1 .. n : u[k] = IF Begins(T, k) /\ Holds(LineFrom(T, k), P) THEN Shown(name, LineFrom(T, k)) ELSE <<>>
  BY DEF InText
<1>7. \A k \in s + 2 .. t : u[k] = <<>>
  <2> TAKE k \in s + 2 .. t
  <2>1. k \in 1 .. n /\ k # 1 /\ k - 1 \in s + 1 .. e
    BY <1>1, <1>3
  <2>2. ~Begins(T, k)
    BY <1>1, <2>1 DEF Begins
  <2> HIDE DEF u, n
  <2> QED
    BY <1>6, <2>1, <2>2, Zenon
<1>8. ASSUME s < t PROVE Upto(u, t) = Upto(u, s) \o u[s + 1]
  <2> HIDE DEF u, n
  <2>1. OneMore(u, s, t)
    BY <1>3, <1>5, <1>7, <1>8, UptoOne, Zenon
  <2> QED
    BY <2>1, Zenon DEF OneMore
<1>9. l \in Seq(Chars) /\ Len(l) = e - s
  BY <1>1
<1>10. ASSUME e = s PROVE ~Holds(l, P)
  <2>1. Len(l) = 0
    BY <1>1, <1>9, <1>10
  <2> HIDE DEF l
  <2>2. P # <<>> => Len(P) \in Nat /\ Len(P) # 0
    OBVIOUS
  <2>3. P # <<>> => \A i \in 1 .. Len(l) - Len(P) + 1 : FALSE
    BY <2>1, <2>2
  <2> QED
    BY <2>3, Zenon DEF Holds
<1>11. CASE s = t
  <2>1. e = s
    BY <1>1, <1>11
  <2> QED
    BY <1>4, <1>10, <1>11, <2>1, Zenon DEF Prints
<1>12. CASE s # t /\ Begins(T, s + 1)
  <2>1. s < t /\ s + 1 \in 1 .. n /\ s + 1 \in Nat
    BY <1>1, <1>3, <1>12
  <2>2. LineFrom(T, s + 1) = l
    BY <1>1, <2>1, LineFromRight, Zenon
  <2> HIDE DEF u, n, l
  <2>3. u[s + 1] = IF Holds(l, P) THEN Shown(name, l) ELSE <<>>
    BY <1>6, <1>12, <2>1, <2>2, Zenon
  <2>4. s + 1 \in Nat /\ s \in 0 .. n
    BY <1>1, <1>3, <2>1
  <2>5. Upto(u, s) \in Seq(Printable)
    BY <1>5, <2>4, UptoRight, Zenon
  <2>6. Upto(u, s) \o <<>> = Upto(u, s)
    BY <2>5, NothingBehind, Zenon
  <2>7. Upto(u, t) = Upto(u, s) \o u[s + 1]
    BY <1>8, <2>1
  <2>8. Holds(l, P) => Upto(u, t) = Upto(u, s) \o Shown(name, l)
    BY <2>3, <2>7, Zenon
  <2>9. ~Holds(l, P) => Upto(u, t) = Upto(u, s)
    BY <2>3, <2>6, <2>7, Zenon
  <2> QED
    BY <1>4, <2>8, <2>9, Zenon DEF u, n, l, Prints
<1>13. CASE s # t /\ ~Begins(T, s + 1)
  <2>1. s < t /\ s + 1 \in 1 .. n /\ s # 0 /\ T[s] # Newline /\ s # n
    BY <1>1, <1>3, <1>13 DEF Begins
  <2>2. e = s
    BY <1>1, <1>2, <2>1
  <2> HIDE DEF u, n, l
  <2>3. ~Holds(l, P) /\ u[s + 1] = <<>>
    BY <1>6, <1>10, <1>13, <2>1, <2>2, Zenon
  <2>4. s \in 0 .. n
    BY <1>1, <1>3, <2>1
  <2>5. Upto(u, s) \in Seq(Printable)
    BY <1>5, <2>4, UptoRight, Zenon
  <2>6. Upto(u, s) \o <<>> = Upto(u, s)
    BY <2>5, NothingBehind, Zenon
  <2>7. Upto(u, t) = Upto(u, s) \o u[s + 1]
    BY <1>8, <2>1
  <2>8. Upto(u, t) = Upto(u, s)
    BY <2>3, <2>6, <2>7, Zenon
  <2> QED
    BY <1>4, <2>3, <2>8, Zenon DEF u, n, l, Prints
<1> QED
  BY <1>11, <1>12, <1>13

-----------------------------------------------------------------------------
(* The search of a line                                                    *)

\* strlen stops at the first NUL.
LEMMA StrlenEnds ==
    ASSUME NEW s \in Seq(Chars), NEW n \in Nat, n < Len(s), s[n + 1] = Nul,
           \A i \in 1 .. n : s[i] # Nul
    PROVE  strlen(s) = n
<1> DEFINE S == {i \in 1 .. Len(s) + 1 : At(s, i) = Nul}
           m == Min(S)
           N == Len(s)
<1>1. N \in Nat
  OBVIOUS
<1>2. n + 1 \in S /\ S \in SUBSET Nat
  BY <1>1 DEF At
<1>3. m \in S /\ m <= n + 1
  BY <1>2, MinRight, Zenon
<1>4. m \in 1 .. N + 1 /\ At(s, m) = Nul
  BY <1>3
<1>5. strlen(s) = m - 1
  BY DEF strlen
<1> HIDE DEF S, m
<1>6. m <= N /\ s[m] = Nul
  BY <1>1, <1>3, <1>4 DEF At
<1>7. ~(m <= n)
  BY <1>4, <1>6
<1> QED
  BY <1>3, <1>4, <1>5, <1>7

\* The string l from start to the NUL at end.
HasLine(data, start, end, l) ==
    /\ data \in Seq(Chars) /\ start \in Nat /\ end \in Nat /\ start <= end /\ end + 1 <= Len(data)
    /\ data[end + 1] = Nul /\ IsString(l) /\ l = SubSeq(data, start + 1, end)

LEMMA SliceRight ==
    ASSUME NEW S, NEW s \in Seq(S), NEW i \in Nat, NEW j \in Nat, i <= j, j <= Len(s)
    PROVE  /\ SubSeq(s, i + 1, j) \in Seq(S) /\ Len(SubSeq(s, i + 1, j)) = j - i
           /\ \A k \in 1 .. j - i : SubSeq(s, i + 1, j)[k] = s[i + k]
OBVIOUS

LEMMA SameSequences ==
    ASSUME NEW S, NEW s \in Seq(S), NEW t \in Seq(S)
    PROVE  s = t <=> Len(s) = Len(t) /\ \A k \in 1 .. Len(t) : s[k] = t[k]
OBVIOUS

LEMMA StringAtRight ==
    ASSUME NEW data, NEW start, NEW end, NEW l, HasLine(data, start, end, l), NEW i \in start .. end
    PROVE  StringAt(data, i) = SubSeq(data, i + 1, end)
<1> DEFINE s == SubSeq(data, i + 1, Len(data))
           n == end - i
<1>1. /\ data \in Seq(Chars) /\ start \in Nat /\ end \in Nat /\ start <= end /\ end + 1 <= Len(data)
      /\ data[end + 1] = Nul /\ l = SubSeq(data, start + 1, end)
      /\ i \in Nat /\ start <= i /\ i <= end
  BY DEF HasLine
<1>2. \A k \in 1 .. end - start : data[start + k] # Nul
  <2>1. Len(l) = end - start /\ \A k \in 1 .. end - start : l[k] = data[start + k]
    BY <1>1
  <2>2. \A k \in 1 .. Len(l) : l[k] # Nul
    BY DEF HasLine, IsString
  <2> QED
    BY <2>1, <2>2
<1>3. /\ s \in Seq(Chars) /\ Len(s) = Len(data) - i
      /\ \A k \in 1 .. Len(s) : s[k] = data[i + k]
  BY <1>1
<1>4. n \in Nat /\ n < Len(s) /\ n + 1 \in 1 .. Len(s) /\ i + (n + 1) = end + 1 /\ n + i = end
  BY <1>1, <1>3
<1>5. s[n + 1] = Nul
  BY <1>1, <1>3, <1>4
<1>6. ASSUME NEW k \in 1 .. n PROVE s[k] # Nul
  <2>1. k \in 1 .. Len(s) /\ (i - start) + k \in 1 .. end - start /\ start + ((i - start) + k) = i + k
    BY <1>1, <1>3, <1>4
  <2> QED
    BY <1>2, <1>3, <2>1
<1> HIDE DEF s, n
<1>7. strlen(s) = n
  BY <1>3, <1>4, <1>5, <1>6, StrlenEnds
<1>8. StringAt(data, i) = SubSeq(s, 1, n)
  BY <1>7, Zenon DEF StringAt, s
<1>9. SubSeq(s, 1, n) = SubSeq(data, i + 1, end)
  <2> DEFINE a == SubSeq(s, 1, n)
             b == SubSeq(data, i + 1, end)
  <2>1. a \in Seq(Chars) /\ Len(a) = n /\ \A k \in 1 .. n : a[k] = s[k]
    BY <1>3, <1>4
  <2>2. b \in Seq(Chars) /\ Len(b) = n /\ \A k \in 1 .. n : b[k] = data[i + k]
    <3>1. b \in Seq(Chars) /\ Len(b) = end - i /\ \A k \in 1 .. end - i : b[k] = data[i + k]
      BY <1>1
    <3>2. end - i = n
      BY <1>1, <1>4
    <3> QED
      BY <3>1, <3>2
  <2>3. \A k \in 1 .. n : s[k] = data[i + k]
    BY <1>3, <1>4
  <2> HIDE DEF a, b
  <2>4. \A k \in 1 .. n : a[k] = b[k]
    BY <2>1, <2>2, <2>3, Zenon
  <2>5. Len(a) = Len(b) /\ Len(b) = n
    BY <2>1, <2>2, Zenon
  <2>6. a = b
    BY <2>1, <2>2, <2>4, <2>5, SameSequences, Zenon
  <2> QED
    BY <2>6, Zenon DEF a, b
<1> QED
  BY <1>8, <1>9, Zenon

\* The string s is at place j of l.
IsAt(s, l, j) == (j - 1) + Len(s) <= Len(l) /\ \A k \in 1 .. Len(s) : l[(j - 1) + k] = s[k]

LEMMA HoldsRight ==
    ASSUME NEW l \in Seq(Chars), NEW s \in Seq(Chars)
    PROVE  Holds(l, s) <=> s # <<>> /\ \E j \in 1 .. Len(l) : IsAt(s, l, j)
<1> DEFINE n == Len(s)
<1>1. Len(l) \in Nat /\ n \in Nat
  OBVIOUS
<1>2. ASSUME s # <<>>, NEW j \in 1 .. Len(l) - n + 1
      PROVE  j \in 1 .. Len(l) /\ (SubSeq(l, j, j + n - 1) = s <=> IsAt(s, l, j))
  <2> DEFINE t == SubSeq(l, j, j + n - 1)
  <2>1. n # 0
    BY <1>2
  <2>2. j \in 1 .. Len(l) /\ (j - 1) + n <= Len(l) /\ j + n - 1 \in Nat
    BY <1>1, <2>1
  <2>3. t \in Seq(Chars) /\ Len(t) = n /\ \A k \in 1 .. n : t[k] = l[(j - 1) + k]
    BY <1>1, <2>1, <2>2
  <2> HIDE DEF t
  <2>4. t = s <=> \A k \in 1 .. n : t[k] = s[k]
    <3>1. t = s <=> Len(t) = Len(s) /\ \A k \in 1 .. Len(s) : t[k] = s[k]
      BY <2>3, SameSequences, Zenon
    <3> QED
      BY <2>3, <3>1
  <2>5. t = s <=> IsAt(s, l, j)
    BY <2>2, <2>3, <2>4 DEF IsAt
  <2> QED
    BY <2>2, <2>5 DEF t
<1>3. ASSUME s # <<>>, NEW j \in 1 .. Len(l), IsAt(s, l, j) PROVE j \in 1 .. Len(l) - n + 1
  BY <1>1, <1>3 DEF IsAt
<1> HIDE DEF n
<1>4. Holds(l, s) <=> s # <<>> /\ \E j \in 1 .. Len(l) - n + 1 : SubSeq(l, j, j + n - 1) = s
  BY Zenon DEF Holds, n
<1> QED
  BY <1>2, <1>3, <1>4, Zenon

\* With no NUL in the string s2, strncmp tells whether s1 begins with it.
LEMMA SameFront ==
    ASSUME NEW s1, NEW s2, NEW n \in Nat, \A i \in 1 .. n : At(s2, i) # Nul
    PROVE  Same(s1, s2, n) <=> \A i \in 1 .. n : At(s1, i) = At(s2, i)
<1> DEFINE S == {i \in 1 .. n : At(s1, i) # At(s2, i) \/ At(s1, i) = Nul}
<1>1. S \in SUBSET Nat
  OBVIOUS
<1>2. S # {} => Min(S) \in S
  BY <1>1, MinRight
<1>3. S # {} => At(s1, Min(S)) # At(s2, Min(S))
  BY <1>2
<1>4. Same(s1, s2, n) <=> S = {}
  BY <1>3 DEF Same
<1> QED
  BY <1>4

\* grep finds the pattern in a line if the line holds it.
LEMMA MatchesRight ==
    ASSUME IsString(args), NEW data, NEW end, NEW l, HasLine(data, g.start, end, l)
    PROVE  Matches(data, end) <=> Holds(l, args)
<1> DEFINE n == Len(args)
           s == g.start
<1>1. /\ data \in Seq(Chars) /\ s \in Nat /\ end \in Nat /\ s <= end /\ end + 1 <= Len(data)
      /\ l = SubSeq(data, s + 1, end) /\ l \in Seq(Chars)
      /\ \A k \in 1 .. Len(l) : l[k] # Nul
  BY DEF HasLine, IsString
<1>2. args \in Seq(Chars) /\ n \in Nat /\ \A k \in 1 .. n : args[k] # Nul /\ At(args, k) = args[k]
  BY DEF IsString, At
<1>3. strlen(args) = n
  BY <1>2, StrlenRight
<1>4. Len(l) = end - s /\ \A k \in 1 .. end - s : l[k] = data[s + k]
  BY <1>1, SMTT(30)
<1>5. ASSUME NEW i \in s .. end - 1
      PROVE  /\ (i - s) + 1 \in 1 .. Len(l)
             /\ (At(args, 1) = data[i + 1] /\ Same(StringAt(data, i), args, strlen(args)))
                   <=> (args # <<>> /\ IsAt(args, l, (i - s) + 1))
  <2> DEFINE t == SubSeq(data, i + 1, end)
             m == end - i
             h == i - s
  <2>1. i \in Nat /\ h \in Nat /\ m \in Nat /\ m > 0 /\ h + m = end - s /\ s + h = i /\ i \in s .. end
    BY <1>1
  <2>2. StringAt(data, i) = t
    BY <2>1, StringAtRight, Zenon
  <2>3. t \in Seq(Chars) /\ Len(t) = m /\ \A k \in 1 .. m : t[k] = data[i + k]
    BY <1>1, <2>1, SMTT(30)
  <2>4. \A k \in 1 .. m : h + k \in 1 .. Len(l) /\ t[k] = l[h + k] /\ t[k] # Nul
    <3> TAKE k \in 1 .. m
    <3>1. h + k \in 1 .. Len(l) /\ s + (h + k) = i + k
      <4>1. Len(l) = h + m /\ k \in 1 .. m
        BY <1>4, <2>1
      <4>2. s + (h + k) = i + k
        <5>1. s \in Nat /\ h \in Nat /\ k \in Int /\ s + h = i
          BY <1>1, <2>1
        <5> HIDE DEF h
        <5> QED
          BY <5>1
      <4> QED
        BY <2>1, <4>1, <4>2
    <3>2. l[h + k] = data[i + k] /\ l[h + k] # Nul
      BY <1>1, <1>4, <3>1
    <3> QED
      BY <2>3, <3>1, <3>2
  <2> HIDE DEF t, m, h
  <2>5. Same(t, args, n) <=> \A k \in 1 .. n : At(t, k) = At(args, k)
    BY <1>2, SameFront
  <2>6. (\A k \in 1 .. n : At(t, k) = At(args, k)) <=> n <= m /\ \A k \in 1 .. n : t[k] = args[k]
    <3>1. ASSUME \A k \in 1 .. n : At(t, k) = At(args, k) PROVE n <= m
      <4> SUFFICES ASSUME m < n PROVE FALSE
        BY <1>2, <2>1
      <4>1. m + 1 \in 1 .. n
        BY <1>2, <2>1
      <4>2. At(t, m + 1) = Nul
        BY <2>1, <2>3 DEF At
      <4> QED
        BY <1>2, <3>1, <4>1, <4>2
    <3>2. ASSUME n <= m, NEW k \in 1 .. n PROVE At(t, k) = t[k] /\ At(args, k) = args[k]
      BY <1>2, <2>1, <2>3, <3>2 DEF At
    <3> QED
      BY <3>1, <3>2
  <2>7. IsAt(args, l, h + 1) <=> n <= m /\ \A k \in 1 .. n : t[k] = args[k]
    <3>1. (h + 1) - 1 = h /\ (h + n <= Len(l) <=> n <= m)
      BY <1>2, <1>4, <2>1
    <3>2. IsAt(args, l, h + 1) <=> n <= m /\ \A k \in 1 .. n : l[h + k] = args[k]
      BY <3>1 DEF IsAt
    <3>3. n <= m => \A k \in 1 .. n : l[h + k] = t[k]
      BY <1>2, <2>1, <2>4
    <3> QED
      BY <3>2, <3>3
  <2>8. At(args, 1) = data[i + 1] => args # <<>>
    <3>1. data[i + 1] # Nul
      <4>1. t[1] = data[i + 1] /\ t[1] # Nul
        BY <2>1, <2>3, <2>4
      <4> QED
        BY <4>1
    <3>2. args = <<>> => At(args, 1) = Nul
      BY DEF At
    <3> QED
      BY <3>1, <3>2
  <2>9. args # <<>> /\ n <= m /\ (\A k \in 1 .. n : t[k] = args[k]) => At(args, 1) = data[i + 1]
    <3>1. args # <<>> => 1 \in 1 .. n
      BY <1>2
    <3>2. t[1] = data[i + 1]
      BY <2>1, <2>3
    <3> QED
      BY <1>2, <3>1, <3>2
  <2>10. h + 1 \in 1 .. Len(l)
    BY <2>1, <2>4
  <2>11. (At(args, 1) = data[i + 1] /\ Same(t, args, n)) <=> (args # <<>> /\ IsAt(args, l, h + 1))
    BY <2>5, <2>6, <2>7, <2>8, <2>9, Zenon
  <2> QED
    BY <1>3, <2>2, <2>10, <2>11, Zenon DEF h
<1>6. ASSUME NEW j \in 1 .. Len(l) PROVE (s + j) - 1 \in s .. end - 1 /\ (((s + j) - 1) - s) + 1 = j
  BY <1>1, <1>4, SMTT(30)
<1> HIDE DEF n, s
<1>7. Matches(data, end) <=> \E i \in s .. end - 1 : At(args, 1) = data[i + 1] /\ Same(StringAt(data, i), args, strlen(args))
  BY Zenon DEF Matches, s
<1>8. Holds(l, args) <=> args # <<>> /\ \E j \in 1 .. Len(l) : IsAt(args, l, j)
  BY <1>1, <1>2, HoldsRight, Zenon
<1>9. ASSUME args # <<>>, NEW j \in 1 .. Len(l), IsAt(args, l, j)
      PROVE  \E i \in s .. end - 1 : At(args, 1) = data[i + 1] /\ Same(StringAt(data, i), args, strlen(args))
  <2> DEFINE i == (s + j) - 1
  <2>1. i \in s .. end - 1 /\ (i - s) + 1 = j
    BY <1>6
  <2> HIDE DEF i
  <2>2. IsAt(args, l, (i - s) + 1)
    BY <1>9, <2>1, Zenon
  <2> QED
    BY <1>5, <1>9, <2>1, <2>2, Zenon
<1> QED
  BY <1>5, <1>7, <1>8, <1>9, Zenon

-----------------------------------------------------------------------------
(* grep: its directory                                                     *)

\* Under texts only, what is to be printed of each file is a sequence of printable characters.
LEMMA FilePieces ==
    ASSUME image \in Images, AllTexts, NEW P
    PROVE  Pieces(InFiles(P), Len(image.dentries), Printable)
<1> DEFINE L == Len(image.dentries)
           u == InFiles(P)
<1>1. L \in Nat /\ \A i \in 1 .. L : IsEntry(image, i)
  BY DirectoryRight
<1>2. <<>> \in Seq(Printable)
  OBVIOUS
<1>3. ASSUME NEW i \in 1 .. L PROVE u[i] \in Seq(Printable)
  <2> DEFINE d == image.dentries[i]
             T == image.content[d.inode]
             t == InText(d.name, T, P)
  <2>1. u[i] = IF d.type # 2 \/ Same(RtcName, d.name, Len(RtcName)) THEN <<>> ELSE FlattenSeq(t)
    BY Zenon DEF InFiles
  <2>2. CASE d.type = 2
    <3>1. IsString(d.name) /\ T \in Seq(Chars)
      BY <1>1, <2>2, Zenon DEF IsEntry
    <3>2. i \in Files
      BY <2>2 DEF Files
    <3>3. IsText(T)
      BY <3>2, Zenon DEF AllTexts
    <3> HIDE DEF T
    <3>4. IsString(T)
      BY <3>1, <3>3, Zenon DEF IsText, IsString
    <3>5. Pieces(t, Len(T), Printable)
      BY <3>1, <3>4, TextPieces, Zenon
    <3>6. Len(T) \in 0 .. Len(T)
      BY <3>1
    <3> HIDE DEF t
    <3>7. FlattenSeq(t) \in Seq(Printable)
      <4>1. /\ \A k \in 0 .. Len(T) : Upto(t, k) \in Seq(Printable)
            /\ FlattenSeq(t) = Upto(t, Len(T))
        BY <3>5, UptoRight, Zenon
      <4> QED
        BY <3>6, <4>1, Zenon
    <3> QED
      BY <1>2, <2>1, <3>7, Zenon
  <2>3. CASE d.type # 2
    BY <1>2, <2>1, <2>3, Zenon
  <2> QED
    BY <2>2, <2>3
<1>4. u = [i \in 1 .. L |-> u[i]]
  BY Zenon DEF InFiles
<1> HIDE DEF u, L
<1>5. u \in [1 .. L -> Seq(Printable)]
  BY <1>3, <1>4, Zenon
<1> QED
  BY <1>1, <1>5, Zenon DEF Pieces, u, L

LEMMA NothingToShow ==
    ASSUME NEW name, NEW P
    PROVE  FlattenSeq(InText(name, <<>>, P)) = <<>>
<1>1. InText(name, <<>>, P) = <<>>
  BY DEF InText
<1>2. FlattenSeq(<<>>) = <<>>
  BY DEF FlattenSeq
<1> QED
  BY <1>1, <1>2, Zenon

\* An entry that is not a directory is opened: as the RTC, or as the file of the entry.
LEMMA EntryOpens ==
    ASSUME image \in Images, NEW i \in 1 .. Len(image.dentries), image.dentries[i].name[1] # Dot, NEW P
    PROVE  LET s == image.dentries[i].name
               e == open_handler(image.dentries, s)
               T == TextOf(image, e)
           IN  /\ e.kind \in {"rtc", "file"} /\ e # NoFile /\ e.pos = 0
               /\ InFiles(P)[i] = FlattenSeq(InText(s, T, P))
               /\ AllTexts => IsText(T)
<1> DEFINE s   == image.dentries[i].name
           e   == open_handler(image.dentries, s)
           T   == TextOf(image, e)
           rtc == Same(RtcName, s, Len(RtcName))
<1>1. /\ IsString(s) /\ Len(s) \in 1 .. NameLen /\ image.dentries[i].type \in 0 .. 2
      /\ image.dentries[i].type = 0 => rtc
      /\ image.dentries[i].type # 1
  BY DirectoryRight, Zenon DEF IsEntry
<1>2. \/ rtc /\ e = [kind |-> "rtc", inode |-> 0, pos |-> 0]
      \/ ~rtc /\ At(s, 1) = Dot
      \/ /\ ~rtc /\ At(s, 1) # Dot
         /\ \E j : FileNamed(image, s, j) /\ e = [kind |-> "file", inode |-> image.dentries[j].inode, pos |-> 0]
      \/ ~rtc /\ (\A j : ~FileNamed(image, s, j)) /\ e = NoFile
  BY <1>1, OpenHandlerRight, Zenon
<1>3. At(s, 1) # Dot
  BY <1>1 DEF At
<1>4. InFiles(P)[i] = IF image.dentries[i].type # 2 \/ rtc THEN <<>>
                      ELSE FlattenSeq(InText(s, image.content[image.dentries[i].inode], P))
  BY Zenon DEF InFiles
<1>5. CASE rtc
  <2>1. e = [kind |-> "rtc", inode |-> 0, pos |-> 0]
    BY <1>2, <1>5, Zenon
  <2>2. e.kind = "rtc" /\ e.pos = 0 /\ e.kind # "free"
    BY <2>1
  <2>3. e # NoFile
    BY <2>2 DEF NoFile
  <2> HIDE DEF e, rtc
  <2>4. T = <<>>
    BY <2>2 DEF TextOf
  <2>5. IsText(T)
    BY <2>4, Sizes DEF IsText
  <2>6. FlattenSeq(InText(s, T, P)) = <<>>
    BY <2>4, NothingToShow, Zenon
  <2>7. InFiles(P)[i] = FlattenSeq(InText(s, T, P))
    BY <1>4, <1>5, <2>6, Zenon
  <2>8. e.kind \in {"rtc", "file"}
    BY <2>2
  <2> QED
    BY <2>2, <2>3, <2>5, <2>7, <2>8, Zenon DEF e
<1>6. CASE ~rtc
  <2>1. image.dentries[i].type = 2
    BY <1>1, <1>6
  <2>2. Cut(s) = s
    <3>1. s \in Seq(Chars) /\ Len(s) <= NameLen
      BY <1>1, Sizes DEF IsString
    <3> QED
      BY <3>1, CutRight, Zenon
  <2>3. FileNamed(image, s, i)
    BY <2>1, <2>2, Zenon DEF FileNamed
  <2>4. PICK j : FileNamed(image, s, j) /\ e = [kind |-> "file", inode |-> image.dentries[j].inode, pos |-> 0]
    BY <1>2, <1>3, <1>6, <2>3, Zenon
  <2>5. j = i
    <3>1. WellFormed(image)
      BY ImageRight, Zenon
    <3>2. j \in 1 .. Len(image.dentries) /\ image.dentries[j].name = image.dentries[i].name
      BY <2>2, <2>4, Zenon DEF FileNamed
    <3> QED
      BY <3>1, <3>2, Zenon DEF WellFormed
  <2>6. e.kind = "file" /\ e.inode = image.dentries[i].inode /\ e.pos = 0 /\ e.kind # "free"
    BY <2>4, <2>5
  <2>7. e # NoFile
    BY <2>6 DEF NoFile
  <2> HIDE DEF e, rtc
  <2>8. T = image.content[image.dentries[i].inode]
    BY <2>6, Zenon DEF TextOf
  <2>9. i \in Files
    BY <2>1 DEF Files
  <2>10. AllTexts => IsText(T)
    BY <2>8, <2>9, Zenon DEF AllTexts
  <2>11. InFiles(P)[i] = FlattenSeq(InText(s, T, P))
    BY <1>4, <1>6, <2>1, <2>8, Zenon
  <2>12. e.kind \in {"rtc", "file"}
    BY <2>6
  <2> QED
    BY <2>6, <2>7, <2>10, <2>11, <2>12, Zenon DEF e
<1> QED
  BY <1>5, <1>6

\* What grep has printed at the end of its directory.
LEMMA GrepEnds ==
    ASSUME image' = image, args' = args, g' = g, prog' = "grep", pc' = "report", image \in Images,
           Full => status' # 0 /\ out' = Append(out, "directory entry read failed"),
           ~Full => status' = 0 /\ out' = out,
           AllTexts /\ g.junk # Newline => out = FlattenSeq(InFiles(args))
    PROVE  Printed'
<1>1. /\ Full' = Full /\ AllTexts' = AllTexts /\ InFiles(args)' = InFiles(args) /\ g'.junk = g.junk
  BY SameImage, Zenon
<1>2. status' # 0 <=> Full
  BY Zenon
<1>3. AllTexts /\ g.junk # Newline => out' = IF Full THEN Append(FlattenSeq(InFiles(args)), "directory entry read failed")
                                     ELSE FlattenSeq(InFiles(args))
  <2>1. Full => out' = Append(out, "directory entry read failed")
    BY Zenon
  <2>2. ~Full => out' = out
    BY Zenon
  <2> QED
    BY <2>1, <2>2, Zenon
<1>4. GrepAsPromised'
  BY <1>1, <1>2, <1>3, Zenon DEF GrepAsPromised, ToTheEnd
<1> QED
  BY <1>4, PrintedReport, Zenon

\* grep goes to the next entry, or opens it, or is behind the last one.
LEMMA GrepEntryPrints ==
    ASSUME IInv, StartInv, EntryInv, TextInv, GrepEntry
    PROVE  Printed'
<1> DEFINE d == fds[fd]
           r == ReadAt(d, NameLen)
           L == Len(image.dentries)
           u == InFiles(args)
           n == OpenAt(r)
           e == open_handler(image.dentries, r)
           next == [fds EXCEPT ![fd] = Advanced(@, r)]
<1>1. /\ pc = "grep" /\ prog = "grep" /\ image' = image /\ args' = args /\ prog' = prog /\ fd' = fd
      /\ image \in Images /\ d.kind = "dir" /\ d.pos <= L
      /\ \A k \in Fds \ {fd} : fds[k].kind = "free"
      /\ AllTexts /\ g.junk # Newline => out = Upto(u, d.pos)
  BY DEF GrepEntry, EntryInv, TextInv, IInv, TypeInv
<1>2. fd \in Fds /\ d \in Descriptors /\ fds \in [Fds -> Descriptors]
  BY <1>1 DEF IInv, FilesInv, TypeInv
<1>3. \/ r = Fail /\ pc' = "report" /\ status' = 3 /\ out' = Append(out, "directory entry read failed") /\ g' = g
      \/ r = <<>> /\ pc' = "report" /\ status' = 0 /\ out' = out /\ g' = g
      \/ r # Fail /\ r # <<>> /\ r[1] = Dot /\ fds' = next /\ pc' = pc /\ out' = out /\ g' = g
      \/ r # Fail /\ r # <<>> /\ r[1] # Dot /\ n = -1
      \/ /\ r # Fail /\ r # <<>> /\ r[1] # Dot /\ n # -1
         /\ g' = [g EXCEPT !.fname = r, !.fd = n, !.last = 0, !.start = 0, !.cnt = 0,
                           !.data = [i \in 1 .. BufSize + 1 |-> g.junk]]
         /\ fds' = [next EXCEPT ![n] = e]
         /\ pc' = "grepread" /\ out' = out
  BY Zenon DEF GrepEntry, HaltWith, Halt
<1>4. L \in Nat /\ L <= DirSize /\ d.pos \in Nat /\ DirSize \in Nat /\ NameLen \in Nat /\ NameLen <= NameLen
  BY <1>1, <1>2, Sizes, DirectoryRight DEF Descriptors
<1>5. \/ d.pos >= DirSize /\ r = Fail
      \/ d.pos < DirSize /\ d.pos >= L /\ r = <<>> /\ r # Fail
      \/ /\ d.pos + 1 \in 1 .. L /\ d.pos < DirSize
         /\ r = image.dentries[d.pos + 1].name /\ r # <<>> /\ r # Fail
         /\ Advanced(d, r).pos = d.pos + 1
  BY <1>1, <1>2, <1>4, NextEntry
<1>6. AllTexts => Pieces(u, L, Printable)
  BY <1>1, FilePieces, Zenon
<1>7. AllTexts => FlattenSeq(u) = Upto(u, L)
  BY <1>6, UptoRight, Zenon
<1>8. Names' = Names /\ AllTexts' = AllTexts /\ InFiles(args)' = u
  BY <1>1, SameImage, Zenon
<1> HIDE DEF d, r, L, u, n, e
<1>9. CASE d.pos >= DirSize /\ r = Fail
  <2>1. d.pos = L /\ L = DirSize
    BY <1>1, <1>4, <1>9
  <2>2. Full
    BY <2>1 DEF Full, L
  <2>3. Fail # <<>>
    BY DEF Fail
  <2>4. status' = 3 /\ pc' = "report" /\ out' = Append(out, "directory entry read failed") /\ g' = g
    BY <1>3, <1>9, <2>3, Zenon
  <2>5. AllTexts /\ g.junk # Newline => out = FlattenSeq(u)
    BY <1>1, <1>7, <2>1, Zenon
  <2>6. 3 # 0
    OBVIOUS
  <2>7. status' # 0
    BY <2>4, <2>6, Zenon
  <2> QED
    BY <1>1, <2>2, <2>4, <2>5, <2>7, GrepEnds, Zenon DEF u
<1>10. CASE d.pos < DirSize /\ d.pos >= L /\ r = <<>> /\ r # Fail
  <2>1. d.pos = L /\ L # DirSize
    BY <1>1, <1>4, <1>10
  <2>2. ~Full
    BY <2>1 DEF Full, L
  <2>3. status' = 0 /\ pc' = "report" /\ out' = out /\ g' = g
    BY <1>3, <1>10, Zenon
  <2>4. AllTexts /\ g.junk # Newline => out = FlattenSeq(u)
    BY <1>1, <1>7, <2>1, Zenon
  <2> QED
    BY <1>1, <2>2, <2>3, <2>4, GrepEnds, Zenon DEF u
<1>11. CASE /\ d.pos + 1 \in 1 .. L /\ d.pos < DirSize
            /\ r = image.dentries[d.pos + 1].name /\ r # <<>> /\ r # Fail
            /\ Advanced(d, r).pos = d.pos + 1
  <2> DEFINE i == d.pos + 1
             a == Advanced(d, r)
  <2>1. i \in 1 .. L /\ i # 0 /\ i <= L /\ i - 1 = d.pos /\ i \in 0 .. L /\ a.pos = i
        /\ r = image.dentries[i].name
    BY <1>4, <1>11
  <2>2. IsEntry(image, i)
    BY <1>1, <2>1, DirectoryRight, Zenon DEF L
  <2>3. r \in Seq(Chars) /\ IsString(r)
    BY <2>1, <2>2, Zenon DEF IsEntry, IsString
  <2>4. a \in Descriptors /\ a.kind = "dir"
    BY <1>1, <1>2, <2>3, AdvancedRight, Zenon
  <2>5. next \in [Fds -> Descriptors] /\ next[fd] = a /\ \A k \in Fds \ {fd} : next[k] = fds[k]
    <3> HIDE DEF a
    <3>1. next = [fds EXCEPT ![fd] = a]
      BY Zenon DEF a, d
    <3> QED
      BY <1>2, <2>4, <3>1
  <2>6. Names[i] = r
    BY <1>1, <2>1, NamesRight, Zenon DEF L
  <2>7. AllTexts => Upto(u, i) = Upto(u, d.pos) \o u[i] /\ Upto(u, d.pos) \o <<>> = Upto(u, d.pos)
    <3> SUFFICES ASSUME AllTexts PROVE Upto(u, i) = Upto(u, d.pos) \o u[i] /\ Upto(u, d.pos) \o <<>> = Upto(u, d.pos)
      OBVIOUS
    <3>1. Unrolls(u, L) /\ \A k \in 0 .. L : Upto(u, k) \in Seq(Printable)
      BY <1>6, UptoRight, Zenon
    <3>2. d.pos \in 0 .. L
      BY <1>1, <1>4
    <3>3. Upto(u, d.pos) \in Seq(Printable)
      BY <3>1, <3>2, Zenon
    <3>4. Upto(u, d.pos) \o <<>> = Upto(u, d.pos)
      BY <3>3, NothingBehind, Zenon
    <3> HIDE DEF i
    <3>5. Upto(u, i) = Upto(u, d.pos) \o u[i]
      BY <2>1, <3>1, Zenon DEF Unrolls
    <3> QED
      BY <3>4, <3>5
  <2> HIDE DEF i, a, next
  <2>8. CASE r[1] = Dot
    <3>1. fds' = next /\ pc' = "grep" /\ out' = out /\ g' = g
      BY <1>1, <1>3, <1>11, <2>8, Zenon
    <3>2. image.dentries[i].type # 2
      <4>1. image.dentries[i].type = 1
        BY <2>1, <2>2, <2>8, Zenon DEF IsEntry
      <4> QED
        BY <4>1
    <3>3. u[i] = <<>>
      BY <2>1, <3>2, Zenon DEF InFiles, u, L
    <3>4. AllTexts => Upto(u, i) = Upto(u, d.pos)
      BY <2>7, <3>3, Zenon
    <3>5. EntryInv'
      <4>1. fds'[fd'].kind = "dir" /\ fds'[fd'].pos <= Len(image'.dentries)
        BY <1>1, <2>1, <2>4, <2>5, <3>1, Zenon DEF L
      <4>2. \A k \in Fds \ {fd'} : fds'[k].kind = "free"
        BY <1>1, <2>5, <3>1, Zenon
      <4>3. pc' = "grep" /\ pc' \notin {"grepread", "grepline", "grepclose"} /\ prog' = "grep"
        BY <1>1, <3>1
      <4> QED
        BY <4>1, <4>2, <4>3, Zenon DEF EntryInv
    <3>6. TextInv'
      <4>1. AllTexts /\ g.junk # Newline => out' = Upto(InFiles(args)', fds'[fd'].pos)
        BY <1>1, <1>8, <2>1, <2>5, <3>1, <3>4, Zenon
      <4>2. pc' = "grep" /\ pc' \notin {"grepread", "grepline"} /\ g'.junk = g.junk
        BY <3>1
      <4> QED
        BY <1>8, <4>1, <4>2, Zenon DEF TextInv
    <3> QED
      BY <3>1, <3>5, <3>6, PrintedGrep, Zenon
  <2>9. CASE r[1] # Dot
    <3> DEFINE T == TextOf(image, e)
    <3>1. /\ e.kind \in {"rtc", "file"} /\ e # NoFile /\ e.pos = 0
          /\ u[i] = FlattenSeq(InText(r, T, args))
          /\ AllTexts => IsText(T)
      <4>1. i \in 1 .. Len(image.dentries) /\ image.dentries[i].name = r /\ image.dentries[i].name[1] # Dot
        BY <2>1, <2>9, Zenon DEF L
      <4> QED
        BY <1>1, <4>1, EntryOpens, Zenon DEF e, u
    <3>2. \E k \in Fds : k # fd /\ fds[k].kind = "free"
      <4>1. \E k \in Fds : k # fd
        BY TwoFds
      <4> QED
        BY <1>1, <4>1, Zenon
    <3>3. n # -1
      BY <3>1, <3>2, OpenAtFails, Zenon DEF n, e
    <3>4. /\ g' = [g EXCEPT !.fname = r, !.fd = n, !.last = 0, !.start = 0, !.cnt = 0,
                            !.data = [k \in 1 .. BufSize + 1 |-> g.junk]]
          /\ fds' = [next EXCEPT ![n] = e] /\ pc' = "grepread" /\ out' = out
      BY <1>3, <1>11, <2>9, <3>3, Zenon
    <3>5. n \in Fds /\ n # fd
      <4>1. n \in Fds /\ fds[n].kind = "free"
        BY <3>3, OpenAtRight, Zenon DEF IInv, n
      <4> QED
        BY <1>1, <4>1 DEF d
    <3>6. /\ g'.fname = r /\ g'.fd = n /\ g'.last = 0 /\ g'.start = 0 /\ g'.junk = g.junk
          /\ g'.data[BufSize + 1] = g.junk
      <4> DEFINE data == [k \in 1 .. BufSize + 1 |-> g.junk]
      <4>1. BufSize + 1 \in 1 .. BufSize + 1
        BY Sizes
      <4>2. data[BufSize + 1] = g.junk
        BY <4>1, Zenon
      <4> HIDE DEF data
      <4>3. g' = [g EXCEPT !.fname = r, !.fd = n, !.last = 0, !.start = 0, !.cnt = 0, !.data = data]
        BY <3>4, Zenon DEF data
      <4>4. g \in [fname : Seq(Chars), fd : Nat, junk : Chars, data : Seq(Chars),
                   last : Nat, start : Nat, cnt : Nat]
        BY DEF IInv, TypeInv
      <4>5. /\ g'.fname = r /\ g'.fd = n /\ g'.last = 0 /\ g'.start = 0 /\ g'.junk = g.junk
            /\ g'.data = data
        BY <4>3, <4>4
      <4> QED
        BY <4>2, <4>5, Zenon
    <3>7. fds'[n] = e /\ fds'[fd] = a /\ \A k \in Fds \ {fd, n} : fds'[k] = fds[k]
      BY <1>2, <2>5, <3>4, <3>5
    <3>8. TextNow' = T
      BY <1>1, <3>6, <3>7, Zenon DEF TextNow
    <3>9. 0 <= Len(T) /\ T \in Seq(Chars)
      <4>1. e.kind = "file" => e.inode \in 1 .. Len(image.content)
        BY <1>1, OpenRight, Zenon DEF e
      <4>2. image.content \in Seq(Seq(Chars))
        BY <1>1, ImageRight DEF WellFormed
      <4>3. e.kind = "file" => image.content[e.inode] \in Seq(Chars)
        BY <4>1, <4>2
      <4>4. <<>> \in Seq(Chars)
        OBVIOUS
      <4>5. T \in Seq(Chars)
        BY <4>3, <4>4, Zenon DEF TextOf
      <4> HIDE DEF T
      <4> QED
        BY <4>5
    <3> HIDE DEF T
    <3>10. EntryInv'
      <4>1. fds'[fd'].kind = "dir" /\ fds'[fd'].pos = i /\ i <= Len(image'.dentries) /\ prog' = "grep"
        BY <1>1, <2>1, <2>4, <3>7, Zenon DEF L
      <4>2. \A k \in Fds \ {fd', g'.fd} : fds'[k].kind = "free"
        BY <1>1, <3>6, <3>7, Zenon
      <4>3. fds'[g'.fd].kind # "dir" /\ fds'[g'.fd].pos <= Len(TextNow')
        <5>1. e.kind # "dir"
          BY <3>1
        <5> QED
          BY <3>1, <3>6, <3>7, <3>8, <3>9, <5>1, Zenon
      <4>4. fds'[fd'].pos # 0 /\ g'.fname = Names'[fds'[fd'].pos]
        BY <1>8, <2>1, <2>6, <3>6, <4>1, Zenon
      <4>5. InFiles(args)'[fds'[fd'].pos] = FlattenSeq(InText(g'.fname, TextNow', args'))
        BY <1>1, <1>8, <3>1, <3>6, <3>8, <4>1, Zenon
      <4>6. AllTexts' => IsText(TextNow')
        BY <1>8, <3>1, <3>8, Zenon
      <4>7. g'.last < BufSize /\ pc' # "grep"
        BY <3>4, <3>6, Sizes
      <4> QED
        BY <4>1, <4>2, <4>3, <4>4, <4>5, <4>6, <4>7, Zenon DEF EntryInv
    <3>11. TextInv'
      <4> SUFFICES ASSUME AllTexts, g.junk # Newline PROVE Buffered(TextNow, fds[g.fd].pos, 0)'
        <5>1. pc' = "grepread" /\ pc' \notin {"grep", "grepline", "grepclose"}
          BY <3>4
        <5> QED
          BY <1>8, <3>6, <5>1, Zenon DEF TextInv
      <4>1. fds'[g'.fd].pos = 0 /\ fds'[fd'].pos = i
        BY <1>1, <2>1, <3>1, <3>6, <3>7, Zenon
      <4>2. g'.last = 0 /\ g'.data[BufSize + 1] # Newline
        BY <3>6, Zenon
      <4>3. Upto(InText(r, T, args), 0) = <<>>
        <5>1. IsString(T)
          BY <3>1, <3>9, Zenon DEF IsText, IsString
        <5>2. Pieces(InText(r, T, args), Len(T), Printable)
          BY <2>3, <5>1, TextPieces, Zenon
        <5> QED
          BY <5>2, UptoRight, Zenon
      <4>4. out' = Upto(InFiles(args)', i - 1) \o Upto(InText(g'.fname, TextNow', args'), 0)
        BY <1>1, <1>8, <2>1, <2>7, <3>4, <3>6, <3>8, <4>3, Zenon
      <4>5. (0 - 0) + 0 = 0 /\ 0 <= 0 /\ 0 + 1 > 0 /\ 0 - g'.last + 0 = 0 /\ 1 .. 0 = {} /\ 0 + 1 .. 0 = {}
        BY <4>2
      <4>6. /\ g'.last <= 0 /\ \A k \in 0 + 1 .. g'.last : g'.data[k] = TextNow'[0 - g'.last + k]
            /\ Boundary(TextNow', 0 - g'.last + 0)
        BY <4>2, <4>5 DEF Boundary
      <4> QED
        BY <4>1, <4>2, <4>4, <4>5, <4>6, Zenon DEF Buffered
    <3> QED
      BY <3>4, <3>10, <3>11, PrintedGrep, Zenon
  <2> QED
    BY <2>8, <2>9
<1> QED
  BY <1>5, <1>9, <1>10, <1>11, Zenon

\* What is known while grep has a file open.
LEMMA GrepFacts ==
    ASSUME IInv, EntryInv, pc \in {"grepread", "grepline", "grepclose"}
    PROVE  /\ image \in Images /\ prog = "grep" /\ fds \in [Fds -> Descriptors]
           /\ fd \in Fds /\ g.fd \in Fds /\ g.fd # fd
           /\ fds[fd].kind = "dir" /\ fds[fd].pos \in 1 .. Len(image.dentries)
           /\ fds[g.fd].kind \in {"file", "rtc"}
           /\ fds[g.fd].kind = "file" => fds[g.fd].inode \in 1 .. Len(image.content)
           /\ fds[g.fd].pos \in Nat /\ fds[g.fd].pos <= Len(TextNow) /\ TextNow \in Seq(Chars)
           /\ IsString(g.fname) /\ g.fname = Names[fds[fd].pos]
           /\ InFiles(args)[fds[fd].pos] = FlattenSeq(InText(g.fname, TextNow, args))
           /\ AllTexts => IsText(TextNow) /\ IsString(TextNow)
<1>1. image \in Images /\ fds \in [Fds -> Descriptors] /\ fd \in Fds /\ g.fd \in Fds /\ g.fd # fd
      /\ fds[g.fd].kind # "free" /\ (fds[g.fd].kind = "file" => fds[g.fd].inode \in 1 .. Len(image.content))
  BY DEF IInv, FilesInv, TypeInv
<1>2. /\ prog = "grep" /\ fds[fd].kind = "dir" /\ fds[fd].pos <= Len(image.dentries)
      /\ fds[g.fd].kind # "dir" /\ fds[g.fd].pos <= Len(TextNow)
      /\ fds[fd].pos # 0 /\ g.fname = Names[fds[fd].pos]
      /\ InFiles(args)[fds[fd].pos] = FlattenSeq(InText(g.fname, TextNow, args))
      /\ AllTexts => IsText(TextNow)
  <2>1. pc \in {"grep", "grepread", "grepline", "grepclose"}
    OBVIOUS
  <2> QED
    BY <2>1, Zenon DEF EntryInv
<1>3. fds[fd] \in Descriptors /\ fds[g.fd] \in Descriptors
  BY <1>1
<1>4. fds[fd].pos \in Nat /\ fds[g.fd].pos \in Nat /\ fds[g.fd].kind \in {"file", "rtc"}
  BY <1>1, <1>2, <1>3 DEF Descriptors, Kinds
<1>5. Len(image.dentries) \in Nat
  BY <1>1, DirectoryRight, Zenon
<1>6. fds[fd].pos \in 1 .. Len(image.dentries)
  <2> DEFINE p == fds[fd].pos
             m == Len(image.dentries)
  <2>1. p \in Nat /\ m \in Nat /\ p # 0 /\ p <= m
    BY <1>2, <1>4, <1>5
  <2> HIDE DEF p, m
  <2>2. p \in 1 .. m
    BY <2>1
  <2> QED
    BY <2>2 DEF p, m
<1>7. IsString(g.fname)
  <2>1. IsString(image.dentries[fds[fd].pos].name) /\ Names[fds[fd].pos] = image.dentries[fds[fd].pos].name
    BY <1>1, <1>6, DirectoryRight, NamesRight, Zenon DEF IsEntry
  <2> QED
    BY <1>2, <2>1, Zenon
<1>8. TextNow \in Seq(Chars)
  <2>1. image.content \in Seq(Seq(Chars))
    BY <1>1, ImageRight DEF WellFormed
  <2>2. fds[g.fd].kind = "file" => image.content[fds[g.fd].inode] \in Seq(Chars)
    BY <1>1, <2>1
  <2>3. <<>> \in Seq(Chars)
    OBVIOUS
  <2> QED
    BY <2>2, <2>3, Zenon DEF TextNow, TextOf
<1>9. AllTexts => IsString(TextNow)
  BY <1>2, <1>8, Zenon DEF IsText, IsString
<1> QED
  BY <1>1, <1>2, <1>4, <1>6, <1>7, <1>8, <1>9, Zenon

LEMMA GrepClosePrints ==
    ASSUME IInv, EntryInv, TextInv, GrepClose
    PROVE  Printed'
<1>1. /\ pc = "grepclose" /\ pc' = "grep" /\ image' = image /\ args' = args /\ prog' = prog /\ fd' = fd
      /\ out' = out /\ g' = g /\ fds' = [fds EXCEPT ![g.fd] = NoFile]
  BY Zenon DEF GrepClose, Closed
<1>2. /\ prog = "grep" /\ fds \in [Fds -> Descriptors] /\ fd \in Fds /\ g.fd \in Fds /\ g.fd # fd
      /\ fds[fd].kind = "dir" /\ fds[fd].pos <= Len(image.dentries)
      /\ \A n \in Fds \ {fd, g.fd} : fds[n].kind = "free"
      /\ AllTexts /\ g.junk # Newline => out = Upto(InFiles(args), fds[fd].pos)
  BY <1>1 DEF IInv, TypeInv, FilesInv, EntryInv, TextInv
<1>3. fds'[fd] = fds[fd] /\ fds'[g.fd].kind = "free" /\ \A n \in Fds \ {fd, g.fd} : fds'[n] = fds[n]
  <2>1. NoFile.kind = "free"
    BY DEF NoFile
  <2> QED
    BY <1>1, <1>2, <2>1
<1>4. pc' \notin {"grepread", "grepline", "grepclose"}
  BY <1>1
<1>5. EntryInv'
  BY <1>1, <1>2, <1>3, <1>4, Zenon DEF EntryInv
<1>6. AllTexts' = AllTexts /\ InFiles(args)' = InFiles(args) /\ g'.junk = g.junk
  BY <1>1, SameImage, Zenon
<1>7. TextInv'
  <2>1. AllTexts' /\ g'.junk # Newline => out' = Upto(InFiles(args)', fds'[fd'].pos)
    BY <1>1, <1>2, <1>3, <1>6, Zenon
  <2>2. pc' # "grepread" /\ pc' # "grepline"
    BY <1>1
  <2> QED
    BY <2>1, <2>2, Zenon DEF TextInv
<1> QED
  BY <1>1, <1>5, <1>7, PrintedGrep, Zenon

-----------------------------------------------------------------------------
(* grep: its buffer                                                        *)

\* The buffer after a read.
LEMMA WrittenRight ==
    ASSUME g.data \in Seq(Chars), NEW i \in Nat, NEW r \in Seq(Chars), i + Len(r) < Len(g.data)
    PROVE  \A k \in 1 .. Len(g.data) :
              Written(i, r)[k] = IF k <= i THEN g.data[k] ELSE IF k <= i + Len(r) THEN r[k - i] ELSE g.data[k]
<1> DEFINE n == Len(g.data)
           m == Len(r)
           a == SubSeq(g.data, 1, i)
           b == SubSeq(g.data, i + m + 1, n)
<1>1. n \in Nat /\ m \in Nat /\ i + m < n
  OBVIOUS
<1>2. a \in Seq(Chars) /\ Len(a) = i /\ \A k \in 1 .. i : a[k] = g.data[k]
  BY <1>1
<1>3. b \in Seq(Chars) /\ Len(b) = n - (i + m) /\ \A k \in 1 .. n - (i + m) : b[k] = g.data[(i + m) + k]
  BY <1>1
<1>4. Written(i, r) = (a \o r) \o b
  BY DEF Written
<1> HIDE DEF a, b, n
<1>5. /\ a \o r \in Seq(Chars) /\ Len(a \o r) = i + m
      /\ \A k \in 1 .. i + m : (a \o r)[k] = IF k <= i THEN a[k] ELSE r[k - i]
  BY <1>1, <1>2, SMTT(30)
<1> DEFINE c == a \o r
<1> HIDE DEF c, m
<1>6. c \in Seq(Chars) /\ Len(c) = i + m /\ \A k \in 1 .. i + m : c[k] = IF k <= i THEN a[k] ELSE r[k - i]
  BY <1>5 DEF c
<1>7. \A k \in 1 .. n : (c \o b)[k] = IF k <= i + m THEN c[k] ELSE b[k - (i + m)]
  BY <1>1, <1>3, <1>6
<1>8. ASSUME NEW k \in 1 .. n
      PROVE  (c \o b)[k] = IF k <= i THEN g.data[k] ELSE IF k <= i + m THEN r[k - i] ELSE g.data[k]
  <2>1. CASE k <= i
    BY <1>1, <1>2, <1>6, <1>7, <2>1
  <2>2. CASE ~(k <= i) /\ k <= i + m
    BY <1>1, <1>6, <1>7, <2>2
  <2>3. CASE ~(k <= i + m)
    <3>1. ~(k <= i) /\ k - (i + m) \in 1 .. n - (i + m) /\ (i + m) + (k - (i + m)) = k
      BY <1>1, <2>3
    <3>2. b[k - (i + m)] = g.data[k]
      BY <1>3, <3>1
    <3> QED
      BY <1>7, <2>3, <3>1, <3>2, Zenon
  <2> QED
    BY <2>1, <2>2, <2>3
<1> QED
  BY <1>4, <1>8, Zenon DEF c, n, m

\* Between the opening and the closing of a file only the buffer and the position change.
LEMMA EntryKept ==
    ASSUME IInv, EntryInv, pc \in {"grepread", "grepline"}, pc' \in {"grepread", "grepline", "grepclose"},
           image' = image, args' = args, prog' = prog, fd' = fd, g'.fd = g.fd, g'.fname = g.fname,
           fds'[fd] = fds[fd], \A n \in Fds \ {fd, g.fd} : fds'[n] = fds[n],
           fds'[g.fd].kind = fds[g.fd].kind, TextNow' = TextNow, fds'[g.fd].pos <= Len(TextNow),
           pc' = "grepread" => g'.last < BufSize
    PROVE  EntryInv'
<1>1. /\ prog = "grep" /\ fds[fd].kind = "dir" /\ fds[fd].pos <= Len(image.dentries)
      /\ \A n \in Fds \ {fd, g.fd} : fds[n].kind = "free"
      /\ fds[g.fd].kind # "dir" /\ fds[fd].pos # 0 /\ g.fname = Names[fds[fd].pos]
      /\ InFiles(args)[fds[fd].pos] = FlattenSeq(InText(g.fname, TextNow, args))
      /\ AllTexts => IsText(TextNow)
  <2>1. pc \in {"grep", "grepread", "grepline", "grepclose"} /\ pc \in {"grepread", "grepline", "grepclose"}
    OBVIOUS
  <2> QED
    BY <2>1, Zenon DEF EntryInv
<1>2. pc' # "grep"
  OBVIOUS
<1>3. Names' = Names /\ AllTexts' = AllTexts /\ InFiles(args)' = InFiles(args)
  BY SameImage, Zenon
<1>4. /\ \A n \in Fds \ {fd', g'.fd} : fds'[n].kind = "free"
      /\ fds'[g'.fd].kind # "dir" /\ fds'[g'.fd].pos <= Len(TextNow')
      /\ fds'[fd'].pos # 0 /\ g'.fname = Names'[fds'[fd'].pos]
      /\ InFiles(args)'[fds'[fd'].pos] = FlattenSeq(InText(g'.fname, TextNow', args'))
      /\ AllTexts' => IsText(TextNow')
  BY <1>1, <1>3, Zenon
<1>5. prog' = "grep" /\ fds'[fd'].kind = "dir" /\ fds'[fd'].pos <= Len(image'.dentries)
  BY <1>1, Zenon
<1> QED
  BY <1>2, <1>4, <1>5, Zenon DEF EntryInv

LEMMA LocalsTyped ==
    ASSUME IInv
    PROVE  /\ g \in [fname : Seq(Chars), fd : Nat, junk : Chars, data : Seq(Chars),
                     last : Nat, start : Nat, cnt : Nat]
           /\ g.last \in Nat /\ g.start \in Nat /\ g.cnt \in Nat /\ g.data \in Seq(Chars)
           /\ g.last <= BufSize /\ BufSize \in Nat /\ BufSize > 0
           /\ pc \in {"grepread", "grepline", "grepclose"} => Len(g.data) = BufSize + 1
<1>1. g \in [fname : Seq(Chars), fd : Nat, junk : Chars, data : Seq(Chars),
             last : Nat, start : Nat, cnt : Nat]
  BY DEF IInv, TypeInv
<1>2. g.last <= BufSize /\ (pc \in {"grepread", "grepline", "grepclose"} => Len(g.data) = BufSize + 1)
  BY DEF IInv, BufferInv, FilesInv
<1>3. g.last \in Nat /\ g.start \in Nat /\ g.cnt \in Nat /\ g.data \in Seq(Chars)
  BY <1>1
<1> QED
  BY <1>1, <1>2, <1>3, Sizes, Zenon

LEMMA GrepReadPrints ==
    ASSUME IInv, EntryInv, TextInv, GrepRead
    PROVE  Printed'
<1> DEFINE d == fds[g.fd]
           p == d.pos
           T == TextNow
           n == Room(g.last)
           r == ReadAt(d, n)
           k == Len(r)
           a == Advanced(d, r)
<1>1. /\ pc = "grepread" /\ image' = image /\ args' = args /\ prog' = prog /\ fd' = fd
  BY Zenon DEF GrepRead
<1>2. /\ image \in Images /\ fds \in [Fds -> Descriptors]
      /\ fd \in Fds /\ g.fd \in Fds /\ g.fd # fd
      /\ d.kind \in {"file", "rtc"} /\ (d.kind = "file" => d.inode \in 1 .. Len(image.content))
      /\ p \in Nat /\ p <= Len(T) /\ T \in Seq(Chars)
  BY <1>1, GrepFacts
<1>3. /\ g \in [fname : Seq(Chars), fd : Nat, junk : Chars, data : Seq(Chars),
                last : Nat, start : Nat, cnt : Nat]
      /\ g.last \in Nat /\ g.data \in Seq(Chars) /\ BufSize \in Nat /\ Len(g.data) = BufSize + 1
  BY <1>1, LocalsTyped
<1>4. g.last < BufSize
  BY <1>1, Zenon DEF EntryInv
<1>5. n \in Nat /\ n > 0 /\ g.last + n = BufSize
  BY <1>3, <1>4 DEF Room
<1>6. d \in Descriptors
  BY <1>2
<1>7. /\ r \in Seq(Chars) /\ r # Fail /\ k <= n
      /\ k = IF p + n <= Len(T) THEN n ELSE Len(T) - p
      /\ r = SubSeq(T, p + 1, p + k) /\ p + k <= Len(T)
      /\ a.pos = p + k /\ TextOf(image, a) = T
  <2>1. T = TextOf(image, d)
    BY Zenon DEF TextNow
  <2> HIDE DEF d, n, T
  <2>2. d.pos <= Len(TextOf(image, d))
    BY <1>2, <2>1, Zenon
  <2> QED
    BY <1>2, <1>5, <1>6, <2>1, <2>2, NextBytes, ZenonT(40)
<1>8. a \in Descriptors /\ a.kind = d.kind
  BY <1>6, <1>7, AdvancedRight, Zenon
<1>9. /\ g' = [g EXCEPT !.data = Written(g.last, r), !.last = @ + Len(r), !.cnt = Len(r), !.start = 0]
      /\ fds' = [fds EXCEPT ![g.fd] = Advanced(@, r)] /\ pc' = "grepline" /\ out' = out
  <2>1. PICK x \in {ReadAt(fds[g.fd], Room(g.last))} :
           IF x = Fail THEN HaltWith("file read failed", 3) /\ UNCHANGED g
           ELSE /\ g' = [g EXCEPT !.data = Written(g.last, x), !.last = @ + Len(x),
                                  !.cnt = Len(x), !.start = 0]
                /\ fds' = [fds EXCEPT ![g.fd] = Advanced(@, x)]
                /\ pc' = "grepline"
                /\ UNCHANGED <<out, status>>
    BY Zenon DEF GrepRead
  <2>2. x = r
    BY <2>1
  <2> HIDE DEF r
  <2> QED
    BY <1>7, <2>1, <2>2, Zenon
<1>10. /\ g'.fd = g.fd /\ g'.fname = g.fname /\ g'.junk = g.junk /\ g'.start = 0
       /\ g'.data = Written(g.last, r) /\ g'.last = g.last + k /\ g'.cnt = k
  <2> DEFINE w == Written(g.last, r)
  <2> HIDE DEF w, r
  <2>1. g' = [g EXCEPT !.data = w, !.last = @ + k, !.cnt = k, !.start = 0]
    BY <1>9, Zenon DEF w
  <2> HIDE DEF k
  <2>2. /\ g'.fd = g.fd /\ g'.fname = g.fname /\ g'.junk = g.junk /\ g'.start = 0
        /\ g'.data = w /\ g'.last = g.last + k /\ g'.cnt = k
    BY <1>3, <2>1
  <2> QED
    BY <2>2 DEF w
<1>11. fds'[g.fd] = a /\ \A m \in Fds \ {g.fd} : fds'[m] = fds[m]
  BY <1>2, <1>9
<1>12. TextNow' = T
  BY <1>1, <1>7, <1>10, <1>11, Zenon DEF TextNow
<1>13. k \in Nat /\ Len(T) \in Nat
  BY <1>2, <1>7
<1> HIDE DEF d, T, n, r, k, a, p
<1>14. EntryInv'
  <2>1. \A m \in Fds \ {fd, g.fd} : fds'[m] = fds[m]
    BY <1>11
  <2>2. fds'[fd] = fds[fd] /\ fds'[g.fd].kind = fds[g.fd].kind /\ fds'[g.fd].pos <= Len(TextNow)
    <3>1. fds'[fd] = fds[fd]
      BY <1>2, <1>11
    <3>2. a.pos <= Len(T)
      BY <1>7
    <3> QED
      BY <1>8, <1>11, <3>1, <3>2, Zenon DEF d, T
  <2>3. pc \in {"grepread", "grepline"} /\ pc' \in {"grepread", "grepline", "grepclose"} /\ pc' # "grepread"
    BY <1>1, <1>9
  <2> QED
    BY <1>1, <1>10, <1>12, <2>1, <2>2, <2>3, EntryKept, Zenon DEF T
<1>15. TextInv'
  <2>1. AllTexts' = AllTexts /\ InFiles(args)' = InFiles(args)
    BY <1>1, SameImage, Zenon
  <2> SUFFICES ASSUME AllTexts, g.junk # Newline
               PROVE  /\ Buffered(TextNow, fds[g.fd].pos, g.start)'
                      /\ fds'[g'.fd].pos # Len(TextNow') => g'.last = BufSize /\ g'.cnt # 0
    <3>1. pc' = "grepline" /\ pc' \notin {"grep", "grepclose"} /\ pc' # "grepread"
      BY <1>9
    <3> QED
      BY <1>10, <2>1, <3>1, Zenon DEF TextInv
  <2> DEFINE last == g.last
             data == g.data
             w    == Written(last, r)
  <2>2. Buffered(T, p, 0)
    BY <1>1, Zenon DEF TextInv, T, p, d
  <2>3. /\ last <= p /\ data[BufSize + 1] # Newline
        /\ \A i \in 0 + 1 .. last : data[i] = T[p - last + i]
        /\ Boundary(T, p - last + 0)
        /\ out = Upto(InFiles(args), fds[fd].pos - 1) \o Upto(InText(g.fname, T, args), p - last + 0)
    BY <2>2, Zenon DEF Buffered
  <2>4. \A i \in 1 .. BufSize + 1 : w[i] = IF i <= last THEN data[i] ELSE IF i <= last + k THEN r[i - last] ELSE data[i]
    <3>1. g.last + Len(r) < Len(g.data)
      BY <1>3, <1>5, <1>7, <1>13 DEF k
    <3>2. g.data \in Seq(Chars) /\ g.last \in Nat /\ r \in Seq(Chars)
      BY <1>3, <1>7, Zenon
    <3> HIDE DEF w, r, k, a, d, p, T
    <3>3. \A i \in 1 .. Len(g.data) :
             Written(g.last, r)[i] = IF i <= g.last THEN g.data[i]
                                     ELSE IF i <= g.last + Len(r) THEN r[i - g.last] ELSE g.data[i]
      BY <3>1, <3>2, WrittenRight
    <3>4. \A i \in 1 .. Len(g.data) : w[i] = IF i <= g.last THEN g.data[i]
                                           ELSE IF i <= g.last + Len(r) THEN r[i - g.last] ELSE g.data[i]
      BY <3>3, Zenon DEF w
    <3>5. Len(r) = k /\ Len(g.data) = BufSize + 1
      BY <1>3, Zenon DEF k
    <3> QED
      BY <3>4, <3>5, Zenon
  <2>5. last \in Nat /\ BufSize \in Nat /\ last + k <= BufSize /\ p \in Nat /\ k \in Nat
    BY <1>2, <1>3, <1>5, <1>7, <1>13
  <2>6. (p + k) - (last + k) + 0 = p - last + 0 /\ last + k <= p + k
    BY <2>3, <2>5
  <2> HIDE DEF w, last, data
  <2>7. w[BufSize + 1] # Newline
    <3>1. BufSize + 1 \in 1 .. BufSize + 1 /\ ~(BufSize + 1 <= last) /\ ~(BufSize + 1 <= last + k)
      BY <2>5
    <3> QED
      BY <2>3, <2>4, <3>1, Zenon
  <2>8. \A i \in 0 + 1 .. last + k : w[i] = T[(p + k) - (last + k) + i]
    <3> TAKE i \in 0 + 1 .. last + k
    <3>1. i \in 1 .. BufSize + 1 /\ i <= last + k /\ (p + k) - (last + k) + i = p - last + i
      BY <2>5
    <3>2. CASE i <= last
      <4>1. i \in 0 + 1 .. last
        BY <2>5, <3>1, <3>2
      <4> QED
        BY <2>3, <2>4, <3>1, <3>2, <4>1, Zenon
    <3>3. CASE ~(i <= last)
      <4>1. i - last \in 1 .. k /\ p + (i - last) = p - last + i
        BY <2>5, <3>1, <3>3
      <4>2. r[i - last] = T[p + (i - last)]
        BY <1>2, <1>7, <2>5, <4>1
      <4> QED
        BY <2>4, <3>1, <3>3, <4>1, <4>2, Zenon
    <3> QED
      BY <3>2, <3>3
  <2>9. a.pos # Len(T) => last + k = BufSize /\ k # 0
    BY <1>2, <1>5, <1>7, <1>13, <2>5 DEF last
  <2>10. fds'[fd'] = fds[fd] /\ fds'[g'.fd].pos = p + k
    <3>1. fds'[fd'] = fds[fd]
      BY <1>1, <1>2, <1>11
    <3> QED
      BY <1>7, <1>10, <1>11, <3>1, Zenon
  <2>11. g'.last = last + k /\ g'.data = w /\ g'.start = 0 /\ g'.cnt = k /\ g'.fname = g.fname
    BY <1>10, Zenon DEF last, w
  <2>12. /\ g'.last <= p + k /\ g'.data[BufSize + 1] # Newline
         /\ \A i \in 0 + 1 .. g'.last : g'.data[i] = T[(p + k) - g'.last + i]
         /\ Boundary(T, (p + k) - g'.last + 0)
         /\ out' = Upto(InFiles(args)', fds'[fd'].pos - 1) \o Upto(InText(g'.fname, T, args'), (p + k) - g'.last + 0)
    <3>1. g'.last <= p + k /\ g'.data[BufSize + 1] # Newline
      BY <2>6, <2>7, <2>11, Zenon
    <3>2. \A i \in 0 + 1 .. g'.last : g'.data[i] = T[(p + k) - g'.last + i]
      BY <2>8, <2>11, Zenon
    <3>3. (p + k) - g'.last + 0 = p - last + 0
      BY <2>6, <2>11, Zenon
    <3>4. out' = Upto(InFiles(args)', fds'[fd'].pos - 1) \o Upto(InText(g'.fname, T, args'), (p + k) - g'.last + 0)
      BY <1>1, <1>9, <2>1, <2>3, <2>10, <2>11, <3>3, Zenon
    <3>5. Boundary(T, (p + k) - g'.last + 0)
      BY <2>3, <3>3, Zenon
    <3> QED
      BY <3>1, <3>2, <3>4, <3>5, Zenon
  <2>13. Buffered(TextNow, fds[g.fd].pos, g.start)'
    BY <1>12, <2>10, <2>11, <2>12, Zenon DEF Buffered
  <2>14. fds'[g'.fd].pos # Len(TextNow') => g'.last = BufSize /\ g'.cnt # 0
    BY <1>7, <1>10, <1>11, <1>12, <2>9, <2>11, Zenon
  <2> QED
    BY <2>13, <2>14
<1>16. pc' = "grepline"
  BY <1>9
<1> QED
  BY <1>14, <1>15, <1>16, PrintedGrep

\* Where the line that begins at start ends in the buffer.
LEMMA LineEndIs ==
    ASSUME IInv, pc = "grepline"
    PROVE  /\ LineEnd = g.last \/ g.data[LineEnd + 1] = Newline
           /\ \A i \in g.start .. g.last : g.data[i + 1] = Newline => LineEnd <= i
<1> DEFINE S == {i \in g.start .. g.last : i = g.last \/ g.data[i + 1] = Newline}
<1>1. g.start \in Nat /\ g.last \in Nat /\ g.start <= g.last
  BY LineEndRight DEF IInv, BufferInv
<1>2. S \in SUBSET Nat /\ g.last \in S
  BY <1>1
<1>3. LineEnd = Min(S)
  BY Zenon DEF LineEnd
<1>4. LineEnd \in S /\ \A y \in S : LineEnd <= y
  BY <1>2, <1>3, MinRight, Zenon
<1> QED
  BY <1>4, Zenon

\* The line in the buffer is the one in the text, with a NUL behind it once it is searched.
LEMMA LineInBuffer ==
    ASSUME IInv, EntryInv, pc = "grepline", AllTexts, NEW p \in Nat, p <= Len(TextNow),
           Buffered(TextNow, p, g.start), NEW q, q = p - g.last
    PROVE  LET T    == TextNow
               data == [g.data EXCEPT ![LineEnd + 1] = Nul]
           IN  /\ q \in Nat /\ HasLine(data, g.start, LineEnd, SubSeq(T, (q + g.start) + 1, q + LineEnd))
               /\ data[BufSize + 1] # Newline
               /\ \A k \in LineEnd + 2 .. g.last : data[k] = T[q + k]
               /\ \A k \in (q + g.start) + 1 .. q + LineEnd : T[k] # Newline
               /\ LineEnd < g.last => T[q + LineEnd + 1] = Newline
<1> DEFINE T     == TextNow
           e     == LineEnd
           start == g.start
           last  == g.last
           old   == g.data
           data  == [old EXCEPT ![e + 1] = Nul]
           l     == SubSeq(T, (q + start) + 1, q + e)
<1>1. IsString(T) /\ T \in Seq(Chars)
  <2>1. pc \in {"grepread", "grepline", "grepclose"}
    OBVIOUS
  <2> QED
    BY <2>1, GrepFacts, Zenon
<1>2. /\ e \in Nat /\ start <= e /\ e <= last /\ start \in Nat /\ last \in Nat
      /\ last <= BufSize /\ BufSize \in Nat
  BY LineEndRight
<1>3. old \in Seq(Chars) /\ Len(old) = BufSize + 1
  BY LocalsTyped
<1>4. /\ e = last \/ old[e + 1] = Newline
      /\ \A i \in start .. last : old[i + 1] = Newline => e <= i
  BY LineEndIs
<1>5. /\ last <= p /\ old[BufSize + 1] # Newline
      /\ \A i \in start + 1 .. last : old[i] = T[p - last + i]
  BY Zenon DEF Buffered
<1> HIDE DEF T, e, start, last, old
<1>6. q \in Nat /\ q + last = p /\ \A i \in start + 1 .. last : old[i] = T[q + i]
  BY <1>2, <1>5 DEF last
<1>7. Len(T) \in Nat /\ p <= Len(T)
  BY <1>1 DEF T
<1>8. data \in Seq(Chars) /\ Len(data) = BufSize + 1 /\ data[e + 1] = Nul
      /\ \A k \in 1 .. BufSize + 1 : k # e + 1 => data[k] = old[k]
  <2>1. e + 1 \in 1 .. Len(old)
    BY <1>2, <1>3
  <2> QED
    BY <1>2, <1>3, <2>1, NulRight
<1> HIDE DEF data
<1>9. Nul # Newline
  BY DEF Nul, Newline
<1>10. data[BufSize + 1] # Newline
  <2>1. BufSize + 1 \in 1 .. BufSize + 1
    BY <1>2
  <2> QED
    BY <1>5, <1>8, <1>9, <2>1, Zenon
<1>11. \A k \in e + 2 .. last : data[k] = T[q + k]
  <2> TAKE k \in e + 2 .. last
  <2>1. k \in 1 .. BufSize + 1 /\ k # e + 1 /\ k \in start + 1 .. last
    BY <1>2
  <2> QED
    BY <1>6, <1>8, <2>1, Zenon
<1>12. \A k \in (q + start) + 1 .. q + e : T[k] # Newline
  <2> TAKE k \in (q + start) + 1 .. q + e
  <2> DEFINE i == (k - q) - 1
  <2>1. i \in start .. last /\ ~(e <= i) /\ i + 1 \in start + 1 .. last /\ q + (i + 1) = k
    <3>1. k \in Int /\ q + start + 1 <= k /\ k <= q + e /\ q \in Nat
      BY <1>2, <1>6
    <3>2. i \in Int /\ q + (i + 1) = k /\ start <= i /\ i < e
      BY <1>2, <3>1, SMTT(30)
    <3> HIDE DEF i
    <3> QED
      BY <1>2, <3>2
  <2> HIDE DEF i
  <2>2. old[i + 1] # Newline
    BY <1>4, <2>1, Zenon
  <2>3. old[i + 1] = T[q + (i + 1)]
    BY <1>6, <2>1, Zenon
  <2> QED
    BY <2>1, <2>2, <2>3, Zenon
<1>13. ASSUME e < last PROVE T[q + e + 1] = Newline
  <2>1. e + 1 \in start + 1 .. last /\ e # last /\ q + (e + 1) = q + e + 1
    BY <1>2, <1>6, <1>13
  <2>2. old[e + 1] = T[q + (e + 1)] /\ old[e + 1] = Newline
    BY <1>4, <1>6, <2>1, Zenon
  <2> QED
    BY <2>1, <2>2, Zenon
<1>14. HasLine(data, start, e, l)
  <2> DEFINE a == SubSeq(data, start + 1, e)
             m == e - start
  <2>1. m \in Nat /\ q + start \in Nat /\ q + e \in Nat /\ q + e <= Len(T) /\ (q + e) - (q + start) = m /\ 1 <= (q + start) + 1
        /\ (q + start) + 1 \in Nat /\ (q + start) <= q + e
    <3> DEFINE n == Len(T)
    <3>1. q \in Nat /\ q + last <= n /\ n \in Nat
      BY <1>6, <1>7, Zenon
    <3> HIDE DEF n
    <3>2. q + e <= n /\ q + e \in Nat /\ q + start \in Nat
      BY <1>2, <3>1
    <3>3. m \in Nat /\ (q + e) - (q + start) = m /\ (q + start) <= q + e
      BY <1>2, <3>1
    <3>4. 1 <= (q + start) + 1 /\ (q + start) + 1 \in Nat
      BY <3>2
    <3> QED
      BY <3>2, <3>3, <3>4, Zenon DEF n
  <2>2. IsString(l)
    BY <1>1, <2>1, PartIsString, Zenon
  <2>3. l \in Seq(Chars) /\ Len(l) = m /\ \A k \in 1 .. m : l[k] = T[(q + start) + k]
    <3> DEFINE s == q + start
               t == q + e
    <3>1. s \in Nat /\ t \in Nat /\ s <= t /\ t - s = m /\ t <= Len(T)
      BY <2>1
    <3> HIDE DEF s, t, m
    <3>2. SubSeq(T, s + 1, t) \in Seq(Chars) /\ Len(SubSeq(T, s + 1, t)) = t - s
          /\ \A k \in 1 .. t - s : SubSeq(T, s + 1, t)[k] = T[s + k]
      BY <1>1, <1>7, <3>1
    <3> QED
      BY <3>1, <3>2, Zenon DEF s, t
  <2>4. a \in Seq(Chars) /\ Len(a) = m /\ \A k \in 1 .. m : a[k] = data[start + k]
    <3>1. e <= Len(data)
      BY <1>2, <1>8
    <3>2. start \in Nat /\ e \in Nat /\ start <= e /\ data \in Seq(Chars)
      BY <1>2, <1>8, Zenon
    <3> HIDE DEF l, m, a
    <3>3. /\ SubSeq(data, start + 1, e) \in Seq(Chars) /\ Len(SubSeq(data, start + 1, e)) = e - start
          /\ \A k \in 1 .. e - start : SubSeq(data, start + 1, e)[k] = data[start + k]
      BY <3>1, <3>2, SliceRight
    <3> QED
      BY <3>3, Zenon DEF a, m
  <2>5. \A k \in 1 .. m : data[start + k] = T[(q + start) + k]
    <3> TAKE k \in 1 .. m
    <3>1. start + k \in 1 .. BufSize + 1 /\ start + k # e + 1 /\ start + k \in start + 1 .. last
          /\ q + (start + k) = (q + start) + k
      BY <1>2, <1>6
    <3> QED
      BY <1>6, <1>8, <3>1, Zenon
  <2> HIDE DEF a, l, m
  <2>6. l = a
    <3>1. \A k \in 1 .. m : l[k] = a[k]
      BY <2>3, <2>4, <2>5, Zenon
    <3>2. Len(l) = Len(a) /\ \A k \in 1 .. Len(a) : l[k] = a[k]
      BY <2>3, <2>4, <3>1, Zenon
    <3> QED
      BY <2>3, <2>4, <3>2, SameSequences, Zenon
  <2>7. e + 1 <= Len(data)
    BY <1>2, <1>8
  <2> QED
    BY <1>2, <1>8, <2>2, <2>6, <2>7, Zenon DEF HasLine, a
<1> QED
  BY <1>6, <1>10, <1>11, <1>12, <1>13, <1>14, Zenon DEF T, e, start, last, old, data, l

\* The buffer after the rest has been carried to its front.
LEMMA CarriedRight ==
    ASSUME NEW data, NEW start, NEW end, NEW l, HasLine(data, start, end, l), start # 0
    PROVE  LET rest == Append(StringAt(data, start), Nul)
               new  == rest \o SubSeq(data, Len(rest) + 1, Len(data))
           IN  /\ \A k \in 1 .. end - start : new[k] = data[start + k]
               /\ \A k \in 1 .. Len(data) : k > (end - start) + 1 => new[k] = data[k]
<1> DEFINE t    == StringAt(data, start)
           rest == Append(t, Nul)
           tail == SubSeq(data, Len(rest) + 1, Len(data))
           m    == end - start
<1>1. /\ data \in Seq(Chars) /\ start \in Nat /\ end \in Nat /\ start <= end /\ end + 1 <= Len(data)
      /\ l = SubSeq(data, start + 1, end)
  BY DEF HasLine
<1>2. Len(data) \in Nat /\ m \in Nat /\ m + 1 <= Len(data) /\ start \in start .. end
  BY <1>1
<1>3. t = l
  BY <1>1, <1>2, StringAtRight, Zenon
<1>4. l \in Seq(Chars) /\ Len(l) = m /\ \A k \in 1 .. m : l[k] = data[start + k]
  BY <1>1, <1>2
<1> HIDE DEF t, m
<1>5. rest \in Seq(Chars) /\ Len(rest) = m + 1 /\ \A k \in 1 .. m : rest[k] = l[k]
  BY <1>2, <1>3, <1>4, NulRight
<1> HIDE DEF rest
<1>6. tail \in Seq(Chars) /\ Len(tail) = Len(data) - (m + 1)
      /\ \A k \in 1 .. Len(data) - (m + 1) : tail[k] = data[(m + 1) + k]
  BY <1>1, <1>2, <1>5
<1> HIDE DEF tail
<1> DEFINE new == rest \o tail
<1>7. \A k \in 1 .. Len(data) : new[k] = IF k <= m + 1 THEN rest[k] ELSE tail[k - (m + 1)]
  BY <1>2, <1>5, <1>6
<1> HIDE DEF new
<1>8. ASSUME NEW k \in 1 .. m PROVE new[k] = data[start + k]
  BY <1>2, <1>4, <1>5, <1>7
<1>9. ASSUME NEW k \in 1 .. Len(data), k > m + 1 PROVE new[k] = data[k]
  <2>1. k - (m + 1) \in 1 .. Len(data) - (m + 1) /\ (m + 1) + (k - (m + 1)) = k /\ ~(k <= m + 1)
    BY <1>2, <1>9
  <2>2. new[k] = tail[k - (m + 1)]
    BY <1>7, <2>1, Zenon
  <2> QED
    BY <1>6, <2>1, <2>2, Zenon
<1> QED
  BY <1>8, <1>9, Zenon DEF new, rest, tail, t, m

\* The rest of the buffer is carried to its front.
LEMMA GrepCarryPrints ==
    ASSUME IInv, EntryInv, TextInv, GrepCarry
    PROVE  Printed'
<1> DEFINE T     == TextNow
           p     == fds[g.fd].pos
           q     == p - g.last
           start == g.start
           last  == g.last
           old   == g.data
<1>1. /\ pc = "grepline" /\ image' = image /\ args' = args /\ prog' = prog /\ fd' = fd /\ fds' = fds
      /\ out' = out /\ g' = [g EXCEPT !.data = Carried, !.last = @ - g.start] /\ pc' = "grepread"
      /\ old[LineEnd + 1] # Newline /\ start # 0
  BY Zenon DEF GrepCarry, Incomplete
<1>2. LineEnd = last
  BY <1>1, LineEndIs, Zenon
<1>3. /\ p \in Nat /\ p <= Len(T)
  BY <1>1, GrepFacts
<1>4. /\ g \in [fname : Seq(Chars), fd : Nat, junk : Chars, data : Seq(Chars),
                last : Nat, start : Nat, cnt : Nat]
      /\ last \in Nat /\ start \in Nat /\ BufSize \in Nat /\ last <= BufSize /\ start <= last
      /\ old \in Seq(Chars) /\ Len(old) = BufSize + 1
  <2>1. start <= last
    BY <1>1 DEF IInv, BufferInv
  <2> QED
    BY <1>1, <2>1, LocalsTyped, Zenon
<1>5. /\ g'.fd = g.fd /\ g'.fname = g.fname /\ g'.junk = g.junk
      /\ g'.data = Carried /\ g'.last = last - start
  BY <1>1, <1>4
<1>6. TextNow' = T
  BY <1>1, <1>5, Zenon DEF TextNow
<1>7. last - start < BufSize /\ last - start \in Nat
  BY <1>1, <1>4
<1> HIDE DEF T, p, start, last, old
<1>8. EntryInv'
  <2>1. pc \in {"grepread", "grepline"} /\ pc' \in {"grepread", "grepline", "grepclose"}
    BY <1>1
  <2>2. g'.last < BufSize
    BY <1>5, <1>7, Zenon
  <2>3. fds'[fd] = fds[fd] /\ fds'[g.fd].kind = fds[g.fd].kind /\ fds'[g.fd].pos <= Len(TextNow)
        /\ \A n \in Fds \ {fd, g.fd} : fds'[n] = fds[n]
    BY <1>1, <1>3, Zenon DEF T, p
  <2> QED
    BY <1>1, <1>5, <1>6, <2>1, <2>2, <2>3, EntryKept, Zenon DEF T
<1>9. TextInv'
  <2>1. AllTexts' = AllTexts /\ InFiles(args)' = InFiles(args)
    BY <1>1, SameImage, Zenon
  <2> SUFFICES ASSUME AllTexts, g.junk # Newline PROVE Buffered(TextNow, fds[g.fd].pos, 0)'
    <3>1. pc' \notin {"grep", "grepclose", "grepline"}
      BY <1>1
    <3> QED
      BY <1>5, <2>1, <3>1, Zenon DEF TextInv
  <2> DEFINE data == [g.data EXCEPT ![LineEnd + 1] = Nul]
             l    == SubSeq(T, (q + start) + 1, q + LineEnd)
             m    == last - start
  <2>2. Buffered(T, p, start)
    BY <1>1, Zenon DEF TextInv, T, p, start
  <2>3. /\ last <= p /\ \A i \in start + 1 .. last : old[i] = T[p - last + i]
        /\ Boundary(T, p - last + start)
        /\ out = Upto(InFiles(args), fds[fd].pos - 1) \o Upto(InText(g.fname, T, args), p - last + start)
    BY <2>2, Zenon DEF Buffered, last, old
  <2>4. HasLine(data, start, last, l) /\ data[BufSize + 1] # Newline
    <3>1. HasLine(data, g.start, LineEnd, l) /\ data[BufSize + 1] # Newline
      <4>1. q = p - g.last
        BY Zenon
      <4> HIDE DEF q
      <4>2. p <= Len(TextNow) /\ Buffered(TextNow, p, g.start)
        BY <1>3, <2>2, Zenon DEF T, start
      <4> QED
        BY <1>1, <1>3, <4>1, <4>2, LineInBuffer, Zenon DEF T, start
    <3> QED
      BY <1>2, <3>1, Zenon DEF start
  <2>5. /\ Len(data) = BufSize + 1
        /\ \A k \in 1 .. BufSize + 1 : k # last + 1 => data[k] = old[k]
    <3>1. last + 1 \in 1 .. Len(old)
      BY <1>4
    <3> QED
      BY <1>2, <1>4, <3>1 DEF old
  <2>6. /\ \A k \in 1 .. m : Carried[k] = data[start + k]
        /\ \A k \in 1 .. BufSize + 1 : k > m + 1 => Carried[k] = data[k]
    <3> HIDE DEF data, l
    <3> DEFINE rest == Append(StringAt(data, start), Nul)
    <3>1. Carried = rest \o SubSeq(data, Len(rest) + 1, Len(data))
      BY Zenon DEF Carried, data, start
    <3>2. /\ \A k \in 1 .. last - start : (rest \o SubSeq(data, Len(rest) + 1, Len(data)))[k] = data[start + k]
          /\ \A k \in 1 .. Len(data) : k > (last - start) + 1 =>
                (rest \o SubSeq(data, Len(rest) + 1, Len(data)))[k] = data[k]
      BY <1>1, <2>4, CarriedRight, Zenon DEF start
    <3> HIDE DEF rest
    <3> QED
      BY <2>5, <3>1, <3>2, Zenon
  <2> HIDE DEF data, l, q
  <2>7. Carried[BufSize + 1] # Newline
    <3>1. BufSize + 1 \in 1 .. BufSize + 1 /\ BufSize + 1 > m + 1
      BY <1>4, <1>7
    <3> QED
      BY <2>4, <2>6, <3>1, Zenon
  <2>8. \A i \in 0 + 1 .. m : Carried[i] = T[p - m + i]
    <3> TAKE i \in 0 + 1 .. m
    <3>1. /\ i \in 1 .. m /\ start + i \in 1 .. BufSize + 1 /\ start + i # last + 1
          /\ start + i \in start + 1 .. last /\ p - last + (start + i) = p - m + i
      BY <1>3, <1>4
    <3>2. Carried[i] = data[start + i]
      BY <2>6, <3>1, Zenon
    <3>3. data[start + i] = old[start + i]
      BY <2>5, <3>1, Zenon
    <3>4. old[start + i] = T[p - last + (start + i)]
      BY <2>3, <3>1, Zenon
    <3> QED
      BY <3>1, <3>2, <3>3, <3>4, Zenon
  <2>9. m <= p /\ p - m + 0 = p - last + start
    BY <1>3, <1>4, <2>3
  <2>10. Boundary(T, p - m + 0) /\ out' = Upto(InFiles(args)', fds'[fd'].pos - 1) \o Upto(InText(g'.fname, T, args'), p - m + 0)
    BY <1>1, <1>5, <2>1, <2>3, <2>9, Zenon
  <2>11. g'.last = m /\ g'.data = Carried /\ fds'[g'.fd].pos = p
    BY <1>1, <1>5, Zenon DEF p
  <2> HIDE DEF m
  <2> QED
    BY <1>6, <2>7, <2>8, <2>9, <2>10, <2>11, Zenon DEF Buffered
<1> QED
  BY <1>1, <1>8, <1>9, PrintedGrep

\* Where a search from start to the end of the line leaves the text.
NextPlace(q) == IF LineEnd < g.last THEN q + LineEnd + 1 ELSE q + LineEnd

\* A line is searched, and printed if it holds the pattern.
LEMMA LinePrints ==
    ASSUME IInv, StartInv, EntryInv, pc = "grepline", AllTexts, GrepLine,
           NEW p, p = fds[g.fd].pos, NEW q, q = p - g.last,
           Buffered(TextNow, p, g.start), p # Len(TextNow) => g.last = BufSize /\ g.cnt # 0
    PROVE  /\ Boundary(TextNow, NextPlace(q))
           /\ out' = Upto(InFiles(args), fds[fd].pos - 1) \o Upto(InText(g.fname, TextNow, args), NextPlace(q))
<1> DEFINE T    == TextNow
           e    == LineEnd
           s    == q + g.start
           t    == NextPlace(q)
           E    == q + e
           data == [g.data EXCEPT ![e + 1] = Nul]
           l    == SubSeq(T, s + 1, E)
           u    == InText(g.fname, T, args)
           A    == Upto(InFiles(args), fds[fd].pos - 1)
<1>1. /\ p \in Nat /\ p <= Len(T) /\ T \in Seq(Chars) /\ IsString(T) /\ IsText(T) /\ IsString(g.fname)
      /\ image \in Images /\ fds[fd].pos \in 1 .. Len(image.dentries)
  <2>1. pc \in {"grepread", "grepline", "grepclose"}
    OBVIOUS
  <2> QED
    BY <2>1, GrepFacts, Zenon
<1>2. /\ e \in Nat /\ g.start <= e /\ e <= g.last /\ g.start \in Nat /\ g.last \in Nat
      /\ g.last <= BufSize /\ BufSize \in Nat
  BY LineEndRight
<1>3. /\ q \in Nat /\ HasLine(data, g.start, e, l)
      /\ \A k \in s + 1 .. E : T[k] # Newline
      /\ e < g.last => T[E + 1] = Newline
  <2>1. p <= Len(TextNow)
    BY <1>1
  <2> QED
    BY <1>1, <2>1, LineInBuffer, Zenon
<1>4. q + g.last = p
  BY <1>1, <1>2
<1>5. /\ g.last <= p /\ g.data[BufSize + 1] # Newline /\ Boundary(T, s)
      /\ out = A \o Upto(u, s)
  BY Zenon DEF Buffered
<1>6. g.data[e + 1] = Newline \/ g.cnt = 0 \/ g.start = 0
  BY Zenon DEF GrepLine, Incomplete
<1>7. e = g.last \/ g.data[e + 1] = Newline
  BY LineEndIs, Zenon
<1>8. out' = IF Matches(data, e)
             THEN out \o write(g.fname \o <<":">> \o StringAt(data, g.start) \o <<Newline>>)
             ELSE out
  BY Zenon DEF GrepLine
<1>9. Len(T) \in Nat
  BY <1>1
<1>10. s \in Nat /\ E \in Nat /\ s <= E /\ E <= p /\ E <= Len(T)
  <2> DEFINE n == Len(T)
             b == g.last
             a == g.start
  <2> HIDE DEF n, a, b, e
  <2>1. /\ n \in Nat /\ p \in Nat /\ p <= n /\ e \in Nat /\ a <= e /\ e <= b /\ a \in Nat /\ b \in Nat
        /\ q \in Nat /\ q + b = p
    BY <1>1, <1>2, <1>3, <1>4, <1>9, Zenon DEF n, a, b
  <2>2. q + a \in Nat /\ q + e \in Nat /\ q + a <= q + e /\ q + e <= p /\ q + e <= n
    BY <2>1
  <2> QED
    BY <2>2, Zenon DEF n, a
<1>11. E = Len(T) \/ T[E + 1] = Newline
  <2>1. CASE e < g.last
    BY <1>3, <2>1, Zenon
  <2>2. CASE ~(e < g.last)
    <3>1. e = g.last /\ E = p
      BY <1>2, <1>4, <2>2
    <3>2. CASE p = Len(T)
      BY <3>1, <3>2
    <3>3. CASE p # Len(T)
      <4>1. g.last = BufSize /\ g.cnt # 0
        BY <3>3
      <4>2. g.start = 0
        BY <1>5, <1>6, <3>1, <4>1, Zenon
      <4>3. q + 1 \in 1 .. Len(T) - BufSize
        <5> DEFINE n == Len(T)
        <5> HIDE DEF n
        <5>1. n \in Nat /\ p \in Nat /\ p <= n /\ p # n /\ q \in Nat /\ q + BufSize = p /\ BufSize \in Nat
          BY <1>1, <1>2, <1>3, <1>4, <1>9, <3>3, <4>1, Zenon DEF n
        <5>2. q + 1 \in 1 .. n - BufSize
          BY <5>1
        <5> QED
          BY <5>2, Zenon DEF n
      <4>4. PICK j \in q + 1 .. (q + 1) + BufSize : T[j] = Newline
        BY <1>1, <4>3, Zenon DEF IsText
      <4>5. ~(j \in s + 1 .. E)
        BY <1>3, <4>4, Zenon
      <4>6. s + 1 = q + 1 /\ E = q + BufSize /\ q \in Nat /\ BufSize \in Nat /\ q + 1 <= j /\ j <= (q + 1) + BufSize /\ j \in Int
        BY <1>2, <1>3, <3>1, <4>1, <4>2
      <4> HIDE DEF s, E
      <4>7. j = E + 1
        BY <4>5, <4>6
      <4> QED
        BY <4>4, <4>7, Zenon
    <3> QED
      BY <3>2, <3>3
  <2> QED
    BY <2>1, <2>2
<1>12. EndsLine(T, s + 1, E)
  <2>1. s + 1 <= E + 1
    BY <1>10
  <2> QED
    BY <1>3, <1>10, <1>11, <2>1, Zenon DEF EndsLine
<1>13. t = E \/ (t = E + 1 /\ E < Len(T))
  <2>1. CASE e < g.last
    <3>1. t = E + 1
      BY <2>1, Zenon DEF NextPlace
    <3>2. E < Len(T)
      BY <1>1, <1>2, <1>3, <1>4, <1>9, <2>1
    <3> QED
      BY <3>1, <3>2
  <2>2. CASE ~(e < g.last)
    <3>1. t = E
      BY <2>2, Zenon DEF NextPlace
    <3> QED
      BY <3>1
  <2> QED
    BY <2>1, <2>2
<1> HIDE DEF T, e, s, t, E, data, A
<1>14. IsString(args) /\ args \in Seq(Chars)
  BY Zenon DEF StartInv, IsString
<1>15. /\ Boundary(T, t)
       /\ Holds(l, args) => Upto(u, t) = Upto(u, s) \o Shown(g.fname, l)
       /\ ~Holds(l, args) => Upto(u, t) = Upto(u, s)
  <2>1. Searches(T, g.fname, args, s, E, t)
    BY <1>1, <1>5, <1>10, <1>12, <1>13, <1>14, Zenon DEF Searches
  <2> QED
    <3>1. Prints(T, g.fname, args, s, E, t)
      BY <2>1, SearchPrints, Zenon
    <3> QED
      BY <3>1, Zenon DEF Prints
<1>16. Matches(data, e) <=> Holds(l, args)
  BY <1>3, <1>14, MatchesRight, Zenon
<1>17. IsString(l)
  BY <1>3, Zenon DEF HasLine
<1>18. write(g.fname \o <<":">> \o StringAt(data, g.start) \o <<Newline>>) = Shown(g.fname, l)
       /\ Shown(g.fname, l) \in Seq(Printable)
  <2>1. StringAt(data, g.start) = l
    <3>1. g.start \in g.start .. e
      BY <1>2 DEF e
    <3>2. StringAt(data, g.start) = SubSeq(data, g.start + 1, e) /\ l = SubSeq(data, g.start + 1, e)
      BY <1>3, <3>1, StringAtRight, Zenon DEF HasLine
    <3> QED
      BY <3>2, Zenon
  <2> HIDE DEF l
  <2>2. Shown(g.fname, l) = g.fname \o <<":">> \o StringAt(data, g.start) \o <<Newline>>
    BY <2>1, Zenon DEF Shown
  <2>3. Shown(g.fname, l) \in Seq(Printable) /\ Str(Shown(g.fname, l)) = Shown(g.fname, l)
    BY <1>1, <1>17, ShownRight, Zenon
  <2> QED
    BY <2>2, <2>3, Zenon DEF write
<1>19. A \in Seq(Printable) /\ Upto(u, s) \in Seq(Printable)
  <2>1. Pieces(InFiles(args), Len(image.dentries), Printable)
    BY <1>1, FilePieces, Zenon
  <2>2. fds[fd].pos - 1 \in 0 .. Len(image.dentries)
    <3>1. Len(image.dentries) \in Nat
      BY <1>1, DirectoryRight, Zenon
    <3> QED
      BY <1>1, <3>1
  <2>3. A \in Seq(Printable)
    <3> DEFINE v == InFiles(args)
               n == Len(image.dentries)
               k == fds[fd].pos - 1
    <3> HIDE DEF v, n, k
    <3>1. Pieces(v, n, Printable) /\ k \in 0 .. n
      BY <2>1, <2>2, Zenon DEF v, n, k
    <3>2. Upto(v, k) \in Seq(Printable)
      BY <3>1, UptoRight, Zenon
    <3> QED
      BY <3>2, Zenon DEF v, k, A
  <2>4. Pieces(u, Len(T), Printable)
    BY <1>1, TextPieces, Zenon
  <2>5. s \in 0 .. Len(T)
    BY <1>9, <1>10
  <2> HIDE DEF u
  <2>6. Upto(u, s) \in Seq(Printable)
    BY <2>4, <2>5, UptoRight, Zenon
  <2> QED
    BY <2>3, <2>6
<1> HIDE DEF u, l
<1>20. out' = A \o Upto(u, t)
  <2>1. CASE Holds(l, args)
    <3>1. out' = (A \o Upto(u, s)) \o Shown(g.fname, l)
      BY <1>5, <1>8, <1>16, <1>18, <2>1, Zenon
    <3>2. Associates(A, Upto(u, s), Shown(g.fname, l))
      BY <1>18, <1>19, Associative, Zenon
    <3> QED
      BY <1>15, <2>1, <3>1, <3>2, Zenon DEF Associates
  <2>2. CASE ~Holds(l, args)
    BY <1>5, <1>8, <1>15, <1>16, <2>2, Zenon
  <2> QED
    BY <2>1, <2>2
<1> QED
  BY <1>15, <1>20, Zenon DEF T, u, A, t

LEMMA GrepLinePrints ==
    ASSUME IInv, StartInv, EntryInv, TextInv, GrepLine
    PROVE  Printed'
<1> DEFINE T    == TextNow
           p    == fds[g.fd].pos
           q    == p - g.last
           e    == LineEnd
           data == [g.data EXCEPT ![e + 1] = Nul]
           done == e + 1 >= g.last
           t    == NextPlace(q)
           i    == fds[fd].pos
           u    == InText(g.fname, T, args)
           A    == Upto(InFiles(args), i - 1)
<1>1. /\ pc = "grepline" /\ image' = image /\ args' = args /\ prog' = prog /\ fd' = fd /\ fds' = fds
      /\ g' = [g EXCEPT !.data = data, !.start = e + 1, !.last = IF done THEN 0 ELSE @]
      /\ pc' = IF ~done THEN "grepline" ELSE IF g.cnt = 0 THEN "grepclose" ELSE "grepread"
  BY Zenon DEF GrepLine
<1>2. /\ p \in Nat /\ p <= Len(T) /\ T \in Seq(Chars) /\ image \in Images
      /\ InFiles(args)[i] = FlattenSeq(u) /\ IsString(g.fname)
      /\ AllTexts => IsString(T)
  <2>1. pc \in {"grepread", "grepline", "grepclose"}
    BY <1>1
  <2> QED
    BY <2>1, GrepFacts, Zenon
<1>3. /\ e \in Nat /\ g.start <= e /\ e <= g.last /\ g.start \in Nat /\ g.last \in Nat
      /\ g.last <= BufSize /\ BufSize \in Nat
  BY <1>1, LineEndRight
<1>4. /\ g'.fd = g.fd /\ g'.fname = g.fname /\ g'.junk = g.junk /\ g'.cnt = g.cnt
      /\ g'.data = data /\ g'.start = e + 1 /\ g'.last = IF done THEN 0 ELSE g.last
  <2>1. g \in [fname : Seq(Chars), fd : Nat, junk : Chars, data : Seq(Chars),
               last : Nat, start : Nat, cnt : Nat]
    BY LocalsTyped
  <2> HIDE DEF data, done, e
  <2> QED
    BY <1>1, <2>1
<1>5. TextNow' = T
  BY <1>1, <1>4, Zenon DEF TextNow
<1> HIDE DEF data
<1>6. EntryInv'
  <2>1. pc \in {"grepread", "grepline"} /\ pc' \in {"grepread", "grepline", "grepclose"}
    BY <1>1
  <2>2. pc' = "grepread" => g'.last < BufSize
    <3>1. pc' = "grepread" => done
      BY <1>1
    <3>2. 0 < BufSize
      BY Sizes
    <3> HIDE DEF done
    <3> QED
      BY <1>4, <3>1, <3>2, Zenon
  <2>3. fds'[fd] = fds[fd] /\ fds'[g.fd].kind = fds[g.fd].kind /\ fds'[g.fd].pos <= Len(TextNow)
        /\ \A n \in Fds \ {fd, g.fd} : fds'[n] = fds[n]
    BY <1>1, <1>2, Zenon
  <2> HIDE DEF done, e
  <2> QED
    BY <1>1, <1>4, <1>5, <2>1, <2>2, <2>3, EntryKept, Zenon
<1>7. AllTexts' = AllTexts /\ InFiles(args)' = InFiles(args)
  BY <1>1, SameImage, Zenon
<1>8. TextInv'
  <2> SUFFICES ASSUME AllTexts, g.junk # Newline
               PROVE  /\ pc' \in {"grep", "grepclose"} => out' = Upto(InFiles(args), i)
                      /\ pc' = "grepread" => Buffered(TextNow, fds[g.fd].pos, 0)'
                      /\ pc' = "grepline" => /\ Buffered(TextNow, fds[g.fd].pos, g.start)'
                                             /\ p # Len(T) => g'.last = BufSize /\ g'.cnt # 0
    BY <1>1, <1>4, <1>5, <1>7, Zenon DEF TextInv
  <2>1. Buffered(T, p, g.start) /\ (p # Len(T) => g.last = BufSize /\ g.cnt # 0)
    BY <1>1, Zenon DEF TextInv
  <2>2. Boundary(T, t) /\ out' = A \o Upto(u, t)
    BY <1>1, <2>1, LinePrints, Zenon
  <2>3. /\ data[BufSize + 1] # Newline
        /\ \A k \in e + 2 .. g.last : data[k] = T[q + k]
    <3>1. p \in Nat /\ p <= Len(TextNow)
      BY <1>2, Zenon
    <3> HIDE DEF p
    <3> QED
      BY <1>1, <2>1, <3>1, LineInBuffer, Zenon DEF data
  <2>4. g.last <= p
    BY <2>1, Zenon DEF Buffered
  <2>5. q \in Nat /\ q + g.last = p
    BY <1>2, <1>3, <2>4
  <2> HIDE DEF T, p, q, e, t, u, A
  <2>6. CASE ~done
    <3>1. e + 1 < g.last /\ e < g.last
      BY <1>3, <2>6
    <3>2. t = q + e + 1
      BY <3>1, Zenon DEF t, NextPlace, e
    <3>3. g'.last = g.last /\ g'.start = e + 1 /\ pc' = "grepline" /\ g'.data = data
      BY <1>1, <1>4, <2>6, Zenon
    <3>4. p - g.last + (e + 1) = t
      <4> DEFINE b == g.last
      <4>1. b \in Nat /\ e \in Nat /\ p \in Nat /\ q \in Nat /\ q + b = p /\ t = q + e + 1
        BY <1>2, <1>3, <2>5, <3>2, Zenon
      <4> HIDE DEF b
      <4>2. p - b + (e + 1) = t
        BY <4>1
      <4> QED
        BY <4>2, Zenon DEF b
    <3>5. \A k \in (e + 1) + 1 .. g.last : data[k] = T[p - g.last + k]
      <4>1. p - g.last = q /\ (e + 1) + 1 = e + 2
        BY <1>2, <1>3, <2>5
      <4> QED
        BY <2>3, <4>1, Zenon
    <3>6. Buffered(TextNow, fds[g.fd].pos, g.start)'
      <4>1. out' = Upto(InFiles(args)', fds'[fd'].pos - 1) \o Upto(InText(g'.fname, T, args'), p - g.last + (e + 1))
        BY <1>1, <1>4, <1>7, <2>2, <3>4, Zenon DEF A, u
      <4>2. fds'[g'.fd].pos = p
        BY <1>1, <1>4, Zenon DEF p
      <4>3. Boundary(T, p - g.last + (e + 1))
        BY <2>2, <3>4, Zenon
      <4> QED
        BY <1>5, <2>3, <2>4, <3>3, <3>5, <4>1, <4>2, <4>3, Zenon DEF Buffered
    <3>7. "grepline" \notin {"grep", "grepclose"} /\ "grepline" # "grepread"
      OBVIOUS
    <3> QED
      BY <1>4, <2>1, <3>3, <3>6, <3>7, Zenon
  <2>7. CASE done
    <3>1. t = p
      <4>1. CASE e < g.last
        <5>1. e + 1 = g.last
          BY <1>3, <2>7, <4>1
        <5>2. t = q + e + 1
          BY <4>1, Zenon DEF t, NextPlace, e
        <5> QED
          BY <1>2, <1>3, <2>5, <5>1, <5>2
      <4>2. CASE ~(e < g.last)
        <5>1. e = g.last
          BY <1>3, <4>2
        <5>2. t = q + e
          BY <4>2, Zenon DEF t, NextPlace, e
        <5> QED
          BY <2>5, <5>1, <5>2, Zenon
      <4> QED
        BY <4>1, <4>2
    <3>2. CASE g.cnt = 0
      <4>1. pc' = "grepclose"
        BY <1>1, <2>7, <3>2, Zenon
      <4>2. p = Len(T)
        BY <2>1, <3>2, Zenon
      <4>3. out' = Upto(InFiles(args), i)
        <5>1. IsString(T)
          BY <1>2, Zenon
        <5>2. Pieces(u, Len(T), Printable)
          BY <1>2, <5>1, TextPieces, Zenon DEF u
        <5>3. FlattenSeq(u) = Upto(u, Len(T))
          BY <5>2, UptoRight, Zenon
        <5>4. InFiles(args)[i] = FlattenSeq(u)
          BY <1>2, Zenon
        <5>5. Pieces(InFiles(args), Len(image.dentries), Printable)
          BY <1>2, FilePieces, Zenon
        <5>6. Unrolls(InFiles(args), Len(image.dentries))
          BY <5>5, UptoRight, Zenon
        <5>7. i \in 1 .. Len(image.dentries)
          <6>1. pc \in {"grepread", "grepline", "grepclose"}
            BY <1>1
          <6> QED
            BY <6>1, GrepFacts, Zenon
        <5> HIDE DEF i
        <5>8. Upto(InFiles(args), i) = Upto(InFiles(args), i - 1) \o InFiles(args)[i]
          BY <5>6, <5>7, Zenon DEF Unrolls
        <5> QED
          BY <2>2, <3>1, <4>2, <5>3, <5>4, <5>8, Zenon DEF A
      <4>4. "grepclose" # "grepread" /\ "grepclose" # "grepline"
        OBVIOUS
      <4> QED
        BY <4>1, <4>3, <4>4, Zenon
    <3>3. CASE g.cnt # 0
      <4>1. pc' = "grepread" /\ g'.last = 0 /\ g'.data = data
        BY <1>1, <1>4, <2>7, <3>3, Zenon
      <4>2. p - 0 + 0 = p /\ 0 <= p /\ 0 + 1 .. 0 = {}
        BY <1>2
      <4>3. Buffered(TextNow, fds[g.fd].pos, 0)'
        <5>1. out' = Upto(InFiles(args)', fds'[fd'].pos - 1) \o Upto(InText(g'.fname, T, args'), p - 0 + 0)
          BY <1>1, <1>4, <1>7, <2>2, <3>1, <4>2, Zenon DEF A, u
        <5>2. fds'[g'.fd].pos = p
          BY <1>1, <1>4, Zenon DEF p
        <5>3. Boundary(T, p - 0 + 0)
          BY <2>2, <3>1, <4>2, Zenon
        <5>4. \A k \in 0 + 1 .. 0 : data[k] = T[p - 0 + k]
          BY <4>2, Zenon
        <5> QED
          BY <1>5, <2>3, <4>1, <4>2, <5>1, <5>2, <5>3, <5>4, Zenon DEF Buffered
      <4>4. "grepread" \notin {"grep", "grepclose"} /\ "grepread" # "grepline"
        OBVIOUS
      <4> QED
        BY <4>1, <4>3, <4>4, Zenon
    <3> QED
      BY <3>2, <3>3
  <2> QED
    BY <2>6, <2>7
<1>9. pc' \in {"grep", "grepread", "grepline", "grepclose"}
  BY <1>1
<1> QED
  BY <1>6, <1>8, <1>9, PrintedGrep, Zenon

-----------------------------------------------------------------------------
(* The theorem                                                             *)

\* The arguments of a command hold no NUL.
LEMMA ArgsAreString ==
    ASSUME IsString(line), NEW leftover \in Leftovers
    PROVE  IsString(Parsed(line, leftover).args)
<1> DEFINE S == {i \in 1 .. NameLen : At(line, i) \in {Nul, Space}}
           m == Min(S)
<1>1. IsString(leftover)
  BY ProgramsAssumption, Zenon
<1>2. S \in SUBSET Nat
  BY Sizes
<1>3. Parsed(line, leftover).args = IF S = {} THEN leftover ELSE SubSeq(line, m + 1, Len(line))
  BY DEF Parsed
<1>4. S # {} => m \in Nat
  BY <1>2, MinRight
<1> HIDE DEF S, m
<1>5. ASSUME m \in Nat PROVE IsString(SubSeq(line, m + 1, Len(line)))
  <2>1. m + 1 \in Nat /\ 1 <= m + 1
    BY <1>5
  <2>2. Len(line) \in Nat /\ Len(line) <= Len(line)
    BY DEF IsString
  <2> QED
    BY <2>1, <2>2, PartIsString, Zenon
<1> QED
  BY <1>1, <1>3, <1>4, <1>5, Zenon

\* Only shells come to the prompt.
LEMMA OthersStay ==
    ASSUME Next, ~Execute, ~(ShellReport \/ ShellStart \/ ShellRead)
    PROVE  pc' # "prompt"
<1> DEFINE Goes == (\E s \in {0, 2, 3} : Halt(s)) \/ pc' # "prompt"
<1>1. CatStart \/ DirStart => Goes
  BY Zenon DEF CatStart, DirStart, HaltWith
<1>2. CatRead \/ LsRead => Goes
  BY Zenon DEF CatRead, LsRead, HaltWith
<1>3. Hello \/ Sigtest => Goes
  BY Zenon DEF Hello, Sigtest
<1>4. GrepEntry \/ GrepRead => Goes
  BY Zenon DEF GrepEntry, GrepRead, HaltWith
<1>5. GrepCarry \/ GrepClose => Goes
  BY Zenon DEF GrepCarry, GrepClose
<1>6. GrepLine => pc' \in {"grepline", "grepclose", "grepread"}
  BY Zenon DEF GrepLine
<1>7. Goes
  BY <1>1, <1>2, <1>3, <1>4, <1>5, <1>6 DEF Next, Run
<1>8. CASE \E s \in {0, 2, 3} : Halt(s)
  BY <1>8 DEF Halt
<1> QED
  BY <1>7, <1>8

LEMMA StartInvStep == IInv /\ LineInv /\ StartInv /\ [Next]_vars => StartInv'
<1> SUFFICES ASSUME IInv, LineInv, StartInv, [Next]_vars PROVE StartInv'
  OBVIOUS
<1>1. CASE UNCHANGED vars
  BY <1>1 DEF vars, StartInv
<1>2. CASE Execute
  <2>1. PICK leftover \in Leftovers :
           args' = args \/ args' = Parsed(line, leftover).args
    BY <1>2, Zenon DEF Execute
  <2>3. IsString(line)
    BY <1>2, Zenon DEF Execute, LineInv, IsString
  <2>4. IsString(args')
    BY <2>1, <2>3, ArgsAreString, Zenon DEF StartInv
  <2>5. fds' = AllFree /\ AllFree' = AllFree /\ (pc' = "start" \/ pc' = "report")
    BY <1>2, Zenon DEF Execute, AllFree, Fds
  <2>6. pc' = "start" => out' = <<>>
    <3>1. "report" # "start"
      OBVIOUS
    <3> QED
      BY <1>2, <3>1, Zenon DEF Execute
  <2>7. pc' # "prompt"
    BY <2>5
  <2> QED
    BY <2>4, <2>5, <2>6, <2>7, Zenon DEF StartInv
<1>3. CASE Next /\ ~Execute
  <2>1. pc' # "start"
    BY <1>3, OthersStartNothing
  <2>2. args' = args \/ args' = <<>>
    BY <1>3, Zenon DEF Next, Run, ShellRead, ShellReport, ShellStart, CatStart, CatRead, DirStart, LsRead,
       Hello, Sigtest, GrepEntry, GrepRead, GrepCarry, GrepLine, GrepClose
  <2>3. IsString(<<>>)
    BY DEF IsString
  <2>4. IsString(args')
    BY <2>2, <2>3, Zenon DEF StartInv
  <2>5. pc' = "prompt" => prog' = "shell"
    <3>1. CASE ShellReport \/ ShellStart
      BY <3>1, Zenon DEF ShellReport, ShellStart
    <3>2. CASE ShellRead
      BY <3>2, Zenon DEF ShellRead, StartInv
    <3>3. CASE ~(ShellReport \/ ShellStart \/ ShellRead)
      BY <1>3, <3>3, OthersStay
    <3> QED
      BY <3>1, <3>2, <3>3
  <2> QED
    BY <2>1, <2>4, <2>5, Zenon DEF StartInv
<1> QED
  BY <1>1, <1>2, <1>3

LEMMA PrintedSame == Printed /\ UNCHANGED vars => Printed'
<1> SUFFICES ASSUME Printed, UNCHANGED vars PROVE Printed'
  OBVIOUS
<1>1. /\ image' = image /\ line' = line /\ prog' = prog /\ args' = args /\ pc' = pc /\ fds' = fds
      /\ fd' = fd /\ out' = out /\ status' = status /\ g' = g
  BY DEF vars
<1>2. /\ Files' = Files /\ Names' = Names /\ NameLines' = NameLines
      /\ Full' = Full /\ AllTexts' = AllTexts /\ InFiles(args)' = InFiles(args)
  BY <1>1, SameImage, Zenon
<1>3. CatInv' /\ LsInv'
  BY <1>1, <1>2, Zenon DEF Printed, CatInv, LsInv, Cut
<1>4. TextNow' = TextNow
  BY <1>1, Zenon DEF TextNow
<1>5. EntryInv'
  BY <1>1, <1>2, <1>4, Zenon DEF Printed, EntryInv
<1>6. TextInv'
  BY <1>1, <1>2, <1>4, Zenon DEF Printed, TextInv, Buffered
<1>7. OutputAsPromised'
  BY <1>1, <1>2, Zenon DEF Printed, OutputAsPromised, CatAsPromised, LsAsPromised, GrepAsPromised,
     ToTheEnd, Cut
<1> QED
  BY <1>3, <1>5, <1>6, <1>7, Zenon DEF Printed

LEMMA PrintedStep == IInv /\ StartInv /\ Printed /\ [Next]_vars => Printed'
<1> SUFFICES ASSUME IInv, StartInv, Printed, [Next]_vars PROVE Printed'
  OBVIOUS
<1>1. CatInv /\ LsInv /\ EntryInv /\ TextInv
  BY Zenon DEF Printed
<1>2. CASE ShellReport \/ ShellStart \/ Sigtest
  <2>1. pc' = "prompt" \/ pc' = "stopped"
    BY <1>2, Zenon DEF ShellReport, ShellStart, Sigtest
  <2>2. pc' \in {"prompt", "execute", "start", "stopped"}
    BY <2>1
  <2> QED
    BY <2>2, PrintedElsewhere, Zenon
<1>15. CASE ShellRead
  <2>1. pc = "prompt" /\ prog' = prog
    BY <1>15 DEF ShellRead
  <2>2. pc' = pc \/ pc' = "execute" \/ pc' = "report"
    BY <1>15, Zenon DEF ShellRead, Halt
  <2>3. prog' \notin {"cat", "ls", "grep"}
    BY <2>1 DEF StartInv
  <2>4. CASE pc' = "report"
    BY <2>3, <2>4, PrintedReport, Zenon
  <2>5. CASE pc' # "report"
    <3>1. pc' \in {"prompt", "execute", "start", "stopped"}
      BY <2>1, <2>2, <2>5
    <3> QED
      BY <3>1, PrintedElsewhere, Zenon
  <2> QED
    BY <2>4, <2>5
<1>3. CASE Execute
  <2>1. pc' = "start" \/ (pc' = "report" /\ status' = -1)
    BY <1>3, Zenon DEF Execute
  <2>2. pc' = "start" => pc' \in {"prompt", "execute", "start", "stopped"}
    OBVIOUS
  <2> QED
    BY <2>1, <2>2, PrintedElsewhere, PrintedReport, Zenon
<1>4. CASE Hello
  <2>1. pc' = "report" /\ prog' = "hello"
    BY <1>4, Zenon DEF Hello, Halt
  <2>2. prog' \notin {"cat", "ls", "grep"}
    BY <2>1
  <2> QED
    BY <2>1, <2>2, PrintedReport, Zenon
<1>5. CASE CatStart
  BY <1>5, CatStartPrints, Zenon
<1>6. CASE CatRead
  BY <1>1, <1>6, CatReadPrints, Zenon
<1>7. CASE DirStart
  BY <1>7, DirStartPrints, Zenon
<1>8. CASE LsRead
  BY <1>1, <1>8, LsReadPrints, Zenon
<1>9. CASE GrepEntry
  BY <1>1, <1>9, GrepEntryPrints, Zenon
<1>10. CASE GrepRead
  BY <1>1, <1>10, GrepReadPrints, Zenon
<1>11. CASE GrepCarry
  BY <1>1, <1>11, GrepCarryPrints, Zenon
<1>12. CASE GrepLine
  BY <1>1, <1>12, GrepLinePrints, Zenon
<1>13. CASE GrepClose
  BY <1>1, <1>13, GrepClosePrints, Zenon
<1>14. CASE UNCHANGED vars
  BY <1>14, PrintedSame, Zenon
<1> QED
  BY <1>2, <1>3, <1>4, <1>5, <1>6, <1>7, <1>8, <1>9, <1>10, <1>11, <1>12, <1>13, <1>14,
     <1>15, Zenon
  DEF Next, Run

\* For every image, every text in it, every size of the buffers and every sequence of
\* commands: cat prints the file it names, ls the names of the directory, and
\* grep each line that holds the pattern, once and in order, however the reads and the carried
\* rest of the buffer cut the text; their status tells whether the directory is full or
\* the file missing.
THEOREM OutputIsAsPromised == Spec => []OutputAsPromised
<1>1. Init => LineInv /\ StartInv /\ Printed
  <2> SUFFICES ASSUME Init PROVE LineInv /\ StartInv /\ Printed
    OBVIOUS
  <2>1. pc = "prompt" /\ args = <<>> /\ prog = "shell"
    BY DEF Init
  <2>2. LineInv /\ StartInv
    BY <2>1 DEF LineInv, StartInv, IsString
  <2>3. CatInv /\ LsInv /\ EntryInv /\ TextInv /\ OutputAsPromised
    BY <2>1 DEF CatInv, LsInv, EntryInv, TextInv, OutputAsPromised
  <2> QED
    BY <2>2, <2>3, Zenon DEF Printed
<1>2. IInv /\ LineInv /\ [Next]_vars => LineInv'
  BY LineStep
<1>3. IInv /\ LineInv /\ StartInv /\ [Next]_vars => StartInv'
  BY StartInvStep
<1>4. IInv /\ StartInv /\ Printed /\ [Next]_vars => Printed'
  BY PrintedStep
<1>5. Printed => OutputAsPromised
  BY Zenon DEF Printed
<1> QED
  BY <1>1, <1>2, <1>3, <1>4, <1>5, Invariance, PTL DEF Spec

=============================================================================
