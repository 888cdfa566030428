------------------------------ MODULE Programs ------------------------------
(***************************************************************************)
(* The programs a user runs: the shell, cat, ls, grep, hello and sigtest,  *)
(* over the system calls they make (execute, getargs, open, read, write,   *)
(* close, set_handler, halt), on one terminal.                             *)
(*                                                                         *)
(* An action is the stretch of a program from one system call that its     *)
(* course depends on to the next.  The scheduling of the processes is in   *)
(* Processes, the line editing behind a read of the terminal is in         *)
(* TerminalInput and the table of descriptors, with its blocking and       *)
(* concurrent calls, is in FileDescriptors: here one program runs at a     *)
(* time, over the shells that wait for it, and what counts is what it      *)
(* prints.  Of the other terminals, only the pids they hold are here.      *)
(***************************************************************************)
EXTENDS Names

CONSTANTS
    Images,         \* file system images the machine may be started with
    Lines(_),       \* lines that are typed when it runs with an image
    Leftovers,      \* what file_args may hold before it is written
    Junk,           \* what may fill a new program's stack, grep's buffer in it
    ShellName,      \* the name of the shell, "shell"
    NumPids,        \* length of active_pids, 6
    DirSize,        \* 63 in the code: the entries directory_read can reach
    BufSize,        \* BUFSIZE of grep and cat, 1024
    NumFds          \* 8

ELF == "ELF"
Executable(content) == Len(content) >= 2 /\ content[1] = ELF

DirEntry == [name : Seq(Chars), type : 0 .. 2, inode : Nat]
Dentries == Seq(DirEntry)

\* A string as far as its terminator, which is not in it.
IsString(s) == s \in Seq(Chars) /\ \A i \in 1 .. Len(s) : s[i] # Nul

\* An image as its tool makes it: the directory comes first, every name fits and is there
\* once, every file has its bytes, the programs are those below, and there is a shell to boot.
WellFormed(img) ==
    /\ img \in [dentries : Dentries, content : Seq(Seq(Chars))]
    /\ Len(img.dentries) \in 1 .. DirSize /\ img.dentries[1].name = <<Dot>>
    /\ \A i \in 1 .. Len(img.dentries) :
          LET d == img.dentries[i]
          IN  /\ Len(d.name) \in 1 .. NameLen /\ \A k \in 1 .. Len(d.name) : d.name[k] # Nul
              /\ d.type = 0 => Same(RtcName, d.name, Len(RtcName))
              /\ d.type = 1 <=> d.name[1] = Dot
              /\ d.type = 2 => d.inode \in 1 .. Len(img.content)
              /\ \A j \in 1 .. Len(img.dentries) : img.dentries[j].name = d.name => j = i
    /\ \A k \in 1 .. Len(img.content) :
          Executable(img.content[k]) =>
              img.content[k][2] \in {"shell", "cat", "ls", "grep", "hello", "sigtest"}
    /\ \E i \in 1 .. Len(img.dentries) :
          /\ img.dentries[i].name = ShellName /\ img.dentries[i].type = 2
          /\ SubSeq(img.content[img.dentries[i].inode], 1, 2) = <<ELF, "shell">>

ASSUME ProgramsAssumption ==
    /\ {NumPids, DirSize, BufSize, NumFds} \subseteq Nat \ {0} /\ NumFds > 3 /\ NameLen <= BufSize
    /\ IsString(RtcName) /\ RtcName # <<>> /\ RtcName[1] # Dot
    /\ Junk \subseteq Chars
    \* No text is taken for the failure of a read.
    /\ "fail" \notin Chars
    /\ \A img \in Images : WellFormed(img)
    \* The keyboard types no NUL.
    /\ \A img \in Images : \A l \in Lines(img) : IsString(l)
    /\ \A leftover \in Leftovers : IsString(leftover)

VARIABLES
    image,      \* [dentries, content]: the directory, and the bytes of each inode
    shells,     \* how many shells there are on this terminal, each the parent of the next
    line,       \* the command in the last one's buf, until it has been carried out
    prog,       \* the program that runs
    args,       \* its arguments, in its PCB
    pc,         \* what it does next
    fds,        \* its descriptors, 2 and up
    fd,         \* the local variable of main
    out,        \* what it printed since it was started, or the shell since it ended;
                \* the kernel's own message, on whichever terminal is displayed, too
    status,     \* what it was halted with, the value execute returns; 0 while it runs
    g           \* the local variables of grep's do_one_file (data[i] is at i + 1)

vars == <<image, shells, line, prog, args, pc, fds, fd, out, status, g>>

Fds    == 2 .. NumFds - 1
AllFree == [n \in Fds |-> NoFile]

\* What is put on the screen of a text: its NULs are skipped.
Kept(s) == [i \in 1 .. Len(s) |-> IF s[i] = Nul THEN <<>> ELSE <<s[i]>>]
Str(s)  == FlattenSeq(Kept(s))

-----------------------------------------------------------------------------
(* The system calls                                                        *)

\* open_handler and the open of the driver: the descriptor, or -1.
OpenAt(name) ==
    LET Free == {n \in Fds : fds[n].kind = "free"}
    IN  IF Free = {} \/ open_handler(image.dentries, name) = NoFile THEN -1 ELSE Min(Free)

Fail == <<"fail">>

\* What a read of n bytes returns: the bytes, or Fail for -1.  Entries behind the
\* last one of the image have an empty name.
ReadAt(d, n) ==
    CASE d.kind = "file" -> IF n <= 0 THEN Fail
                            ELSE LET content == image.content[d.inode]
                                 IN  SubSeq(content, d.pos + 1, Min({d.pos + n, Len(content)}))
      [] d.kind = "dir"  -> IF d.pos >= DirSize THEN Fail
                            ELSE IF d.pos >= Len(image.dentries) THEN <<>>
                            ELSE NameRead(image.dentries[d.pos + 1], n)
      [] d.kind = "rtc"  -> <<>>
      [] d.kind = "free" -> Fail

\* Mutant: directory_read leaves the position where it is.
Advanced_DirStays(d, r) == IF d.kind = "file" THEN [d EXCEPT !.pos = @ + Len(r)] ELSE d

\* The descriptor after such a read.
Advanced(d, r) ==
    [d EXCEPT !.pos = @ + CASE d.kind = "file" -> Len(r) [] d.kind = "dir" -> 1 [] OTHER -> 0]

\* Mutant: a text that holds NULs is printed up to the first of them.
write_CString(s) == SubSeq(s, 1, strlen(s))

\* terminal_write does not print NULs.
write(s) == Str(s)

\* The program returns from main: its status reaches the shell's execute.
Halt(s) == status' = s /\ pc' = "report" /\ fds' = AllFree

HaltWith(message, s) == Halt(s) /\ out' = Append(out, message)

-----------------------------------------------------------------------------
(* The shell                                                               *)

NoGrep == [fname |-> <<>>, fd |-> 0, junk |-> Nul, data |-> <<>>,
           last |-> 0, start |-> 0, cnt |-> 0]

Init == /\ image \in Images
        /\ shells = 1 /\ line = <<>> /\ prog = "shell" /\ args = <<>> /\ pc = "prompt"
        /\ fds = AllFree /\ fd = 0 /\ out = <<>> /\ status = 0 /\ g = NoGrep

Exit == <<"e", "x", "i", "t">>

\* A line is read and its newline taken off; an empty one gives a new prompt.  After
\* "exit" the shell below goes on, or the kernel starts the last shell again.
ShellRead ==
    /\ pc = "prompt"
    /\ \E l \in Lines(image) :
         \/ /\ l \notin {<<>>, Exit}
            /\ line' = l /\ pc' = "execute"
            /\ UNCHANGED <<shells, fds, status>>
         \/ /\ l = <<>> \/ (l = Exit /\ shells = 1)
            /\ line' = <<>>
            /\ UNCHANGED <<pc, shells, fds, status>>
         \/ /\ l = Exit /\ shells > 1
            /\ line' = <<>> /\ shells' = shells - 1
            /\ Halt(0)
    /\ UNCHANGED <<image, prog, args, fd, out, g>>

\* execute: the program runs, with no file open, if there is a pid for it: the shells of this
\* terminal have one each, the processes of the other terminals any number of the rest.
Execute ==
    /\ pc = "execute"
    /\ \E command \in {Parsed(line, leftover) : leftover \in Leftovers},
          others \in 0 .. NumPids - shells :
         LET i     == read_dentry_by_name(image.dentries, command.name)
             found == /\ i # 0
                      /\ image.dentries[i].type = 2
                      /\ Executable(image.content[image.dentries[i].inode])
             full  == shells + others = NumPids
         IN  /\ IF found /\ ~full
                THEN /\ prog' = image.content[image.dentries[i].inode][2]
                     /\ args' = command.args
                     /\ pc' = "start" /\ status' = 0
                ELSE status' = -1 /\ pc' = "report" /\ UNCHANGED <<prog, args>>
             /\ out' = IF found /\ full THEN <<"Too many processes">> ELSE <<>>
    /\ fds' = AllFree /\ fd' = 0
    /\ \E junk \in Junk : g' = [NoGrep EXCEPT !.junk = junk]
    /\ UNCHANGED <<image, shells, line>>

\* The program is another shell.  It asks for no arguments.
ShellStart ==
    /\ pc = "start" /\ prog = "shell"
    /\ shells' = shells + 1 /\ line' = <<>> /\ args' = <<>> /\ g' = NoGrep
    /\ pc' = "prompt"
    /\ out' = Append(out, "Starting 391 Shell")
    /\ UNCHANGED <<image, prog, fds, fd, status>>

\* execute has returned: the shell says what was wrong and prompts again.  The memory of
\* the program that ran is gone.
ShellReport ==
    /\ pc = "report"
    /\ out' = CASE status = -1  -> <<"no such command">>
                [] status = 256 -> <<"program terminated by exception">>
                [] status = 0   -> <<>>
                [] OTHER        -> <<"program terminated abnormally">>
    /\ prog' = "shell" /\ pc' = "prompt" /\ line' = <<>>
    /\ args' = <<>> /\ fd' = 0 /\ g' = NoGrep
    /\ UNCHANGED <<image, shells, fds, status>>

-----------------------------------------------------------------------------
(* cat, ls, hello and sigtest                                              *)

CatStart ==
    /\ pc = "start" /\ prog = "cat"
    /\ IF OpenAt(args) = -1
       THEN HaltWith("file not found", 2) /\ UNCHANGED fd
       ELSE /\ fd' = OpenAt(args)
            /\ fds' = [fds EXCEPT ![fd'] = open_handler(image.dentries, args)]
            /\ pc' = "catread"
            /\ UNCHANGED <<out, status>>
    /\ UNCHANGED <<image, shells, line, prog, args, g>>

CatRead ==
    /\ pc = "catread"
    /\ \E r \in {ReadAt(fds[fd], BufSize)} :
           \/ r = Fail /\ HaltWith("file read failed", 3)
           \/ r = <<>> /\ Halt(0) /\ UNCHANGED out
           \/ /\ r \notin {Fail, <<>>}
              /\ out' = out \o write(r)
              /\ fds' = [fds EXCEPT ![fd] = Advanced(@, r)]
              /\ UNCHANGED <<pc, status>>
    /\ UNCHANGED <<image, shells, line, prog, args, fd, g>>

\* ls and grep open the directory.
DirStart ==
    /\ pc = "start" /\ prog \in {"ls", "grep"}
    /\ IF OpenAt(<<Dot>>) = -1
       THEN HaltWith("directory open failed", 2) /\ UNCHANGED fd
       ELSE /\ fd' = OpenAt(<<Dot>>)
            /\ fds' = [fds EXCEPT ![fd'] = open_handler(image.dentries, <<Dot>>)]
            /\ pc' = prog
            /\ UNCHANGED <<out, status>>
    /\ UNCHANGED <<image, shells, line, prog, args, g>>

LsRead ==
    /\ pc = "ls"
    /\ \E r \in {ReadAt(fds[fd], NameLen)} :
           \/ r = Fail /\ HaltWith("directory entry read failed", 3)
           \/ r = <<>> /\ Halt(0) /\ UNCHANGED out
           \/ /\ r \notin {Fail, <<>>}
              /\ out' = out \o write(Append(r, Newline))
              /\ fds' = [fds EXCEPT ![fd] = Advanced(@, r)]
              /\ UNCHANGED <<pc, status>>
    /\ UNCHANGED <<image, shells, line, prog, args, fd, g>>

Hello ==
    /\ pc = "start" /\ prog = "hello"
    /\ \E l \in Lines(image) :
         out' = out \o <<"Hi, what's your name? ", "Hello, ">> \o write(Append(l, Newline))
    /\ Halt(0)
    /\ UNCHANGED <<image, shells, line, prog, args, fd, g>>

\* sigtest asks for handlers, which set_handler refuses, and writes through a null
\* pointer: the page fault handler names the exception and loops, for good.
Sigtest ==
    /\ pc = "start" /\ prog = "sigtest"
    /\ pc' = "stopped"
    /\ out' = out \o (IF At(args, 1) = "1" THEN <<"Installing signal handlers">> ELSE <<>>)
                  \o <<"Hi, what's your name? ", "PAGE FAULT EXCEPTION">>
    /\ UNCHANGED <<image, shells, line, prog, args, fds, fd, status, g>>

-----------------------------------------------------------------------------
(* grep                                                                    *)

\* main reads the next entry of the directory; do_one_file opens the file.  data
\* is an array on the stack, with a place more than BufSize, that nothing sets: it
\* holds what was there before.
GrepEntry ==
    /\ pc = "grep"
    /\ \E r \in {ReadAt(fds[fd], NameLen)} :
       LET next == [fds EXCEPT ![fd] = Advanced(@, r)]
           n    == OpenAt(r)
       IN  \/ r = Fail /\ HaltWith("directory entry read failed", 3) /\ UNCHANGED g
           \/ r = <<>> /\ Halt(0) /\ UNCHANGED <<out, g>>
           \/ /\ r \notin {Fail, <<>>} /\ r[1] = Dot
              /\ fds' = next
              /\ UNCHANGED <<pc, out, status, g>>
           \/ /\ r \notin {Fail, <<>>} /\ r[1] # Dot
              /\ IF n = -1 THEN HaltWith("file open failed", 3) /\ UNCHANGED g
                 ELSE /\ g' = [g EXCEPT !.fname = r, !.fd = n, !.last = 0, !.start = 0, !.cnt = 0,
                                         !.data = [i \in 1 .. BufSize + 1 |-> g.junk]]
                      /\ fds' = [next EXCEPT ![n] = open_handler(image.dentries, r)]
                      /\ pc' = "grepread"
                      /\ UNCHANGED <<out, status>>
    /\ UNCHANGED <<image, shells, line, prog, args, fd>>

\* Mutant: as if the buffer were empty.
Room_Whole(last) == BufSize

Room(last) == BufSize - last

\* The array after a write of r from index i on.
Written(i, r) == SubSeq(g.data, 1, i) \o r \o SubSeq(g.data, i + Len(r) + 1, Len(g.data))

\* The file is read behind what is left of its last lines.
GrepRead ==
    /\ pc = "grepread"
    /\ \E r \in {ReadAt(fds[g.fd], Room(g.last))} :
           IF r = Fail THEN HaltWith("file read failed", 3) /\ UNCHANGED g
           ELSE /\ g' = [g EXCEPT !.data = Written(g.last, r), !.last = @ + Len(r),
                                  !.cnt = Len(r), !.start = 0]
                /\ fds' = [fds EXCEPT ![g.fd] = Advanced(@, r)]
                /\ pc' = "grepline"
                /\ UNCHANGED <<out, status>>
    /\ UNCHANGED <<image, shells, line, prog, args, fd>>

LineEnd == Min({i \in g.start .. g.last : i = g.last \/ g.data[i + 1] = Newline})

\* data from index i on, as a string.
StringAt(data, i) == LET s == SubSeq(data, i + 1, Len(data)) IN SubSeq(s, 1, strlen(s))

\* The data with the line that is not complete moved to the front by strcpy, which
\* ends at the first NUL.
Carried ==
    LET data == [g.data EXCEPT ![LineEnd + 1] = Nul]
        rest == Append(StringAt(data, g.start), Nul)
    IN  rest \o SubSeq(data, Len(rest) + 1, Len(data))

\* Mutant: the rest of the buffer is never kept for the next read.
Incomplete_Never == FALSE

\* The line goes on behind the buffer, and is not the only one in it.
Incomplete == g.data[LineEnd + 1] # Newline /\ g.cnt # 0 /\ g.start # 0

\* The line from start to end holds the pattern.
Matches(data, end) ==
    \E i \in g.start .. end - 1 :
        At(args, 1) = data[i + 1] /\ Same(StringAt(data, i), args, strlen(args))

GrepCarry ==
    /\ pc = "grepline" /\ Incomplete
    /\ g' = [g EXCEPT !.data = Carried, !.last = @ - g.start]
    /\ pc' = "grepread"
    /\ UNCHANGED <<image, shells, line, prog, args, fds, fd, out, status>>

GrepLine ==
    /\ pc = "grepline" /\ ~Incomplete
    /\ LET end  == LineEnd
           data == [g.data EXCEPT ![end + 1] = Nul]
           done == end + 1 >= g.last
       IN  /\ out' = IF Matches(data, end)
                     THEN out \o write(g.fname \o <<":">> \o StringAt(data, g.start) \o <<Newline>>)
                     ELSE out
           /\ g' = [g EXCEPT !.data = data, !.start = end + 1, !.last = IF done THEN 0 ELSE @]
           /\ pc' = IF ~done THEN "grepline" ELSE IF g.cnt = 0 THEN "grepclose" ELSE "grepread"
    /\ UNCHANGED <<image, shells, line, prog, args, fds, fd, status>>

\* Mutant: the file stays open.
Closed_Not(n) == fds

Closed(n) == [fds EXCEPT ![n] = NoFile]

GrepClose ==
    /\ pc = "grepclose"
    /\ fds' = Closed(g.fd)
    /\ pc' = "grep"
    /\ UNCHANGED <<image, shells, line, prog, args, fd, out, status, g>>

-----------------------------------------------------------------------------
\* What a program does once the shell has a command; the user answers hello.
Run == \/ Execute \/ ShellStart \/ ShellReport
       \/ CatStart \/ CatRead \/ DirStart \/ LsRead \/ Hello \/ Sigtest
       \/ GrepEntry \/ GrepRead \/ GrepCarry \/ GrepLine \/ GrepClose

\* After an exception the machine is stopped.
Next == ShellRead \/ Run

\* A program that runs is scheduled; the user may leave the shell alone at its prompt.
Spec == Init /\ [][Next]_vars /\ WF_vars(Run)

-----------------------------------------------------------------------------
(* Properties                                                              *)

\* The local variables of the programs stay within their arrays, and the descriptors they
\* keep are open: grep never reads more than its buffer has room for and its indices never
\* pass the extra place, whatever the file holds (do_one_file has no check of its own).
\* The shells that wait for one another, and the program over them, have a pid each.
BuffersHold ==
    /\ shells \in 1 .. NumPids /\ (pc \notin {"prompt", "execute", "report"} => shells < NumPids)
    /\ prog \in {"shell", "cat", "ls", "grep", "hello", "sigtest"}
    /\ status \in {-1, 0, 2, 3}
    /\ Len(g.data) \in {0, BufSize + 1}
    /\ g.last \in 0 .. BufSize /\ g.start \in 0 .. BufSize + 1 /\ g.cnt \in 0 .. BufSize
    /\ pc = "grepline" => g.start <= g.last
    /\ pc \in {"catread", "ls", "grep", "grepread", "grepline"} => fds[fd].kind # "free"
    /\ pc \in {"grepread", "grepline", "grepclose"} => g.fd # fd /\ fds[g.fd].kind # "free"

Ends    == {i \in 1 .. Len(line) : line[i] = Space}
Word    == IF Ends = {} THEN line ELSE SubSeq(line, 1, Min(Ends) - 1)
Rest    == IF Ends = {} THEN <<>> ELSE SubSeq(line, Min(Ends) + 1, Len(line))
Cut(s)  == SubSeq(s, 1, Min({Len(s), NameLen}))
Files   == {i \in 1 .. Len(image.dentries) : image.dentries[i].type = 2}
\* The programs whose name is the word typed, cut off behind the length of a name.
Typed   == {i \in Files : /\ image.dentries[i].name = Cut(Word)
                          /\ Executable(image.content[image.dentries[i].inode])}

\* The shell starts the program whose name was typed, never one whose name only begins like
\* it, with the rest of the line as its arguments (if the name leaves room for
\* a terminator in file_name).  It says "no such command" only if there is none, or if the
\* kernel has said before that there are too many processes.
StartedAsTyped ==
    /\ pc = "start" => /\ \E i \in Typed : prog = image.content[image.dentries[i].inode][2]
                       /\ Len(Word) < NameLen => args = Rest
    /\ pc = "report" /\ status = -1 => Typed = {} \/ out = <<"Too many processes">>

Full == Len(image.dentries) = DirSize

\* A line of a text begins at k; the text from k to the end of its line.
Begins(text, k)   == k = 1 \/ text[k - 1] = Newline
LineFrom(text, k) ==
    SubSeq(text, k, Min({i \in k .. Len(text) + 1 : i = Len(text) + 1 \/ text[i] = Newline}) - 1)

Holds(l, pattern) ==
    /\ pattern # <<>>
    /\ \E i \in 1 .. Len(l) - Len(pattern) + 1 : SubSeq(l, i, i + Len(pattern) - 1) = pattern

\* A text grep can take line by line: no NUL in it, and no line longer than the buffer.
IsText(text) == /\ \A i \in 1 .. Len(text) : text[i] # Nul
                /\ \A i \in 1 .. Len(text) - BufSize : \E j \in i .. i + BufSize : text[j] = Newline

AllTexts == \A i \in Files : IsText(image.content[image.dentries[i].inode])

\* What grep is to print: name and line of each line that holds the pattern, of all
\* files, in the order of the directory.
Shown(name, l)             == name \o <<":">> \o l \o <<Newline>>
InText(name, text, pattern) ==
    [k \in 1 .. Len(text) |-> IF Begins(text, k) /\ Holds(LineFrom(text, k), pattern)
                              THEN Shown(name, LineFrom(text, k)) ELSE <<>>]
InFiles(pattern) ==
    [i \in 1 .. Len(image.dentries) |->
        LET d == image.dentries[i]
        IN  IF d.type # 2 \/ Same(RtcName, d.name, Len(RtcName)) THEN <<>>
            ELSE FlattenSeq(InText(d.name, image.content[d.inode], pattern))]

Names     == [i \in 1 .. Len(image.dentries) |-> image.dentries[i].name]
NameLines == [i \in 1 .. Len(image.dentries) |-> Append(image.dentries[i].name, Newline)]

\* What a program has printed that ends behind the last entry of the directory.
ToTheEnd(s) == IF Full THEN Append(s, "directory entry read failed") ELSE s

CatAsPromised ==
    /\ status = 0 =>
          \/ \E i \in Files : Cut(args) = Names[i] /\ out = Str(image.content[image.dentries[i].inode])
          \/ At(args, 1) = Dot /\ out = FlattenSeq(Names)
          \/ Same(RtcName, args, Len(RtcName)) /\ out = <<>>
    /\ status # 0 =>
          \/ At(args, 1) = Dot /\ Full
          \/ \A i \in Files : Cut(args) # Names[i]

LsAsPromised == out = ToTheEnd(FlattenSeq(NameLines)) /\ (status # 0 <=> Full)

\* If no byte of grep's uninitialised buffer happens to be a newline.
GrepAsPromised ==
    /\ AllTexts /\ g.junk # Newline => out = ToTheEnd(FlattenSeq(InFiles(args)))
    /\ status # 0 <=> Full

\* cat prints the file, ls the names and grep the lines that hold the pattern, no more
\* and no less, wherever the buffer cuts the text and however many files there are; they
\* fail only if the file is not there, or behind the last entry of a full directory.
OutputAsPromised ==
    pc = "report" /\ status # -1 =>
        /\ prog = "cat"  => CatAsPromised
        /\ prog = "ls"   => LsAsPromised
        /\ prog = "grep" => GrepAsPromised

\* Every command comes back to the prompt, unless it stops the machine: grep ends for
\* every text, carried lines and lines longer than its buffer included.
PromptReturns == (pc # "prompt") ~> (pc \in {"prompt", "stopped"})
=============================================================================
