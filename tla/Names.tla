------------------------------- MODULE Names -------------------------------
(***************************************************************************)
(* Strings and names: the string functions of lib.c, the directory of the  *)
(* file system image (fs.c), the choice of a driver by open_handler and    *)
(* the parsing of a command by process_create.                             *)
(*                                                                         *)
(* A string is the sequence of its characters; reading behind the end of   *)
(* the sequence gives the terminating NUL.  A name in the directory is an  *)
(* array of NameLen characters, padded with NULs; a name that fills it has *)
(* no terminator.                                                          *)
(***************************************************************************)
EXTENDS Integers, Sequences, SequencesExt, FiniteSetsExt

CONSTANTS
    Chars,      \* the characters
    NameLen,    \* 32 in the code
    RtcName     \* "rtc"

Nul     == "NUL"
Newline == "newline"
Space   == " "
Dot     == "."

ASSUME NamesAssumption ==
    {Nul, Newline, Space, Dot} \subseteq Chars /\ NameLen \in Nat \ {0} /\ Len(RtcName) <= NameLen

At(s, i) == IF i <= Len(s) THEN s[i] ELSE Nul

strlen(s) == Min({i \in 1 .. Len(s) + 1 : At(s, i) = Nul}) - 1

\* strncmp(s1, s2, n) == 0: equal up to n characters or to a common terminator.
Same(s1, s2, n) ==
    LET Stops == {i \in 1 .. n : At(s1, i) # At(s2, i) \/ At(s1, i) = Nul}
    IN  Stops = {} \/ At(s1, Min(Stops)) = At(s2, Min(Stops))

-----------------------------------------------------------------------------
(* The directory                                                           *)

\* Mutant: a name that begins with the one looked for is taken for it.
read_dentry_by_name_Prefix(dentries, fname) ==
    LET len == Min({strlen(fname), NameLen})
    IN  SelectInSeq(dentries, LAMBDA d : Same(fname, d.name, len))

\* The place of the first entry with this name, 0 if there is none.  At most
\* NameLen characters of fname are looked at.
read_dentry_by_name(dentries, fname) ==
    LET len == Min({strlen(fname), NameLen})
    IN  SelectInSeq(dentries, LAMBDA d : Same(fname, d.name, len) /\ strlen(d.name) = len)

\* What directory_read copies of an entry for a read of nbytes.
NameRead(dentry, nbytes) ==
    SubSeq(dentry.name, 1, Min({nbytes, NameLen, strlen(dentry.name)}))

NoFile == [kind |-> "free", inode |-> 0, pos |-> 0]

\* The descriptor that open makes for a name; NoFile if it fails.  The name only
\* has to begin with "rtc" to open the RTC, and with "." to be looked up as a directory.
open_handler(dentries, name) ==
    LET i    == read_dentry_by_name(dentries, name)
        kind == IF At(name, 1) = Dot THEN "dir" ELSE "file"
        type == IF kind = "dir" THEN 1 ELSE 2
    IN  IF Same(RtcName, name, Len(RtcName))
        THEN [kind |-> "rtc", inode |-> 0, pos |-> 0]
        ELSE IF i # 0 /\ dentries[i].type = type
             THEN [kind |-> kind, inode |-> dentries[i].inode, pos |-> 0]
             ELSE NoFile

-----------------------------------------------------------------------------
(* The command line                                                        *)

\* Mutant: the argument begins with the space.
Parsed_KeepsSpace(command, leftover) ==
    LET Ends == {i \in 1 .. NameLen : At(command, i) \in {Nul, Space}}
    IN  IF Ends = {}
        THEN [name |-> SubSeq(command, 1, NameLen), args |-> leftover]
        ELSE [name |-> SubSeq(command, 1, Min(Ends) - 1),
              args |-> SubSeq(command, Min(Ends), Len(command))]

\* file_name and file_args after the loop of process_create.  When no NUL or space
\* is among the first NameLen characters, file_name is left without a terminator
\* and file_args is whatever was on the stack.  (A line typed at the keyboard
\* is shorter than file_args.)
Parsed(command, leftover) ==
    LET Ends == {i \in 1 .. NameLen : At(command, i) \in {Nul, Space}}
    IN  IF Ends = {}
        THEN [name |-> SubSeq(command, 1, NameLen), args |-> leftover]
        ELSE [name |-> SubSeq(command, 1, Min(Ends) - 1),
              args |-> SubSeq(command, Min(Ends) + 1, Len(command))]
=============================================================================
