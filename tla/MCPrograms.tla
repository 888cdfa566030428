----------------------------- MODULE MCPrograms -----------------------------
(***************************************************************************)
(* Small images for Programs, each with the lines worth typing on it.      *)
(***************************************************************************)
EXTENDS Programs

Dentry(name, type, inode) == [name |-> name, type |-> type, inode |-> inode]
Strings(chars, n) == UNION {[1 .. k -> chars] : k \in 0 .. n}

MCRtc == <<"r", "t", "c">>
MCChars == {Nul, Newline, Space, Dot, "?", "1", "a", "b", "c", "d", "e", "g", "h", "i", "l", "r",
            "s", "t", "x", ELF, "shell", "cat", "ls", "grep", "hello", "sigtest"}
MCShell == <<"s", "h">>
Root  == Dentry(<<".">>, 1, 0)

\* Names that begin like one another, the RTC, and a program whose name is as long as
\* names get; with one entry more, the directory is full.
Shelf == [dentries |-> <<Root, Dentry(<<"c">>, 2, 1), Dentry(<<"l">>, 2, 2),
                         Dentry(<<"g">>, 2, 3), Dentry(<<"h">>, 2, 4), Dentry(<<"s">>, 2, 5),
                         Dentry(<<"a", "b", "c">>, 2, 1), Dentry(<<"a", "b">>, 2, 6),
                         Dentry(MCShell, 2, 7), Dentry(MCRtc, 0, 0)>>,
          content |-> <<<<ELF, "cat">>, <<ELF, "ls">>, <<ELF, "grep">>, <<ELF, "hello">>,
                        <<ELF, "sigtest">>, <<"b", Nul, Newline, "a", "b">>, <<ELF, "shell">>>>]

FullShelf == [Shelf EXCEPT !.dentries = Append(@, Dentry(<<"a">>, 2, 6))]

ShelfLines == {<<"e", "x", "i", "t">>, <<"g">>, <<"g", " ", "b">>, <<"g", " ", "b", "a">>, <<"h">>, <<"s">>,
          <<"s", " ", "1">>, <<"c", " ", "r", "t", "c">>, <<"r", "t", "c">>,
          <<"c", " ", "a", "b">>, <<"c", " ", "a", "b", "c", "d">>, <<"a", "b", "c", "d">>,
          <<"a", "b", "c", " ", "a", "b">>}

\* Two files, and more lines, or longer ones, than grep's buffer holds.
Texts(text) == [dentries |-> <<Root, Dentry(<<"g">>, 2, 1), Dentry(<<"a">>, 2, 2), Dentry(<<"b">>, 2, 3),
                                 Dentry(MCShell, 2, 4)>>,
                content  |-> <<<<ELF, "grep">>, text, <<"b", "a", Newline, "a">>, <<ELF, "shell">>>>]

TextLines == {<<"g", " ", "a">>, <<"g", " ", "a", "b">>}

MCLeftovers == {<<"?">>}
MCJunk == {"?", Newline}

MCImages == {Shelf, FullShelf}
    \cup {Texts(text) : text \in Strings({"a", "b", Newline}, 5) \cup Strings({"a", Nul, Newline}, 4)}

\* Every short line; a shell in a shell, and programs in it.
MCLines(img) ==
    CASE img = FullShelf -> ShelfLines \cup Strings({"c", "a", "b", " ", "."}, 3)
      [] img = Shelf -> ShelfLines \cup Strings({"c", "l", "a", " ", "."}, 2) \cup {MCShell}
      [] OTHER -> IF Len(img.content[2]) = 5 THEN {<<"g", " ", "a", "b">>} ELSE TextLines
=============================================================================
