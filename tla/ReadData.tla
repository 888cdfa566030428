------------------------------ MODULE ReadData ------------------------------
(***************************************************************************)
(* read_data (fs.c), which copies part of a file block by block, and its   *)
(* two callers: file_read, which moves file_pos by the bytes it got, and   *)
(* the loop in process_create that loads a program in chunks of one block. *)
(*                                                                         *)
(* The file system image is read-only, so a byte of the image is modelled  *)
(* by its place: <<data block, index in the block>>.                       *)
(***************************************************************************)
EXTENDS Integers, Sequences, FiniteSetsExt

CONSTANTS
    BlockSize,   \* 4096 in the code
    DataBlocks,  \* the numbers of the data blocks in the image
    MaxLength,   \* bound: length of the file
    ReadSizes    \* the nbytes programs pass to read

ASSUME ConstantsAssumption ==
    /\ BlockSize \in Nat \ {0}
    /\ MaxLength \in Nat
    /\ ReadSizes \subseteq Nat \ {0}

VARIABLES
    inode,      \* the file: its length and its data blocks
    caller,     \* "read" or "load"
    file_pos,   \* of the descriptor, or of the loading loop
    pc,         \* "idle", "loop" in read_data, "done" after the loading loop
    call,       \* the locals of read_data
    copied      \* history: what the program has got since file_pos was 0

fileVars == <<inode, caller>>
vars == <<fileVars, file_pos, pc, call, copied>>

NumBlocks(length) == (length + BlockSize - 1) \div BlockSize

Inodes == UNION {[length : {n}, data_blocks : [0 .. NumBlocks(n) - 1 -> DataBlocks]]
                    : n \in 0 .. MaxLength}

NoCall == [i |-> 0, start |-> 0, length |-> 0, bytes_read |-> 0]

Init ==
    /\ inode \in Inodes
    /\ caller \in {"read", "load"}
    /\ file_pos = 0
    /\ pc = "idle"
    /\ call = NoCall
    /\ copied = <<>>

-----------------------------------------------------------------------------
(* read_data                                                               *)

\* Up to the loop; an offset at or past the end of the file returns 0 instead.
Begin(offset, length) ==
    /\ offset < inode.length
    /\ pc' = "loop"
    /\ call' = [i |-> offset \div BlockSize, start |-> offset % BlockSize,
                length |-> length, bytes_read |-> 0]

\* Mutant: the copy does not stop at the end of the file.
CopyLen_PastEnd(c) == Min({BlockSize - c.start, c.length})

\* Mutant: only a first block is limited by its start.
CopyLen_WholeBlock(c) ==
    LET len == Min({BlockSize, c.length})
    IN  IF c.i * BlockSize + len + c.start > inode.length
        THEN inode.length - (c.i * BlockSize + c.start) ELSE len

\* The number of bytes to copy from block i: to the end of the block, of the
\* request and of the file.
CopyLen(c) ==
    LET len == Min({BlockSize - c.start, c.length})
    IN  IF c.i * BlockSize + len + c.start > inode.length
        THEN inode.length - (c.i * BlockSize + c.start) ELSE len

\* len bytes of data block i of the file, from start on.
BlockBytes(i, start, len) == [k \in 1 .. len |-> <<inode.data_blocks[i], start + k - 1>>]

InLoop == pc = "loop" /\ call.i < NumBlocks(inode.length) /\ call.length # 0

\* One round of the loop.
CopyBlock ==
    /\ InLoop
    /\ LET len == CopyLen(call)
       IN  /\ copied' = copied \o BlockBytes(call.i, call.start, len)
           /\ call' = [i |-> call.i + 1, start |-> 0, length |-> call.length - len,
                       bytes_read |-> call.bytes_read + len]
    /\ UNCHANGED <<fileVars, file_pos, pc>>

\* The loop is over.
Ends == pc = "loop" /\ ~InLoop

-----------------------------------------------------------------------------
(* file_read                                                               *)

FileRead(nbytes) ==
    /\ caller = "read" /\ pc = "idle"
    /\ Begin(file_pos, nbytes)
    /\ UNCHANGED <<fileVars, file_pos, copied>>

FileReadReturn ==
    /\ caller = "read" /\ Ends
    /\ file_pos' = file_pos + call.bytes_read
    /\ pc' = "idle"
    /\ call' = NoCall
    /\ UNCHANGED <<fileVars, copied>>

-----------------------------------------------------------------------------
(* process_create: while (read_data(..., file_pos, memory_pos, 4096) != 0) *)

LoadChunk ==
    /\ caller = "load" /\ pc = "idle"
    /\ Begin(file_pos, BlockSize)
    /\ UNCHANGED <<fileVars, file_pos, copied>>

\* memory_pos and file_pos move on by a whole chunk.
LoadChunkReturn ==
    /\ caller = "load" /\ Ends
    /\ call.bytes_read # 0
    /\ file_pos' = file_pos + BlockSize
    /\ pc' = "idle"
    /\ call' = NoCall
    /\ UNCHANGED <<fileVars, copied>>

\* read_data has returned 0, early because of its offset.  (A 0 after its loop
\* would end the loading as well: here it would stop, short of LoadsWhole.)
LoadDone ==
    /\ caller = "load"
    /\ pc = "idle" /\ file_pos >= inode.length
    /\ pc' = "done"
    /\ UNCHANGED <<fileVars, file_pos, call, copied>>

-----------------------------------------------------------------------------
LoadStep == LoadChunk \/ LoadChunkReturn \/ LoadDone

Next == \/ CopyBlock
        \/ \E n \in ReadSizes : FileRead(n)
        \/ FileReadReturn
        \/ LoadStep

Spec == Init /\ [][Next]_vars

\* process_create loads with interrupts off: the loop runs until it ends.
FairSpec == Spec /\ WF_vars(CopyBlock) /\ WF_vars(LoadStep)

-----------------------------------------------------------------------------
(* Properties.                                                             *)

\* Byte number k of the file, from 0.
FileByte(k) == <<inode.data_blocks[k \div BlockSize], k % BlockSize>>

\* Type correctness of a call of read_data: in particular no copy has a
\* negative length.
TypeOK ==
    /\ inode \in Inodes
    /\ file_pos \in Nat
    /\ call \in [i : Nat, start : 0 .. BlockSize - 1, length : Nat, bytes_read : Nat]
    /\ copied \in Seq(DataBlocks \X (0 .. BlockSize - 1))

\* Whatever the sizes of the reads, what a program has read or loaded is the
\* file's bytes in their order from the first on, none left out, repeated, taken
\* from another block or from behind the end of the file.
ReadsInOrder ==
    /\ Len(copied) <= inode.length
    /\ \A k \in 1 .. Len(copied) : copied[k] = FileByte(k - 1)

\* The loader ends, and then the whole program is in memory.
LoadsWhole ==
    caller = "load" ~> (pc = "done" /\ Len(copied) = inode.length)
=============================================================================
