--------------------------- MODULE ReadDataProofs ---------------------------
(***************************************************************************)
(* Proofs about ReadData, for files, blocks and reads of any size.         *)
(***************************************************************************)
EXTENDS ReadData, TLAPS

L  == inode.length
NB == NumBlocks(inode.length)

\* The place in the file where the loop of read_data is.
Place == call.i * BlockSize + call.start

\* A call of read_data: what has been copied ends where the loop is, unless the request is
\* served or the end of the file was met.
LoopInv ==
    pc = "loop" =>
        /\ Len(copied) = file_pos + call.bytes_read
        /\ call.length # 0 => Place = Len(copied) \/ (Len(copied) = L /\ call.i >= NB)
        /\ call.start # 0 => Place < L
        /\ caller = "load" => call.length + call.bytes_read = BlockSize

\* Between the calls: all up to file_pos has been copied, or up to the end of the file, which
\* file_pos may pass when a program is loaded.
IdleInv ==
    pc # "loop" =>
        IF file_pos < L THEN Len(copied) = file_pos
                        ELSE IF caller = "read" THEN Len(copied) = file_pos ELSE Len(copied) = L

\* The loader has got to the end of the file.
DoneInv == pc = "done" => caller = "load" /\ file_pos >= L

IInv == TypeOK /\ ReadsInOrder /\ LoopInv /\ IdleInv /\ DoneInv /\ caller \in {"read", "load"}

\* When the loader ends, the whole program is in memory.
LoadedWhole == pc = "done" => Len(copied) = inode.length

-----------------------------------------------------------------------------
(* Blocks                                                                  *)

LEMMA Sizes == BlockSize \in Nat /\ BlockSize > 0
BY ConstantsAssumption

LEMMA Monotone ==
    ASSUME NEW a \in Int, NEW b \in Int, a <= b
    PROVE  a * BlockSize <= b * BlockSize
BY Sizes

\* Division with remainder.
LEMMA Division ==
    ASSUME NEW n \in Nat
    PROVE  /\ n \div BlockSize \in Nat /\ n % BlockSize \in 0 .. BlockSize - 1
           /\ (n \div BlockSize) * BlockSize + (n % BlockSize) = n
<1>1. n \div BlockSize \in Nat
  BY Sizes
<1>2. n % BlockSize \in 0 .. BlockSize - 1
  BY Sizes
<1>3. n % BlockSize = n - (n \div BlockSize) * BlockSize
  BY Sizes
<1>4. (n \div BlockSize) * BlockSize \in Int
  BY <1>1, Sizes
<1> QED
  BY <1>1, <1>2, <1>3, Sizes

LEMMA Quotient ==
    ASSUME NEW i \in Nat, NEW r \in 0 .. BlockSize - 1
    PROVE  /\ i * BlockSize + r \in Nat
           /\ (i * BlockSize + r) \div BlockSize = i
           /\ (i * BlockSize + r) % BlockSize = r
<1> DEFINE p == i * BlockSize
           q == (p + r) \div BlockSize
<1>1. p \in Nat
  BY Sizes
<1>2. /\ q \in Nat /\ (p + r) % BlockSize \in 0 .. BlockSize - 1
      /\ q * BlockSize + ((p + r) % BlockSize) = p + r
  BY <1>1, Sizes, Division
<1>3. q * BlockSize \in Int
  BY <1>2, Sizes
<1>4. ~(q <= i - 1)
  <2>1. ASSUME q <= i - 1 PROVE q * BlockSize <= (i - 1) * BlockSize
    BY <1>2, <2>1, Monotone
  <2>2. (i - 1) * BlockSize = p - BlockSize
    BY Sizes
  <2> QED
    BY <1>1, <1>2, <1>3, <2>1, <2>2, Sizes
<1>5. ~(i + 1 <= q)
  <2>1. ASSUME i + 1 <= q PROVE (i + 1) * BlockSize <= q * BlockSize
    BY <1>2, <2>1, Monotone
  <2>2. (i + 1) * BlockSize = p + BlockSize
    BY Sizes
  <2> QED
    BY <1>1, <1>2, <1>3, <2>1, <2>2, Sizes
<1>6. q = i
  <2> HIDE DEF q
  <2> QED
    BY <1>2, <1>4, <1>5
<1> QED
  BY <1>1, <1>2, <1>6, Sizes

\* The blocks are just enough for the file.
LEMMA Blocks ==
    ASSUME NEW n \in Nat, NEW i \in Nat
    PROVE  /\ NumBlocks(n) \in Nat
           /\ i < NumBlocks(n) <=> i * BlockSize < n
<1> DEFINE b == NumBlocks(n)
           r == (n + BlockSize - 1) % BlockSize
<1>1. n + BlockSize - 1 \in Nat
  BY Sizes
<1>2. b \in Nat /\ r \in 0 .. BlockSize - 1 /\ b * BlockSize + r = n + BlockSize - 1
  <2> DEFINE m == n + BlockSize - 1
  <2>1. /\ m \div BlockSize \in Nat /\ m % BlockSize \in 0 .. BlockSize - 1
        /\ (m \div BlockSize) * BlockSize + (m % BlockSize) = m
    <3> HIDE DEF m
    <3> QED
      BY <1>1, Division DEF m
  <2>2. b = m \div BlockSize /\ r = m % BlockSize
    BY DEF NumBlocks
  <2> HIDE DEF m, b, r
  <2> QED
    BY <2>1, <2>2 DEF m
<1>3. b * BlockSize \in Int /\ i * BlockSize \in Int
  BY <1>2, Sizes
<1>4. ASSUME i < b PROVE i * BlockSize < n
  <2>1. (i + 1) * BlockSize <= b * BlockSize
    BY <1>2, <1>4, Monotone
  <2>2. (i + 1) * BlockSize = i * BlockSize + BlockSize
    BY Sizes
  <2> QED
    BY <1>2, <1>3, <2>1, <2>2, Sizes
<1>5. ASSUME b <= i PROVE ~(i * BlockSize < n)
  <2>1. b * BlockSize <= i * BlockSize
    BY <1>2, <1>5, Monotone
  <2> QED
    BY <1>2, <1>3, <2>1, Sizes
<1> HIDE DEF b
<1>6. b \in Nat /\ (i < b <=> i * BlockSize < n)
  BY <1>2, <1>4, <1>5
<1> QED
  BY <1>6 DEF b

LEMMA MinType ==
    ASSUME NEW a \in Nat, NEW b \in Nat
    PROVE  Min({a, b}) = IF a <= b THEN a ELSE b
BY DEF Min

-----------------------------------------------------------------------------
(* A round of the loop                                                     *)

LEMMA InodeType ==
    ASSUME inode \in Inodes
    PROVE  L \in Nat /\ inode.data_blocks \in [0 .. NB - 1 -> DataBlocks]
BY DEF Inodes, L, NB

\* The types of the locals of read_data.
LEMMA CallType ==
    ASSUME call \in [i : Nat, start : 0 .. BlockSize - 1, length : Nat, bytes_read : Nat]
    PROVE  /\ call.i \in Nat /\ call.start \in Nat /\ call.start < BlockSize
           /\ call.length \in Nat /\ call.bytes_read \in Nat
           /\ call.i * BlockSize \in Nat /\ Place \in Nat
<1>1. /\ call.i \in Nat /\ call.start \in 0 .. BlockSize - 1
      /\ call.length \in Nat /\ call.bytes_read \in Nat
  OBVIOUS
<1>2. \A i \in Nat : i * BlockSize \in Nat
  BY Sizes
<1>3. \A s \in 0 .. BlockSize - 1 : s \in Nat /\ s < BlockSize
  BY Sizes
<1>4. \A p \in Nat, s \in Nat : p + s \in Nat
  OBVIOUS
<1> QED
  BY <1>1, <1>2, <1>3, <1>4 DEF Place

\* Inside the loop there is something left of the file.
LEMMA InFile ==
    ASSUME IInv, InLoop
    PROVE  Place = Len(copied) /\ Place < L
<1>1. L \in Nat /\ call.i \in Nat /\ call.start \in Nat /\ call.i * BlockSize \in Nat
  BY InodeType, CallType DEF IInv, TypeOK
<1>2. NB \in Nat /\ (call.i < NB <=> call.i * BlockSize < L)
  BY <1>1, Blocks, Zenon DEF NB, L
<1>3. pc = "loop" /\ call.i < NB /\ call.length # 0
  BY DEF InLoop, NB
<1>4. Place = Len(copied)
  BY <1>1, <1>2, <1>3 DEF IInv, LoopInv
<1>5. call.start = 0 => Place = call.i * BlockSize
  BY <1>1 DEF Place
<1>6. Place < L
  <2>1. CASE call.start = 0
    BY <1>2, <1>3, <1>5, <2>1, Zenon
  <2>2. CASE call.start # 0
    BY <1>3, <2>2, Zenon DEF IInv, LoopInv
  <2> QED
    BY <2>1, <2>2
<1> QED
  BY <1>4, <1>6

\* What CopyLen yields there: at least one byte, and as much as the block, the request and the
\* file allow.
LEMMA CopyLenRight ==
    ASSUME IInv, InLoop
    PROVE  LET len == CopyLen(call)
           IN  /\ len \in Nat /\ len > 0
               /\ len <= BlockSize - call.start /\ len <= call.length /\ Place + len <= L
               /\ len = BlockSize - call.start \/ len = call.length \/ Place + len = L
<1> DEFINE a == BlockSize - call.start
           m == Min({a, call.length})
           p == call.i * BlockSize
<1>1. /\ L \in Nat /\ call.start \in Nat /\ call.start < BlockSize /\ call.length \in Nat
      /\ p \in Nat
  BY InodeType, CallType DEF IInv, TypeOK
<1>2. a \in Nat /\ a > 0
  BY <1>1, Sizes
<1>3. call.length > 0
  BY <1>1 DEF InLoop
<1>4. m = IF a <= call.length THEN a ELSE call.length
  <2> HIDE DEF a
  <2> QED
    BY <1>1, <1>2, MinType
<1>5. m \in Nat /\ m > 0 /\ m <= a /\ m <= call.length /\ (m = a \/ m = call.length)
  <2> HIDE DEF a, m
  <2> QED
    BY <1>1, <1>2, <1>3, <1>4
<1>6. Place = p + call.start /\ Place < L
  BY InFile DEF Place
<1>7. CopyLen(call) = IF p + m + call.start > L THEN L - (p + call.start) ELSE m
  BY DEF CopyLen, L
<1> HIDE DEF a, m, p
<1> QED
  BY <1>1, <1>2, <1>5, <1>6, <1>7 DEF a

\* The bytes copied are the next ones of the file.
LEMMA BytesRight ==
    ASSUME IInv, InLoop, NEW j \in 1 .. CopyLen(call)
    PROVE  /\ BlockBytes(call.i, call.start, CopyLen(call))[j] = FileByte(Place + j - 1)
           /\ FileByte(Place + j - 1) \in DataBlocks \X (0 .. BlockSize - 1)
<1> DEFINE len == CopyLen(call)
           s == call.start + j - 1
<1>1. /\ call.start \in Nat /\ call.i \in Nat /\ call.i * BlockSize \in Nat
      /\ inode.data_blocks \in [0 .. NB - 1 -> DataBlocks] /\ L \in Nat
  BY InodeType, CallType DEF IInv, TypeOK
<1>2. len \in Nat /\ len <= BlockSize - call.start
  BY CopyLenRight
<1>3. s \in 0 .. BlockSize - 1
  <2>1. \A b \in Nat, c \in Nat, n \in Nat :
           n <= b - c => \A k \in 1 .. n : c + k - 1 \in 0 .. b - 1
    OBVIOUS
  <2> HIDE DEF len
  <2>2. j \in 1 .. len
    BY DEF len
  <2> QED
    BY <1>1, <1>2, <2>1, <2>2, Sizes
<1>4. BlockBytes(call.i, call.start, len)[j] = <<inode.data_blocks[call.i], s>>
  BY DEF BlockBytes
<1>5. Place + j - 1 = call.i * BlockSize + s
  BY <1>1 DEF Place
<1>6. (Place + j - 1) \div BlockSize = call.i /\ (Place + j - 1) % BlockSize = s
  <2> DEFINE q == call.i * BlockSize + s
  <2>1. q \div BlockSize = call.i /\ q % BlockSize = s
    <3> HIDE DEF s
    <3> QED
      BY <1>1, <1>3, Quotient
  <2> HIDE DEF q
  <2> QED
    BY <1>5, <2>1, Zenon DEF q
<1>7. FileByte(Place + j - 1) = <<inode.data_blocks[call.i], s>>
  BY <1>6, Zenon DEF FileByte
<1>8. inode.data_blocks[call.i] \in DataBlocks
  <2>1. NB \in Nat /\ call.i < NB
    BY <1>1, Blocks DEF InLoop, NB, L
  <2> QED
    BY <1>1, <2>1
<1> HIDE DEF s, len
<1> QED
  BY <1>3, <1>4, <1>7, <1>8 DEF len

-----------------------------------------------------------------------------
(* The actions                                                             *)

LEMMA CopyBlockStep ==
    ASSUME IInv, CopyBlock
    PROVE  IInv'
<1> DEFINE len == CopyLen(call)
           bytes == BlockBytes(call.i, call.start, len)
           n == Len(copied)
<1>0. InLoop /\ pc = "loop"
  BY DEF CopyBlock, InLoop
<1>1. /\ copied' = copied \o bytes
      /\ call' = [i |-> call.i + 1, start |-> 0, length |-> call.length - len,
                  bytes_read |-> call.bytes_read + len]
      /\ inode' = inode /\ caller' = caller /\ file_pos' = file_pos /\ pc' = pc
  BY DEF CopyBlock, fileVars
<1>2. /\ call.i \in Nat /\ call.start \in Nat /\ call.start < BlockSize /\ call.length \in Nat
      /\ call.bytes_read \in Nat /\ call.i * BlockSize \in Nat /\ Place \in Nat /\ L \in Nat
  BY InodeType, CallType DEF IInv, TypeOK
<1>3. /\ len \in Nat /\ len > 0 /\ len <= call.length /\ Place + len <= L
      /\ len = BlockSize - call.start \/ len = call.length \/ Place + len = L
      /\ len <= BlockSize - call.start
  BY <1>0, CopyLenRight
<1>4. Place = n /\ n \in Nat
  BY <1>0, <1>2, InFile
<1>5. /\ bytes \in Seq(DataBlocks \X (0 .. BlockSize - 1)) /\ Len(bytes) = len
      /\ \A j \in 1 .. len : bytes[j] = FileByte(n + j - 1)
  <2>1. \A j \in 1 .. len : /\ bytes[j] = FileByte(n + j - 1)
                           /\ bytes[j] \in DataBlocks \X (0 .. BlockSize - 1)
    BY <1>0, <1>4, BytesRight, Zenon
  <2>2. DOMAIN bytes = 1 .. len /\ bytes = [j \in 1 .. len |-> bytes[j]]
    BY Zenon DEF BlockBytes
  <2> HIDE DEF bytes, len
  <2>3. bytes \in [1 .. len -> DataBlocks \X (0 .. BlockSize - 1)]
    BY <2>1, <2>2, Zenon
  <2> QED
    BY <1>3, <2>1, <2>3
<1>6. /\ copied' \in Seq(DataBlocks \X (0 .. BlockSize - 1))
      /\ Len(copied') = n + len
      /\ \A k \in 1 .. n : copied'[k] = copied[k]
      /\ \A k \in 1 .. len : copied'[n + k] = bytes[k]
  <2>1. copied \in Seq(DataBlocks \X (0 .. BlockSize - 1))
    BY DEF IInv, TypeOK
  <2> HIDE DEF bytes, len
  <2>2. copied' \in Seq(DataBlocks \X (0 .. BlockSize - 1))
    BY <1>1, <1>5, <2>1
  <2> QED
    BY <1>1, <1>3, <1>5, <2>1, <2>2
<1>7. TypeOK'
  <2>1. /\ call.i + 1 \in Nat /\ 0 \in 0 .. BlockSize - 1 /\ call.length - len \in Nat
        /\ call.bytes_read + len \in Nat
    <3> HIDE DEF len
    <3> QED
      BY <1>2, <1>3, Sizes
  <2>2. call' \in [i : Nat, start : 0 .. BlockSize - 1, length : Nat, bytes_read : Nat]
    <3> HIDE DEF len
    <3> QED
      BY <1>1, <2>1, Zenon
  <2> QED
    BY <1>1, <1>6, <2>2, Zenon DEF IInv, TypeOK
<1>8. ReadsInOrder'
  <2>1. ASSUME NEW k \in 1 .. n + len PROVE copied'[k] = FileByte(k - 1)
    <3>1. CASE k \in 1 .. n
      BY <1>6, <3>1, Zenon DEF IInv, ReadsInOrder
    <3>2. CASE k \notin 1 .. n
      <4> DEFINE j == k - n
      <4>1. j \in 1 .. len /\ n + j = k /\ n + j - 1 = k - 1
        <5> HIDE DEF len, n
        <5> QED
          BY <1>3, <1>4, <2>1, <3>2
      <4> QED
        BY <1>5, <1>6, <4>1, Zenon
    <3> QED
      BY <3>1, <3>2
  <2>2. n + len <= L /\ inode'.length = L
    BY <1>1, <1>3, <1>4 DEF L
  <2> QED
    BY <1>1, <1>6, <2>1, <2>2, Zenon DEF ReadsInOrder, FileByte
<1>9. LoopInv'
  <2>1. /\ call'.i = call.i + 1 /\ call'.start = 0 /\ call'.length = call.length - len
        /\ call'.bytes_read = call.bytes_read + len
    BY <1>1, Zenon
  <2>2. /\ n = file_pos + call.bytes_read
        /\ caller = "load" => call.length + call.bytes_read = BlockSize
    BY <1>0, Zenon DEF IInv, LoopInv
  <2>3. file_pos \in Nat /\ L' = L /\ NB' = NB /\ NB \in Nat
    BY <1>1, <1>2, Blocks DEF IInv, TypeOK, L, NB
  <2>4. Place' = call.i * BlockSize + BlockSize
    <3>1. Place' = (call.i + 1) * BlockSize + 0
      BY <2>1, Zenon DEF Place
    <3>2. \A i \in Nat : (i + 1) * BlockSize + 0 = i * BlockSize + BlockSize
      BY Sizes
    <3> QED
      BY <1>2, <3>1, <3>2
  <2>5. Place = call.i * BlockSize + call.start
    BY DEF Place
  <2>6. L <= call.i * BlockSize + BlockSize => call.i + 1 >= NB
    <3>1. call.i + 1 < NB => (call.i + 1) * BlockSize < L
      BY <1>2, Blocks DEF NB, L
    <3>2. (call.i + 1) * BlockSize = call.i * BlockSize + BlockSize
      BY <1>2, Sizes
    <3> QED
      BY <1>2, <2>3, <3>1, <3>2, Sizes
  <2> DEFINE p == call.i * BlockSize
             np == Place'
             n2 == Len(copied')
  <2>7. n2 = n + len /\ np = p + BlockSize /\ Place = p + call.start /\ p \in Nat
    BY <1>2, <1>6, <2>4, <2>5
  <2>8. n2 = file_pos + (call.bytes_read + len)
    <3> HIDE DEF n, len, n2
    <3> QED
      BY <1>2, <1>3, <1>4, <2>2, <2>3, <2>7
  <2>9. call.length - len # 0 => np = n2 \/ (n2 = L /\ call.i + 1 >= NB)
    <3> HIDE DEF n, len, p, np, n2
    <3> QED
      BY <1>2, <1>3, <1>4, <2>3, <2>6, <2>7, Sizes DEF p
  <2>10. caller = "load" => (call.length - len) + (call.bytes_read + len) = BlockSize
    <3> HIDE DEF len
    <3> QED
      BY <1>2, <1>3, <2>2
  <2> HIDE DEF np, n2
  <2> QED
    BY <1>1, <2>1, <2>3, <2>8, <2>9, <2>10, Zenon DEF LoopInv, np, n2
<1>10. IdleInv' /\ DoneInv'
  BY <1>0, <1>1 DEF IdleInv, DoneInv
<1> QED
  BY <1>1, <1>7, <1>8, <1>9, <1>10 DEF IInv

\* A call begins where the last one ended.
LEMMA BeginStep ==
    ASSUME IInv, pc = "idle", NEW length \in Nat, Begin(file_pos, length),
           caller = "load" => length = BlockSize,
           UNCHANGED <<fileVars, file_pos, copied>>
    PROVE  IInv'
<1> DEFINE i == file_pos \div BlockSize
           s == file_pos % BlockSize
<1>1. /\ pc' = "loop" /\ call' = [i |-> i, start |-> s, length |-> length, bytes_read |-> 0]
      /\ inode' = inode /\ caller' = caller /\ file_pos' = file_pos /\ copied' = copied
      /\ file_pos < L
  BY DEF Begin, fileVars, L
<1>2. file_pos \in Nat /\ L \in Nat
  BY InodeType DEF IInv, TypeOK
<1>3. i \in Nat /\ s \in 0 .. BlockSize - 1 /\ i * BlockSize + s = file_pos
  BY <1>2, Division
<1> HIDE DEF i, s
<1>4. TypeOK'
  <2>1. call' \in [i : Nat, start : 0 .. BlockSize - 1, length : Nat, bytes_read : Nat]
    BY <1>1, <1>3
  <2> QED
    BY <1>1, <2>1, Zenon DEF IInv, TypeOK
<1>5. ReadsInOrder'
  BY <1>1 DEF IInv, ReadsInOrder, FileByte
<1>6. LoopInv'
  <2>1. Len(copied) = file_pos /\ file_pos = file_pos + 0 /\ \A k \in Nat : k + 0 = k
    BY <1>1, <1>2 DEF IInv, IdleInv
  <2>2. call'.i = i /\ call'.start = s /\ call'.length = length /\ call'.bytes_read = 0
    BY <1>1, Zenon
  <2>3. Place' = file_pos
    BY <1>3, <2>2, Zenon DEF Place
  <2>4. L' = L
    BY <1>1 DEF L
  <2> QED
    BY <1>1, <2>1, <2>2, <2>3, <2>4, Zenon DEF LoopInv
<1>7. IdleInv' /\ DoneInv'
  BY <1>1 DEF IdleInv, DoneInv
<1> QED
  BY <1>1, <1>4, <1>5, <1>6, <1>7 DEF IInv

LEMMA NoCallType == NoCall \in [i : Nat, start : 0 .. BlockSize - 1, length : Nat, bytes_read : Nat]
<1>1. 0 \in 0 .. BlockSize - 1
  BY Sizes
<1> QED
  BY <1>1 DEF NoCall

LEMMA FileReadReturnStep ==
    ASSUME IInv, FileReadReturn
    PROVE  IInv'
<1>1. /\ caller = "read" /\ pc = "loop" /\ file_pos' = file_pos + call.bytes_read /\ pc' = "idle"
      /\ call' = NoCall /\ inode' = inode /\ caller' = caller /\ copied' = copied
  BY DEF FileReadReturn, Ends, fileVars
<1>2. file_pos \in Nat /\ call.bytes_read \in Nat
  BY CallType DEF IInv, TypeOK
<1>3. file_pos' \in Nat /\ Len(copied) = file_pos'
  BY <1>1, <1>2 DEF IInv, LoopInv
<1>4. TypeOK'
  BY <1>1, <1>3, NoCallType, Zenon DEF IInv, TypeOK
<1>5. ReadsInOrder'
  BY <1>1 DEF IInv, ReadsInOrder, FileByte
<1>6. LoopInv' /\ IdleInv' /\ DoneInv'
  BY <1>1, <1>3 DEF LoopInv, IdleInv, DoneInv
<1> QED
  BY <1>1, <1>4, <1>5, <1>6 DEF IInv

LEMMA LoadChunkReturnStep ==
    ASSUME IInv, LoadChunkReturn
    PROVE  IInv'
<1> DEFINE n == Len(copied)
<1>1. /\ caller = "load" /\ pc = "loop" /\ file_pos' = file_pos + BlockSize /\ pc' = "idle"
      /\ call' = NoCall /\ inode' = inode /\ caller' = caller /\ copied' = copied
      /\ ~(call.i < NB /\ call.length # 0)
  BY DEF LoadChunkReturn, Ends, InLoop, fileVars, NB
<1>2. /\ file_pos \in Nat /\ L \in Nat /\ NB \in Nat
      /\ call.i \in Nat /\ call.start \in Nat /\ call.length \in Nat /\ call.bytes_read \in Nat
      /\ call.i * BlockSize \in Nat
      /\ (call.i < NB <=> call.i * BlockSize < L)
  BY InodeType, CallType, Blocks, Zenon DEF IInv, TypeOK, L, NB
<1>3. n \in Nat /\ n <= L
  BY DEF IInv, TypeOK, ReadsInOrder, L
<1>4. /\ n = file_pos + call.bytes_read
      /\ call.length + call.bytes_read = BlockSize
      /\ call.length # 0 => call.i * BlockSize + call.start = n \/ n = L
  BY <1>1, Zenon DEF IInv, LoopInv, Place
<1>5. IF file_pos' < L THEN n = file_pos' ELSE n = L
  <2> DEFINE p == call.i * BlockSize
  <2> HIDE DEF n, p
  <2>1. CASE call.length = 0
    BY <1>1, <1>2, <1>3, <1>4, <2>1
  <2>2. CASE call.length # 0
    <3>1. ~(p < L) /\ p \in Nat /\ (p + call.start = n \/ n = L)
      BY <1>1, <1>2, <1>4, <2>2 DEF p
    <3>2. n = L
      BY <1>2, <1>3, <3>1
    <3>3. file_pos' >= L
      BY <1>1, <1>2, <1>4, <3>2, Sizes
    <3> QED
      BY <1>1, <1>2, <3>2, <3>3, Sizes
  <2> QED
    BY <2>1, <2>2
<1>6. TypeOK'
  <2>1. file_pos' \in Nat
    BY <1>1, <1>2, Sizes
  <2> QED
    BY <1>1, <2>1, NoCallType, Zenon DEF IInv, TypeOK
<1>7. ReadsInOrder'
  BY <1>1 DEF IInv, ReadsInOrder, FileByte
<1>8. LoopInv' /\ IdleInv' /\ DoneInv'
  BY <1>1, <1>5 DEF LoopInv, IdleInv, DoneInv, L
<1> QED
  BY <1>1, <1>6, <1>7, <1>8 DEF IInv

LEMMA LoadDoneStep ==
    ASSUME IInv, LoadDone
    PROVE  IInv'
<1>1. /\ caller = "load" /\ pc = "idle" /\ ~(file_pos < L) /\ file_pos >= L /\ pc' = "done"
      /\ call' = call /\ inode' = inode /\ caller' = caller /\ file_pos' = file_pos
      /\ copied' = copied
  <2>1. file_pos \in Nat /\ L \in Nat
    BY InodeType DEF IInv, TypeOK
  <2> QED
    BY <2>1 DEF LoadDone, fileVars, L
<1>2. TypeOK' /\ ReadsInOrder'
  BY <1>1 DEF IInv, TypeOK, ReadsInOrder, FileByte
<1>3. LoopInv' /\ IdleInv' /\ DoneInv'
  BY <1>1 DEF IInv, LoopInv, IdleInv, DoneInv, L
<1> QED
  BY <1>1, <1>2, <1>3 DEF IInv

-----------------------------------------------------------------------------
(* The theorems                                                            *)

LEMMA InitInvariant ==
    ASSUME Init
    PROVE  IInv
<1>1. TypeOK
  BY NoCallType DEF Init, TypeOK
<1>2. L \in Nat /\ Len(copied) = 0 /\ copied = <<>>
  BY <1>1, InodeType DEF Init, TypeOK
<1>3. ReadsInOrder
  BY <1>2 DEF ReadsInOrder, L
<1>4. LoopInv /\ IdleInv /\ DoneInv
  BY <1>2 DEF Init, LoopInv, IdleInv, DoneInv
<1> QED
  BY <1>1, <1>3, <1>4 DEF Init, IInv

LEMMA StepInvariant ==
    ASSUME IInv, [Next]_vars
    PROVE  IInv'
<1>1. CASE CopyBlock
  BY <1>1, CopyBlockStep
<1>2. ASSUME NEW n \in ReadSizes, FileRead(n) PROVE IInv'
  <2>1. n \in Nat
    BY <1>2, ConstantsAssumption
  <2> QED
    BY <1>2, <2>1, BeginStep DEF FileRead
<1>3. CASE FileReadReturn
  BY <1>3, FileReadReturnStep
<1>4. CASE LoadChunk
  BY <1>4, BeginStep, Sizes DEF LoadChunk
<1>5. CASE LoadChunkReturn
  BY <1>5, LoadChunkReturnStep
<1>6. CASE LoadDone
  BY <1>6, LoadDoneStep
<1>7. CASE UNCHANGED vars
  <2>1. /\ call' = call /\ inode' = inode /\ caller' = caller /\ file_pos' = file_pos
        /\ copied' = copied /\ pc' = pc
    BY <1>7 DEF vars, fileVars
  <2>2. TypeOK' /\ ReadsInOrder'
    BY <2>1 DEF IInv, TypeOK, ReadsInOrder, FileByte
  <2>3. LoopInv' /\ IdleInv' /\ DoneInv'
    BY <2>1 DEF IInv, LoopInv, IdleInv, DoneInv, L, NB, Place
  <2> QED
    BY <2>1, <2>2, <2>3 DEF IInv
<1> QED
  BY <1>1, <1>2, <1>3, <1>4, <1>5, <1>6, <1>7 DEF Next, LoadStep

\* The inductive invariant of read_data and its callers.
THEOREM Invariance == Spec => []IInv
BY InitInvariant, StepInvariant, PTL DEF Spec

\* read_data's locals have their types: in particular no copy has a negative length.
THEOREM TypeCorrect == Spec => []TypeOK
<1>1. IInv => TypeOK
  BY DEF IInv
<1> QED
  BY <1>1, Invariance, PTL

\* What read and process_create get is the file from its first byte on, in order.
THEOREM ReadInOrder == Spec => []ReadsInOrder
<1>1. IInv => ReadsInOrder
  BY DEF IInv
<1> QED
  BY <1>1, Invariance, PTL

\* The loop of process_create ends only when the program is in memory completely.
THEOREM LoadIsComplete == Spec => []LoadedWhole
<1>1. IInv => LoadedWhole
  <2>1. ASSUME IInv, pc = "done" PROVE Len(copied) = inode.length
    <3>1. file_pos \in Nat /\ L \in Nat /\ file_pos >= L /\ caller = "load"
      BY <2>1, InodeType DEF IInv, TypeOK, DoneInv
    <3> QED
      BY <2>1, <3>1 DEF IInv, IdleInv, L
  <2> QED
    BY <2>1 DEF LoadedWhole
<1> QED
  BY <1>1, Invariance, PTL
=============================================================================
