------------------------ MODULE FileDescriptorsProofs ------------------------
(***************************************************************************)
(* Proofs about FileDescriptors, for any number of processes, terminals    *)
(* and descriptors.                                                        *)
(***************************************************************************)
EXTENDS FileDescriptors, WellFoundedInduction, TLAPS

-----------------------------------------------------------------------------
(* The invariant of the descriptors                                        *)

\* What a descriptor of process p may look like: one that is free is no RTC, one that is
\* open belongs to a process or was never used, and can be closed, an open file has an inode,
\* and stdin and stdout are no RTCs.
DescriptorOK(p, i, d, procs) ==
    /\ d.inode = Free => d.file_table_ptr # "rtc"
    /\ i \in UserFds /\ p \notin procs /\ d.inode # Free => d = Blank
    /\ i \in UserFds /\ d.inode # Free => d.file_table_ptr # "terminal"
    /\ d.inode # Free /\ d.file_table_ptr = "file" => d.inode \in Files
    /\ i \notin UserFds => d.file_table_ptr # "rtc"

TablesOK(table, procs) == \A p \in Pids : \A i \in Fds : DescriptorOK(p, i, table[p][i], procs)

\* An interrupted handler has tested an RTC; if its process has ended since, that is free.
HandlerOK ==
    handler # Idle =>
        /\ handler \in [owner : Pids, pid : Pids, round : Rounds, tested : Descriptor]
        /\ handler.tested.file_table_ptr = "rtc" /\ handler.tested.file_pos > 0
        /\ handler.pid \notin active => fds[handler.pid][handler.round[2]].inode = Free

DescriptorInv == TypeOK /\ TablesOK(fds, active) /\ HandlerOK

-----------------------------------------------------------------------------
(* Numbers and fields                                                      *)

\* Every nonempty set of natural numbers has a least element, which Min picks.
LEMMA MinExists ==
    ASSUME NEW S \in SUBSET Nat, S # {}
    PROVE  Min(S) \in S
<1>1. PICK x \in S : \A y \in S : <<y, x>> \notin OpToRel(<, Nat)
  BY WFMin, NatLessThanWellFounded, Zenon
<1>2. \A y \in S : ~(y < x)
  BY <1>1, Zenon DEF OpToRel
<1>3. x \in S /\ \A y \in S : x <= y
  BY <1>2
<1> QED
  BY <1>3, Zenon DEF Min

LEMMA Sizes ==
    /\ NumFds \in Nat /\ NumFds >= 2 /\ Width \in Nat /\ BaseRate \in Nat /\ BaseRate > 0
    /\ NumDentries \in Nat /\ NumDentries < Width /\ BaseRate < Width
    /\ UserFds \subseteq Fds
BY ConstantsAssumption DEF UserFds, Fds

\* A period is shorter than a second.
LEMMA PeriodBounds ==
    ASSUME NEW n \in Periods \cup {0}
    PROVE  n \in Nat /\ n < BaseRate /\ n \in 0 .. Width - 1 /\ n \in 0 .. BaseRate
<1>1. CASE n = 0
  BY <1>1, Sizes
<1>2. CASE n \in Periods
  <2>1. PICK f \in Rates : n = BaseRate \div f
    BY <1>2 DEF Periods
  <2>2. f \in Nat /\ f >= 2
    BY ConstantsAssumption
  <2>3. BaseRate \div f \in Nat /\ BaseRate \div f < BaseRate
    BY <2>2, Sizes
  <2> QED
    BY <2>1, <2>3, Sizes
<1> QED
  BY <1>1, <1>2

LEMMA RatesGivePeriods == \A f \in Rates : BaseRate \div f \in Periods
BY DEF Periods

\* The fields of a descriptor.
LEMMA Fields ==
    ASSUME NEW d \in Descriptor
    PROVE  /\ d.file_table_ptr \in Tables /\ d.inode \in Inodes
           /\ d.file_pos \in 0 .. Width - 1 /\ d.file_pos \in Nat /\ d.flags \in Periods \cup {0}
<1>1. d.file_pos \in 0 .. Width - 1
  BY DEF Descriptor
<1> QED
  BY <1>1 DEF Descriptor

LEMMA FirstDescriptors == Blank \in Descriptor /\ Unused \in Descriptor
<1>1. 0 \in 0 .. Width - 1
  BY Sizes
<1> QED
  BY <1>1 DEF Blank, Unused, Descriptor, Inodes, Tables

\* Descriptors with a new position, a new inode or a new period.
LEMMA Moved ==
    ASSUME NEW d \in Descriptor, NEW n \in 0 .. Width - 1
    PROVE  /\ [d EXCEPT !.file_pos = n] \in Descriptor
           /\ [d EXCEPT !.file_pos = n].file_table_ptr = d.file_table_ptr
           /\ [d EXCEPT !.file_pos = n].inode = d.inode
           /\ [d EXCEPT !.file_pos = n].flags = d.flags
           /\ [d EXCEPT !.file_pos = n].file_pos = n
BY DEF Descriptor

LEMMA Modulo ==
    ASSUME NEW n \in Int
    PROVE  n % Width \in 0 .. Width - 1
BY Sizes

LEMMA DecrementedType ==
    ASSUME NEW d \in Descriptor
    PROVE  /\ Decremented(d) \in Descriptor
           /\ Decremented(d).file_table_ptr = d.file_table_ptr
           /\ Decremented(d).inode = d.inode
           /\ Decremented(d).flags = d.flags
           /\ d.file_pos > 0 => Decremented(d).file_pos = d.file_pos - 1
<1> DEFINE n == (d.file_pos - 1) % Width
<1>1. d.file_pos \in 0 .. Width - 1 /\ n \in 0 .. Width - 1
  BY Fields, Modulo
<1>2. Decremented(d) = [d EXCEPT !.file_pos = n]
  BY DEF Decremented
<1>3. d.file_pos > 0 => n = d.file_pos - 1
  <2>1. \A w \in Nat : \A k \in 0 .. w - 1 : k > 0 => (k - 1) % w = k - 1
    OBVIOUS
  <2> QED
    BY <1>1, <2>1, Sizes
<1> HIDE DEF n
<1> QED
  BY <1>1, <1>2, <1>3, Moved

\* What rtc_handler does to a single descriptor.
LEMMA TickedOne ==
    ASSUME NEW table \in [Pids -> [Fds -> Descriptor]], NEW rounds, NEW p \in Pids, NEW i \in Fds
    PROVE  LET d == table[p][i]
               ticks == /\ \E t \in Terminals : terminal_pids[t] = p /\ <<t, i>> \in rounds
                        /\ Counts(d)
           IN  Ticked(table, rounds)[p][i] = IF ticks THEN Decremented(d) ELSE d
BY Zenon DEF Ticked

LEMMA TickedType ==
    ASSUME NEW table \in [Pids -> [Fds -> Descriptor]], NEW rounds
    PROVE  Ticked(table, rounds) \in [Pids -> [Fds -> Descriptor]]
<1>1. ASSUME NEW p \in Pids, NEW i \in Fds
      PROVE  table[p][i] \in Descriptor /\ Decremented(table[p][i]) \in Descriptor
  <2>1. table[p][i] \in Descriptor
    OBVIOUS
  <2> QED
    BY <2>1, DecrementedType
<1> QED
  BY <1>1 DEF Ticked

\* It leaves what a descriptor is used for, so it preserves the invariant.
LEMMA TickedKeeps ==
    ASSUME NEW table \in [Pids -> [Fds -> Descriptor]], NEW rounds, NEW p \in Pids, NEW i \in Fds
    PROVE  /\ Ticked(table, rounds)[p][i].inode = table[p][i].inode
           /\ Ticked(table, rounds)[p][i].file_table_ptr = table[p][i].file_table_ptr
           /\ Ticked(table, rounds)[p][i].flags = table[p][i].flags
           /\ table[p][i].file_table_ptr # "rtc" => Ticked(table, rounds)[p][i] = table[p][i]
<1>1. table[p][i] \in Descriptor
  OBVIOUS
<1>2. \/ Ticked(table, rounds)[p][i] = table[p][i]
      \/ Ticked(table, rounds)[p][i] = Decremented(table[p][i]) /\ Counts(table[p][i])
  BY TickedOne, ZenonT(40)
<1> QED
  BY <1>1, <1>2, DecrementedType, Zenon DEF Counts

LEMMA TickedOK ==
    ASSUME NEW table \in [Pids -> [Fds -> Descriptor]], NEW rounds, NEW procs,
           TablesOK(table, procs)
    PROVE  TablesOK(Ticked(table, rounds), procs)
<1>1. ASSUME NEW p \in Pids, NEW i \in Fds
      PROVE  DescriptorOK(p, i, Ticked(table, rounds)[p][i], procs)
  <2>1. DescriptorOK(p, i, table[p][i], procs)
    BY DEF TablesOK
  <2>2. Blank.file_table_ptr # "rtc"
    BY DEF Blank
  <2> DEFINE d == table[p][i]
             e == Ticked(table, rounds)[p][i]
  <2>3. /\ e.inode = d.inode /\ e.file_table_ptr = d.file_table_ptr
        /\ d.file_table_ptr # "rtc" => e = d
    BY TickedKeeps, ZenonT(40)
  <2> HIDE DEF d, e
  <2>4. DescriptorOK(p, i, e, procs)
    BY <2>1, <2>2, <2>3 DEF DescriptorOK, d
  <2> QED
    BY <2>4 DEF e
<1> QED
  BY <1>1, Zenon DEF TablesOK

-----------------------------------------------------------------------------
(* Processes                                                               *)

\* FreePid picks a pid that is not in use.
LEMMA FreePidRight ==
    ASSUME NEW used, ~(Pids \subseteq used)
    PROVE  FreePid(used) \in Pids /\ FreePid(used) \notin used
<1>1. Pids \ used \in SUBSET Nat /\ Pids \ used # {}
  BY ConstantsAssumption DEF Pids
<1>2. Min(Pids \ used) \in Pids \ used
  BY <1>1, MinExists, Zenon
<1> QED
  BY <1>2, Zenon DEF FreePid

\* The descriptors of a new process.
LEMMA FreshOK ==
    ASSUME NEW p \in Pids, NEW table \in [Fds -> Descriptor], NEW procs, NEW others,
           \A i \in Fds : DescriptorOK(p, i, table[i], procs),
           p \notin procs, p \in others
    PROVE  /\ FreshTable(table) \in [Fds -> Descriptor]
           /\ \A i \in Fds : DescriptorOK(p, i, FreshTable(table)[i], others)
<1> SUFFICES ASSUME NEW i \in Fds
             PROVE  /\ FreshTable(table)[i] \in Descriptor
                    /\ DescriptorOK(p, i, FreshTable(table)[i], others)
  BY Zenon DEF FreshTable
<1> DEFINE d == table[i]
           e == FreshTable(table)[i]
<1>1. d \in Descriptor /\ DescriptorOK(p, i, d, procs)
  OBVIOUS
<1>2. i \in {0, 1} <=> i \notin UserFds
  BY Sizes DEF Fds, UserFds
<1>3. CASE i \in {0, 1}
  <2>1. e = [d EXCEPT !.inode = Stdio, !.file_table_ptr = "terminal"]
    BY <1>3 DEF FreshTable
  <2> HIDE DEF d, e
  <2>2. e \in Descriptor /\ e.inode = Stdio /\ e.file_table_ptr = "terminal"
    BY <1>1, <2>1 DEF Descriptor, Tables, Inodes
  <2>3. DescriptorOK(p, i, e, others)
    BY <1>2, <1>3, <2>2 DEF DescriptorOK, Stdio, Free
  <2> QED
    BY <2>2, <2>3 DEF e
<1>4. CASE i \notin {0, 1}
  <2>1. e = [d EXCEPT !.inode = Free]
    BY <1>4 DEF FreshTable
  <2>2. d.file_table_ptr # "rtc"
    <3>1. Blank.file_table_ptr # "rtc"
      BY DEF Blank
    <3> HIDE DEF d
    <3> QED
      BY <1>1, <1>2, <1>4, <3>1 DEF DescriptorOK
  <2> HIDE DEF d, e
  <2>3. e \in Descriptor /\ e.inode = Free /\ e.file_table_ptr = d.file_table_ptr
    BY <1>1, <2>1 DEF Descriptor, Inodes
  <2>4. DescriptorOK(p, i, e, others)
    BY <1>2, <1>4, <2>2, <2>3 DEF DescriptorOK
  <2> QED
    BY <2>3, <2>4 DEF e
<1> QED
  BY <1>3, <1>4

\* close, and with it halt, frees every descriptor but stdin and stdout.
LEMMA ClosedOK ==
    ASSUME NEW p \in Pids, NEW i \in Fds, NEW d \in Descriptor, NEW procs,
           DescriptorOK(p, i, d, procs)
    PROVE  /\ Closed(d) \in Descriptor
           /\ Closed(d).inode = Free => Closed(d).file_table_ptr # "rtc"
           /\ Closed(d) = d \/ Closed(d).inode = Free
           /\ i \notin UserFds => Closed(d).file_table_ptr # "rtc"
           /\ d.file_table_ptr # "terminal" => Closed(d).inode = Free
<1>1. CASE d.file_table_ptr = "terminal"
  BY <1>1 DEF Closed, DescriptorOK
<1>2. CASE d.file_table_ptr = "rtc"
  <2>1. Closed(d) = Unused
    BY <1>2 DEF Closed
  <2> QED
    BY <1>2, <2>1, FirstDescriptors DEF Unused, Blank
<1>3. CASE d.file_table_ptr # "terminal" /\ d.file_table_ptr # "rtc"
  <2>1. Closed(d) = [d EXCEPT !.inode = Free]
    BY <1>3 DEF Closed
  <2>2. /\ [d EXCEPT !.inode = Free] \in Descriptor
        /\ [d EXCEPT !.inode = Free].inode = Free
        /\ [d EXCEPT !.inode = Free].file_table_ptr = d.file_table_ptr
    BY DEF Descriptor, Inodes
  <2> QED
    BY <1>3, <2>1, <2>2
<1> QED
  BY <1>1, <1>2, <1>3

LEMMA AllClosedOK ==
    ASSUME NEW p \in Pids, NEW table \in [Fds -> Descriptor], NEW procs, NEW others,
           \A i \in Fds : DescriptorOK(p, i, table[i], procs)
    PROVE  /\ AllClosed(table) \in [Fds -> Descriptor]
           /\ \A i \in Fds : DescriptorOK(p, i, AllClosed(table)[i], others)
           /\ \A i \in UserFds : AllClosed(table)[i].inode = Free
<1>1. ASSUME NEW i \in Fds
      PROVE  /\ AllClosed(table)[i] \in Descriptor
             /\ DescriptorOK(p, i, AllClosed(table)[i], others)
             /\ i \in UserFds => AllClosed(table)[i].inode = Free
  <2> DEFINE d == table[i]
             e == AllClosed(table)[i]
  <2>1. d \in Descriptor /\ DescriptorOK(p, i, d, procs)
    OBVIOUS
  <2>2. e = IF i \in UserFds /\ d.inode # Free THEN Closed(d) ELSE d
    BY Zenon DEF AllClosed
  <2> HIDE DEF d, e
  <2>3. CASE i \in UserFds /\ d.inode # Free
    <3>1. d.file_table_ptr # "terminal"
      BY <2>1, <2>3 DEF DescriptorOK
    <3>2. e = Closed(d)
      BY <2>2, <2>3
    <3>3. e \in Descriptor /\ e.inode = Free /\ e.file_table_ptr # "rtc"
      BY <2>1, <3>1, <3>2, ClosedOK, Zenon
    <3>4. DescriptorOK(p, i, e, others)
      BY <2>3, <3>3 DEF DescriptorOK
    <3> QED
      BY <3>3, <3>4 DEF e
  <2>4. CASE ~(i \in UserFds /\ d.inode # Free)
    <3>1. e = d
      BY <2>2, <2>4
    <3>2. DescriptorOK(p, i, e, others)
      BY <2>1, <2>4, <3>1 DEF DescriptorOK
    <3> QED
      BY <2>1, <2>4, <3>1, <3>2 DEF e
  <2> QED
    BY <2>3, <2>4
<1>2. DOMAIN AllClosed(table) = Fds /\ AllClosed(table) = [i \in Fds |-> AllClosed(table)[i]]
  BY Zenon DEF AllClosed
<1> QED
  BY <1>1, <1>2, Sizes, Zenon

\* A PCB whose descriptors are replaced, with the set of processes changed for that PCB only.
LEMMA ReplaceTable ==
    ASSUME NEW tables \in [Pids -> [Fds -> Descriptor]], NEW procs, TablesOK(tables, procs),
           NEW p \in Pids, NEW t \in [Fds -> Descriptor], NEW others,
           \A i \in Fds : DescriptorOK(p, i, t[i], others),
           \A q \in Pids : q # p => (q \in others <=> q \in procs)
    PROVE  /\ [tables EXCEPT ![p] = t] \in [Pids -> [Fds -> Descriptor]]
           /\ TablesOK([tables EXCEPT ![p] = t], others)
<1> DEFINE new == [tables EXCEPT ![p] = t]
<1>1. new \in [Pids -> [Fds -> Descriptor]]
  OBVIOUS
<1>2. ASSUME NEW q \in Pids, NEW i \in Fds PROVE DescriptorOK(q, i, new[q][i], others)
  <2>1. CASE q = p
    BY <2>1
  <2>2. CASE q # p
    <3>1. new[q][i] = tables[q][i] /\ DescriptorOK(q, i, tables[q][i], procs)
      BY <2>2 DEF TablesOK
    <3> QED
      BY <2>2, <3>1 DEF DescriptorOK
  <2> QED
    BY <2>1, <2>2
<1> QED
  BY <1>1, <1>2, Zenon DEF TablesOK

\* One descriptor of a process is replaced.
LEMMA ReplaceOne ==
    ASSUME NEW p \in Pids, NEW i \in Fds, NEW d \in Descriptor, TypeOK, TablesOK(fds, active),
           DescriptorOK(p, i, d, active), SetFd(p, i, d)
    PROVE  /\ fds' \in [Pids -> [Fds -> Descriptor]]
           /\ TablesOK(fds', active)
           /\ fds'[p][i] = d
           /\ \A q \in Pids, j \in Fds : q # p \/ j # i => fds'[q][j] = fds[q][j]
<1> DEFINE t == [fds[p] EXCEPT ![i] = d]
<1>1. fds \in [Pids -> [Fds -> Descriptor]]
  BY DEF TypeOK
<1>2. fds' = [fds EXCEPT ![p] = t]
  BY DEF SetFd
<1>3. t \in [Fds -> Descriptor] /\ \A j \in Fds : DescriptorOK(p, j, t[j], active)
  BY <1>1 DEF TablesOK
<1>4. /\ \A j \in Fds : j # i => t[j] = fds[p][j]
      /\ t[i] = d
  BY <1>1
<1>5. fds' \in [Pids -> [Fds -> Descriptor]] /\ TablesOK(fds', active)
  <2> HIDE DEF t
  <2> QED
    BY <1>1, <1>2, <1>3, ReplaceTable, Zenon
<1> HIDE DEF t
<1> QED
  BY <1>1, <1>2, <1>4, <1>5

-----------------------------------------------------------------------------
(* The actions preserve DescriptorInv                                      *)

LEMMA HandlerFields ==
    ASSUME HandlerOK, handler # Idle
    PROVE  /\ handler.pid \in Pids /\ handler.owner \in Pids /\ handler.round \in Rounds
           /\ handler.round[1] \in Terminals /\ handler.round[2] \in UserFds
           /\ handler.round[2] \in Fds /\ handler.tested \in Descriptor
<1>1. handler.round \in Rounds
  BY DEF HandlerOK
<1> QED
  BY <1>1, Sizes DEF HandlerOK, Rounds

LEMMA CreateStep ==
    ASSUME DescriptorInv, NEW t \in Terminals, Create(t)
    PROVE  DescriptorInv'
<1> DEFINE p == FreePid(active)
           table == FreshTable(fds[p])
<1>1. /\ fds' = [fds EXCEPT ![p] = table]
      /\ active' = active \cup {p}
      /\ terminal_pids' = [terminal_pids EXCEPT ![t] = p]
      /\ parent_pcb' = [parent_pcb EXCEPT ![p] = terminal_pids[t]]
      /\ UNCHANGED <<blocked, waited, spoiled, handler>>
  BY DEF Create
<1>2. p \in Pids /\ p \notin active
  BY FreePidRight DEF Create, DescriptorInv, TypeOK
<1>3. fds \in [Pids -> [Fds -> Descriptor]] /\ fds[p] \in [Fds -> Descriptor]
  BY <1>2 DEF DescriptorInv, TypeOK
<1>4. \A i \in Fds : DescriptorOK(p, i, fds[p][i], active)
  BY <1>2 DEF DescriptorInv, TablesOK
<1>5. /\ table \in [Fds -> Descriptor]
      /\ \A i \in Fds : DescriptorOK(p, i, table[i], active')
  <2>1. p \in active'
    BY <1>1
  <2> HIDE DEF p
  <2> QED
    BY <1>2, <1>3, <1>4, <2>1, FreshOK, Zenon
<1>6. fds' \in [Pids -> [Fds -> Descriptor]] /\ TablesOK(fds', active')
  <2>1. \A q \in Pids : q # p => (q \in active' <=> q \in active)
    BY <1>1
  <2>2. TablesOK(fds, active)
    BY DEF DescriptorInv
  <2> HIDE DEF p, table
  <2> QED
    BY <1>1, <1>2, <1>3, <1>5, <2>1, <2>2, ReplaceTable, Zenon
<1>7. TypeOK'
  <2> HIDE DEF p, table
  <2>1. /\ active' \subseteq Pids
        /\ terminal_pids' \in [Terminals -> Pids \cup {None}]
        /\ parent_pcb' \in [Pids -> Pids \cup {None}]
    BY <1>1, <1>2 DEF DescriptorInv, TypeOK
  <2> QED
    BY <1>1, <1>6, <2>1, Zenon DEF DescriptorInv, TypeOK
<1>8. HandlerOK'
  <2>1. handler' = handler
    BY <1>1
  <2>2. ASSUME handler # Idle, handler.pid \notin active'
        PROVE  fds'[handler.pid][handler.round[2]].inode = Free
    <3>1. handler.pid # p /\ handler.pid \notin active /\ handler.pid \in Pids
      BY <1>1, <2>2, HandlerFields DEF DescriptorInv
    <3>2. fds'[handler.pid] = fds[handler.pid]
      BY <1>1, <1>3, <3>1
    <3> QED
      BY <2>2, <3>1, <3>2, Zenon DEF DescriptorInv, HandlerOK
  <2> QED
    BY <2>1, <2>2, Zenon DEF DescriptorInv, HandlerOK
<1> QED
  BY <1>6, <1>7, <1>8 DEF DescriptorInv

\* The descriptors of a process that ends.
LEMMA EndedTable ==
    ASSUME DescriptorInv, NEW p \in Pids, NEW others,
           \A q \in Pids : q # p => (q \in others <=> q \in active)
    PROVE  LET new == [fds EXCEPT ![p] = AllClosed(fds[p])]
           IN  /\ new \in [Pids -> [Fds -> Descriptor]]
               /\ TablesOK(new, others)
               /\ \A i \in UserFds : new[p][i].inode = Free
<1> DEFINE table == AllClosed(fds[p])
<1>1. fds \in [Pids -> [Fds -> Descriptor]] /\ fds[p] \in [Fds -> Descriptor]
  BY DEF DescriptorInv, TypeOK
<1>2. \A i \in Fds : DescriptorOK(p, i, fds[p][i], active)
  BY DEF DescriptorInv, TablesOK
<1>3. /\ table \in [Fds -> Descriptor]
      /\ \A i \in Fds : DescriptorOK(p, i, table[i], others)
      /\ \A i \in UserFds : table[i].inode = Free
  BY <1>1, <1>2, AllClosedOK, Zenon
<1>4. TablesOK(fds, active)
  BY DEF DescriptorInv
<1> HIDE DEF table
<1>5. /\ [fds EXCEPT ![p] = table] \in [Pids -> [Fds -> Descriptor]]
      /\ TablesOK([fds EXCEPT ![p] = table], others)
  BY <1>1, <1>3, <1>4, ReplaceTable, Zenon
<1>6. [fds EXCEPT ![p] = table][p] = table
  BY <1>1
<1> QED
  BY <1>3, <1>5, <1>6 DEF table

LEMMA HaltChildStep ==
    ASSUME DescriptorInv, NEW t \in Terminals, HaltChild(t)
    PROVE  DescriptorInv'
<1> DEFINE p == terminal_pids[t]
<1>1. /\ fds' = [fds EXCEPT ![p] = AllClosed(fds[p])]
      /\ active' = active \ {p}
      /\ terminal_pids' = [terminal_pids EXCEPT ![t] = parent_pcb[p]]
      /\ UNCHANGED <<parent_pcb, blocked, waited, spoiled, handler>>
      /\ p # None
  BY DEF HaltChild
<1>2. p \in Pids /\ fds \in [Pids -> [Fds -> Descriptor]]
  BY <1>1 DEF DescriptorInv, TypeOK
<1>3. /\ fds' \in [Pids -> [Fds -> Descriptor]]
      /\ TablesOK(fds', active')
      /\ \A i \in UserFds : fds'[p][i].inode = Free
  <2>1. \A q \in Pids : q # p => (q \in active' <=> q \in active)
    BY <1>1
  <2> HIDE DEF p
  <2> QED
    BY <1>1, <1>2, <2>1, EndedTable
<1>4. TypeOK'
  <2>1. parent_pcb[p] \in Pids \cup {None}
    BY <1>2 DEF DescriptorInv, TypeOK
  <2> HIDE DEF p
  <2>2. /\ active' \subseteq Pids
        /\ terminal_pids' \in [Terminals -> Pids \cup {None}]
    BY <1>1, <2>1 DEF DescriptorInv, TypeOK
  <2> QED
    BY <1>1, <1>3, <2>2, Zenon DEF DescriptorInv, TypeOK
<1>5. HandlerOK'
  <2>1. ASSUME handler # Idle, handler.pid \notin active'
        PROVE  fds'[handler.pid][handler.round[2]].inode = Free
    <3>1. CASE handler.pid = p
      BY <1>3, <2>1, <3>1, HandlerFields, Zenon DEF DescriptorInv
    <3>2. CASE handler.pid # p
      <4>1. handler.pid \notin active /\ handler.pid \in Pids
        BY <1>1, <2>1, <3>2, HandlerFields DEF DescriptorInv
      <4>2. fds'[handler.pid] = fds[handler.pid]
        BY <1>1, <1>2, <3>2, <4>1
      <4> QED
        BY <2>1, <4>1, <4>2, Zenon DEF DescriptorInv, HandlerOK
    <3> QED
      BY <3>1, <3>2
  <2>2. handler' = handler
    BY <1>1
  <2> QED
    BY <2>1, <2>2, Zenon DEF DescriptorInv, HandlerOK
<1> QED
  BY <1>3, <1>4, <1>5 DEF DescriptorInv

LEMMA HaltRootStep ==
    ASSUME DescriptorInv, NEW t \in Terminals, HaltRoot(t)
    PROVE  DescriptorInv'
<1> DEFINE p == terminal_pids[t]
           rest == active \ {p}
           q == FreePid(rest)
           ended == [fds EXCEPT ![p] = AllClosed(fds[p])]
           table == FreshTable(ended[q])
<1>1. /\ fds' = [ended EXCEPT ![q] = table]
      /\ active' = rest \cup {q}
      /\ terminal_pids' = [terminal_pids EXCEPT ![t] = q]
      /\ parent_pcb' = [parent_pcb EXCEPT ![q] = None]
      /\ UNCHANGED <<blocked, waited, spoiled, handler>>
      /\ p # None
  BY DEF HaltRoot
<1>2. p \in Pids /\ fds \in [Pids -> [Fds -> Descriptor]] /\ active \subseteq Pids
  BY <1>1 DEF DescriptorInv, TypeOK
<1>3. q \in Pids /\ q \notin rest
  <2>1. ~(Pids \subseteq rest)
    BY <1>2
  <2> HIDE DEF rest
  <2> QED
    BY <2>1, FreePidRight, Zenon
<1>4. /\ ended \in [Pids -> [Fds -> Descriptor]]
      /\ TablesOK(ended, rest)
      /\ \A i \in UserFds : ended[p][i].inode = Free
  <2>1. \A r \in Pids : r # p => (r \in rest <=> r \in active)
    OBVIOUS
  <2> HIDE DEF p, rest
  <2> QED
    BY <1>2, <2>1, EndedTable, Zenon
<1>5. /\ table \in [Fds -> Descriptor]
      /\ \A i \in Fds : DescriptorOK(q, i, table[i], active')
  <2>1. q \in active'
    BY <1>1
  <2>2. ended[q] \in [Fds -> Descriptor] /\ \A i \in Fds : DescriptorOK(q, i, ended[q][i], rest)
    <3> HIDE DEF ended, rest, q
    <3> QED
      BY <1>3, <1>4 DEF TablesOK
  <2> HIDE DEF q, rest, ended
  <2> QED
    BY <1>3, <2>1, <2>2, FreshOK, Zenon
<1>6. fds' \in [Pids -> [Fds -> Descriptor]] /\ TablesOK(fds', active')
  <2>1. \A r \in Pids : r # q => (r \in active' <=> r \in rest)
    BY <1>1
  <2> HIDE DEF q, rest, ended, table
  <2> QED
    BY <1>1, <1>3, <1>4, <1>5, <2>1, ReplaceTable, Zenon
<1>7. TypeOK'
  <2>1. active' \subseteq Pids
    BY <1>1, <1>2, <1>3
  <2> HIDE DEF p, q, rest, ended, table
  <2>2. /\ terminal_pids' \in [Terminals -> Pids \cup {None}]
        /\ parent_pcb' \in [Pids -> Pids \cup {None}]
    BY <1>1, <1>3 DEF DescriptorInv, TypeOK
  <2> QED
    BY <1>1, <1>6, <2>1, <2>2, Zenon DEF DescriptorInv, TypeOK
<1>8. HandlerOK'
  <2>1. ASSUME handler # Idle, handler.pid \notin active'
        PROVE  fds'[handler.pid][handler.round[2]].inode = Free
    <3>1. handler.pid # q /\ handler.pid \in Pids /\ handler.round[2] \in UserFds
      BY <1>1, <2>1, HandlerFields DEF DescriptorInv
    <3>2. fds'[handler.pid] = ended[handler.pid]
      <4> HIDE DEF ended, table, q
      <4> QED
        BY <1>1, <1>4, <3>1
    <3>3. CASE handler.pid = p
      <4> HIDE DEF ended
      <4> QED
        BY <1>4, <3>1, <3>2, <3>3
    <3>4. CASE handler.pid # p
      <4>1. handler.pid \notin active
        BY <1>1, <2>1, <3>4
      <4>2. ended[handler.pid] = fds[handler.pid]
        BY <1>2, <3>1, <3>4
      <4> QED
        BY <2>1, <3>2, <4>1, <4>2, Zenon DEF DescriptorInv, HandlerOK
    <3> QED
      BY <3>3, <3>4
  <2>2. handler' = handler
    BY <1>1
  <2> QED
    BY <2>1, <2>2, Zenon DEF DescriptorInv, HandlerOK
<1> QED
  BY <1>6, <1>7, <1>8 DEF DescriptorInv

\* A system call of process p that replaces its descriptor i.
LEMMA CallStep ==
    ASSUME DescriptorInv, NEW p \in Pids, CanCall(p), NEW i \in Fds, NEW d \in Descriptor,
           SetFd(p, i, d), DescriptorOK(p, i, d, active),
           UNCHANGED <<processVars, handler>>,
           blocked' \in [Pids -> UserFds \cup {None}],
           waited' \in [Pids -> 0 .. BaseRate],
           spoiled' \subseteq Pids \X UserFds
    PROVE  DescriptorInv'
<1>1. p \in active
  BY DEF CanCall, Schedulable
<1>2. /\ fds' \in [Pids -> [Fds -> Descriptor]]
      /\ TablesOK(fds', active)
      /\ \A q \in Pids, j \in Fds : q # p => fds'[q][j] = fds[q][j]
  <2>1. TypeOK /\ TablesOK(fds, active)
    BY DEF DescriptorInv
  <2>2. /\ fds' \in [Pids -> [Fds -> Descriptor]]
        /\ TablesOK(fds', active)
        /\ \A q \in Pids, j \in Fds : q # p \/ j # i => fds'[q][j] = fds[q][j]
    BY <2>1, ReplaceOne, Zenon
  <2> QED
    BY <2>2, Zenon
<1>3. /\ active' = active /\ terminal_pids' = terminal_pids /\ parent_pcb' = parent_pcb
      /\ handler' = handler
  BY DEF processVars
<1>4. TypeOK'
  BY <1>2, <1>3, Zenon DEF DescriptorInv, TypeOK
<1>5. HandlerOK'
  <2>1. ASSUME handler # Idle, handler.pid \notin active
        PROVE  fds'[handler.pid][handler.round[2]].inode = Free
    <3>1. handler.pid # p /\ handler.pid \in Pids /\ handler.round[2] \in Fds
      BY <1>1, <2>1, HandlerFields DEF DescriptorInv
    <3> QED
      BY <1>2, <2>1, <3>1, Zenon DEF DescriptorInv, HandlerOK
  <2> QED
    BY <1>3, <2>1, Zenon DEF DescriptorInv, HandlerOK
<1> QED
  BY <1>2, <1>3, <1>4, <1>5, Zenon DEF DescriptorInv

\* What an open function makes of a descriptor.
OpenedAs(d) ==
    /\ d \in Descriptor /\ d.inode # Free /\ d.file_table_ptr # "terminal"
    /\ d.file_table_ptr = "file" => d.inode \in Files

LEMMA OpenStep ==
    ASSUME DescriptorInv, NEW p \in Pids, NEW d, OpenedAs(d), OpenAs(p, d)
    PROVE  DescriptorInv'
<1>1. PICK i \in UserFds : SetFd(p, i, d) /\ spoiled' = spoiled \ {<<p, i>>}
  BY DEF OpenAs
<1>2. CanCall(p) /\ UNCHANGED <<processVars, blocked, waited, handler>>
  BY DEF OpenAs
<1>3. p \in active /\ i \in Fds
  BY <1>2, Sizes DEF CanCall, Schedulable
<1>4. DescriptorOK(p, i, d, active)
  BY <1>3 DEF DescriptorOK, OpenedAs
<1>5. /\ blocked' \in [Pids -> UserFds \cup {None}] /\ waited' \in [Pids -> 0 .. BaseRate]
      /\ spoiled' \subseteq Pids \X UserFds
  BY <1>1, <1>2 DEF DescriptorInv, TypeOK
<1> QED
  BY <1>1, <1>2, <1>3, <1>4, <1>5, CallStep DEF OpenedAs

LEMMA OpenFunctions ==
    /\ \A f \in Files : OpenedAs([file_table_ptr |-> "file", inode |-> f, file_pos |-> 0, flags |-> 0])
    /\ OpenedAs([file_table_ptr |-> "directory", inode |-> 0, file_pos |-> 0, flags |-> 0])
    /\ OpenedAs([file_table_ptr |-> "rtc", inode |-> 0,
                 file_pos |-> BaseRate \div 2, flags |-> BaseRate \div 2])
<1>1. 0 \in 0 .. Width - 1 /\ 0 # Free
  BY Sizes DEF Free
<1>2. \A f \in Files : f # Free
  BY ConstantsAssumption DEF Free
<1>3. \A f \in Files : OpenedAs([file_table_ptr |-> "file", inode |-> f, file_pos |-> 0, flags |-> 0])
  BY <1>1, <1>2 DEF OpenedAs, Descriptor, Tables, Inodes
<1>4. OpenedAs([file_table_ptr |-> "directory", inode |-> 0, file_pos |-> 0, flags |-> 0])
  BY <1>1 DEF OpenedAs, Descriptor, Tables, Inodes
<1>5. ASSUME NEW n \in Periods
      PROVE  OpenedAs([file_table_ptr |-> "rtc", inode |-> 0, file_pos |-> n, flags |-> n])
  BY <1>1, PeriodBounds DEF OpenedAs, Descriptor, Tables, Inodes
<1>6. BaseRate \div 2 \in Periods
  BY ConstantsAssumption, RatesGivePeriods
<1> QED
  BY <1>3, <1>4, <1>5, <1>6

\* A call that moves the position of an open descriptor, and may set its period.
LEMMA MovedOK ==
    ASSUME NEW p \in Pids, NEW i \in Fds, NEW d \in Descriptor, NEW e, NEW procs,
           DescriptorOK(p, i, d, procs), p \in procs,
           e.inode = d.inode, e.file_table_ptr = d.file_table_ptr
    PROVE  DescriptorOK(p, i, e, procs)
BY DEF DescriptorOK

LEMMA InCall ==
    ASSUME DescriptorInv, NEW p \in Pids, CanCall(p), NEW i \in Fds
    PROVE  fds[p][i] \in Descriptor /\ DescriptorOK(p, i, fds[p][i], active) /\ p \in active
BY DEF DescriptorInv, TypeOK, TablesOK, CanCall, Schedulable

LEMMA CloseStep ==
    ASSUME DescriptorInv, NEW p \in Pids, NEW i \in Fds, close_handler(p, i)
    PROVE  DescriptorInv'
<1> DEFINE d == fds[p][i]
           e == Closed(d)
<1>1. /\ CanCall(p) /\ SetFd(p, i, e)
      /\ UNCHANGED <<processVars, blocked, waited, spoiled, handler>>
  BY DEF close_handler
<1>2. d \in Descriptor /\ DescriptorOK(p, i, d, active) /\ p \in active
  BY <1>1, InCall
<1>3. e \in Descriptor /\ DescriptorOK(p, i, e, active)
  <2>1. /\ e \in Descriptor
        /\ e.inode = Free => e.file_table_ptr # "rtc"
        /\ e = d \/ e.inode = Free
        /\ i \notin UserFds => e.file_table_ptr # "rtc"
    BY <1>2, ClosedOK, Zenon
  <2> HIDE DEF d, e
  <2> QED
    BY <1>2, <2>1 DEF DescriptorOK
<1>4. /\ blocked' \in [Pids -> UserFds \cup {None}] /\ waited' \in [Pids -> 0 .. BaseRate]
      /\ spoiled' \subseteq Pids \X UserFds
  BY <1>1, Zenon DEF DescriptorInv, TypeOK
<1> HIDE DEF d, e
<1> QED
  BY <1>1, <1>3, <1>4, CallStep

LEMMA BytesReadType ==
    ASSUME NEW d \in Descriptor, d.inode \in Files, NEW n \in Nat
    PROVE  BytesRead(d, n) \in Nat
<1>1. d.file_pos \in Nat /\ FileLength[d.inode] \in Nat
  BY Fields, ConstantsAssumption
<1>2. ASSUME NEW a \in Nat, NEW b \in Nat PROVE Min({a, b}) \in Nat
  BY MinExists
<1>3. \A x \in Nat, y \in Nat : ~(y >= x) => x - y \in Nat
  OBVIOUS
<1> QED
  BY <1>1, <1>2, <1>3 DEF BytesRead

LEMMA FileReadStep ==
    ASSUME DescriptorInv, NEW p \in Pids, NEW i \in Fds, NEW n \in ReadSizes, file_read(p, i, n)
    PROVE  DescriptorInv'
<1> DEFINE d == fds[p][i]
           pos == (d.file_pos + BytesRead(d, n)) % Width
           e == [d EXCEPT !.file_pos = pos]
<1>1. /\ CanCall(p) /\ IsOpen(p, i) /\ d.file_table_ptr = "file" /\ SetFd(p, i, e)
      /\ UNCHANGED <<processVars, blocked, waited, spoiled, handler>>
  BY DEF file_read
<1>2. d \in Descriptor /\ DescriptorOK(p, i, d, active) /\ p \in active
  BY <1>1, InCall
<1>3. pos \in 0 .. Width - 1
  <2>1. d.inode \in Files
    BY <1>1, <1>2 DEF DescriptorOK, IsOpen
  <2>2. BytesRead(d, n) \in Nat /\ d.file_pos \in Nat
    <3>1. n \in Nat
      BY ConstantsAssumption
    <3> HIDE DEF d
    <3> QED
      BY <1>2, <2>1, <3>1, BytesReadType, Fields
  <2> QED
    BY <2>2, Modulo
<1> HIDE DEF d, pos
<1>4. e \in Descriptor /\ DescriptorOK(p, i, e, active)
  BY <1>2, <1>3, Moved, MovedOK
<1>5. /\ blocked' \in [Pids -> UserFds \cup {None}] /\ waited' \in [Pids -> 0 .. BaseRate]
      /\ spoiled' \subseteq Pids \X UserFds
  BY <1>1, Zenon DEF DescriptorInv, TypeOK
<1> HIDE DEF e
<1> QED
  BY <1>1, <1>4, <1>5, CallStep

LEMMA DirectoryReadStep ==
    ASSUME DescriptorInv, NEW p \in Pids, NEW i \in Fds, directory_read(p, i)
    PROVE  DescriptorInv'
<1> DEFINE d == fds[p][i]
           pos == d.file_pos + 1
           e == [d EXCEPT !.file_pos = pos]
<1>1. /\ CanCall(p) /\ d.file_pos < NumDentries /\ SetFd(p, i, e)
      /\ UNCHANGED <<processVars, blocked, waited, spoiled, handler>>
  BY DEF directory_read
<1>2. d \in Descriptor /\ DescriptorOK(p, i, d, active) /\ p \in active
  BY <1>1, InCall
<1>3. pos \in 0 .. Width - 1
  <2>1. d.file_pos \in Nat
    BY <1>2, Fields
  <2> QED
    BY <1>1, <2>1, Sizes
<1> HIDE DEF d, pos
<1>4. e \in Descriptor /\ DescriptorOK(p, i, e, active)
  BY <1>2, <1>3, Moved, MovedOK
<1>5. /\ blocked' \in [Pids -> UserFds \cup {None}] /\ waited' \in [Pids -> 0 .. BaseRate]
      /\ spoiled' \subseteq Pids \X UserFds
  BY <1>1, Zenon DEF DescriptorInv, TypeOK
<1> HIDE DEF e
<1> QED
  BY <1>1, <1>4, <1>5, CallStep

LEMMA RtcWriteStep ==
    ASSUME DescriptorInv, NEW p \in Pids, NEW i \in Fds, NEW f \in Rates, rtc_write(p, i, f)
    PROVE  DescriptorInv'
<1> DEFINE d == fds[p][i]
           n == BaseRate \div f
           e == [d EXCEPT !.file_pos = n, !.flags = n]
<1>1. /\ CanCall(p) /\ SetFd(p, i, e)
      /\ UNCHANGED <<processVars, blocked, waited, spoiled, handler>>
  BY DEF rtc_write
<1>2. d \in Descriptor /\ DescriptorOK(p, i, d, active) /\ p \in active
  BY <1>1, InCall
<1>3. n \in Periods /\ n \in 0 .. Width - 1
  <2>1. n \in Periods
    BY RatesGivePeriods
  <2> HIDE DEF n
  <2> QED
    BY <2>1, PeriodBounds
<1> HIDE DEF d, n
<1>4. e \in Descriptor /\ DescriptorOK(p, i, e, active)
  <2>1. /\ e \in Descriptor /\ e.inode = d.inode /\ e.file_table_ptr = d.file_table_ptr
    BY <1>2, <1>3 DEF Descriptor
  <2> HIDE DEF e
  <2> QED
    BY <1>2, <2>1, MovedOK
<1>5. /\ blocked' \in [Pids -> UserFds \cup {None}] /\ waited' \in [Pids -> 0 .. BaseRate]
      /\ spoiled' \subseteq Pids \X UserFds
  BY <1>1, Zenon DEF DescriptorInv, TypeOK
<1> HIDE DEF e
<1> QED
  BY <1>1, <1>4, <1>5, CallStep

LEMMA RtcReadStep ==
    ASSUME DescriptorInv, NEW p \in Pids, NEW i \in Fds, rtc_read(p, i)
    PROVE  DescriptorInv' /\ i \in UserFds
<1> DEFINE d == fds[p][i]
           e == [d EXCEPT !.file_pos = d.flags]
<1>1. /\ CanCall(p) /\ d.file_table_ptr = "rtc" /\ SetFd(p, i, e)
      /\ blocked' = [blocked EXCEPT ![p] = i]
      /\ waited' = [waited EXCEPT ![p] = 0]
      /\ spoiled' = spoiled \ {<<p, i>>}
      /\ UNCHANGED <<processVars, handler>>
  BY DEF rtc_read
<1>2. d \in Descriptor /\ DescriptorOK(p, i, d, active) /\ p \in active
  BY <1>1, InCall
<1>3. d.flags \in 0 .. Width - 1
  BY <1>2, Fields, PeriodBounds
<1>4. i \in UserFds
  BY <1>1, <1>2 DEF DescriptorOK
<1> HIDE DEF d
<1>5. e \in Descriptor /\ DescriptorOK(p, i, e, active)
  BY <1>2, <1>3, Moved, MovedOK
<1>6. /\ blocked' \in [Pids -> UserFds \cup {None}] /\ waited' \in [Pids -> 0 .. BaseRate]
      /\ spoiled' \subseteq Pids \X UserFds
  <2>1. 0 \in 0 .. BaseRate
    BY Sizes
  <2> QED
    BY <1>1, <1>4, <2>1 DEF DescriptorInv, TypeOK
<1> HIDE DEF e
<1> QED
  BY <1>1, <1>4, <1>5, <1>6, CallStep

LEMMA RtcReadReturnStep ==
    ASSUME DescriptorInv, NEW p \in Pids, rtc_read_return(p)
    PROVE  DescriptorInv'
<1>1. /\ blocked' = [blocked EXCEPT ![p] = None]
      /\ waited' = [waited EXCEPT ![p] = 0]
      /\ fds' = fds /\ active' = active /\ terminal_pids' = terminal_pids
      /\ parent_pcb' = parent_pcb /\ spoiled' = spoiled /\ handler' = handler
  BY DEF rtc_read_return, processVars
<1>2. blocked' \in [Pids -> UserFds \cup {None}] /\ waited' \in [Pids -> 0 .. BaseRate]
  <2>1. 0 \in 0 .. BaseRate
    BY Sizes
  <2> QED
    BY <1>1, <2>1 DEF DescriptorInv, TypeOK
<1>3. TypeOK'
  BY <1>1, <1>2, Zenon DEF DescriptorInv, TypeOK
<1>4. HandlerOK'
  BY <1>1, Zenon DEF DescriptorInv, HandlerOK
<1> QED
  BY <1>1, <1>3, <1>4, Zenon DEF DescriptorInv

\* The history variable counts up to BaseRate.
LEMMA WaitedType ==
    ASSUME TypeOK
    PROVE  Waited \in [Pids -> 0 .. BaseRate]
<1>1. ASSUME NEW p \in Pids, waited[p] < BaseRate PROVE waited[p] + 1 \in 0 .. BaseRate
  <2>1. waited[p] \in 0 .. BaseRate
    BY DEF TypeOK
  <2> QED
    BY <1>1, <2>1, Sizes
<1>2. \A p \in Pids : waited[p] \in 0 .. BaseRate
  BY DEF TypeOK
<1> QED
  BY <1>1, <1>2 DEF Waited

LEMMA RtcTickStep ==
    ASSUME DescriptorInv, RtcTick
    PROVE  DescriptorInv'
<1>1. /\ fds' = Ticked(fds, Rounds) /\ waited' = Waited
      /\ active' = active /\ terminal_pids' = terminal_pids /\ parent_pcb' = parent_pcb
      /\ blocked' = blocked /\ spoiled' = spoiled /\ handler' = handler
  BY DEF RtcTick, processVars
<1>2. fds \in [Pids -> [Fds -> Descriptor]] /\ TablesOK(fds, active)
  BY DEF DescriptorInv, TypeOK
<1>3. fds' \in [Pids -> [Fds -> Descriptor]] /\ TablesOK(fds', active)
  BY <1>1, <1>2, TickedType, TickedOK, Zenon
<1>4. TypeOK'
  BY <1>1, <1>3, WaitedType, Zenon DEF DescriptorInv, TypeOK
<1>5. HandlerOK'
  <2>1. ASSUME handler # Idle
        PROVE  fds'[handler.pid][handler.round[2]].inode = fds[handler.pid][handler.round[2]].inode
    <3>1. handler.pid \in Pids /\ handler.round[2] \in Fds
      BY <2>1, HandlerFields, Zenon DEF DescriptorInv
    <3> DEFINE p == handler.pid
               i == handler.round[2]
    <3> HIDE DEF p, i
    <3>2. Ticked(fds, Rounds)[p][i].inode = fds[p][i].inode
      BY <1>2, <3>1, TickedKeeps DEF p, i
    <3> QED
      BY <1>1, <3>2 DEF p, i
  <2> QED
    BY <1>1, <2>1, Zenon DEF DescriptorInv, HandlerOK
<1> QED
  BY <1>1, <1>3, <1>4, <1>5, Zenon DEF DescriptorInv

LEMMA InterruptedStep ==
    ASSUME DescriptorInv, NEW p \in Pids, NEW r \in Rounds, RtcTickInterrupted(p, r)
    PROVE  DescriptorInv'
<1> DEFINE q == terminal_pids[r[1]]
           table == Ticked(fds, {s \in Rounds : Before(s, r)})
           d == table[q][r[2]]
           new == [owner |-> p, pid |-> q, round |-> r, tested |-> d]
<1>1. /\ fds' = table /\ waited' = Waited /\ handler' = new
      /\ q # None /\ Counts(d)
      /\ active' = active /\ terminal_pids' = terminal_pids /\ parent_pcb' = parent_pcb
      /\ blocked' = blocked /\ spoiled' = spoiled
  BY DEF RtcTickInterrupted, processVars
<1>2. fds \in [Pids -> [Fds -> Descriptor]] /\ TablesOK(fds, active)
  BY DEF DescriptorInv, TypeOK
<1>3. table \in [Pids -> [Fds -> Descriptor]] /\ TablesOK(table, active)
  BY <1>2, TickedType, TickedOK, Zenon
<1>4. r[1] \in Terminals /\ r[2] \in UserFds /\ r[2] \in Fds
  BY Sizes DEF Rounds
<1>5. q \in Pids
  BY <1>1, <1>4 DEF DescriptorInv, TypeOK
<1> HIDE DEF table
<1>6. d \in Descriptor /\ DescriptorOK(q, r[2], d, active)
  BY <1>3, <1>4, <1>5 DEF TablesOK
<1>7. d.file_table_ptr = "rtc" /\ d.file_pos > 0
  BY <1>1 DEF Counts
<1>8. q \in active
  <2>1. d # Blank
    BY <1>7 DEF Blank
  <2> HIDE DEF d, q
  <2> QED
    BY <1>4, <1>6, <1>7, <2>1 DEF DescriptorOK
<1> HIDE DEF q, d
<1>9. /\ new \in [owner : Pids, pid : Pids, round : Rounds, tested : Descriptor]
      /\ new.tested = d /\ new.pid = q
  BY <1>5, <1>6
<1> HIDE DEF new
<1>10. HandlerOK'
  BY <1>1, <1>7, <1>8, <1>9, Zenon DEF HandlerOK
<1>11. TypeOK'
  BY <1>1, <1>3, <1>9, WaitedType, Zenon DEF DescriptorInv, TypeOK
<1> QED
  BY <1>1, <1>3, <1>10, <1>11, Zenon DEF DescriptorInv

\* What an interrupted handler writes when it goes on.
LEMMA WrittenOK ==
    ASSUME NEW p \in Pids, NEW i \in UserFds, NEW d \in Descriptor,
           DescriptorOK(p, i, d, active), NEW n \in 0 .. Width - 1,
           p \in active \/ d.inode = Free
    PROVE  LET e == Decremented([d EXCEPT !.file_pos = n])
           IN  e \in Descriptor /\ DescriptorOK(p, i, e, active)
<1> DEFINE e == Decremented([d EXCEPT !.file_pos = n])
<1> DEFINE m == [d EXCEPT !.file_pos = n]
<1>1. e \in Descriptor /\ e.inode = d.inode /\ e.file_table_ptr = d.file_table_ptr
  <2>1. m \in Descriptor /\ m.inode = d.inode /\ m.file_table_ptr = d.file_table_ptr
    BY Moved, Zenon
  <2> HIDE DEF m
  <2>2. /\ Decremented(m) \in Descriptor /\ Decremented(m).inode = m.inode
        /\ Decremented(m).file_table_ptr = m.file_table_ptr
    BY <2>1, DecrementedType, Zenon
  <2> QED
    BY <2>1, <2>2 DEF m
<1> HIDE DEF e
<1>2. DescriptorOK(p, i, e, active)
  BY <1>1 DEF DescriptorOK
<1> QED
  BY <1>1, <1>2 DEF e

LEMMA ResumedStep ==
    ASSUME DescriptorInv, RtcTickResumed
    PROVE  DescriptorInv'
<1> DEFINE p == handler.pid
           r == handler.round
           i == r[2]
           after == {s \in Rounds : Before(r, s)}
<1>1. /\ handler # Idle /\ handler' = Idle
      /\ active' = active /\ terminal_pids' = terminal_pids /\ parent_pcb' = parent_pcb
      /\ blocked' = blocked /\ waited' = waited
      /\ spoiled' = spoiled \/ spoiled' = spoiled \cup {<<p, i>>}
  BY DEF RtcTickResumed, processVars
<1>2. PICK loaded \in {fds[p][i].file_pos, handler.tested.file_pos} :
          fds' = Ticked([fds EXCEPT ![p][i] = Decremented([fds[p][i] EXCEPT !.file_pos = loaded])],
                        after)
  BY DEF RtcTickResumed
<1>3. p \in Pids /\ i \in UserFds /\ i \in Fds /\ handler.tested \in Descriptor
  BY <1>1, HandlerFields DEF DescriptorInv
<1>4. /\ fds \in [Pids -> [Fds -> Descriptor]] /\ TablesOK(fds, active)
      /\ spoiled \subseteq Pids \X UserFds
  BY DEF DescriptorInv, TypeOK
<1>5. p \in active \/ fds[p][i].inode = Free
  BY <1>1, Zenon DEF DescriptorInv, HandlerOK
<1> HIDE DEF p, i, after
<1> DEFINE d == fds[p][i]
           e == Decremented([d EXCEPT !.file_pos = loaded])
<1>6. d \in Descriptor /\ DescriptorOK(p, i, d, active)
  BY <1>3, <1>4 DEF TablesOK
<1>7. loaded \in 0 .. Width - 1
  BY <1>3, <1>6, Fields
<1> HIDE DEF d
<1>8. e \in Descriptor /\ DescriptorOK(p, i, e, active)
  BY <1>3, <1>5, <1>6, <1>7, WrittenOK, Zenon DEF d
<1> HIDE DEF e
<1> DEFINE written == [fds EXCEPT ![p][i] = e]
<1>9. written \in [Pids -> [Fds -> Descriptor]] /\ TablesOK(written, active)
  <2> DEFINE t == [fds[p] EXCEPT ![i] = e]
  <2>1. t \in [Fds -> Descriptor] /\ \A j \in Fds : DescriptorOK(p, j, t[j], active)
    BY <1>3, <1>4, <1>8 DEF TablesOK
  <2>2. written = [fds EXCEPT ![p] = t]
    OBVIOUS
  <2> HIDE DEF t, written
  <2> QED
    BY <1>3, <1>4, <2>1, <2>2, ReplaceTable, Zenon
<1>10. fds' \in [Pids -> [Fds -> Descriptor]] /\ TablesOK(fds', active)
  <2>1. fds' = Ticked(written, after)
    BY <1>2 DEF d, e
  <2> HIDE DEF written
  <2> QED
    BY <1>9, <2>1, TickedType, TickedOK, Zenon
<1>11. TypeOK'
  <2>1. spoiled' \subseteq Pids \X UserFds
    BY <1>1, <1>3, <1>4
  <2> QED
    BY <1>1, <1>10, <2>1, Zenon DEF DescriptorInv, TypeOK
<1>12. HandlerOK'
  <2>1. Idle' = Idle
    BY DEF Idle, Unused, Blank
  <2> QED
    BY <1>1, <2>1, Zenon DEF HandlerOK
<1> QED
  BY <1>1, <1>10, <1>11, <1>12, Zenon DEF DescriptorInv

-----------------------------------------------------------------------------
(* The theorems about descriptors                                          *)

LEMMA InitDescriptors ==
    ASSUME Init
    PROVE  DescriptorInv
<1>1. Blank \in Descriptor /\ 0 \in 0 .. BaseRate
  BY FirstDescriptors, Sizes
<1>2. /\ Blank.file_table_ptr # "rtc" /\ Blank.file_table_ptr # "terminal"
      /\ Blank.file_table_ptr # "file" /\ Blank.inode # Free
  BY DEF Blank, Free
<1>3. TypeOK
  BY <1>1 DEF Init, TypeOK
<1>4. TablesOK(fds, active)
  BY <1>2 DEF Init, TablesOK, DescriptorOK
<1>5. HandlerOK
  BY DEF Init, HandlerOK
<1> QED
  BY <1>3, <1>4, <1>5 DEF DescriptorInv

LEMMA StepDescriptors ==
    ASSUME DescriptorInv, [Next]_vars
    PROVE  DescriptorInv'
<1>1. ASSUME NEW t \in Terminals, Create(t) \/ HaltChild(t) \/ HaltRoot(t) PROVE DescriptorInv'
  BY <1>1, CreateStep, HaltChildStep, HaltRootStep
<1>2. ASSUME NEW p \in Pids, SystemCall(p) PROVE DescriptorInv'
  <2>1. CASE \E f \in Files : file_open(p, f)
    BY <2>1, OpenStep, OpenFunctions DEF file_open
  <2>2. CASE directory_open(p)
    BY <2>2, OpenStep, OpenFunctions DEF directory_open
  <2>3. CASE rtc_open(p)
    BY <2>3, OpenStep, OpenFunctions DEF rtc_open
  <2>4. ASSUME NEW i \in Fds, close_handler(p, i) PROVE DescriptorInv'
    BY <2>4, CloseStep
  <2>5. ASSUME NEW i \in Fds, NEW n \in ReadSizes, file_read(p, i, n) PROVE DescriptorInv'
    BY <2>5, FileReadStep
  <2>6. ASSUME NEW i \in Fds, directory_read(p, i) PROVE DescriptorInv'
    BY <2>6, DirectoryReadStep
  <2>7. ASSUME NEW i \in Fds, NEW f \in Rates, rtc_write(p, i, f) PROVE DescriptorInv'
    BY <2>7, RtcWriteStep
  <2>8. ASSUME NEW i \in Fds, rtc_read(p, i) PROVE DescriptorInv'
    BY <2>8, RtcReadStep
  <2>9. CASE rtc_read_return(p)
    BY <2>9, RtcReadReturnStep
  <2> QED
    BY <1>2, <2>1, <2>2, <2>3, <2>4, <2>5, <2>6, <2>7, <2>8, <2>9, Zenon DEF SystemCall
<1>3. CASE RtcTick
  BY <1>3, RtcTickStep
<1>4. ASSUME NEW p \in Pids, NEW r \in Rounds, RtcTickInterrupted(p, r) PROVE DescriptorInv'
  BY <1>4, InterruptedStep
<1>5. CASE RtcTickResumed
  BY <1>5, ResumedStep
<1>6. CASE UNCHANGED vars
  <2>1. /\ fds' = fds /\ active' = active /\ terminal_pids' = terminal_pids
        /\ parent_pcb' = parent_pcb /\ blocked' = blocked /\ waited' = waited
        /\ spoiled' = spoiled /\ handler' = handler
    BY <1>6 DEF vars, processVars
  <2> QED
    BY <2>1, Zenon DEF DescriptorInv, TypeOK, TablesOK, HandlerOK, DescriptorOK
<1> QED
  BY <1>1, <1>2, <1>3, <1>4, <1>5, <1>6, Zenon DEF Next

\* The invariant of the descriptors is inductive.
THEOREM DescriptorsKept == Spec => []DescriptorInv
BY InitDescriptors, StepDescriptors, PTL DEF Spec

\* Descriptors, waiting processes and an interrupted rtc_handler have their types.
THEOREM TypeCorrect == Spec => []TypeOK
<1>1. DescriptorInv => TypeOK
  BY DEF DescriptorInv
<1> QED
  BY <1>1, DescriptorsKept, PTL

\* rtc_handler, which does not look at the inode, never counts in a free descriptor.
THEOREM FreeIsNotTicking == Spec => []FreeNotTicking
<1>1. DescriptorInv => FreeNotTicking
  BY DEF DescriptorInv, TablesOK, DescriptorOK, FreeNotTicking, IsOpen
<1> QED
  BY <1>1, DescriptorsKept, PTL

\* halt closes everything, whatever was opened, and nothing is opened afterwards.
THEOREM NothingIsLeaked == Spec => []NothingLeaked
<1>1. DescriptorInv => NothingLeaked
  BY Sizes DEF DescriptorInv, TablesOK, DescriptorOK, NothingLeaked, IsOpen
<1> QED
  BY <1>1, DescriptorsKept, PTL

-----------------------------------------------------------------------------
(* The processes of the terminals, and the waiting ones                    *)

\* A terminal is held by a started process, and by no other terminal's.
HoldersOK ==
    /\ \A t \in Terminals : terminal_pids[t] # None => terminal_pids[t] \in active
    /\ \A t, u \in Terminals :
          terminal_pids[t] # None /\ terminal_pids[t] = terminal_pids[u] => t = u

\* A parent waits for its only child: it holds no terminal and is in no rtc_read.
ParentsOK ==
    /\ \A p \in active : parent_pcb[p] # None =>
          /\ parent_pcb[p] \in active /\ blocked[parent_pcb[p]] = None
          /\ \A t \in Terminals : terminal_pids[t] # parent_pcb[p]
    /\ \A p, q \in active : parent_pcb[p] # None /\ parent_pcb[p] = parent_pcb[q] => p = q

\* A process in rtc_read holds a terminal, and its descriptor is an RTC.
BlockedOK ==
    \A p \in Pids : blocked[p] # None =>
        /\ p \in active
        /\ \E t \in Terminals : terminal_pids[t] = p
        /\ fds[p][blocked[p]].file_table_ptr = "rtc"

JobsInv == HoldersOK /\ ParentsOK /\ BlockedOK

LEMMA NoneIsNoPid == None \notin Pids
BY DEF None, Pids

LEMMA CanCallFacts ==
    ASSUME NEW p \in Pids, CanCall(p)
    PROVE  p \in active /\ blocked[p] = None
BY DEF CanCall, Schedulable

\* Processes that execute or end leave the waiting ones alone.
Undisturbed(p) ==
    /\ blocked'[p] = blocked[p] /\ waited'[p] = waited[p]
    /\ fds'[p] = fds[p]
    /\ \A t \in Terminals : terminal_pids'[t] = p <=> terminal_pids[t] = p

LEMMA CreateJobs ==
    ASSUME DescriptorInv, JobsInv, NEW t \in Terminals, Create(t)
    PROVE  /\ JobsInv'
           /\ \A q \in Pids : blocked[q] # None => Undisturbed(q)
<1> DEFINE p == FreePid(active)
           h == terminal_pids[t]
<1>1. /\ fds' = [fds EXCEPT ![p] = FreshTable(fds[p])]
      /\ active' = active \cup {p}
      /\ terminal_pids' = [terminal_pids EXCEPT ![t] = p]
      /\ parent_pcb' = [parent_pcb EXCEPT ![p] = h]
      /\ blocked' = blocked /\ waited' = waited
      /\ h # None => CanCall(h)
  BY DEF Create
<1>2. p \in Pids /\ p \notin active
  BY FreePidRight DEF Create, DescriptorInv, TypeOK
<1> HIDE DEF p
<1>3. /\ fds \in [Pids -> [Fds -> Descriptor]] /\ active \subseteq Pids
      /\ terminal_pids \in [Terminals -> Pids \cup {None}]
      /\ parent_pcb \in [Pids -> Pids \cup {None}]
  BY DEF DescriptorInv, TypeOK
<1>4. h \in Pids \cup {None} /\ (h # None => h \in active /\ blocked[h] = None /\ h # p)
  BY <1>1, <1>2, <1>3, CanCallFacts
<1>5. /\ terminal_pids'[t] = p /\ \A u \in Terminals : u # t => terminal_pids'[u] = terminal_pids[u]
      /\ parent_pcb'[p] = h /\ \A q \in Pids : q # p => parent_pcb'[q] = parent_pcb[q]
      /\ \A q \in Pids : q # p => fds'[q] = fds[q]
  BY <1>1, <1>2, <1>3
<1>6. p # None
  BY <1>2, NoneIsNoPid
<1> HIDE DEF h
<1>7. HoldersOK'
  <2>1. \A u \in Terminals : u # t /\ terminal_pids[u] # None => terminal_pids[u] # p
    BY <1>2, <1>3 DEF JobsInv, HoldersOK
  <2> QED
    BY <1>1, <1>5, <2>1 DEF JobsInv, HoldersOK
<1>8. ParentsOK'
  <2>1. ASSUME NEW q \in active, parent_pcb[q] # None
        PROVE  /\ q # p /\ parent_pcb'[q] = parent_pcb[q]
               /\ parent_pcb[q] \in active /\ blocked[parent_pcb[q]] = None
               /\ \A u \in Terminals : terminal_pids'[u] # parent_pcb[q]
               /\ parent_pcb[q] # h
    BY <1>2, <1>3, <1>5, <2>1 DEF JobsInv, ParentsOK, h
  <2>2. h # None => \A u \in Terminals : terminal_pids'[u] # h
    BY <1>4, <1>5 DEF JobsInv, HoldersOK, h
  <2>3. \A q \in active : parent_pcb'[q] = parent_pcb[q]
    BY <1>2, <1>3, <1>5
  <2>4. ASSUME NEW q \in active', parent_pcb'[q] # None
        PROVE  /\ parent_pcb'[q] \in active' /\ blocked'[parent_pcb'[q]] = None
               /\ \A u \in Terminals : terminal_pids'[u] # parent_pcb'[q]
    <3>1. CASE q = p
      BY <1>1, <1>4, <1>5, <2>2, <2>4, <3>1
    <3>2. CASE q # p
      <4>1. q \in active
        BY <1>1, <3>2
      <4> QED
        BY <1>1, <2>1, <2>3, <2>4, <4>1
    <3> QED
      BY <3>1, <3>2
  <2>5. ASSUME NEW q \in active', NEW r \in active',
               parent_pcb'[q] # None, parent_pcb'[q] = parent_pcb'[r]
        PROVE  q = r
    <3>1. (q = p \/ q \in active) /\ (r = p \/ r \in active)
      BY <1>1
    <3> QED
      BY <1>5, <2>1, <2>3, <2>5, <3>1 DEF JobsInv, ParentsOK
  <2> QED
    BY <2>4, <2>5 DEF ParentsOK
<1>9. ASSUME NEW q \in Pids, blocked[q] # None
      PROVE  q # p /\ Undisturbed(q) /\ q \in active /\ \E u \in Terminals : terminal_pids'[u] = q
  <2>1. q \in active /\ q # p /\ q # h
    BY <1>2, <1>4, <1>9, NoneIsNoPid DEF JobsInv, BlockedOK
  <2>2. \A u \in Terminals : terminal_pids'[u] = q <=> terminal_pids[u] = q
    BY <1>5, <2>1 DEF h
  <2> QED
    BY <1>1, <1>5, <1>9, <2>1, <2>2 DEF Undisturbed, JobsInv, BlockedOK
<1>10. BlockedOK'
  <2>1. ASSUME NEW q \in Pids, blocked[q] # None PROVE fds'[q] = fds[q] /\ q \in active'
    BY <1>1, <1>9, <2>1 DEF Undisturbed
  <2> QED
    BY <1>1, <1>9, <2>1, Zenon DEF JobsInv, BlockedOK
<1> QED
  BY <1>7, <1>8, <1>9, <1>10, Zenon DEF JobsInv

LEMMA HaltChildJobs ==
    ASSUME DescriptorInv, JobsInv, NEW t \in Terminals, HaltChild(t)
    PROVE  /\ JobsInv'
           /\ \A q \in Pids : blocked[q] # None => Undisturbed(q)
<1> DEFINE p == terminal_pids[t]
           h == parent_pcb[p]
<1>1. /\ fds' = [fds EXCEPT ![p] = AllClosed(fds[p])]
      /\ active' = active \ {p}
      /\ terminal_pids' = [terminal_pids EXCEPT ![t] = h]
      /\ parent_pcb' = parent_pcb /\ blocked' = blocked /\ waited' = waited
      /\ p # None /\ h # None /\ CanCall(p)
  BY DEF HaltChild
<1>2. /\ fds \in [Pids -> [Fds -> Descriptor]] /\ active \subseteq Pids
      /\ terminal_pids \in [Terminals -> Pids \cup {None}]
      /\ parent_pcb \in [Pids -> Pids \cup {None}]
  BY DEF DescriptorInv, TypeOK
<1>3. p \in Pids /\ p \in active /\ blocked[p] = None
  BY <1>1, <1>2, CanCallFacts
<1>4. /\ h \in active /\ blocked[h] = None /\ \A u \in Terminals : terminal_pids[u] # h
      /\ h # p
  BY <1>1, <1>3 DEF JobsInv, ParentsOK
<1>5. /\ terminal_pids'[t] = h /\ \A u \in Terminals : u # t => terminal_pids'[u] = terminal_pids[u]
      /\ \A q \in Pids : q # p => fds'[q] = fds[q]
  BY <1>1, <1>2
<1>6. \A u \in Terminals : u # t => terminal_pids[u] # p
  BY <1>1 DEF JobsInv, HoldersOK
<1>7. HoldersOK'
  <2> HIDE DEF h, p
  <2> QED
    BY <1>1, <1>4, <1>5, <1>6 DEF JobsInv, HoldersOK
<1>8. ParentsOK'
  <2>1. ASSUME NEW q \in active', parent_pcb[q] # None
        PROVE  /\ parent_pcb[q] \in active' /\ blocked[parent_pcb[q]] = None
               /\ \A u \in Terminals : terminal_pids'[u] # parent_pcb[q]
    <3>1. q \in active /\ q # p
      BY <1>1
    <3>2. /\ parent_pcb[q] \in active /\ blocked[parent_pcb[q]] = None
          /\ \A u \in Terminals : terminal_pids[u] # parent_pcb[q]
      BY <2>1, <3>1 DEF JobsInv, ParentsOK
    <3>3. parent_pcb[q] # p
      BY <3>2
    <3>4. parent_pcb[q] # h
      BY <1>1, <1>3, <3>1 DEF JobsInv, ParentsOK
    <3> HIDE DEF h, p
    <3> QED
      BY <1>1, <1>5, <3>2, <3>3, <3>4
  <2>2. active' \subseteq active
    BY <1>1
  <2> QED
    BY <1>1, <2>1, <2>2 DEF JobsInv, ParentsOK
<1>9. ASSUME NEW q \in Pids, blocked[q] # None
      PROVE  q # p /\ Undisturbed(q) /\ q \in active' /\ \E u \in Terminals : terminal_pids'[u] = q
  <2>1. q \in active /\ q # p /\ q # h /\ \E u \in Terminals : terminal_pids[u] = q
    BY <1>3, <1>4, <1>9 DEF JobsInv, BlockedOK
  <2>2. \A u \in Terminals : terminal_pids'[u] = q <=> terminal_pids[u] = q
    BY <1>5, <2>1
  <2> HIDE DEF p, h
  <2> QED
    BY <1>1, <1>5, <1>9, <2>1, <2>2 DEF Undisturbed
<1>10. BlockedOK'
  <2>1. ASSUME NEW q \in Pids, blocked[q] # None PROVE fds'[q] = fds[q] /\ q \in active'
    BY <1>9, <2>1 DEF Undisturbed
  <2> QED
    BY <1>1, <1>9, <2>1, Zenon DEF JobsInv, BlockedOK
<1> QED
  BY <1>7, <1>8, <1>9, <1>10, Zenon DEF JobsInv

LEMMA HaltRootJobs ==
    ASSUME DescriptorInv, JobsInv, NEW t \in Terminals, HaltRoot(t)
    PROVE  /\ JobsInv'
           /\ \A q \in Pids : blocked[q] # None => Undisturbed(q)
<1> DEFINE p == terminal_pids[t]
           rest == active \ {p}
           n == FreePid(rest)
           ended == [fds EXCEPT ![p] = AllClosed(fds[p])]
<1>1. /\ fds' = [ended EXCEPT ![n] = FreshTable(ended[n])]
      /\ active' = rest \cup {n}
      /\ terminal_pids' = [terminal_pids EXCEPT ![t] = n]
      /\ parent_pcb' = [parent_pcb EXCEPT ![n] = None]
      /\ blocked' = blocked /\ waited' = waited
      /\ p # None /\ CanCall(p)
  BY DEF HaltRoot
<1>2. /\ fds \in [Pids -> [Fds -> Descriptor]] /\ active \subseteq Pids
      /\ terminal_pids \in [Terminals -> Pids \cup {None}]
      /\ parent_pcb \in [Pids -> Pids \cup {None}]
  BY DEF DescriptorInv, TypeOK
<1>3. p \in Pids /\ p \in active /\ blocked[p] = None
  BY <1>1, <1>2, CanCallFacts
<1>4. n \in Pids /\ n \notin rest
  <2>1. ~(Pids \subseteq rest)
    BY <1>2, <1>3
  <2> HIDE DEF rest
  <2> QED
    BY <2>1, FreePidRight, Zenon
<1> HIDE DEF n
<1>5. /\ terminal_pids'[t] = n /\ \A u \in Terminals : u # t => terminal_pids'[u] = terminal_pids[u]
      /\ parent_pcb'[n] = None /\ \A q \in Pids : q # n => parent_pcb'[q] = parent_pcb[q]
  BY <1>1, <1>2, <1>4
<1>6. \A q \in Pids : q # n /\ q # p => fds'[q] = fds[q]
  <2>1. \A q \in Pids : q # p => ended[q] = fds[q]
    BY <1>2
  <2>2. DOMAIN ended = Pids
    BY <1>2
  <2> HIDE DEF ended
  <2> QED
    BY <1>1, <1>4, <2>1, <2>2
<1>7. n # None /\ \A u \in Terminals : u # t => terminal_pids[u] # p
  BY <1>1, <1>4, NoneIsNoPid DEF JobsInv, HoldersOK
<1> HIDE DEF p, rest
<1>8. \A q \in active' : q = n \/ (q \in active /\ q # p /\ q # n)
  BY <1>1, <1>4 DEF rest
<1>9. \A u \in Terminals : u # t /\ terminal_pids[u] # None =>
          terminal_pids[u] \in active' /\ terminal_pids[u] # n
  BY <1>1, <1>4, <1>7 DEF JobsInv, HoldersOK, rest
<1>10. HoldersOK'
  BY <1>1, <1>5, <1>9 DEF JobsInv, HoldersOK
<1>11. ParentsOK'
  <2>1. ASSUME NEW q \in active', parent_pcb'[q] # None
        PROVE  /\ q \in active /\ q # n /\ parent_pcb'[q] = parent_pcb[q]
               /\ parent_pcb'[q] \in active' /\ blocked'[parent_pcb'[q]] = None
               /\ \A u \in Terminals : terminal_pids'[u] # parent_pcb'[q]
    <3>1. q \in active /\ q # n /\ q \in Pids
      BY <1>2, <1>5, <1>8, <2>1
    <3>2. parent_pcb'[q] = parent_pcb[q]
      BY <1>5, <3>1
    <3>3. /\ parent_pcb[q] \in active /\ blocked[parent_pcb[q]] = None
          /\ \A u \in Terminals : terminal_pids[u] # parent_pcb[q]
      BY <2>1, <3>1, <3>2 DEF JobsInv, ParentsOK
    <3>4. parent_pcb[q] # p
      BY <3>3 DEF p
    <3>5. parent_pcb[q] \in rest /\ parent_pcb[q] # n
      BY <1>4, <3>3, <3>4 DEF rest
    <3> QED
      BY <1>1, <1>5, <3>1, <3>2, <3>3, <3>5
  <2> QED
    BY <2>1 DEF JobsInv, ParentsOK
<1>12. ASSUME NEW q \in Pids, blocked[q] # None
       PROVE  Undisturbed(q) /\ q \in active' /\ \E u \in Terminals : terminal_pids'[u] = q
  <2>1. q \in active /\ q # p /\ q \in rest /\ q # n /\ \E u \in Terminals : terminal_pids[u] = q
    BY <1>3, <1>4, <1>12 DEF JobsInv, BlockedOK, rest
  <2>2. \A u \in Terminals : terminal_pids'[u] = q <=> terminal_pids[u] = q
    BY <1>5, <2>1 DEF p
  <2> QED
    BY <1>1, <1>6, <2>1, <2>2 DEF Undisturbed
<1>13. BlockedOK'
  <2>1. ASSUME NEW q \in Pids, blocked[q] # None PROVE fds'[q] = fds[q] /\ q \in active'
    BY <1>12, <2>1 DEF Undisturbed
  <2> QED
    BY <1>1, <1>12, <2>1, Zenon DEF JobsInv, BlockedOK
<1> QED
  BY <1>10, <1>11, <1>12, <1>13, Zenon DEF JobsInv

-----------------------------------------------------------------------------
(* The time a reader waits                                                 *)

\* Descriptor i of p is one that the interrupted handler has still to count down.
Pending(p, i) ==
    /\ handler # Idle
    /\ \E t \in Terminals :
          /\ terminal_pids[t] = p
          /\ (<<t, i>> = handler.round /\ p = handler.pid) \/ Before(handler.round, <<t, i>>)

\* How far the interrupts waited for and those still to come may differ from the period.
Within(diff, pos, pending) ==
    diff \in IF pos = 0 THEN -1 .. 1 ELSE IF pending THEN 0 .. 1 ELSE -1 .. 0

OnTime(p) ==
    blocked[p] # None /\ <<p, blocked[p]>> \notin spoiled =>
        LET d == fds[p][blocked[p]]
        IN  Within(waited[p] + d.file_pos - d.flags, d.file_pos, Pending(p, blocked[p]))

TimeInv == \A p \in Pids : OnTime(p)

IInv == DescriptorInv /\ JobsInv /\ TimeInv

\* A process that is left alone stays on time.
LEMMA UndisturbedOnTime ==
    ASSUME NEW p \in Pids, OnTime(p), Undisturbed(p), handler' = handler,
           blocked[p] # None => (<<p, blocked[p]>> \in spoiled' <=> <<p, blocked[p]>> \in spoiled)
    PROVE  OnTime(p)'
<1> DEFINE i == blocked[p]
<1>1. Pending(p, i)' <=> Pending(p, i)
  <2>1. Idle' = Idle
    BY DEF Idle, Unused, Blank
  <2> QED
    BY <2>1, Zenon DEF Pending, Undisturbed
<1>2. CASE i = None \/ <<p, i>> \in spoiled
  BY <1>2 DEF OnTime, Undisturbed
<1>3. CASE i # None /\ <<p, i>> \notin spoiled
  <2>1. blocked'[p] = i /\ waited'[p] = waited[p] /\ fds'[p][i] = fds[p][i]
    BY Zenon DEF Undisturbed
  <2> QED
    BY <1>1, <1>3, <2>1, Zenon DEF OnTime, Within
<1> QED
  BY <1>2, <1>3

LEMMA UnblockedOnTime ==
    ASSUME NEW p \in Pids, blocked'[p] = None
    PROVE  OnTime(p)'
BY DEF OnTime

\* A process that starts or ends.
LEMMA ProcessStep ==
    ASSUME IInv, blocked' = blocked, spoiled' = spoiled, handler' = handler,
           \A q \in Pids : blocked[q] # None => Undisturbed(q)
    PROVE  TimeInv'
<1>1. ASSUME NEW q \in Pids PROVE OnTime(q)'
  <2>1. CASE blocked[q] = None
    BY <2>1, UnblockedOnTime
  <2>2. CASE blocked[q] # None
    BY <2>2, UndisturbedOnTime DEF IInv, TimeInv
  <2> QED
    BY <2>1, <2>2
<1> QED
  BY <1>1, Zenon DEF TimeInv

\* A system call of p, which does not wait, on one of its descriptors.
LEMMA CallTime ==
    ASSUME IInv, NEW p \in Pids, CanCall(p), NEW i \in Fds, NEW d, SetFd(p, i, d),
           UNCHANGED <<processVars, blocked, waited, handler>>,
           spoiled' = spoiled \/ spoiled' = spoiled \ {<<p, i>>}
    PROVE  JobsInv' /\ TimeInv'
<1>1. /\ active' = active /\ terminal_pids' = terminal_pids /\ parent_pcb' = parent_pcb
      /\ blocked' = blocked /\ waited' = waited /\ handler' = handler
  BY DEF processVars
<1>2. blocked[p] = None
  BY CanCallFacts
<1>3. \A q \in Pids : q # p => fds'[q] = fds[q]
  BY DEF SetFd, IInv, DescriptorInv, TypeOK
<1>4. ASSUME NEW q \in Pids, blocked[q] # None
      PROVE  /\ q # p /\ Undisturbed(q)
             /\ <<q, blocked[q]>> \in spoiled' <=> <<q, blocked[q]>> \in spoiled
  BY <1>1, <1>2, <1>3, <1>4 DEF Undisturbed
<1>5. JobsInv'
  <2>1. BlockedOK'
    BY <1>1, <1>3, <1>4, Zenon DEF IInv, JobsInv, BlockedOK
  <2> QED
    BY <1>1, <2>1, Zenon DEF IInv, JobsInv, HoldersOK, ParentsOK
<1>6. TimeInv'
  <2>1. ASSUME NEW q \in Pids PROVE OnTime(q)'
    <3>1. CASE blocked[q] = None
      BY <1>1, <3>1, UnblockedOnTime
    <3>2. CASE blocked[q] # None
      BY <1>1, <1>4, <3>2, UndisturbedOnTime DEF IInv, TimeInv
    <3> QED
      BY <3>1, <3>2
  <2> QED
    BY <2>1, Zenon DEF TimeInv
<1> QED
  BY <1>5, <1>6

\* rtc_read begins with a whole period to wait.
LEMMA RtcReadTime ==
    ASSUME IInv, NEW p \in Pids, NEW i \in Fds, rtc_read(p, i)
    PROVE  JobsInv' /\ TimeInv'
<1> DEFINE d == fds[p][i]
           e == [d EXCEPT !.file_pos = d.flags]
<1>1. /\ CanCall(p) /\ d.file_table_ptr = "rtc" /\ SetFd(p, i, e)
      /\ blocked' = [blocked EXCEPT ![p] = i]
      /\ waited' = [waited EXCEPT ![p] = 0]
      /\ spoiled' = spoiled \ {<<p, i>>}
      /\ active' = active /\ terminal_pids' = terminal_pids /\ parent_pcb' = parent_pcb
      /\ handler' = handler
  BY DEF rtc_read, processVars
<1>2. /\ fds \in [Pids -> [Fds -> Descriptor]]
      /\ blocked \in [Pids -> UserFds \cup {None}] /\ waited \in [Pids -> 0 .. BaseRate]
  BY DEF IInv, DescriptorInv, TypeOK
<1>3. p \in active /\ \E t \in Terminals : terminal_pids[t] = p
  BY <1>1 DEF CanCall, Schedulable
<1>4. d \in Descriptor
  BY <1>2
<1>5. /\ e.file_pos = d.flags /\ e.flags = d.flags /\ e.file_table_ptr = "rtc"
      /\ d.flags \in Nat
  <2>1. d.flags \in Nat /\ d.flags \in 0 .. Width - 1
    BY <1>4, Fields, PeriodBounds
  <2> HIDE DEF d
  <2> QED
    BY <1>1, <1>4, <2>1, Moved
<1> HIDE DEF d, e
<1>6. /\ blocked'[p] = i /\ waited'[p] = 0 /\ fds'[p][i] = e
      /\ \A q \in Pids : q # p => fds'[q] = fds[q] /\ blocked'[q] = blocked[q] /\ waited'[q] = waited[q]
  BY <1>1, <1>2 DEF SetFd
<1>7. JobsInv'
  <2>1. BlockedOK'
    BY <1>1, <1>3, <1>5, <1>6, Zenon DEF IInv, JobsInv, BlockedOK
  <2>2. ASSUME NEW q \in active, parent_pcb[q] # None PROVE blocked'[parent_pcb[q]] = None
    <3>1. parent_pcb[q] # p /\ parent_pcb[q] \in active /\ blocked[parent_pcb[q]] = None
      BY <1>3, <2>2 DEF IInv, JobsInv, ParentsOK
    <3> QED
      BY <1>6, <3>1 DEF IInv, DescriptorInv, TypeOK
  <2>3. ParentsOK'
    BY <1>1, <2>2, Zenon DEF IInv, JobsInv, ParentsOK
  <2> QED
    BY <1>1, <2>1, <2>3, Zenon DEF IInv, JobsInv, HoldersOK
<1>8. ASSUME NEW q \in Pids PROVE OnTime(q)'
  <2>1. CASE q = p
    <3>1. \A n \in Nat : 0 + n - n = 0
      OBVIOUS
    <3>2. \A n, pending : Within(0, n, pending)
      BY DEF Within
    <3>3. \A pending : Within(waited'[p] + e.file_pos - e.flags, e.file_pos, pending)
      BY <1>5, <1>6, <3>1, <3>2, Zenon
    <3> QED
      BY <1>6, <2>1, <3>3, Zenon DEF OnTime
  <2>2. CASE q # p
    <3>1. Undisturbed(q)
      BY <1>1, <1>6, <2>2 DEF Undisturbed
    <3> QED
      BY <1>1, <2>2, <3>1, UndisturbedOnTime DEF IInv, TimeInv
  <2> QED
    BY <2>1, <2>2
<1> QED
  BY <1>7, <1>8, Zenon DEF TimeInv

LEMMA RtcReadReturnTime ==
    ASSUME IInv, NEW p \in Pids, rtc_read_return(p)
    PROVE  JobsInv' /\ TimeInv'
<1>1. /\ blocked' = [blocked EXCEPT ![p] = None]
      /\ waited' = [waited EXCEPT ![p] = 0]
      /\ fds' = fds /\ active' = active /\ terminal_pids' = terminal_pids
      /\ parent_pcb' = parent_pcb /\ spoiled' = spoiled /\ handler' = handler
  BY DEF rtc_read_return, processVars
<1>2. /\ blocked'[p] = None
      /\ \A q \in Pids : q # p => blocked'[q] = blocked[q] /\ waited'[q] = waited[q]
  BY <1>1 DEF IInv, DescriptorInv, TypeOK
<1>3. \A q \in Pids : blocked'[q] # None => q # p /\ blocked'[q] = blocked[q]
  BY <1>2
<1>4. JobsInv'
  <2>1. \A q \in Pids : blocked[q] = None => blocked'[q] = None
    BY <1>2
  <2>2. active \subseteq Pids
    BY DEF IInv, DescriptorInv, TypeOK
  <2>3. ParentsOK'
    BY <1>1, <2>1, <2>2 DEF IInv, JobsInv, ParentsOK
  <2>4. BlockedOK'
    BY <1>1, <1>3, Zenon DEF IInv, JobsInv, BlockedOK
  <2> QED
    BY <1>1, <2>3, <2>4, Zenon DEF IInv, JobsInv, HoldersOK
<1>5. ASSUME NEW q \in Pids PROVE OnTime(q)'
  <2>1. CASE q = p
    BY <1>2, <2>1, UnblockedOnTime
  <2>2. CASE q # p
    <3>1. Undisturbed(q)
      BY <1>1, <1>2, <2>2 DEF Undisturbed
    <3> QED
      BY <1>1, <3>1, UndisturbedOnTime DEF IInv, TimeInv
  <2> QED
    BY <2>1, <2>2
<1> QED
  BY <1>4, <1>5, Zenon DEF TimeInv

\* What is known of a waiting process.
LEMMA Waiting ==
    ASSUME IInv, NEW q \in Pids, blocked[q] # None
    PROVE  LET i == blocked[q]
               d == fds[q][i]
           IN  /\ i \in UserFds /\ i \in Fds /\ d \in Descriptor /\ d.file_table_ptr = "rtc"
               /\ d.file_pos \in Nat /\ d.flags \in Nat /\ d.flags < BaseRate /\ waited[q] \in Nat
               /\ \E t \in Terminals :
                     terminal_pids[t] = q /\ \A u \in Terminals : terminal_pids[u] = q => u = t
<1>1. /\ fds \in [Pids -> [Fds -> Descriptor]] /\ blocked \in [Pids -> UserFds \cup {None}]
      /\ waited \in [Pids -> 0 .. BaseRate]
  BY DEF IInv, DescriptorInv, TypeOK
<1>2. blocked[q] \in UserFds /\ blocked[q] \in Fds
  BY <1>1, Sizes
<1>3. fds[q][blocked[q]] \in Descriptor
  BY <1>1, <1>2
<1>4. /\ fds[q][blocked[q]].file_pos \in Nat
      /\ fds[q][blocked[q]].flags \in Nat /\ fds[q][blocked[q]].flags < BaseRate
  BY <1>3, Fields, PeriodBounds
<1>5. waited[q] \in Nat
  BY <1>1
<1>6. PICK t \in Terminals : terminal_pids[t] = q
  BY DEF IInv, JobsInv, BlockedOK
<1>7. \A u \in Terminals : terminal_pids[u] = q => u = t
  BY <1>6, NoneIsNoPid DEF IInv, JobsInv, HoldersOK
<1>8. fds[q][blocked[q]].file_table_ptr = "rtc"
  BY Zenon DEF IInv, JobsInv, BlockedOK
<1> QED
  BY <1>2, <1>3, <1>4, <1>5, <1>6, <1>7, <1>8, Zenon

\* An interrupt that is waited for and counted leaves the difference as it was; one that is
\* only waited for raises it, one that is only counted lowers it.
LEMMA Differences ==
    ASSUME NEW w \in Nat, NEW pos \in Nat, NEW flags \in Nat, pos > 0
    PROVE  /\ \A pending : Within(w + pos - flags, pos, pending) =>
                 /\ Within((w + 1) + (pos - 1) - flags, pos - 1, pending)
                 /\ w <= flags
           /\ Within(w + pos - flags, pos, FALSE) => Within((w + 1) + pos - flags, pos, TRUE)
           /\ Within(w + pos - flags, pos, TRUE) => Within(w + (pos - 1) - flags, pos - 1, FALSE)
<1>1. /\ pos - 1 \in Nat /\ (w + 1) + (pos - 1) - flags = w + pos - flags
      /\ w + pos - flags \in Int
  OBVIOUS
<1>2. ASSUME NEW pending, Within(w + pos - flags, pos, pending)
      PROVE  /\ Within((w + 1) + (pos - 1) - flags, pos - 1, pending)
             /\ w <= flags
  <2>1. CASE pending
    BY <1>2, <2>1 DEF Within
  <2>2. CASE ~pending
    BY <1>2, <2>2 DEF Within
  <2> QED
    BY <2>1, <2>2
<1>3. Within(w + pos - flags, pos, FALSE) => Within((w + 1) + pos - flags, pos, TRUE)
  BY DEF Within
<1>4. Within(w + pos - flags, pos, TRUE) => Within(w + (pos - 1) - flags, pos - 1, FALSE)
  BY DEF Within
<1> QED
  BY <1>2, <1>3, <1>4, Zenon

\* The interrupt handler changes no processes.
LEMMA TickJobs ==
    ASSUME IInv, UNCHANGED <<processVars, blocked>>,
           \A p \in Pids, i \in Fds : fds'[p][i].file_table_ptr = fds[p][i].file_table_ptr
    PROVE  JobsInv'
<1>1. /\ active' = active /\ terminal_pids' = terminal_pids /\ parent_pcb' = parent_pcb
      /\ blocked' = blocked
  BY DEF processVars
<1>2. ASSUME NEW p \in Pids, blocked[p] # None
      PROVE  fds'[p][blocked[p]].file_table_ptr = fds[p][blocked[p]].file_table_ptr
  <2>1. blocked[p] \in Fds
    BY <1>2, Sizes DEF IInv, DescriptorInv, TypeOK
  <2> QED
    BY <2>1, Zenon
<1>3. BlockedOK'
  BY <1>1, <1>2, Zenon DEF IInv, JobsInv, BlockedOK
<1> QED
  BY <1>1, <1>3, Zenon DEF IInv, JobsInv, HoldersOK, ParentsOK

LEMMA RtcTickTime ==
    ASSUME IInv, RtcTick
    PROVE  JobsInv' /\ TimeInv'
<1>1. /\ fds' = Ticked(fds, Rounds) /\ waited' = Waited
      /\ active' = active /\ terminal_pids' = terminal_pids /\ parent_pcb' = parent_pcb
      /\ blocked' = blocked /\ spoiled' = spoiled /\ handler' = handler
  BY DEF RtcTick, processVars
<1>2. fds \in [Pids -> [Fds -> Descriptor]]
  BY DEF IInv, DescriptorInv, TypeOK
<1>3. JobsInv'
  <2>1. UNCHANGED <<processVars, blocked>>
    BY <1>1 DEF processVars
  <2>2. \A p \in Pids, i \in Fds : fds'[p][i].file_table_ptr = fds[p][i].file_table_ptr
    <3>1. \A p \in Pids, i \in Fds :
             Ticked(fds, Rounds)[p][i].file_table_ptr = fds[p][i].file_table_ptr
      BY <1>2, TickedKeeps
    <3> QED
      BY <1>1, <3>1, Zenon
  <2> QED
    BY <2>1, <2>2, TickJobs
<1>4. ASSUME NEW q \in Pids, blocked[q] # None, <<q, blocked[q]>> \notin spoiled
      PROVE  LET d == fds'[q][blocked[q]]
             IN  Within(waited'[q] + d.file_pos - d.flags, d.file_pos, Pending(q, blocked[q]))
  <2> DEFINE i == blocked[q]
             d == fds[q][i]
  <2>1. /\ i \in UserFds /\ i \in Fds /\ d \in Descriptor /\ d.file_table_ptr = "rtc"
        /\ d.file_pos \in Nat /\ d.flags \in Nat /\ d.flags < BaseRate /\ waited[q] \in Nat
    BY <1>4, Waiting, Zenon
  <2>2. \E t \in Terminals : terminal_pids[t] = q /\ <<t, i>> \in Rounds
    <3>1. PICK t \in Terminals : terminal_pids[t] = q
      BY <1>4, Waiting, Zenon
    <3> QED
      BY <2>1, <3>1 DEF Rounds
  <2>3. Within(waited[q] + d.file_pos - d.flags, d.file_pos, Pending(q, i))
    BY <1>4, Zenon DEF IInv, TimeInv, OnTime
  <2>4. fds'[q][i] = IF d.file_pos > 0 THEN Decremented(d) ELSE d
    BY <1>1, <1>2, <2>1, <2>2, TickedOne, ZenonT(40) DEF Counts
  <2>5. waited'[q] = IF d.file_pos # 0 /\ waited[q] < BaseRate THEN waited[q] + 1 ELSE waited[q]
    BY <1>1, <1>4, Zenon DEF Waited
  <2> HIDE DEF i, d
  <2>6. CASE d.file_pos = 0
    <3>1. fds'[q][i] = d /\ waited'[q] = waited[q]
      BY <2>4, <2>5, <2>6
    <3> QED
      BY <2>3, <3>1, Zenon DEF i
  <2>7. CASE d.file_pos > 0
    <3>1. /\ Within((waited[q] + 1) + (d.file_pos - 1) - d.flags, d.file_pos - 1, Pending(q, i))
          /\ waited[q] <= d.flags
      BY <2>1, <2>3, <2>7, Differences, Zenon
    <3>2. waited'[q] = waited[q] + 1
      BY <2>1, <2>5, <2>7, <3>1, Sizes
    <3>3. fds'[q][i] = Decremented(d)
      BY <2>4, <2>7
    <3>4. fds'[q][i].file_pos = d.file_pos - 1 /\ fds'[q][i].flags = d.flags
      BY <2>1, <2>7, <3>3, DecrementedType, Zenon
    <3> QED
      BY <3>1, <3>2, <3>4, Zenon DEF i
  <2> QED
    BY <2>1, <2>6, <2>7
<1>5. ASSUME NEW q \in Pids PROVE OnTime(q)'
  <2>1. Idle' = Idle
    BY DEF Idle, Unused, Blank
  <2> QED
    BY <1>1, <1>4, <2>1, Zenon DEF OnTime, Pending, Within
<1> QED
  BY <1>3, <1>5, Zenon DEF TimeInv

\* The rounds of the loop are ordered.
LEMMA RoundOrder ==
    ASSUME NEW r \in Rounds, NEW s \in Rounds
    PROVE  /\ Before(r, s) \/ r = s \/ Before(s, r)
           /\ ~(Before(r, s) /\ Before(s, r)) /\ ~Before(r, r)
<1>1. /\ r = <<r[1], r[2]>> /\ s = <<s[1], s[2]>>
      /\ r[1] \in Terminals /\ s[1] \in Terminals /\ r[2] \in UserFds /\ s[2] \in UserFds
  BY DEF Rounds
<1>2. r[1] \in Int /\ s[1] \in Int /\ r[2] \in Int /\ s[2] \in Int
  BY <1>1, Sizes DEF Terminals, UserFds
<1>3. r[1] = s[1] /\ r[2] = s[2] => r = s
  BY <1>1, Zenon
<1> QED
  BY <1>2, <1>3 DEF Before

LEMMA InterruptedTime ==
    ASSUME IInv, NEW p \in Pids, NEW r \in Rounds, RtcTickInterrupted(p, r)
    PROVE  JobsInv' /\ TimeInv'
<1> DEFINE before == {s \in Rounds : Before(s, r)}
           h == terminal_pids[r[1]]
           table == Ticked(fds, before)
           new == [owner |-> p, pid |-> h, round |-> r, tested |-> table[h][r[2]]]
<1>1. /\ fds' = table /\ waited' = Waited /\ handler = Idle /\ handler' = new
      /\ active' = active /\ terminal_pids' = terminal_pids /\ parent_pcb' = parent_pcb
      /\ blocked' = blocked /\ spoiled' = spoiled
  BY DEF RtcTickInterrupted, processVars
<1>2. fds \in [Pids -> [Fds -> Descriptor]]
  BY DEF IInv, DescriptorInv, TypeOK
<1>3. JobsInv'
  <2>1. UNCHANGED <<processVars, blocked>>
    BY <1>1 DEF processVars
  <2>2. \A q \in Pids, i \in Fds : fds'[q][i].file_table_ptr = fds[q][i].file_table_ptr
    <3> HIDE DEF before
    <3>1. \A q \in Pids, i \in Fds :
             Ticked(fds, before)[q][i].file_table_ptr = fds[q][i].file_table_ptr
      BY <1>2, TickedKeeps
    <3> QED
      BY <1>1, <3>1, Zenon
  <2> QED
    BY <2>1, <2>2, TickJobs
<1>4. /\ handler'.pid = h /\ handler'.round = r
      /\ handler' # Idle'
  <2>1. p # None
    BY NoneIsNoPid
  <2>2. Idle'.owner = None
    BY DEF Idle
  <2> QED
    BY <1>1, <2>1, <2>2
<1>5. ASSUME NEW q \in Pids, blocked[q] # None, <<q, blocked[q]>> \notin spoiled
      PROVE  LET d == fds'[q][blocked[q]]
             IN  Within(waited'[q] + d.file_pos - d.flags, d.file_pos, Pending(q, blocked[q])')
  <2> DEFINE i == blocked[q]
             d == fds[q][i]
  <2>1. /\ i \in UserFds /\ i \in Fds /\ d \in Descriptor /\ d.file_table_ptr = "rtc"
        /\ d.file_pos \in Nat /\ d.flags \in Nat /\ d.flags < BaseRate /\ waited[q] \in Nat
    BY <1>5, Waiting, Zenon
  <2>2. PICK t \in Terminals :
            terminal_pids[t] = q /\ \A u \in Terminals : terminal_pids[u] = q => u = t
    BY <1>5, Waiting, Zenon
  <2>3. <<t, i>> \in Rounds
    BY <2>1 DEF Rounds
  <2>4. Within(waited[q] + d.file_pos - d.flags, d.file_pos, FALSE)
    <3>1. ~Pending(q, i)
      BY <1>1 DEF Pending
    <3> QED
      BY <1>5, <3>1, Zenon DEF IInv, TimeInv, OnTime, Within
  <2>5. fds'[q][i] = IF Before(<<t, i>>, r) /\ d.file_pos > 0 THEN Decremented(d) ELSE d
    <3>1. (\E u \in Terminals : terminal_pids[u] = q /\ <<u, i>> \in before)
             <=> Before(<<t, i>>, r)
      BY <2>2, <2>3, Zenon
    <3> HIDE DEF before
    <3>2. fds'[q][i] = IF /\ \E u \in Terminals : terminal_pids[u] = q /\ <<u, i>> \in before
                          /\ Counts(d)
                       THEN Decremented(d) ELSE d
      BY <1>1, <1>2, <2>1, TickedOne, Zenon
    <3> HIDE DEF d, i
    <3> QED
      BY <2>1, <3>1, <3>2 DEF Counts
  <2>6. waited'[q] = IF d.file_pos # 0 /\ waited[q] < BaseRate THEN waited[q] + 1 ELSE waited[q]
    BY <1>1, <1>5, Zenon DEF Waited
  <2>7. Pending(q, i)' <=> ~Before(<<t, i>>, r)
    <3>1. <<t, i>> = r => q = h
      <4>1. <<t, i>> = r => r[1] = t
        OBVIOUS
      <4> QED
        BY <2>2, <4>1, Zenon
    <3>2. /\ Before(<<t, i>>, r) \/ <<t, i>> = r \/ Before(r, <<t, i>>)
          /\ ~(Before(<<t, i>>, r) /\ Before(r, <<t, i>>)) /\ ~Before(r, r)
      BY <2>3, RoundOrder, Zenon
    <3>3. Pending(q, i)' <=> (<<t, i>> = r /\ q = h) \/ Before(r, <<t, i>>)
      <4>1. Pending(q, i)' <=>
              \E u \in Terminals :
                 /\ terminal_pids[u] = q
                 /\ (<<u, i>> = r /\ q = h) \/ Before(r, <<u, i>>)
        <5> HIDE DEF h, new
        <5> QED
          BY <1>1, <1>4, Zenon DEF Pending
      <4> HIDE DEF h, new
      <4> QED
        BY <2>2, <4>1, Zenon
    <3> HIDE DEF h, new
    <3> QED
      BY <3>1, <3>2, <3>3, Zenon
  <2> HIDE DEF i, d, h, new, table, before
  <2>8. CASE d.file_pos = 0
    <3>1. fds'[q][i] = d /\ waited'[q] = waited[q]
      BY <2>1, <2>5, <2>6, <2>8
    <3>2. \A n : Within(n, 0, FALSE) => \A pending : Within(n, 0, pending)
      BY DEF Within
    <3> QED
      BY <2>4, <2>8, <3>1, <3>2, Zenon DEF i
  <2>9. CASE d.file_pos > 0
    <3>1. /\ Within((waited[q] + 1) + (d.file_pos - 1) - d.flags, d.file_pos - 1, FALSE)
          /\ Within((waited[q] + 1) + d.file_pos - d.flags, d.file_pos, TRUE)
          /\ waited[q] <= d.flags
      BY <2>1, <2>4, <2>9, Differences, Zenon
    <3>2. waited'[q] = waited[q] + 1
      BY <2>1, <2>6, <2>9, <3>1, Sizes
    <3>3. CASE Before(<<t, i>>, r)
      <4>1. fds'[q][i] = Decremented(d)
        BY <2>5, <2>9, <3>3
      <4>2. fds'[q][i].file_pos = d.file_pos - 1 /\ fds'[q][i].flags = d.flags
        BY <2>1, <2>9, <4>1, DecrementedType, Zenon
      <4>3. ~Pending(q, i)'
        BY <2>7, <3>3
      <4> QED
        BY <3>1, <3>2, <4>2, <4>3, Zenon DEF i, Within
    <3>4. CASE ~Before(<<t, i>>, r)
      <4>1. fds'[q][i] = d
        BY <2>5, <3>4
      <4>2. Pending(q, i)'
        BY <2>7, <3>4
      <4> QED
        BY <3>1, <3>2, <4>1, <4>2, Zenon DEF i, Within
    <3> QED
      BY <3>3, <3>4
  <2> QED
    BY <2>1, <2>8, <2>9
<1>6. ASSUME NEW q \in Pids PROVE OnTime(q)'
  BY <1>1, <1>5, Zenon DEF OnTime, Within
<1> QED
  BY <1>3, <1>6, Zenon DEF TimeInv

LEMMA ResumedTime ==
    ASSUME IInv, RtcTickResumed
    PROVE  JobsInv' /\ TimeInv'
<1> DEFINE p == handler.pid
           r == handler.round
           k == r[2]
           after == {s \in Rounds : Before(r, s)}
<1>1. /\ handler # Idle /\ handler' = Idle
      /\ active' = active /\ terminal_pids' = terminal_pids /\ parent_pcb' = parent_pcb
      /\ blocked' = blocked /\ waited' = waited
      /\ spoiled' = IF fds[p][k] = handler.tested /\ terminal_pids[r[1]] = p
                    THEN spoiled ELSE spoiled \cup {<<p, k>>}
  BY DEF RtcTickResumed, processVars
<1>2. PICK loaded \in {fds[p][k].file_pos, handler.tested.file_pos} :
          fds' = Ticked([fds EXCEPT ![p][k] = Decremented([fds[p][k] EXCEPT !.file_pos = loaded])],
                        after)
  BY DEF RtcTickResumed
<1>3. /\ p \in Pids /\ k \in UserFds /\ k \in Fds /\ handler.tested \in Descriptor
      /\ r \in Rounds /\ r[1] \in Terminals
  BY <1>1, HandlerFields DEF IInv, DescriptorInv
<1>4. fds \in [Pids -> [Fds -> Descriptor]]
  BY DEF IInv, DescriptorInv, TypeOK
<1>5. handler.tested.file_pos > 0
  BY <1>1, Zenon DEF IInv, DescriptorInv, HandlerOK
<1> DEFINE m == [fds[p][k] EXCEPT !.file_pos = loaded]
           written == [fds EXCEPT ![p][k] = Decremented(m)]
<1>6. loaded \in 0 .. Width - 1 /\ fds[p][k] \in Descriptor
  BY <1>3, <1>4, Fields
<1>7. /\ m \in Descriptor /\ m.file_pos = loaded /\ m.flags = fds[p][k].flags
      /\ m.file_table_ptr = fds[p][k].file_table_ptr
  BY <1>6, Moved, Zenon
<1>8. fds' = Ticked(written, after)
  BY <1>2
<1> HIDE DEF m
<1>9. /\ Decremented(m) \in Descriptor /\ Decremented(m).flags = fds[p][k].flags
      /\ Decremented(m).file_table_ptr = fds[p][k].file_table_ptr
      /\ loaded > 0 => Decremented(m).file_pos = loaded - 1
  BY <1>7, DecrementedType
<1>10. /\ written \in [Pids -> [Fds -> Descriptor]]
       /\ written[p][k] = Decremented(m)
       /\ \A q \in Pids, j \in Fds : q # p \/ j # k => written[q][j] = fds[q][j]
  <2> HIDE DEF p, k
  <2> QED
    BY <1>3, <1>4, <1>9
<1> HIDE DEF written, after
<1>11. JobsInv'
  <2>1. UNCHANGED <<processVars, blocked>>
    BY <1>1 DEF processVars
  <2>2. \A q \in Pids, j \in Fds : fds'[q][j].file_table_ptr = fds[q][j].file_table_ptr
    <3>1. \A q \in Pids, j \in Fds :
             Ticked(written, after)[q][j].file_table_ptr = written[q][j].file_table_ptr
      BY <1>10, TickedKeeps
    <3>2. \A q \in Pids, j \in Fds : written[q][j].file_table_ptr = fds[q][j].file_table_ptr
      BY <1>9, <1>10, Zenon
    <3> QED
      BY <1>8, <3>1, <3>2, Zenon
  <2> QED
    BY <2>1, <2>2, TickJobs
<1>12. ASSUME NEW q \in Pids, blocked[q] # None, <<q, blocked[q]>> \notin spoiled'
       PROVE  LET d == fds'[q][blocked[q]]
              IN  Within(waited[q] + d.file_pos - d.flags, d.file_pos, FALSE)
  <2> DEFINE j == blocked[q]
             d == fds[q][j]
  <2>1. /\ j \in UserFds /\ j \in Fds /\ d \in Descriptor /\ d.file_table_ptr = "rtc"
        /\ d.file_pos \in Nat /\ d.flags \in Nat /\ waited[q] \in Nat
    BY <1>12, Waiting, Zenon
  <2>2. PICK t \in Terminals :
            terminal_pids[t] = q /\ \A u \in Terminals : terminal_pids[u] = q => u = t
    BY <1>12, Waiting, Zenon
  <2>3. <<t, j>> \in Rounds
    BY <2>1 DEF Rounds
  <2>4. /\ <<q, j>> \notin spoiled
        /\ q = p /\ j = k => fds[p][k] = handler.tested /\ terminal_pids[r[1]] = p
    <3> HIDE DEF p, r, k, j
    <3>1. <<q, j>> \notin spoiled'
      BY <1>12 DEF j
    <3> QED
      BY <1>1, <3>1
  <2>5. Within(waited[q] + d.file_pos - d.flags, d.file_pos, Pending(q, j))
    BY <1>12, <2>4, Zenon DEF IInv, TimeInv, OnTime
  <2>6. Pending(q, j) <=> (<<t, j>> = r /\ q = p) \/ Before(r, <<t, j>>)
    BY <1>1, <2>2, Zenon DEF Pending
  <2>7. (\E u \in Terminals : terminal_pids[u] = q /\ <<u, j>> \in after) <=> Before(r, <<t, j>>)
    BY <2>2, <2>3, Zenon DEF after
  <2>8. fds'[q][j] = IF Before(r, <<t, j>>) /\ Counts(written[q][j])
                     THEN Decremented(written[q][j]) ELSE written[q][j]
    <3>1. fds'[q][j] = IF /\ \E u \in Terminals : terminal_pids[u] = q /\ <<u, j>> \in after
                          /\ Counts(written[q][j])
                       THEN Decremented(written[q][j]) ELSE written[q][j]
      BY <1>8, <1>10, <2>1, TickedOne, ZenonT(40)
    <3> HIDE DEF j, r
    <3> QED
      BY <2>7, <3>1
  <2>9. CASE q = p /\ j = k
    <3>1. t = r[1]
      BY <1>3, <2>2, <2>4, <2>9
    <3>2. <<t, j>> = r
      BY <1>3, <2>9, <3>1 DEF Rounds
    <3>3. Pending(q, j) /\ ~Before(r, <<t, j>>)
      BY <1>3, <2>6, <2>9, <3>2, RoundOrder, Zenon
    <3>4. fds'[q][j] = Decremented(m)
      BY <1>10, <2>8, <2>9, <3>3, Zenon
    <3>5. loaded = d.file_pos /\ d.file_pos > 0 /\ d = fds[p][k]
      BY <1>2, <1>5, <2>4, <2>9
    <3>6. fds'[q][j].file_pos = d.file_pos - 1 /\ fds'[q][j].flags = d.flags
      BY <1>9, <3>4, <3>5, Zenon
    <3> HIDE DEF d
    <3>7. Within(waited[q] + d.file_pos - d.flags, d.file_pos, TRUE)
      BY <2>5, <3>3, Zenon DEF Within
    <3>8. Within(waited[q] + (d.file_pos - 1) - d.flags, d.file_pos - 1, FALSE)
      BY <2>1, <3>5, <3>7, Differences, Zenon
    <3> QED
      BY <3>6, <3>8, Zenon
  <2>10. CASE ~(q = p /\ j = k)
    <3>1. written[q][j] = d
      BY <1>10, <2>1, <2>10, Zenon
    <3>2. Pending(q, j) <=> Before(r, <<t, j>>)
      <4>1. <<t, j>> = r => j = k
        BY <1>3 DEF Rounds
      <4> QED
        BY <2>6, <2>10, <4>1, Zenon
    <3>3. fds'[q][j] = IF Pending(q, j) /\ d.file_pos > 0 THEN Decremented(d) ELSE d
      <4>1. fds'[q][j] = IF Before(r, <<t, j>>) /\ Counts(d) THEN Decremented(d) ELSE d
        BY <2>8, <3>1, Zenon
      <4> HIDE DEF d, r
      <4> QED
        BY <2>1, <3>2, <4>1 DEF Counts
    <3> HIDE DEF d
    <3>4. CASE Pending(q, j) /\ d.file_pos > 0
      <4>1. Within(waited[q] + d.file_pos - d.flags, d.file_pos, TRUE)
        BY <2>5, <3>4, Zenon DEF Within
      <4>2. Within(waited[q] + (d.file_pos - 1) - d.flags, d.file_pos - 1, FALSE)
        BY <2>1, <3>4, <4>1, Differences, Zenon
      <4>3. fds'[q][j] = Decremented(d)
        BY <3>3, <3>4, Zenon
      <4>4. fds'[q][j].file_pos = d.file_pos - 1 /\ fds'[q][j].flags = d.flags
        BY <2>1, <3>4, <4>3, DecrementedType, Zenon
      <4> QED
        BY <4>2, <4>4, Zenon
    <3>5. CASE ~(Pending(q, j) /\ d.file_pos > 0)
      <4>1. fds'[q][j] = d
        BY <3>3, <3>5, Zenon
      <4>2. d.file_pos = 0 \/ ~Pending(q, j)
        BY <2>1, <3>5
      <4>3. Within(waited[q] + d.file_pos - d.flags, d.file_pos, FALSE)
        BY <2>5, <4>2, Zenon DEF Within
      <4> QED
        BY <4>1, <4>3, Zenon
    <3> QED
      BY <3>4, <3>5
  <2> QED
    BY <2>9, <2>10
<1>13. ASSUME NEW q \in Pids PROVE OnTime(q)'
  <2>1. handler' = Idle'
    BY <1>1 DEF Idle, Unused, Blank
  <2>2. ~Pending(q, blocked[q])'
    BY <2>1, Zenon DEF Pending
  <2> QED
    BY <1>1, <1>12, <2>2, Zenon DEF OnTime, Within
<1> QED
  BY <1>11, <1>13, Zenon DEF TimeInv

-----------------------------------------------------------------------------
(* The theorem about rtc_read                                              *)

LEMMA InitTime ==
    ASSUME Init
    PROVE  IInv
<1>1. DescriptorInv
  BY InitDescriptors
<1>2. JobsInv
  BY DEF Init, JobsInv, HoldersOK, ParentsOK, BlockedOK
<1>3. TimeInv
  BY DEF Init, TimeInv, OnTime
<1> QED
  BY <1>1, <1>2, <1>3 DEF IInv

LEMMA StepTime ==
    ASSUME IInv, [Next]_vars
    PROVE  IInv'
<1>0. DescriptorInv /\ DescriptorInv' /\ JobsInv
  BY StepDescriptors DEF IInv
<1> SUFFICES JobsInv' /\ TimeInv'
  BY <1>0 DEF IInv
<1>1. ASSUME NEW t \in Terminals, Create(t) PROVE JobsInv' /\ TimeInv'
  BY <1>0, <1>1, CreateJobs, ProcessStep DEF Create
<1>2. ASSUME NEW t \in Terminals, HaltChild(t) PROVE JobsInv' /\ TimeInv'
  BY <1>0, <1>2, HaltChildJobs, ProcessStep DEF HaltChild
<1>3. ASSUME NEW t \in Terminals, HaltRoot(t) PROVE JobsInv' /\ TimeInv'
  BY <1>0, <1>3, HaltRootJobs, ProcessStep DEF HaltRoot
<1>4. ASSUME NEW p \in Pids, SystemCall(p) PROVE JobsInv' /\ TimeInv'
  <2>1. ASSUME NEW d, OpenAs(p, d) PROVE JobsInv' /\ TimeInv'
    <3>1. PICK i \in UserFds : SetFd(p, i, d) /\ spoiled' = spoiled \ {<<p, i>>}
      BY <2>1 DEF OpenAs
    <3>2. CanCall(p) /\ UNCHANGED <<processVars, blocked, waited, handler>> /\ i \in Fds
      BY <2>1, Sizes DEF OpenAs
    <3> QED
      BY <3>1, <3>2, CallTime
  <2>2. ASSUME \/ \E f \in Files : file_open(p, f)
               \/ directory_open(p)
               \/ rtc_open(p)
        PROVE  JobsInv' /\ TimeInv'
    BY <2>1, <2>2 DEF file_open, directory_open, rtc_open
  <2>3. ASSUME NEW i \in Fds, close_handler(p, i) PROVE JobsInv' /\ TimeInv'
    BY <2>3, CallTime DEF close_handler
  <2>4. ASSUME NEW i \in Fds, NEW n \in ReadSizes, file_read(p, i, n) PROVE JobsInv' /\ TimeInv'
    BY <2>4, CallTime DEF file_read
  <2>5. ASSUME NEW i \in Fds, directory_read(p, i) PROVE JobsInv' /\ TimeInv'
    BY <2>5, CallTime DEF directory_read
  <2>6. ASSUME NEW i \in Fds, NEW f \in Rates, rtc_write(p, i, f) PROVE JobsInv' /\ TimeInv'
    BY <2>6, CallTime DEF rtc_write
  <2>7. ASSUME NEW i \in Fds, rtc_read(p, i) PROVE JobsInv' /\ TimeInv'
    BY <2>7, RtcReadTime
  <2>8. CASE rtc_read_return(p)
    BY <2>8, RtcReadReturnTime
  <2> QED
    BY <1>4, <2>2, <2>3, <2>4, <2>5, <2>6, <2>7, <2>8, Zenon DEF SystemCall
<1>5. CASE RtcTick
  BY <1>5, RtcTickTime
<1>6. ASSUME NEW p \in Pids, NEW r \in Rounds, RtcTickInterrupted(p, r) PROVE JobsInv' /\ TimeInv'
  BY <1>6, InterruptedTime
<1>7. CASE RtcTickResumed
  BY <1>7, ResumedTime
<1>8. CASE UNCHANGED vars
  <2>1. /\ fds' = fds /\ active' = active /\ terminal_pids' = terminal_pids
        /\ parent_pcb' = parent_pcb /\ blocked' = blocked /\ waited' = waited
        /\ spoiled' = spoiled /\ handler' = handler
    BY <1>8 DEF vars, processVars
  <2>2. \A q \in Pids : Undisturbed(q)
    BY <2>1 DEF Undisturbed
  <2>3. JobsInv'
    BY <1>0, <2>1, Zenon DEF JobsInv, HoldersOK, ParentsOK, BlockedOK
  <2> QED
    BY <2>1, <2>2, <2>3, ProcessStep
<1> QED
  BY <1>1, <1>2, <1>3, <1>4, <1>5, <1>6, <1>7, <1>8, Zenon DEF Next

\* The inductive invariant with the processes, the waits and the interrupted handler.
THEOREM Invariance == Spec => []IInv
BY InitTime, StepTime, PTL DEF Spec

\* rtc_read waits for one period, give or take the interrupt that is being handled.
THEOREM RtcReadIsOnTime == Spec => []RtcReadOnTime
<1>1. IInv => RtcReadOnTime
  <2>1. ASSUME IInv, NEW p \in Pids, blocked[p] # None, <<p, blocked[p]>> \notin spoiled
        PROVE  LET d == fds[p][blocked[p]] IN waited[p] + d.file_pos - d.flags \in -1 .. 1
    <3>1. \A n, pos, pending : Within(n, pos, pending) => n \in -1 .. 1
      BY DEF Within
    <3> QED
      BY <2>1, <3>1, Zenon DEF IInv, TimeInv, OnTime
  <2> QED
    BY <2>1, Zenon DEF RtcReadOnTime
<1> QED
  BY <1>1, Invariance, PTL
=============================================================================
