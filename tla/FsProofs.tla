------------------------------ MODULE FsProofs ------------------------------
(***************************************************************************)
(* Proofs about the file system, for every disk size, directory block,     *)
(* bound on a file and set of names: the bitmaps, the inode table and the  *)
(* counters always account for the space, a write to an existing file is   *)
(* all or nothing, and, when names are ordinary and only files are written *)
(* to, every directory and the path of the shell are in order and rm and   *)
(* rmdir take away one name.                                               *)
(***************************************************************************)
EXTENDS FsLemmas

-----------------------------------------------------------------------------
(* What the commands do to directories                                     *)

\* Bits are set and counters change, and the directories are as they were.
LEMMA MarkedDirs ==
  ASSUME NEW d \in Disk, NEW e \in Disk, Entries(d), e.inode = d.inode, e.data = d.data,
         d.ib \subseteq e.ib
  PROVE  Entries(e) /\ Keeps(d, e) /\ DirsOf(e) = DirsOf(d)
<1>1. DirsOf(e) = DirsOf(d)
  BY Zenon DEF DirsOf
<1>2. \A b \in DataBlock \ DirBlocks(d), s \in Slot : ~Named(e, b, s)
  BY Zenon DEF Named, Entries
<1>. QED
  BY <1>1, <1>2, SameDirs, Zenon

\* Cells that are the same.
LEMMA SameCells ==
  ASSUME NEW d, NEW e, NEW n, e.inode[n].blk = d.inode[n].blk, e.data = d.data
  PROVE  Cells(e, n) = Cells(d, n) /\ \A p : Cell(e, n, p) = Cell(d, n, p)
BY Zenon DEF Cells, Cell, BlockOf

\* What taking an inode and a block leaves alone.
LEMMA TookBoth ==
  ASSUME SetFacts, NEW d, Sound(d, {})
  PROVE  LET e == TakeBoth(d)
             g == InodesDown(BlocksDown(e, 1))
         IN  /\ e.inode = d.inode /\ e.data = d.data /\ d.ib \subseteq e.ib
             /\ g.inode = d.inode /\ g.data = d.data
             /\ g.ib = d.ib \cup ({GetFreeInode(d)} \ {0})
<1> DEFINE e == TakeBoth(d)
           f == BlocksDown(e, 1)
           g == InodesDown(f)
           I == {GetFreeInode(d)} \ {0}
<1>1. d \in Disk /\ e \in Disk
  BY TakeBothKeeps, Zenon DEF Sound
<1>2. e.inode = d.inode /\ e.data = d.data /\ e.ib = d.ib \cup I
  BY <1>1, Zenon DEF TakeBoth, Disk
<1> HIDE DEF e, I
<1>3. f \in Disk /\ f.inode = e.inode /\ f.data = e.data /\ f.ib = e.ib
  BY <1>1, BlocksDownIs
<1> HIDE DEF f
<1>4. g.inode = f.inode /\ g.data = f.data /\ g.ib = f.ib
  BY <1>3, Zenon DEF InodesDown, Disk
<1> HIDE DEF g
<1>. QED
  BY <1>2, <1>3, <1>4, Zenon DEF e, f, g, I

\* The inode and the block taken belong to nobody: no directory has the inode's number
\* and no entry leads to it.
LEMMA TookFresh ==
  ASSUME SetFacts, NEW d, Sound(d, {}), Entries(d), CanTakeBoth(d), NEW n \in DirsOf(d),
         NEW name \in Names,
         \A p \in Cells(d, n) : Cell(d, n, p).name # name
  PROVE  LET g == InodesDown(BlocksDown(TakeBoth(d), 1))
             i == GetFreeInode(d)
         IN  /\ Entries(g) /\ Keeps(d, g) /\ DirsOf(g) = DirsOf(d)
             /\ i \in Inum /\ i \in g.ib /\ i \notin DirsOf(g)
             /\ Fresh(g, n, [name |-> name, inode |-> i])
<1> USE Zenon
<1> DEFINE g == InodesDown(BlocksDown(TakeBoth(d), 1))
           i == GetFreeInode(d)
           c == [name |-> name, inode |-> i]
<1>1. d \in Disk /\ g \in Disk
  BY TakeAndCount DEF Sound
<1>2. i \in Inum \ d.ib /\ i # 0
  BY GetFreeInodeIs DEF CanTakeBoth
<1>3. g.inode = d.inode /\ g.data = d.data /\ g.ib = d.ib \cup ({i} \ {0})
  BY TookBoth
<1> HIDE DEF g, i
<1>4. d.ib \subseteq g.ib /\ i \in g.ib
  BY <1>2, <1>3
<1>5. Entries(g) /\ Keeps(d, g) /\ DirsOf(g) = DirsOf(d)
  BY <1>1, <1>3, <1>4, MarkedDirs
<1>6. i \notin DirsOf(g) /\ i \notin 1 .. Reserved
  BY <1>2, <1>5 DEF Entries
<1>7. \A p \in Cells(g, n) : Cell(g, n, p).name # name
  <2>1. g.inode[n].blk = d.inode[n].blk /\ g.data = d.data
    BY <1>3
  <2>2. Cells(g, n) = Cells(d, n) /\ \A p : Cell(g, n, p) = Cell(d, n, p)
    BY <2>1, SameCells, SMT
  <2>. QED
    BY <2>2
<1>8. ASSUME NEW b \in DataBlock, NEW s \in Slot, Named(g, b, s)
      PROVE  g.data[b][s].inode # i
  <2>1. Named(d, b, s) /\ g.data[b][s] = d.data[b][s]
    BY <1>3, <1>8 DEF Named
  <2>2. d.data[b][s].inode \in d.ib
    BY <2>1 DEF Entries
  <2>. QED
    BY <1>2, <2>1, <2>2
<1>9. Fresh(g, n, c)
  <2>1. c.name = name /\ c.inode = i
    OBVIOUS
  <2> HIDE DEF c
  <2>. QED
    BY <1>4, <1>6, <1>7, <1>8, <2>1 DEF Fresh
<1>. QED
  BY <1>2, <1>4, <1>5, <1>6, <1>9 DEF g, i

\* An inode that is no directory is written, and stays none.
LEMMA NewFile ==
  ASSUME NEW d \in Disk, Entries(d), NEW i \in Inum, i \notin DirsOf(d),
         NEW r \in InodeSet, r.mode # "dir"
  PROVE  LET e == InsertInode(d, i, r)
         IN  /\ Entries(e) /\ Keeps(d, e) /\ DirsOf(e) = DirsOf(d)
             /\ e.data = d.data /\ e.ib = d.ib
             /\ \A n \in DirsOf(d) : e.inode[n] = d.inode[n]
<1> USE Zenon
<1> DEFINE e == InsertInode(d, i, r)
<1>1. /\ e \in Disk /\ e.data = d.data /\ e.ib = d.ib
      /\ e.inode = [d.inode EXCEPT ![i] = r]
  BY DEF InsertInode, Disk
<1> HIDE DEF e
<1>2. e.inode[i] = r /\ \A n \in Inum \ {i} : e.inode[n] = d.inode[n]
  BY <1>1, DiskFields
<1>3. \A n \in DirsOf(d) : e.inode[n] = d.inode[n]
  BY <1>2 DEF DirsOf
<1>4. DirsOf(e) = DirsOf(d)
  BY <1>2 DEF DirsOf
<1>5. \A b \in DataBlock \ DirBlocks(d), s \in Slot : ~Named(e, b, s)
  BY <1>1 DEF Named, Entries
<1>6. Entries(e) /\ Keeps(d, e)
  BY <1>1, <1>3, <1>4, <1>5, SameDirs
<1>. QED
  BY <1>1, <1>3, <1>4, <1>6 DEF e

\* fsCreate keeps the directories, and so does a create that stops halfway.
LEMMA CreateDir ==
  ASSUME SetFacts, NEW d, Sound(d, {}), Entries(d), NEW n \in DirsOf(d),
         NEW name \in Names \cup {Bad}
  PROVE  Entries(FsCreate(d, n, name).d) /\ Keeps(d, FsCreate(d, n, name).d)
<1> USE Zenon
<1> DEFINE i == GetFreeInode(d)
           b == GetFreeBlock(d)
           old == Lookup(d, n, name)
           d1 == InodesDown(BlocksDown(TakeBoth(d), 1))
           x == [mode |-> "file", size |-> 0, blk |-> <<b>>]
           d2 == InsertInode(d1, i, x)
           c == [name |-> name, inode |-> i]
           ins == InsertEntry(d2, n, c)
           r == FsCreate(d, n, name)
<1>1. d \in Disk /\ n \in Inum /\ Orderly(d, n)
  BY DEF Sound, DirsOf, Entries
<1>2. CASE cachedFree = 0 \/ name = Bad \/ old.ok
  <2>1. r.d = d
    BY <1>2 DEF FsCreate
  <2>. QED
    BY <2>1, KeepsSame
<1>3. CASE ~(cachedFree = 0 \/ name = Bad \/ old.ok) /\ ~CanTakeBoth(d)
  <2>1. r.d = TakeBoth(d)
    BY <1>3 DEF FsCreate
  <2>2. /\ TakeBoth(d) \in Disk /\ TakeBoth(d).inode = d.inode /\ TakeBoth(d).data = d.data
        /\ d.ib \subseteq TakeBoth(d).ib
    BY TakeBothKeeps, TookBoth DEF Sound
  <2>. QED
    BY <1>1, <2>1, <2>2, MarkedDirs
<1>4. CASE ~(cachedFree = 0 \/ name = Bad \/ old.ok) /\ CanTakeBoth(d)
  <2>1. r.d = ins.d
    BY <1>4 DEF FsCreate
  <2>2. name \in Names /\ \A p \in Cells(d, n) : Cell(d, n, p).name # name
    <3>1. name \in Names
      BY <1>4
    <3>. QED
      BY <1>1, <1>4, <3>1, LookupNamed
  <2>3. /\ Entries(d1) /\ Keeps(d, d1) /\ DirsOf(d1) = DirsOf(d)
        /\ i \in Inum /\ i \in d1.ib /\ i \notin DirsOf(d1) /\ Fresh(d1, n, c)
    BY <1>4, <2>2, TookFresh
  <2>4. b \in DataBlock /\ Sound(d1, {b}) /\ d1 \in Disk
    BY <1>4, TakeAndCount DEF Sound
  <2>5. c \in CellSet /\ c.name = name
    <3>1. name \in Formatted /\ name # Bad
      BY <1>4, <2>2 DEF Formatted
    <3> HIDE DEF i
    <3>. QED
      BY <2>3, <3>1, EntryIs
  <2> HIDE DEF d1, i, b, c
  <2>6. x \in InodeSet /\ x.mode # "dir"
    <3>1. <<b>> \in Seq(DataBlock) /\ Len(<<b>>) = 1
      BY <2>4, SMT
    <3>. QED
      BY <3>1, FsAssumption, SMT DEF InodeSet
  <2>7. Sound(d2, {})
    BY <2>3, <2>4, NewInodeKeeps
  <2> HIDE DEF x
  <2>8. /\ Entries(d2) /\ Keeps(d1, d2) /\ DirsOf(d2) = DirsOf(d1)
        /\ d2.data = d1.data /\ d2.ib = d1.ib /\ d2.inode[n] = d1.inode[n]
    BY <2>3, <2>4, <2>6, NewFile
  <2> HIDE DEF d2
  <2>9. Fresh(d2, n, c)
    <3>1. Cells(d2, n) = Cells(d1, n) /\ \A p : Cell(d2, n, p) = Cell(d1, n, p)
      BY <2>8, SameCells, SMT
    <3>. QED
      BY <2>3, <2>8, <3>1 DEF Fresh, Named
  <2>10. Entries(ins.d) /\ Keeps(d2, ins.d)
    <3>1. n \in DirsOf(d2) /\ c.name \in Names \cup {Dot, DotDot}
      BY <2>2, <2>3, <2>5, <2>8
    <3>. QED
      BY <2>5, <2>7, <2>8, <2>9, <3>1, InsertDir
  <2> HIDE DEF ins
  <2>11. Keeps(d, ins.d)
    BY <2>3, <2>8, <2>10, KeepsBoth
  <2> HIDE DEF r
  <2>. QED
    BY <2>1, <2>10, <2>11 DEF r
<1>. QED
  BY <1>2, <1>3, <1>4

\* A block that no inode has becomes a directory's first block, as it is.
LEMMA NewDir ==
  ASSUME SetFacts, NEW d, NEW b \in DataBlock, Sound(d, {b}), Entries(d), NEW i \in Inum,
         i \in d.ib, i \notin DirsOf(d)
  PROVE  LET e == InsertInode(d, i, [mode |-> "dir", size |-> 0, blk |-> <<b>>])
         IN  Entries(e) /\ Keeps(d, e) /\ i \in DirsOf(e)
<1> USE Zenon
<1> DEFINE r == [mode |-> "dir", size |-> 0, blk |-> <<b>>]
           e == InsertInode(d, i, r)
<1>1. d \in Disk /\ b \notin Owned(d.inode)
  BY DEF Sound
<1>2. r.mode = "dir" /\ r.blk = <<b>> /\ Rng(<<b>>) = {b}
  BY SMT DEF Rng
<1>3. e \in Disk
  BY NewInodeKeeps DEF Sound
<1> HIDE DEF r
<1>4. e.data = d.data /\ e.ib = d.ib /\ e.inode = [d.inode EXCEPT ![i] = r]
  BY <1>1 DEF InsertInode, Disk
<1> HIDE DEF e
<1>5. e.inode[i] = r /\ \A n \in Inum \ {i} : e.inode[n] = d.inode[n]
  BY <1>1, <1>4, DiskFields
<1>6. /\ \A n \in DirsOf(d) : n # i /\ n \in Inum /\ e.inode[n] = d.inode[n]
      /\ DirsOf(e) = DirsOf(d) \cup {i}
  BY <1>2, <1>5 DEF DirsOf
<1>7. DirBlocks(d) \subseteq DirBlocks(e) /\ b \notin DirBlocks(d)
  <2>1. DirBlocks(d) \subseteq DirBlocks(e)
    BY <1>6 DEF DirBlocks
  <2>2. DirBlocks(d) \subseteq Owned(d.inode)
    BY DEF DirBlocks, DirsOf, Owned
  <2>. QED
    BY <1>1, <2>1, <2>2
<1>8. \A c \in DataBlock, s \in Slot : Named(e, c, s) <=> Named(d, c, s)
  BY <1>4 DEF Named
<1>9. ASSUME NEW c \in DataBlock, NEW s \in Slot, Named(e, c, s)
      PROVE  c \in DirBlocks(e) /\ e.data[c][s].inode \in e.ib \ (1 .. Reserved)
  BY <1>4, <1>7, <1>8, <1>9 DEF Entries
<1>10. ASSUME NEW c \in DataBlock, NEW f \in DataBlock, NEW s \in Slot, NEW u \in Slot,
              Named(e, c, s), Named(e, f, u), e.data[c][s].inode = e.data[f][u].inode
       PROVE  c = f /\ s = u
  <2>1. Named(d, c, s) /\ Named(d, f, u) /\ d.data[c][s].inode = d.data[f][u].inode
    BY <1>4, <1>8, <1>10
  <2>. QED
    BY <2>1 DEF Entries
<1>11. ASSUME NEW n \in DirsOf(d) PROVE Orderly(e, n)
  <2>1. e.inode[n].blk = d.inode[n].blk /\ Orderly(d, n)
    BY <1>6 DEF Entries
  <2>2. e.data = d.data
    BY <1>4
  <2>3. Cells(e, n) = Cells(d, n) /\ \A p : Cell(e, n, p) = Cell(d, n, p)
    BY <2>1, <2>2, SameCells, SMTT(20)
  <2>. QED
    BY <2>1, <2>3 DEF Orderly
<1>12. Orderly(e, i)
  <2>1. ASSUME NEW p \in Cells(e, i) PROVE Cell(e, i, p).name \notin Names
    <3>1. /\ BlockOf(e, i, p) \in Rng(e.inode[i].blk) /\ p % EPB \in Slot
          /\ Cell(e, i, p) = e.data[BlockOf(e, i, p)][p % EPB]
      BY <1>3, CellPlace, CellIs
    <3>2. BlockOf(e, i, p) = b
      BY <1>2, <1>5, <3>1
    <3>3. ~Named(e, b, p % EPB)
      BY <1>7, <1>8, <3>1 DEF Entries
    <3>. QED
      BY <3>1, <3>2, <3>3 DEF Named
  <2>. QED
    BY <2>1 DEF Orderly
<1>13. Entries(e)
  <2>1. DirsOf(e) \cup (1 .. Reserved) \subseteq e.ib
    BY <1>4, <1>6 DEF Entries
  <2>2. \A n \in DirsOf(e) : Orderly(e, n)
    BY <1>6, <1>11, <1>12
  <2>. QED
    BY <1>9, <1>10, <2>1, <2>2 DEF Entries
<1>14. Keeps(d, e)
  BY <1>4, <1>6 DEF Keeps
<1>. QED
  BY <1>6, <1>13, <1>14 DEF e, r

\* fsMkdir keeps the directories, and so does a mkdir that stops halfway.
LEMMA MkdirDir ==
  ASSUME SetFacts, NEW d, Sound(d, {}), Entries(d), NEW n \in DirsOf(d),
         NEW name \in Names \cup {Bad}
  PROVE  Entries(FsMkdir(d, n, name).d) /\ Keeps(d, FsMkdir(d, n, name).d)
<1> USE Zenon
<1> DEFINE i == GetFreeInode(d)
           b == GetFreeBlock(d)
           d1 == InodesDown(BlocksDown(TakeBoth(d), 1))
           c1 == [name |-> name, inode |-> i]
           ins == InsertEntry(d1, n, c1)
           d2 == InsertInode(ins.d, i, [mode |-> "dir", size |-> 0, blk |-> <<b>>])
           c2 == [name |-> Dot, inode |-> i]
           d3 == InsertEntry(d2, i, c2).d
           c3 == [name |-> DotDot, inode |-> n]
           d4 == InsertEntry(d3, i, c3).d
           r == FsMkdir(d, n, name)
<1>1. d \in Disk /\ n \in Inum /\ Orderly(d, n)
  BY DEF Sound, DirsOf, Entries
<1>2. CASE IsExist(d, n, name) \/ name = Bad
  <2>1. r.d = d
    BY <1>2 DEF FsMkdir
  <2>. QED
    BY <2>1, KeepsSame
<1>3. CASE ~(IsExist(d, n, name) \/ name = Bad) /\ ~CanTakeBoth(d)
  <2>1. r.d = TakeBoth(d)
    BY <1>3 DEF FsMkdir
  <2>2. /\ TakeBoth(d) \in Disk /\ TakeBoth(d).inode = d.inode /\ TakeBoth(d).data = d.data
        /\ d.ib \subseteq TakeBoth(d).ib
    BY TakeBothKeeps, TookBoth DEF Sound
  <2>. QED
    BY <1>1, <2>1, <2>2, MarkedDirs
<1>4. CASE ~(IsExist(d, n, name) \/ name = Bad) /\ CanTakeBoth(d)
  <2>1. r.d = ins.d \/ r.d = d4
    BY <1>4 DEF FsMkdir
  <2>2. name \in Names /\ \A p \in Cells(d, n) : Cell(d, n, p).name # name
    <3>1. name \in Names
      BY <1>4
    <3>2. \A p \in Cells(d, n) : Cell(d, n, p).name = name => Cell(d, n, p) \in ReadDir(d, n)
      BY <1>1, <3>1, ListsNamed
    <3>. QED
      BY <1>4, <3>1, <3>2 DEF IsExist
  <2>3. /\ Entries(d1) /\ Keeps(d, d1) /\ DirsOf(d1) = DirsOf(d)
        /\ i \in Inum /\ i \in d1.ib /\ i \notin DirsOf(d1) /\ Fresh(d1, n, c1)
    BY <1>4, <2>2, TookFresh
  <2>4. b \in DataBlock /\ Sound(d1, {b})
    BY <1>4, TakeAndCount
  <2>5. /\ c1 \in CellSet /\ c1.name = name
        /\ c2 \in CellSet /\ c2.name = Dot /\ c3 \in CellSet /\ c3.name = DotDot
    <3>1. /\ Dot \in Formatted /\ DotDot \in Formatted /\ Dot # Bad /\ DotDot # Bad
          /\ name \in Formatted /\ name # Bad
      BY <1>4 DEF Formatted, Dot, DotDot, Bad
    <3> HIDE DEF i
    <3>. QED
      BY <1>1, <2>3, <3>1, EntryIs
  <2>6. Dot \notin Names /\ DotDot \notin Names
    BY FsAssumption
  <2> HIDE DEF d1, i, b, c1, c2, c3
  <2>7. /\ Entries(ins.d) /\ Keeps(d1, ins.d) /\ DirsOf(ins.d) = DirsOf(d1)
        /\ ins.d.ib = d1.ib
    <3>1. n \in DirsOf(d1) /\ c1.name \in Names \cup {Dot, DotDot}
      BY <2>2, <2>3, <2>5
    <3>. QED
      BY <2>3, <2>4, <2>5, <3>1, InsertDir
  <2>8. Sound(ins.d, {b})
    BY <1>1, <2>4, <2>5, InsertEntryKeeps
  <2> HIDE DEF ins
  <2>9. Sound(d2, {})
    BY <2>3, <2>4, <2>8, NewInodeKeeps
  <2>10. Entries(d2) /\ Keeps(ins.d, d2) /\ i \in DirsOf(d2)
    <3>1. i \in ins.d.ib /\ i \notin DirsOf(ins.d)
      BY <2>3, <2>7
    <3>. QED
      BY <2>3, <2>4, <2>7, <2>8, <3>1, NewDir
  <2> HIDE DEF d2
  <2>11. Sound(d3, {})
    BY <2>3, <2>5, <2>9, InsertEntryKeeps
  <2>12. Entries(d3) /\ Keeps(d2, d3) /\ i \in DirsOf(d3)
    <3>1. c2.name \in Names \cup {Dot, DotDot} /\ c2.name \notin Names
      BY <2>5, <2>6
    <3>. QED
      BY <2>5, <2>9, <2>10, <3>1, InsertDir
  <2> HIDE DEF d3
  <2>13. Entries(d4) /\ Keeps(d3, d4)
    <3>1. c3.name \in Names \cup {Dot, DotDot} /\ c3.name \notin Names
      BY <2>5, <2>6
    <3>. QED
      BY <2>5, <2>11, <2>12, <3>1, InsertDir
  <2> HIDE DEF d4
  <2>14. Keeps(d, ins.d)
    BY <2>3, <2>7, KeepsBoth
  <2>15. Keeps(d, d2)
    BY <2>10, <2>14, KeepsBoth
  <2>16. Keeps(d, d3)
    BY <2>12, <2>15, KeepsBoth
  <2>17. Keeps(d, d4)
    BY <2>13, <2>16, KeepsBoth
  <2> HIDE DEF r
  <2>. QED
    BY <2>1, <2>7, <2>13, <2>14, <2>17 DEF r
<1>. QED
  BY <1>2, <1>3, <1>4

\* A write to an inode that is no directory keeps the directories.
LEMMA WriteDir ==
  ASSUME NEW d, Sound(d, {}), Entries(d), NEW w, NEW n, NEW size, NEW text,
         Written(d, w, n, size, text), n \notin DirsOf(d)
  PROVE  Entries(w) /\ Keeps(d, w)
<1> USE Zenon
<1> DEFINE new == Rng(w.inode[n].blk)
<1>1. d \in Disk /\ w \in Disk /\ n \in Inum /\ OwnedOnce(d.inode)
  BY DEF Sound, Written
<1>2. /\ w.ib = d.ib /\ w.inode[n].mode = d.inode[n].mode
      /\ \A m \in Inum \ {n} : w.inode[m] = d.inode[m]
      /\ new \subseteq Rng(d.inode[n].blk) \cup FreeBlocks(d)
      /\ \A b \in DataBlock \ new : w.data[b] = d.data[b]
      /\ \A b \in new, s \in Slot : w.data[b][s].name \notin Names
  BY DEF Written
<1> HIDE DEF new
<1>3. DirsOf(w) = DirsOf(d) /\ \A m \in DirsOf(d) : m \in Inum \ {n} /\ w.inode[m] = d.inode[m]
  BY <1>1, <1>2 DEF DirsOf
<1>4. ASSUME NEW m \in DirsOf(d), NEW b \in Rng(d.inode[m].blk)
      PROVE  b \in DataBlock \ new
  <2>1. b \in DataBlock /\ m \in Inum /\ m # n
    BY <1>1, <1>3, RngData
  <2>2. b \notin Rng(d.inode[n].blk)
    BY <1>1, <2>1 DEF OwnedOnce
  <2>3. b \in d.bb
    <3>1. b \in Owned(d.inode) \cup {}
      BY <2>1 DEF Owned
    <3>. QED
      BY <3>1 DEF Sound, Space
  <2>. QED
    BY <1>2, <2>1, <2>2, <2>3 DEF FreeBlocks
<1>5. \A b \in DirBlocks(d) : w.data[b] = d.data[b]
  BY <1>2, <1>4 DEF DirBlocks
<1>6. \A b \in DataBlock \ DirBlocks(d), s \in Slot : ~Named(w, b, s)
  <2> SUFFICES ASSUME NEW b \in DataBlock \ DirBlocks(d), NEW s \in Slot
               PROVE  w.data[b][s].name \notin Names
    BY DEF Named
  <2>1. CASE b \in new
    BY <1>2, <2>1
  <2>2. CASE b \notin new
    BY <1>2, <2>2 DEF Entries, Named
  <2>. QED
    BY <2>1, <2>2
<1>. QED
  BY <1>1, <1>2, <1>3, <1>5, <1>6, SameDirs


\* What rm and rmdir make of the entry at cell p of directory n: it leads to another
\* inode than n, one without entries, and both are removed.
TookOut(d, w, n, p) ==
  LET x == Cell(d, n, p).inode
  IN  /\ Cell(d, n, p).name \in Names /\ x \in Inum /\ x # n
      /\ \A b \in Rng(d.inode[x].blk), s \in Slot : ~Named(d, b, s)
      /\ Removed(d, w, At(d, n, p), x)

\* The cells and the inodes of the directories that are left.
LEMMA TookOutCells ==
  ASSUME NEW d \in Disk, NEW w \in Disk, OwnedOnce(d.inode), Entries(d), NEW n \in DirsOf(d),
         NEW p \in Cells(d, n), TookOut(d, w, n, p)
  PROVE  LET x == Cell(d, n, p).inode
         IN  /\ DirsOf(w) = DirsOf(d) \ {x} /\ x \notin 1 .. Reserved
             /\ \A m \in DirsOf(w) : w.inode[m] = d.inode[m]
             /\ \A b \in DataBlock, s \in Slot : Named(d, b, s) =>
                  \/ b = BlockOf(d, n, p) /\ s = p % EPB
                  \/ w.data[b][s] = d.data[b][s] /\ d.data[b][s].inode # x
             /\ \A b \in DataBlock, s \in Slot : Named(w, b, s) =>
                  Named(d, b, s) /\ w.data[b][s] = d.data[b][s] /\ d.data[b][s].inode # x
             /\ \A m \in DirsOf(w) :
                  /\ Cells(w, m) = Cells(d, m)
                  /\ \A q \in Cells(d, m) :
                       Cell(w, m, q) = IF m = n /\ q = p THEN FreeCell ELSE Cell(d, m, q)
<1> USE Zenon
<1> DEFINE x == Cell(d, n, p).inode
           at == At(d, n, p)
<1>1. /\ Cell(d, n, p).name \in Names /\ x \in Inum /\ x # n /\ n \in Inum
      /\ \A b \in Rng(d.inode[x].blk), s \in Slot : ~Named(d, b, s)
      /\ Removed(d, w, at, x)
  BY DEF TookOut, DirsOf
<1>2. /\ at.block = BlockOf(d, n, p) /\ at.offset = p % EPB
      /\ Cell(d, n, p) = d.data[at.block][at.offset]
  BY DEF At, Cell
<1>3. at.block \in DataBlock /\ at.offset \in Slot /\ Named(d, at.block, at.offset)
  <2>1. at \in Place
    BY <1>1, PlainCells, SetCell
  <2>2. at.block \in DataBlock /\ at.offset \in Slot
    BY <2>1 DEF Place
  <2>. QED
    BY <1>1, <1>2, <2>2 DEF Named
<1>4. x \notin 1 .. Reserved
  BY <1>2, <1>3 DEF Entries
<1> HIDE DEF at
<1>5. /\ w.inode = [d.inode EXCEPT ![x] = ZeroInode]
      /\ \A b \in DataBlock, s \in Slot :
           IF b = at.block /\ s = at.offset THEN w.data[b][s] = FreeCell
           ELSE \/ w.data[b][s] = d.data[b][s]
                \/ b \in Rng(d.inode[x].blk) /\ w.data[b][s] = ZeroCell
  BY <1>1 DEF Removed
<1>6. d.inode \in [Inum -> InodeSet]
  BY DiskFields
<1>7. \A b \in DataBlock, s \in Slot :
        (Named(d, b, s) /\ d.data[b][s].inode = x) => b = at.block /\ s = at.offset
  BY <1>2, <1>3 DEF Entries
<1> HIDE DEF x
<1>8. w.inode[x] = ZeroInode /\ \A m \in Inum \ {x} : w.inode[m] = d.inode[m]
  BY <1>1, <1>5, <1>6
<1>9. ZeroInode.mode # "dir"
  BY DEF ZeroInode
<1>10. DirsOf(w) = DirsOf(d) \ {x} /\ \A m \in DirsOf(w) : w.inode[m] = d.inode[m]
  BY <1>1, <1>8, <1>9 DEF DirsOf
<1>11. FreeCell.name \notin Names /\ ZeroCell.name \notin Names
  BY OrdinaryName DEF FreeCell, ZeroCell
<1>12. \A b \in DataBlock, s \in Slot : Named(d, b, s) =>
         \/ b = at.block /\ s = at.offset
         \/ w.data[b][s] = d.data[b][s] /\ d.data[b][s].inode # x
  BY <1>1, <1>5, <1>7
<1>13. \A b \in DataBlock, s \in Slot : Named(w, b, s) =>
         Named(d, b, s) /\ w.data[b][s] = d.data[b][s] /\ d.data[b][s].inode # x
  BY <1>5, <1>7, <1>11 DEF Named
<1>14. ASSUME NEW m \in DirsOf(w), NEW q \in Cells(d, m)
       PROVE  Cell(w, m, q) = IF m = n /\ q = p THEN FreeCell ELSE Cell(d, m, q)
  <2>1. m \in Inum /\ m # x /\ w.inode[m] = d.inode[m]
    BY <1>10 DEF DirsOf
  <2> DEFINE b == BlockOf(d, m, q)
             s == q % EPB
  <2>2. b \in Rng(d.inode[m].blk) /\ b \in DataBlock /\ s \in Slot
    BY <2>1, CellPlace, CellIs, RngData
  <2>3. b \notin Rng(d.inode[x].blk)
    <3> HIDE DEF b
    <3>. QED
      BY <1>1, <2>1, <2>2 DEF OwnedOnce
  <2>4. Cell(w, m, q) = w.data[b][s] /\ Cell(d, m, q) = d.data[b][s]
    BY <2>1 DEF Cell, BlockOf
  <2>5. CASE m = n /\ q = p
    <3>1. b = at.block /\ s = at.offset
      BY <1>2, <2>5
    <3> HIDE DEF b, s
    <3>. QED
      BY <1>5, <2>2, <2>4, <2>5, <3>1
  <2>6. CASE ~(m = n /\ q = p)
    <3>1. ~(b = at.block /\ s = at.offset)
      <4>1. (BlockOf(d, m, q) = BlockOf(d, n, p) /\ q % EPB = p % EPB) => m = n /\ q = p
        BY <1>1, <2>1, CellsDiffer, SMT
      <4>. QED
        BY <1>2, <2>6, <4>1
    <3> HIDE DEF b, s
    <3>. QED
      BY <1>5, <2>2, <2>3, <2>4, <2>6, <3>1
  <2>. QED
    BY <2>5, <2>6
<1>15. \A m \in DirsOf(w) : Cells(w, m) = Cells(d, m)
  BY <1>10 DEF Cells
<1>. QED
  BY <1>2, <1>4, <1>10, <1>12, <1>13, <1>14, <1>15 DEF x

\* A removal keeps the directories in order.
LEMMA TookOutEntries ==
  ASSUME NEW d \in Disk, NEW w \in Disk, OwnedOnce(d.inode), Entries(d), NEW n \in DirsOf(d),
         NEW p \in Cells(d, n), TookOut(d, w, n, p)
  PROVE  Entries(w)
<1> USE Zenon
<1> DEFINE x == Cell(d, n, p).inode
<1>1. /\ DirsOf(w) = DirsOf(d) \ {x} /\ x \notin 1 .. Reserved
      /\ \A m \in DirsOf(w) : w.inode[m] = d.inode[m]
  BY TookOutCells, SMT
<1>2. \A b \in DataBlock, s \in Slot : Named(w, b, s) =>
        Named(d, b, s) /\ w.data[b][s] = d.data[b][s] /\ d.data[b][s].inode # x
  BY TookOutCells, SMT
<1>3. \A m \in DirsOf(w) :
        /\ Cells(w, m) = Cells(d, m)
        /\ \A q \in Cells(d, m) :
             Cell(w, m, q) = IF m = n /\ q = p THEN FreeCell ELSE Cell(d, m, q)
  BY TookOutCells, SMT
<1>4. /\ w.ib = d.ib \ ({x} \ {NInodes}) /\ x \in Inum
      /\ \A b \in Rng(d.inode[x].blk), s \in Slot : ~Named(d, b, s)
  BY DEF TookOut, Removed
<1> HIDE DEF x
<1>5. ASSUME NEW b \in DataBlock, NEW s \in Slot, Named(w, b, s)
      PROVE  b \in DirBlocks(w) /\ w.data[b][s].inode \in w.ib \ (1 .. Reserved)
  <2>1. Named(d, b, s) /\ w.data[b][s] = d.data[b][s] /\ d.data[b][s].inode # x
    BY <1>2, <1>5
  <2>2. b \in DirBlocks(d) /\ d.data[b][s].inode \in d.ib \ (1 .. Reserved)
    BY <2>1 DEF Entries
  <2>3. PICK m \in DirsOf(d) : b \in Rng(d.inode[m].blk)
    BY <2>2 DEF DirBlocks
  <2>4. m # x
    BY <1>4, <2>1, <2>3
  <2>5. m \in DirsOf(w) /\ b \in Rng(w.inode[m].blk)
    BY <1>1, <2>3, <2>4
  <2>. QED
    BY <1>4, <2>1, <2>2, <2>5 DEF DirBlocks
<1>6. ASSUME NEW b \in DataBlock, NEW c \in DataBlock, NEW s \in Slot, NEW u \in Slot,
             Named(w, b, s), Named(w, c, u), w.data[b][s].inode = w.data[c][u].inode
      PROVE  b = c /\ s = u
  <2>1. Named(d, b, s) /\ w.data[b][s] = d.data[b][s]
    BY <1>2, <1>6
  <2>2. Named(d, c, u) /\ w.data[c][u] = d.data[c][u]
    BY <1>2, <1>6
  <2>. QED
    BY <1>6, <2>1, <2>2 DEF Entries
<1>7. ASSUME NEW m \in DirsOf(w) PROVE Orderly(w, m)
  <2>1. Orderly(d, m)
    BY <1>1 DEF Entries
  <2>2. FreeCell.name \notin Names /\ FreeCell.name # NoMore
    BY OrdinaryName DEF FreeCell, Free, NoMore
  <2>3. ASSUME NEW q \in Cells(d, m), Cell(w, m, q).name \in Names
        PROVE  Cell(w, m, q) = Cell(d, m, q) /\ ~(m = n /\ q = p)
    BY <1>3, <2>2, <2>3
  <2>4. ASSUME NEW r \in Cells(d, m), NEW q \in Cells(d, m), Cell(w, m, q).name \in Names
        PROVE  /\ r < q => Cell(w, m, r).name # NoMore
               /\ Cell(w, m, r).name = Cell(w, m, q).name => r = q
    <3>1. Cell(w, m, q) = Cell(d, m, q)
      BY <2>3, <2>4
    <3>2. CASE m = n /\ r = p
      BY <1>3, <2>2, <2>4, <3>2
    <3>3. CASE ~(m = n /\ r = p)
      <4>1. Cell(w, m, r) = Cell(d, m, r)
        BY <1>3, <3>3
      <4>. QED
        BY <2>1, <2>4, <3>1, <4>1 DEF Orderly
    <3>. QED
      BY <3>2, <3>3
  <2>. QED
    BY <1>3, <2>4 DEF Orderly
<1>8. DirsOf(w) \cup (1 .. Reserved) \subseteq w.ib
  BY <1>1, <1>4 DEF Entries
<1>. QED
  BY <1>5, <1>6, <1>7, <1>8 DEF Entries

\* A removal from the directory a path ends in leaves the path one.
LEMMA TookOutWalk ==
  ASSUME NEW d \in Disk, NEW w \in Disk, OwnedOnce(d.inode), Entries(d),
         NEW q \in Seq(Inum), Len(q) >= 1, Walk(d, q),
         NEW p \in Cells(d, q[Len(q)]), TookOut(d, w, q[Len(q)], p)
  PROVE  Walk(w, q)
<1> USE Zenon
<1> DEFINE n == q[Len(q)]
           x == Cell(d, n, p).inode
<1>1. Len(q) \in Nat /\ Len(q) \in 1 .. Len(q) /\ 1 \in 1 .. Len(q)
  BY SMT
<1>2. n \in DirsOf(d) /\ q[1] = Root
  BY <1>1 DEF Walk
<1>3. /\ DirsOf(w) = DirsOf(d) \ {x} /\ x \notin 1 .. Reserved
      /\ \A m \in DirsOf(w) : w.inode[m] = d.inode[m]
  BY <1>2, TookOutCells, SMT
<1>4. \A b \in DataBlock, s \in Slot : Named(d, b, s) =>
        \/ b = BlockOf(d, n, p) /\ s = p % EPB
        \/ w.data[b][s] = d.data[b][s] /\ d.data[b][s].inode # x
  BY <1>2, TookOutCells, SMT
<1>5. /\ x # n /\ x # Root
      /\ \A b \in Rng(d.inode[x].blk), s \in Slot : ~Named(d, b, s)
  <2>1. Root \in 1 .. Reserved
    BY FsAssumption, SMT DEF Root
  <2>2. x # n /\ \A b \in Rng(d.inode[x].blk), s \in Slot : ~Named(d, b, s)
    BY DEF TookOut
  <2>. QED
    BY <1>3, <2>1, <2>2
<1>6. d.data[BlockOf(d, n, p)][p % EPB].inode = x
  BY DEF Cell
<1> HIDE DEF x
<1>7. ASSUME NEW i \in 1 .. Len(q) PROVE q[i] # x
  <2>1. CASE i = Len(q)
    BY <1>5, <2>1
  <2>2. CASE i # Len(q)
    <3>1. i \in 1 .. Len(q) - 1
      BY <1>1, <2>2, SMT
    <3>2. Leads(d, q[i], q[i + 1])
      BY <3>1 DEF Walk
    <3>. QED
      BY <1>5, <3>2 DEF Leads
  <2>. QED
    BY <2>1, <2>2
<1>8. \A i \in 1 .. Len(q) : q[i] \in DirsOf(w)
  BY <1>3, <1>7 DEF Walk
<1>9. ASSUME NEW i \in 1 .. Len(q) - 1 PROVE Leads(w, q[i], q[i + 1])
  <2>1. i \in 1 .. Len(q) /\ i + 1 \in 1 .. Len(q)
    BY <1>1, SMT
  <2>2. q[i] \in DirsOf(w) /\ q[i] \in Inum /\ q[i + 1] # x
    BY <1>7, <1>8, <2>1 DEF DirsOf
  <2>3. PICK b \in Rng(d.inode[q[i]].blk), s \in Slot :
               Named(d, b, s) /\ d.data[b][s].inode = q[i + 1]
    BY DEF Walk, Leads
  <2>4. b \in DataBlock /\ b \in Rng(w.inode[q[i]].blk)
    BY <1>3, <2>2, <2>3, RngData
  <2>5. w.data[b][s] = d.data[b][s]
    BY <1>4, <1>6, <2>2, <2>3, <2>4
  <2>. QED
    BY <2>3, <2>4, <2>5 DEF Leads, Named
<1>. QED
  BY <1>2, <1>8, <1>9 DEF Walk

\* No cell is under a name formatName refuses.
LEMMA BadNotFound ==
  ASSUME SetFacts, NEW d \in Disk, NEW n \in Inum
  PROVE  ~Lookup(d, n, Bad).ok
<1> USE Zenon
<1> SUFFICES ASSUME Lookup(d, n, Bad).ok PROVE FALSE
  OBVIOUS
<1>1. PICK p \in Cells(d, n) : Matches(Cell(d, n, p).name, Bad)
  BY LookupFirst
<1>2. Cell(d, n, p) \in CellSet
  BY CellIs
<1>3. Bad \notin Names \cup Texts \cup {NoMore, Free, Dot, DotDot} /\ Bad # Visible
  BY FsAssumption DEF Bad, NoMore, Free, Dot, DotDot, Visible
<1>4. Cell(d, n, p).name \in Names \cup Texts \cup {NoMore, Free, Dot, DotDot}
  BY <1>2 DEF CellSet
<1>. QED
  BY <1>1, <1>3, <1>4 DEF Matches

\* A lookup reports success or failure.
LEMMA LookupBool ==
  ASSUME NEW d, NEW n, NEW key
  PROVE  Lookup(d, n, key).ok \in BOOLEAN
<1>1. \A x : Matches(x, key) \in BOOLEAN
  BY Zenon DEF Matches
<1>. QED
  BY <1>1, Zenon DEF Lookup

\* rm and rmdir, in a directory, take out one entry or nothing.
LEMMA RemovalIs ==
  ASSUME SetFacts, NEW d, Sound(d, {}), Entries(d), NEW n \in DirsOf(d), NEW t \in Names,
         NEW r \in {FsRemove(d, n, t), FsRmdir(d, n, t)}
  PROVE  \/ r.d = d /\ ~r.ok
         \/ \E p \in Cells(d, n) : Cell(d, n, p).name = t /\ TookOut(d, r.d, n, p)
<1> USE Zenon
<1> DEFINE e == Lookup(d, n, t)
           x == e.inode
           rem == RemoveEntry(d, e.loc, x)
           none == [d |-> d, ok |-> FALSE, fault |-> {FALSE}]
<1>1. d \in Disk /\ n \in Inum /\ OwnedOnce(d.inode) /\ Orderly(d, n)
  BY DEF Sound, DirsOf, Entries
<1>2. CASE r = none
  BY <1>2
<1>3. CASE r # none
  <2>1. e.ok /\ r = rem
    BY <1>3 DEF FsRemove, FsRmdir
  <2>2. \/ d.inode[x].mode # "dir"
        \/ d.inode[x].mode = "dir" /\ ~Lookup(d, x, Visible).ok
    BY <1>3 DEF FsRemove, FsRmdir
  <2>3. PICK p \in Cells(d, n) : Cell(d, n, p).name = t
    BY <1>1, <2>1, LookupNamed, SMT
  <2>4. x = Cell(d, n, p).inode /\ e.loc = At(d, n, p)
    BY <1>1, <2>3, LookupNamed, SMT DEF At
  <2>5. e.loc \in Place /\ CellAt(d, e.loc).inode = x
    BY <1>1, <2>1, LookupIs
  <2> HIDE DEF e
  <2>6. /\ BlockOf(d, n, p) \in DataBlock /\ p % EPB \in Slot
        /\ BlockOf(d, n, p) \in Rng(d.inode[n].blk)
    BY <1>1, CellPlace, CellIs, RngData
  <2>7. Named(d, BlockOf(d, n, p), p % EPB)
    BY <2>3 DEF Named, Cell
  <2>8. x \in Inum
    <3>1. x \in d.ib
      BY <2>4, <2>6, <2>7 DEF Entries, Cell
    <3>. QED
      BY <1>1, <3>1, DiskFields
  <2>9. x # n /\ \A b \in Rng(d.inode[x].blk), s \in Slot : ~Named(d, b, s)
    <3>1. CASE d.inode[x].mode # "dir"
      <4>1. x \notin DirsOf(d)
        BY <3>1 DEF DirsOf
      <4>2. ASSUME NEW b \in Rng(d.inode[x].blk), NEW s \in Slot, Named(d, b, s)
            PROVE  FALSE
        <5>1. b \in DataBlock
          BY <1>1, <2>8, RngData
        <5>2. b \in DirBlocks(d)
          BY <4>2, <5>1 DEF Entries
        <5>3. PICK m \in DirsOf(d) : b \in Rng(d.inode[m].blk)
          BY <5>2 DEF DirBlocks
        <5>4. m \in Inum /\ m # x
          BY <4>1 DEF DirsOf
        <5>. QED
          BY <1>1, <2>8, <5>3, <5>4 DEF OwnedOnce
      <4>. QED
        BY <4>1, <4>2
    <3>2. CASE d.inode[x].mode = "dir" /\ ~Lookup(d, x, Visible).ok
      <4>1. x \in DirsOf(d) /\ Orderly(d, x)
        BY <2>8, <3>2 DEF DirsOf, Entries
      <4>2. \A b \in Rng(d.inode[x].blk), s \in Slot : ~Named(d, b, s)
        BY <1>1, <2>8, <3>2, <4>1, EmptyHasNone
      <4>. QED
        BY <2>6, <2>7, <4>2
    <3>. QED
      BY <2>2, <3>1, <3>2
  <2>10. \/ rem.d = d /\ ~rem.ok
         \/ Removed(d, rem.d, e.loc, x)
    BY <2>5, <2>8, RemoveEntryKeeps
  <2>. QED
    BY <2>1, <2>3, <2>4, <2>8, <2>9, <2>10 DEF TookOut
<1>. QED
  BY <1>2, <1>3

\* A path stays one when entries and directories are kept.
LEMMA KeepsWalk ==
  ASSUME NEW d \in Disk, NEW e, Keeps(d, e), NEW q \in Seq(Inum), Walk(d, q)
  PROVE  Walk(e, q)
<1>1. \A i \in 1 .. Len(q) - 1 : q[i] \in DirsOf(d)
  <2>1. \A i \in 1 .. Len(q) - 1 : i \in 1 .. Len(q)
    OBVIOUS
  <2>. QED
    BY <2>1, Zenon DEF Walk
<1>2. ASSUME NEW i \in 1 .. Len(q) - 1 PROVE Leads(e, q[i], q[i + 1])
  BY <1>1, KeepsLeads, Zenon DEF Walk
<1>. QED
  BY <1>2, Zenon DEF Walk, Keeps

\* The root alone is a path.
LEMMA WalkRoot ==
  ASSUME NEW d, Root \in DirsOf(d)
  PROVE  Walk(d, <<Root>>)
<1>1. Len(<<Root>>) = 1 /\ <<Root>>[1] = Root /\ 1 .. 1 = {1} /\ 1 .. 1 - 1 = {}
  OBVIOUS
<1>. QED
  BY <1>1 DEF Walk

\* cd to a directory that the last one of the path has the entry of.
LEMMA WalkDown ==
  ASSUME NEW d, NEW q \in Seq(Inum), Len(q) >= 1, Walk(d, q), NEW y \in DirsOf(d),
         Leads(d, q[Len(q)], y)
  PROVE  Walk(d, Append(q, y))
<1> DEFINE r == Append(q, y)
           k == Len(q)
<1>1. k \in Nat /\ Len(r) = k + 1 /\ r[k + 1] = y /\ \A i \in 1 .. k : r[i] = q[i]
  OBVIOUS
<1>2. /\ q[1] = Root /\ \A i \in 1 .. k : q[i] \in DirsOf(d)
      /\ \A i \in 1 .. k - 1 : Leads(d, q[i], q[i + 1])
  BY Zenon DEF Walk
<1> HIDE DEF r
<1>3. r[1] = Root
  BY <1>1, <1>2
<1>4. \A i \in 1 .. Len(r) : r[i] \in DirsOf(d)
  BY <1>1, <1>2
<1>5. ASSUME NEW i \in 1 .. Len(r) - 1 PROVE Leads(d, r[i], r[i + 1])
  <2>1. CASE i = k
    BY <1>1, <2>1
  <2>2. CASE i # k
    <3>1. i \in 1 .. k - 1 /\ i \in 1 .. k /\ i + 1 \in 1 .. k
      BY <1>1, <2>2
    <3>. QED
      BY <1>1, <1>2, <3>1, Zenon
  <2>. QED
    BY <2>1, <2>2, Zenon
<1>. QED
  BY <1>3, <1>4, <1>5, Zenon DEF Walk, r

\* cd to the directory before the last one of the path.
LEMMA WalkUp ==
  ASSUME NEW d, NEW q \in Seq(Inum), Len(q) > 1, Walk(d, q)
  PROVE  Walk(d, SubSeq(q, 1, Len(q) - 1))
<1> DEFINE r == SubSeq(q, 1, Len(q) - 1)
           k == Len(q)
<1>1. k \in Nat /\ Len(r) = k - 1 /\ \A i \in 1 .. k - 1 : r[i] = q[i]
  OBVIOUS
<1>2. /\ q[1] = Root /\ \A i \in 1 .. k : q[i] \in DirsOf(d)
      /\ \A i \in 1 .. k - 1 : Leads(d, q[i], q[i + 1])
  BY Zenon DEF Walk
<1> HIDE DEF r
<1>3. r[1] = Root
  BY <1>1, <1>2
<1>4. \A i \in 1 .. Len(r) : r[i] \in DirsOf(d)
  BY <1>1, <1>2
<1>5. ASSUME NEW i \in 1 .. Len(r) - 1 PROVE Leads(d, r[i], r[i + 1])
  <2>1. i \in 1 .. k - 1 /\ i + 1 \in 1 .. k - 1
    BY <1>1
  <2>. QED
    BY <1>1, <1>2, <2>1, Zenon
<1>. QED
  BY <1>3, <1>4, <1>5, Zenon DEF Walk, r

\* The zeroed disk holds nothing.
LEMMA InitFsDir == Init => FsDirInv
<1> USE Zenon
<1> SUFFICES ASSUME Init PROVE FsDirInv
  OBVIOUS
<1>1. /\ mounted = FALSE /\ disk.magic = FALSE
      /\ disk.inode = [n \in Inum |-> ZeroInode] /\ disk.data = [b \in DataBlock |-> ZeroBlock]
  BY DEF Init
<1>2. ZeroCell.name \notin Names
  BY OrdinaryName DEF ZeroCell
<1>3. \A b \in DataBlock, s \in Slot : ~Named(disk, b, s)
  <2>1. \A s \in Slot : ZeroBlock[s] = ZeroCell
    BY DEF ZeroBlock
  <2>2. \A b \in DataBlock : disk.data[b] = ZeroBlock
    BY <1>1
  <2>. QED
    BY <1>2, <2>1, <2>2 DEF Named
<1>4. DirsOf(disk) = {}
  <2>1. \A n \in Inum : disk.inode[n] = ZeroInode
    BY <1>1
  <2>2. ZeroInode.mode # "dir"
    BY DEF ZeroInode
  <2>. QED
    BY <2>1, <2>2 DEF DirsOf
<1>. QED
  BY <1>1, <1>3, <1>4 DEF FsDirInv

\* A disk without entries, on which only the root is a directory, is in order.
LEMMA MountDir ==
  ASSUME NEW d \in Disk, \A b \in DataBlock, s \in Slot : ~Named(d, b, s),
         DirsOf(d) \subseteq {Root}, 1 .. Reserved \subseteq d.ib
  PROVE  Entries(d)
<1> USE Zenon
<1>1. Root \in 1 .. Reserved
  BY FsAssumption, SMT DEF Root
<1>2. ASSUME NEW n \in DirsOf(d) PROVE Orderly(d, n)
  <2>1. n \in Inum
    BY DEF DirsOf
  <2>2. ASSUME NEW p \in Cells(d, n) PROVE Cell(d, n, p).name \notin Names
    <3>1. BlockOf(d, n, p) \in DataBlock /\ p % EPB \in Slot
      BY <2>1, CellPlace, CellIs, RngData
    <3>. QED
      BY <3>1 DEF Named, Cell
  <2>. QED
    BY <2>2 DEF Orderly
<1>3. DirsOf(d) \cup (1 .. Reserved) \subseteq d.ib
  BY <1>1
<1>. QED
  BY <1>2, <1>3 DEF Entries

\* A command that keeps the directories and the path.
LEMMA CommandDir ==
  ASSUME FsDirInv, Running, Entries(disk'), Walk(disk', path), UNCHANGED <<mounted, path>>
  PROVE  FsDirInv'
<1>1. mounted' /\ path' = path
  BY Zenon DEF Running
<1>2. Walk(disk', path')
  BY <1>1, Zenon
<1>. QED
  BY <1>1, <1>2, Zenon DEF FsDirInv

\* What a command can rely on in directories.
LEMMA RunningDir ==
  ASSUME FsInv, FsDirInv, Running
  PROVE  /\ Sound(disk, {}) /\ disk \in Disk /\ OwnedOnce(disk.inode)
         /\ Entries(disk) /\ Walk(disk, path) /\ cwd \in DirsOf(disk)
         /\ path \in Seq(Inum) /\ Len(path) >= 1
<1>1. Sound(disk, {}) /\ disk \in Disk /\ OwnedOnce(disk.inode)
  BY RunningSound, Zenon DEF Sound
<1>2. Entries(disk) /\ Walk(disk, path)
  BY Zenon DEF FsDirInv, Running
<1>3. path \in Seq(Inum) /\ Len(path) >= 1 /\ Len(path) \in 1 .. Len(path)
  BY DEF FsInv
<1>. QED
  BY <1>1, <1>2, <1>3, Zenon DEF Walk, cwd

\* Under ordinary use names are looked for and stored as they are typed.
LEMMA TypedName ==
  ASSUME OrdinaryUse, NEW t \in Typed
  PROVE  FormatName(t) = t /\ t \in Names \cup {Bad}
BY FsAssumption, Zenon DEF OrdinaryUse, FormatName, DotDotX, Bad, DotDot

\* A redirect or fill keeps the directories: it never lands on one.
LEMMA WriteKeepsDir ==
  ASSUME SetFacts, OrdinaryUse, FsInv, FsDirInv, NEW t \in Typed, NEW size \in Sizes,
         NEW text \in Texts,
         Write(t, size, text)
  PROVE  FsDirInv'
<1> USE Zenon
<1> DEFINE e == Lookup(disk, cwd, t)
           c == WriteTarget(t)
           w == FsWrite(c.d, c.loc, size, text)
           r == WriteResult(t, size, text)
<1>1. Running /\ ~LandsOnDir(c)
  BY DEF Write, OrdinaryUse
<1>2. /\ Sound(disk, {}) /\ disk \in Disk /\ Entries(disk) /\ Walk(disk, path)
      /\ cwd \in DirsOf(disk) /\ path \in Seq(Inum)
  BY <1>1, RunningDir
<1>3. FormatName(t) = t /\ t \in Names \cup {Bad} /\ size \in Nat
  BY TypedName, FsAssumption
<1>4. Sound(c.d, {}) /\ c.loc \in Loc
  BY <1>1, WriteTargetIs
<1>5. Entries(c.d) /\ Keeps(disk, c.d)
  <2>1. CASE e.ok
    <3>1. c.d = disk
      BY <1>3, <2>1 DEF WriteTarget
    <3>. QED
      BY <1>2, <3>1, KeepsSame
  <2>2. CASE ~e.ok
    <3>1. c = FsCreate(disk, cwd, t)
      BY <1>3, <2>2 DEF WriteTarget
    <3>. QED
      BY <1>2, <1>3, <3>1, CreateDir
  <2>. QED
    BY <2>1, <2>2
<1>6. c.ok => Entries(w.d) /\ Keeps(c.d, w.d)
  <2> SUFFICES ASSUME c.ok PROVE Entries(w.d) /\ Keeps(c.d, w.d)
    OBVIOUS
  <2>1. CASE w.ok
    <3> DEFINE n == CellAt(c.d, c.loc).inode
    <3>1. n \notin DirsOf(c.d)
      BY <1>1 DEF LandsOnDir, DirsOf
    <3>2. Written(c.d, w.d, n, size, text)
      <4> HIDE DEF c
      <4>. QED
        BY <1>3, <1>4, <2>1, FsWriteDone
    <3> HIDE DEF c, w, n
    <3>. QED
      BY <1>4, <1>5, <3>1, <3>2, WriteDir
  <2>2. CASE ~w.ok
    <3>1. w.d = c.d
      <4> HIDE DEF c
      <4>. QED
        BY <1>4, <2>2, FsWriteFailed
    <3>. QED
      BY <1>5, <3>1, KeepsSame
  <2>. QED
    BY <2>1, <2>2
<1>7. r.d = IF c.ok THEN w.d ELSE c.d
  BY DEF WriteResult
<1>8. disk' = r.d /\ UNCHANGED <<mounted, path>>
  BY DEF Write
<1> HIDE DEF c, w, r
<1>9. Entries(r.d) /\ Keeps(disk, r.d)
  BY <1>5, <1>6, <1>7, KeepsBoth
<1>10. Walk(r.d, path)
  BY <1>2, <1>9, KeepsWalk
<1>. QED
  BY <1>1, <1>8, <1>9, <1>10, CommandDir

\* rm and rmdir keep the directories and the path.
LEMMA RemovalKeepsDir ==
  ASSUME SetFacts, FsInv, FsDirInv, Running, NEW t \in Names \cup {Bad},
         NEW r \in {FsRemove(disk, cwd, t), FsRmdir(disk, cwd, t)}, Sound(r.d, {}),
         disk' = r.d, UNCHANGED <<mounted, path>>
  PROVE  FsDirInv'
<1> USE Zenon
<1>1. /\ Sound(disk, {}) /\ disk \in Disk /\ OwnedOnce(disk.inode)
      /\ Entries(disk) /\ Walk(disk, path) /\ cwd \in DirsOf(disk)
      /\ path \in Seq(Inum) /\ Len(path) >= 1
  BY RunningDir
<1>2. r.d \in Disk /\ cwd \in Inum
  BY <1>1 DEF Sound, DirsOf
<1>3. CASE r.d = disk
  <2>1. Entries(r.d) /\ Walk(r.d, path)
    BY <1>1, <1>3
  <2>. QED
    BY <2>1, CommandDir
<1>4. CASE r.d # disk
  <2>1. t \in Names
    <3>1. CASE t = Bad
      <4>1. ~Lookup(disk, cwd, t).ok
        BY <1>1, <1>2, <3>1, BadNotFound
      <4>2. FsRemove(disk, cwd, t).d = disk /\ FsRmdir(disk, cwd, t).d = disk
        BY <4>1 DEF FsRemove, FsRmdir
      <4>. QED
        BY <1>4, <4>2
    <3>. QED
      BY <3>1
  <2>2. PICK p \in Cells(disk, cwd) : TookOut(disk, r.d, cwd, p)
    <3>1. \/ r.d = disk /\ ~r.ok
          \/ \E p \in Cells(disk, cwd) : Cell(disk, cwd, p).name = t /\ TookOut(disk, r.d, cwd, p)
      BY <1>1, <2>1, RemovalIs, SMT
    <3>. QED
      BY <1>4, <3>1
  <2>3. Entries(r.d)
    BY <1>1, <1>2, <2>2, TookOutEntries
  <2>4. Walk(r.d, path)
    BY <1>1, <1>2, <2>2, TookOutWalk DEF cwd
  <2>. QED
    BY <2>3, <2>4, CommandDir
<1>. QED
  BY <1>3, <1>4

\* cd keeps a path: the directory entered has its entry in the last one.
LEMMA CdKeepsDir ==
  ASSUME SetFacts, OrdinaryUse, FsInv, FsDirInv, NEW t \in Typed, Cd(t)
  PROVE  FsDirInv'
<1> USE Zenon
<1> DEFINE e == Lookup(disk, cwd, t)
<1>1. FormatName(t) = t /\ t \in Names \cup {Bad}
  BY TypedName
<1>2. /\ Running /\ e.ok /\ IsDirectory(disk, e.inode)
      /\ path' = Append(path, e.inode) /\ UNCHANGED <<disk, mounted>>
  BY <1>1 DEF Cd
<1>3. /\ disk \in Disk /\ Entries(disk) /\ Walk(disk, path) /\ cwd \in DirsOf(disk)
      /\ path \in Seq(Inum) /\ Len(path) >= 1
  BY <1>2, RunningDir
<1>4. cwd \in Inum /\ Orderly(disk, cwd)
  BY <1>3 DEF DirsOf, Entries
<1>5. t \in Names
  BY <1>1, <1>2, <1>3, <1>4, BadNotFound
<1>Found.
      /\ \A q \in Cells(disk, cwd) : Cell(disk, cwd, q).name = t => e.inode = Cell(disk, cwd, q).inode
      /\ e.ok => \E q \in Cells(disk, cwd) : Cell(disk, cwd, q).name = t
  BY <1>3, <1>4, <1>5, LookupNamed
<1>6. PICK p \in Cells(disk, cwd) : Cell(disk, cwd, p).name = t
  BY <1>2, <1>Found
<1>7. e.inode = Cell(disk, cwd, p).inode
  BY <1>6, <1>Found
<1> DEFINE b == BlockOf(disk, cwd, p)
           s == p % EPB
<1>8. b \in Rng(disk.inode[cwd].blk) /\ b \in DataBlock /\ s \in Slot
  BY <1>3, <1>4, CellPlace, CellIs, RngData
<1>9. Named(disk, b, s) /\ disk.data[b][s].inode = e.inode
  BY <1>5, <1>6, <1>7 DEF Named, Cell
<1> HIDE DEF b, s, e
<1>10. Leads(disk, cwd, e.inode)
  BY <1>8, <1>9 DEF Leads
<1>11. e.inode \in Inum
  <2>1. e.inode \in disk.ib
    BY <1>3, <1>8, <1>9 DEF Entries
  <2>. QED
    BY <1>3, <2>1, DiskFields
<1>12. e.inode \in DirsOf(disk)
  <2>1. Root \in DirsOf(disk)
    <3>1. 1 \in 1 .. Len(path)
      BY <1>3, SMT
    <3>. QED
      BY <1>3, <3>1 DEF Walk
  <2>. QED
    BY <1>2, <1>11, <2>1 DEF IsDirectory, DirsOf
<1>13. Walk(disk, Append(path, e.inode))
  BY <1>3, <1>10, <1>12, WalkDown DEF cwd
<1>14. Entries(disk') /\ Walk(disk', path') /\ mounted'
  BY <1>2, <1>3, <1>13 DEF Running
<1>. QED
  BY <1>14 DEF FsDirInv

\* Every step keeps the directories and the path.
LEMMA NextFsDir ==
  ASSUME SetFacts, OrdinaryUse, FsInv, FsDirInv, [Next]_vars
  PROVE  FsDirInv'
<1> USE Zenon
<1>1. CASE Format
  <2>1. disk' = FsFormat(disk) /\ ~mounted /\ ~mounted'
    BY <1>1 DEF Format
  <2>2. disk \in Disk /\ \A n \in Inum \ {Root} : disk.inode[n].blk = <<>>
    BY <2>1 DEF FsInv
  <2>3. (\A b \in DataBlock, s \in Slot : ~Named(disk, b, s)) /\ DirsOf(disk) \subseteq {Root}
    BY <2>1 DEF FsDirInv
  <2>4. /\ disk'.ib = 1 .. Reserved /\ disk'.inode[Root].mode = "dir"
        /\ \A n \in Inum \ {Root} : disk'.inode[n] = disk.inode[n]
    BY <2>1, <2>2, FormatSound, SMT
  <2>5. \A b \in DataBlock, s \in Slot :
          disk'.data[b][s] = disk.data[b][s] \/ disk'.data[b][s].name \in {NoMore, Dot, DotDot}
    BY <2>1, <2>2, FormatSound, SMT
  <2>6. \A b \in DataBlock, s \in Slot : ~Named(disk', b, s)
    BY <2>3, <2>5, OrdinaryName DEF Named
  <2>7. Root \in Inum
    BY FsAssumption, SMT DEF Root, Inum
  <2>8. DirsOf(disk') \subseteq {Root} /\ Root \in DirsOf(disk')
    BY <2>3, <2>4, <2>7 DEF DirsOf
  <2>9. 1 .. Reserved \subseteq disk'.ib
    BY <2>4
  <2>. QED
    BY <2>1, <2>6, <2>8, <2>9 DEF FsDirInv
<1>2. CASE Mount
  <2>1. disk.magic /\ ~mounted /\ mounted' /\ disk' = disk /\ path' = <<Root>>
    BY <1>2 DEF Mount, ReadSuperblock
  <2>2. /\ \A b \in DataBlock, s \in Slot : ~Named(disk, b, s)
        /\ DirsOf(disk) \subseteq {Root} /\ Root \in DirsOf(disk) /\ 1 .. Reserved \subseteq disk.ib
    BY <2>1 DEF FsDirInv
  <2>3. disk \in Disk
    BY DEF FsInv
  <2>4. Entries(disk) /\ Walk(disk, <<Root>>)
    BY <2>2, <2>3, MountDir, WalkRoot
  <2>5. Entries(disk') /\ Walk(disk', path')
    BY <2>1, <2>4
  <2>. QED
    BY <2>1, <2>5 DEF FsDirInv
<1>3. CASE CdRoot \/ CdUp
  <2>1. Running /\ disk' = disk /\ mounted'
    <3>1. CASE CdRoot
      BY <3>1 DEF CdRoot, Running
    <3>2. CASE CdUp
      BY <3>2 DEF CdUp, Running
    <3>. QED
      BY <1>3, <3>1, <3>2
  <2>2. Entries(disk) /\ Walk(disk, path) /\ path \in Seq(Inum) /\ Len(path) >= 1
    BY <2>1, RunningDir
  <2>3. Walk(disk, path')
    <3>1. CASE CdRoot
      <4>1. 1 \in 1 .. Len(path)
        BY <2>2, SMT
      <4>2. Root \in DirsOf(disk)
        BY <2>2, <4>1 DEF Walk
      <4>. QED
        BY <3>1, <4>2, WalkRoot DEF CdRoot
    <3>2. CASE CdUp
      BY <2>2, <3>2, WalkUp DEF CdUp
    <3>. QED
      BY <1>3, <3>1, <3>2
  <2>4. Entries(disk') /\ Walk(disk', path')
    BY <2>1, <2>2, <2>3
  <2>. QED
    BY <2>1, <2>4 DEF FsDirInv
<1>4. CASE Exit \/ UNCHANGED vars
  <2>1. disk' = disk /\ mounted' = mounted /\ path' = path
    BY <1>4 DEF Exit, vars
  <2>. QED
    BY <2>1 DEF FsDirInv
<1>5. ASSUME NEW t \in Typed, Touch(t) \/ Mkdir(t)
      PROVE  FsDirInv'
  <2>1. FormatName(t) = t /\ t \in Names \cup {Bad}
    BY TypedName
  <2>2. /\ Running /\ UNCHANGED <<mounted, path>>
        /\ disk' \in {FsCreate(disk, cwd, t).d, FsMkdir(disk, cwd, t).d}
    BY <1>5, <2>1 DEF Touch, Mkdir
  <2>3. /\ Sound(disk, {}) /\ disk \in Disk /\ Entries(disk) /\ Walk(disk, path)
        /\ cwd \in DirsOf(disk) /\ path \in Seq(Inum)
    BY <2>2, RunningDir
  <2>4. Entries(disk') /\ Keeps(disk, disk')
    BY <2>1, <2>2, <2>3, CreateDir, MkdirDir
  <2>5. Walk(disk', path)
    BY <2>3, <2>4, KeepsWalk
  <2>. QED
    BY <2>2, <2>4, <2>5, CommandDir
<1>6. ASSUME NEW t \in Typed, Rm(t) \/ Rmdir(t)
      PROVE  FsDirInv'
  <2>1. FormatName(t) = t /\ t \in Names \cup {Bad}
    BY TypedName
  <2>2. Running /\ UNCHANGED <<mounted, path>>
    BY <1>6 DEF Rm, Rmdir
  <2>3. PICK r \in {FsRemove(disk, cwd, t), FsRmdir(disk, cwd, t)} : disk' = r.d
    BY <1>6, <2>1 DEF Rm, Rmdir
  <2>4. Sound(r.d, {})
    <3>1. Sound(disk, {}) /\ cwd \in Inum
      BY <2>2, RunningSound
    <3>2. Sound(FsRemove(disk, cwd, t).d, {}) /\ Sound(FsRmdir(disk, cwd, t).d, {})
      BY <2>1, <3>1, RemovalKeeps, SMT
    <3>. QED
      BY <3>2
  <2>. QED
    BY <2>1, <2>2, <2>3, <2>4, RemovalKeepsDir
<1>7. ASSUME NEW t \in Typed, Cd(t)
      PROVE  FsDirInv'
  BY <1>7, CdKeepsDir
<1>8. ASSUME NEW t \in Typed, NEW size \in Sizes, NEW text \in Texts, Write(t, size, text)
      PROVE  FsDirInv'
  BY <1>8, WriteKeepsDir
<1>. QED
  BY <1>1, <1>2, <1>3, <1>4, <1>5, <1>6, <1>7, <1>8 DEF Next

\* The invariant gives what listings and lookups show.
LEMMA FsDirSound ==
  ASSUME SetFacts
  PROVE  FsInv /\ FsDirInv => DirectoriesSound /\ PathIsDirectories
<1> USE Zenon
<1> SUFFICES ASSUME FsInv, FsDirInv PROVE DirectoriesSound /\ PathIsDirectories
  OBVIOUS
<1>1. disk \in Disk /\ Dirs = DirsOf(disk) /\ path \in Seq(Inum)
  BY DEF FsInv, Dirs, DirsOf
<1>2. DOMAIN path = 1 .. Len(path)
  BY <1>1, SMT
<1>3. OwnedOnce(disk.inode)
  <2>1. CASE disk.magic
    BY <2>1 DEF FsInv, Sound
  <2>2. CASE ~disk.magic
    <3>1. \A n \in Inum : disk.inode[n].blk = <<>>
      BY <2>2 DEF FsInv
    <3>. QED
      BY <3>1, SMT DEF OwnedOnce, Once, Rng
  <2>. QED
    BY <2>1, <2>2
<1>4. \A n \in Dirs : n \in Inum
  BY <1>1 DEF DirsOf
<1>5. ASSUME NEW n \in Dirs, NEW p \in NamedCells(n)
      PROVE  /\ p \in Cells(disk, n) /\ Cell(disk, n, p).name \in Names
             /\ BlockOf(disk, n, p) \in DataBlock /\ p % EPB \in Slot
             /\ Named(disk, BlockOf(disk, n, p), p % EPB)
             /\ Cell(disk, n, p) = disk.data[BlockOf(disk, n, p)][p % EPB]
  <2>1. p \in Cells(disk, n) /\ Cell(disk, n, p).name \in Names
    BY DEF NamedCells
  <2>2. BlockOf(disk, n, p) \in DataBlock /\ p % EPB \in Slot
    BY <1>1, <1>4, <2>1, CellPlace, CellIs, RngData
  <2>. QED
    BY <2>1, <2>2 DEF Named, Cell
<1>6. mounted \in BOOLEAN
  BY DEF FsInv
<1>7. CASE ~mounted
  <2>1. \A n \in Dirs : \A p \in NamedCells(n) : FALSE
    BY <1>5, <1>7 DEF FsDirInv
  <2>2. EntriesSound
    BY <2>1 DEF EntriesSound
  <2>3. ListingAgrees
    BY <2>1 DEF ListingAgrees
  <2>. QED
    BY <1>7, <2>2, <2>3 DEF DirectoriesSound, PathIsDirectories
<1>8. CASE mounted
  <2>1. Entries(disk) /\ Walk(disk, path)
    BY <1>8 DEF FsDirInv
  <2>2. EntriesSound
    <3>1. ASSUME NEW n \in Dirs, NEW p \in NamedCells(n)
          PROVE  Cell(disk, n, p).inode \in disk.ib \ (1 .. Reserved)
      BY <1>5, <2>1 DEF Entries
    <3>2. ASSUME NEW m \in Dirs, NEW n \in Dirs, NEW p \in NamedCells(m), NEW q \in NamedCells(n),
                 Cell(disk, m, p).inode = Cell(disk, n, q).inode
          PROVE  <<m, p>> = <<n, q>>
      <4>1. BlockOf(disk, m, p) = BlockOf(disk, n, q) /\ p % EPB = q % EPB
        <5> DEFINE b == BlockOf(disk, m, p)
                   c == BlockOf(disk, n, q)
        <5>1. /\ b \in DataBlock /\ p % EPB \in Slot /\ Named(disk, b, p % EPB)
              /\ Cell(disk, m, p) = disk.data[b][p % EPB]
          BY <1>5
        <5>2. /\ c \in DataBlock /\ q % EPB \in Slot /\ Named(disk, c, q % EPB)
              /\ Cell(disk, n, q) = disk.data[c][q % EPB]
          BY <1>5
        <5>3. disk.data[b][p % EPB].inode = disk.data[c][q % EPB].inode
          BY <3>2, <5>1, <5>2
        <5> HIDE DEF b, c
        <5>4. b = c /\ p % EPB = q % EPB
          BY <2>1, <5>1, <5>2, <5>3 DEF Entries
        <5>. QED
          BY <5>4 DEF b, c
      <4>2. m \in Inum /\ n \in Inum /\ p \in Cells(disk, m) /\ q \in Cells(disk, n)
        BY <1>4, <1>5
      <4>3. m = n /\ p = q
        BY <1>1, <1>3, <4>1, <4>2, CellsDiffer, SMTT(20)
      <4>. QED
        BY <4>3
    <3> DEFINE at == UNION {{<<n, p>> : p \in NamedCells(n)} : n \in Dirs}
               ino(e) == Cell(disk, e[1], e[2]).inode
    <3>3. ASSUME NEW e \in at
          PROVE  \E n \in Dirs : \E p \in NamedCells(n) : e = <<n, p>> /\ ino(e) = Cell(disk, n, p).inode
      <4>1. PICK n \in Dirs : e \in {<<n, p>> : p \in NamedCells(n)}
        BY <3>3
      <4>2. PICK p \in NamedCells(n) : e = <<n, p>>
        BY <4>1
      <4>3. e[1] = n /\ e[2] = p
        BY <4>2, SMT
      <4>. QED
        BY <4>2, <4>3
    <3> HIDE DEF at, ino
    <3>4. ASSUME NEW e \in at PROVE ino(e) \in disk.ib \ (1 .. Reserved)
      <4>1. PICK n \in Dirs : \E p \in NamedCells(n) : ino(e) = Cell(disk, n, p).inode
        BY <3>3
      <4>. QED
        BY <3>1, <4>1
    <3>5. ASSUME NEW e \in at, NEW f \in at, ino(e) = ino(f) PROVE e = f
      <4>1. PICK m \in Dirs : \E p \in NamedCells(m) : e = <<m, p>> /\ ino(e) = Cell(disk, m, p).inode
        BY <3>3
      <4>2. PICK p \in NamedCells(m) : e = <<m, p>> /\ ino(e) = Cell(disk, m, p).inode
        BY <4>1
      <4>3. PICK n \in Dirs : \E q \in NamedCells(n) : f = <<n, q>> /\ ino(f) = Cell(disk, n, q).inode
        BY <3>3
      <4>4. PICK q \in NamedCells(n) : f = <<n, q>> /\ ino(f) = Cell(disk, n, q).inode
        BY <4>3
      <4>5. Cell(disk, m, p).inode = Cell(disk, n, q).inode
        BY <3>5, <4>2, <4>4
      <4>6. <<m, p>> = <<n, q>>
        BY <3>2, <4>5, SMT
      <4>. QED
        BY <4>2, <4>4, <4>6
    <3>. QED
      BY <3>4, <3>5 DEF EntriesSound, at, ino
  <2>3. ListingAgrees
    <3>1. ASSUME NEW n \in Dirs PROVE Orderly(disk, n) /\ n \in Inum
      BY <1>1, <1>4, <2>1 DEF Entries
    <3>2. ASSUME NEW n \in Dirs, NEW p \in NamedCells(n), NEW q \in NamedCells(n),
                 Cell(disk, n, p).name = Cell(disk, n, q).name
          PROVE  p = q
      BY <1>5, <3>1, <3>2 DEF Orderly
    <3>3. ASSUME NEW n \in Dirs, NEW p \in NamedCells(n)
          PROVE  LET c == Cell(disk, n, p)
                 IN  /\ c \in ReadDir(disk, n)
                     /\ Lookup(disk, n, c.name).inode = c.inode
                     /\ Lookup(disk, n, c.name).ok
      <4>1. p \in Cells(disk, n) /\ Cell(disk, n, p).name \in Names
        BY <1>5
      <4>2. Cell(disk, n, p) \in ReadDir(disk, n)
        BY <1>1, <3>1, <4>1, ListsNamed
      <4>3. LET e == Lookup(disk, n, Cell(disk, n, p).name)
            IN  e.ok /\ e.inode = Cell(disk, n, p).inode
        BY <1>1, <3>1, <4>1, LookupNamed
      <4>. QED
        BY <4>2, <4>3
    <3>. QED
      BY <3>2, <3>3 DEF ListingAgrees
  <2>4. PathIsDirectories
    BY <1>1, <1>2, <2>1 DEF PathIsDirectories, Walk, Entries
  <2>. QED
    BY <2>2, <2>3, <2>4 DEF DirectoriesSound
<1>. QED
  BY <1>6, <1>7, <1>8

\* The invariant gives what rm and rmdir do to names.
LEMMA FsRemoves ==
  ASSUME SetFacts
  PROVE  FsInv /\ FsDirInv => RemovalTakesOneName
<1> USE Zenon
<1> SUFFICES ASSUME FsInv, FsDirInv, Running, NEW t \in Names,
                    NEW r \in {FsRemove(disk, cwd, t), FsRmdir(disk, cwd, t)}, r.ok
             PROVE  /\ ~Lookup(r.d, cwd, t).ok
                    /\ \A u \in Names \ {t} :
                         LET before == Lookup(disk, cwd, u)
                             after == Lookup(r.d, cwd, u)
                         IN  /\ after.ok = before.ok
                             /\ before.ok => after.inode = before.inode
  BY DEF RemovalTakesOneName
<1> DEFINE n == cwd
           w == r.d
<1>1. /\ Sound(disk, {}) /\ disk \in Disk /\ OwnedOnce(disk.inode) /\ Entries(disk)
      /\ n \in DirsOf(disk) /\ n \in Inum /\ Orderly(disk, n)
  BY RunningDir DEF DirsOf, Entries
<1>2. w \in Disk
  <2>1. FormatName(t) = t
    BY FsAssumption DEF FormatName, DotDotX
  <2>2. Sound(FsRemove(disk, n, t).d, {}) /\ Sound(FsRmdir(disk, n, t).d, {})
    BY <1>1, <2>1, RemovalKeeps, SMT
  <2>. QED
    BY <2>2 DEF Sound
<1>3. PICK p \in Cells(disk, n) : Cell(disk, n, p).name = t /\ TookOut(disk, w, n, p)
  <2>1. \/ r.d = disk /\ ~r.ok
        \/ \E p \in Cells(disk, n) : Cell(disk, n, p).name = t /\ TookOut(disk, r.d, n, p)
    BY <1>1, RemovalIs, SMT
  <2>. QED
    BY <2>1
<1> HIDE DEF n, w
<1>4. /\ n \in DirsOf(w) /\ Cells(w, n) = Cells(disk, n)
      /\ \A q \in Cells(disk, n) : Cell(w, n, q) = IF q = p THEN FreeCell ELSE Cell(disk, n, q)
  <2>0. /\ disk \in Disk /\ w \in Disk /\ OwnedOnce(disk.inode) /\ Entries(disk)
        /\ n \in DirsOf(disk) /\ p \in Cells(disk, n) /\ TookOut(disk, w, n, p)
    BY <1>1, <1>2, <1>3
  <2>1. DirsOf(w) = DirsOf(disk) \ {Cell(disk, n, p).inode}
    BY <2>0, TookOutCells, SMTT(20)
  <2>2. \A m \in DirsOf(w) :
          /\ Cells(w, m) = Cells(disk, m)
          /\ \A q \in Cells(disk, m) :
               Cell(w, m, q) = IF m = n /\ q = p THEN FreeCell ELSE Cell(disk, m, q)
    BY <2>0, TookOutCells, SMT
  <2>3. Cell(disk, n, p).inode # n
    BY <1>3 DEF TookOut
  <2>. QED
    BY <1>1, <2>1, <2>2, <2>3
<1>5. Orderly(w, n)
  BY <1>1, <1>2, <1>3, <1>4, TookOutEntries DEF Entries
<1>6. FreeCell.name \notin Names
  BY OrdinaryName DEF FreeCell
<1>7. ASSUME NEW u \in Names
       PROVE  /\ \A q \in Cells(w, n) : Cell(w, n, q).name = u =>
                   Lookup(w, n, u).ok /\ Lookup(w, n, u).inode = Cell(w, n, q).inode
              /\ Lookup(w, n, u).ok => \E q \in Cells(w, n) : Cell(w, n, q).name = u
  BY <1>1, <1>2, <1>5, LookupNamed
<1>8. ASSUME NEW u \in Names
       PROVE  /\ \A q \in Cells(disk, n) : Cell(disk, n, q).name = u =>
                   Lookup(disk, n, u).ok /\ Lookup(disk, n, u).inode = Cell(disk, n, q).inode
              /\ Lookup(disk, n, u).ok => \E q \in Cells(disk, n) : Cell(disk, n, q).name = u
  BY <1>1, LookupNamed
<1>9. ~Lookup(w, n, t).ok
  <2> SUFFICES ASSUME Lookup(w, n, t).ok PROVE FALSE
    OBVIOUS
  <2>1. PICK q \in Cells(w, n) : Cell(w, n, q).name = t
    BY <1>7
  <2>2. q \in Cells(disk, n) /\ q # p /\ Cell(disk, n, q).name = t
    BY <1>4, <1>6, <2>1
  <2>. QED
    BY <1>1, <1>3, <2>2 DEF Orderly
<1>10. ASSUME NEW u \in Names \ {t}
      PROVE  /\ Lookup(w, n, u).ok = Lookup(disk, n, u).ok
             /\ Lookup(disk, n, u).ok => Lookup(w, n, u).inode = Lookup(disk, n, u).inode
  <2>1. Lookup(w, n, u).ok \in BOOLEAN /\ Lookup(disk, n, u).ok \in BOOLEAN
    BY LookupBool
  <2>2. ASSUME Lookup(disk, n, u).ok
        PROVE  Lookup(w, n, u).ok /\ Lookup(w, n, u).inode = Lookup(disk, n, u).inode
    <3>1. PICK q \in Cells(disk, n) : Cell(disk, n, q).name = u
      BY <1>8, <2>2
    <3>2. q \in Cells(w, n) /\ Cell(w, n, q) = Cell(disk, n, q)
      BY <1>3, <1>4, <3>1
    <3>3. Lookup(disk, n, u).inode = Cell(disk, n, q).inode
      BY <1>8, <3>1
    <3>4. Lookup(w, n, u).ok /\ Lookup(w, n, u).inode = Cell(w, n, q).inode
      BY <1>7, <3>1, <3>2
    <3>. QED
      BY <3>2, <3>3, <3>4
  <2>3. ASSUME Lookup(w, n, u).ok PROVE Lookup(disk, n, u).ok
    <3>1. PICK q \in Cells(w, n) : Cell(w, n, q).name = u
      BY <1>7, <2>3
    <3>2. q \in Cells(disk, n) /\ Cell(disk, n, q).name = u
      BY <1>4, <1>6, <3>1
    <3>. QED
      BY <1>8, <3>2
  <2>. QED
    BY <2>1, <2>2, <2>3
<1>. QED
  BY <1>9, <1>10 DEF n, w

-----------------------------------------------------------------------------
(* The theorems                                                            *)

INSTANCE FiniteSetTheorems

\* A non-empty set of naturals has a least element, from the library's
\* well-foundedness of the order of the naturals.
LEMMA NatMinimum ==
  ASSUME NEW T \in SUBSET Nat, T # {}
  PROVE  \E x \in T : \A y \in T : x <= y
<1> DEFINE R == OpToRel(<, Nat)
<1>1. \E x \in T : \A y \in T : ~ (<<y, x>> \in R)
  <2> HIDE DEF R
  <2>1. IsWellFoundedOn(R, Nat)
    BY NatLessThanWellFounded, Zenon DEF R
  <2>. QED
    BY <2>1, WFMin, Zenon
<1>2. \A x, y \in T : <<y, x>> \notin R => x <= y
  BY DEF OpToRel
<1>. QED
  BY <1>1, <1>2, Zenon

\* The facts about finite sets hold.
LEMMA SetFactsHold == SetFacts
<1>1. \A T \in SUBSET Nat : T # {} => \E x \in T : \A y \in T : x <= y
  BY NatMinimum, Zenon
<1>2. \A S : IsFiniteSet(S) =>
        Cardinality(S) \in Nat
  BY FS_CardinalityType, Zenon
<1>3. \A S, T : IsFiniteSet(S) /\ ExistsBijection(S, T) =>
        IsFiniteSet(T) /\ Cardinality(T) = Cardinality(S)
  BY FS_Bijection, Zenon
<1>4. \A S, T, f : f \in Injection(S, T) /\ IsFiniteSet(T) =>
        /\ IsFiniteSet(S) /\ Cardinality(S) <= Cardinality(T)
        /\ Cardinality(S) = Cardinality(T) <=> f \in Surjection(S, T)
  BY FS_Injection, Zenon
<1>5. /\ IsFiniteSet({}) /\ Cardinality({}) = 0
      /\ \A S : IsFiniteSet(S) => (Cardinality(S) = 0 <=> S = {})
  BY FS_EmptySet, Zenon
<1>6. \A x :
        IsFiniteSet({x}) /\ Cardinality({x}) = 1
  BY FS_Singleton, Zenon
<1>7. \A S, x : IsFiniteSet(S) =>
        /\ IsFiniteSet(S \cup {x})
        /\ Cardinality(S \cup {x}) = IF x \in S THEN Cardinality(S) ELSE Cardinality(S) + 1
  BY FS_AddElement, Zenon
<1>8. \A S, x : IsFiniteSet(S) =>
        /\ IsFiniteSet(S \ {x})
        /\ Cardinality(S \ {x}) = IF x \in S THEN Cardinality(S) - 1 ELSE Cardinality(S)
  BY FS_RemoveElement, Zenon
<1>9. \A S, T : IsFiniteSet(S) /\ T \subseteq S =>
        /\ IsFiniteSet(T) /\ Cardinality(T) <= Cardinality(S)
        /\ Cardinality(S) = Cardinality(T) => S = T
  BY FS_Subset, Zenon
<1>10. \A a, b \in Int :
        /\ IsFiniteSet(a .. b)
        /\ Cardinality(a .. b) = IF a > b THEN 0 ELSE b - a + 1
  BY FS_Interval, Zenon
<1>11. \A S, T : IsFiniteSet(S) /\ IsFiniteSet(T) =>
        /\ IsFiniteSet(S \cup T)
        /\ Cardinality(S \cup T) = Cardinality(S) + Cardinality(T) - Cardinality(S \cap T)
  BY FS_Union, Zenon
<1>12. \A S, T : IsFiniteSet(S) =>
        IsFiniteSet(S \cap T) /\ Cardinality(S \cap T) <= Cardinality(S)
  BY FS_Intersection, Zenon
<1>13. \A S, T : IsFiniteSet(S) =>
        /\ IsFiniteSet(S \ T)
        /\ Cardinality(S \ T) = Cardinality(S) - Cardinality(S \cap T)
  BY FS_Difference, Zenon
<1>. QED
  BY <1>1, <1>2, <1>3, <1>4, <1>5, <1>6, <1>7, <1>8, <1>9,
     <1>10, <1>11, <1>12, <1>13, Zenon DEF SetFacts

\* The invariant holds throughout.
THEOREM FsInvariant == Spec => []FsInv
<1>1. FsInv /\ [Next]_vars => FsInv'
  BY SetFactsHold, NextFsInv, Zenon
<1>. QED
  BY <1>1, InitFsInv, PTL DEF Spec

\* Blocks, inodes and their counts: every block of block[] is marked and named
\* once, and the free counts stay within their bounds, whatever commands run and
\* fail, on a disk of any size.
THEOREM FsSpaceAccounted == Spec => []SpaceAccounted
<1>1. FsInv => SpaceAccounted
  BY SetFactsHold, FsSpace, Zenon
<1>. QED
  BY <1>1, FsInvariant, PTL

\* A write to an existing file that succeeds leaves what was written there and
\* every other file as it was; one that fails leaves the disk as it was.  So it is
\* for files of any length, on a disk with any content the commands can give it.
THEOREM FsWriteAllOrNothing == Spec => []WriteAllOrNothing
<1>1. FsInv => WriteAllOrNothing
  BY SetFactsHold, FsWrites, Zenon
<1>. QED
  BY <1>1, FsInvariant, PTL

\* Under ordinary use the invariant of directories holds in every reachable state.
LEMMA FsDirInvariant ==
  ASSUME OrdinaryUse
  PROVE  Spec => []FsDirInv
<1>1. FsInv /\ FsDirInv /\ [Next]_vars => FsDirInv'
  BY SetFactsHold, NextFsDir, Zenon
<1>. QED
  BY <1>1, InitFsDir, FsInvariant, PTL DEF Spec

\* However the commands follow each other, and whatever they fail for, every entry
\* leads to an allocated inode of its own, names are unique in their directory, and ls
\* and lookup agree on them.
THEOREM FsDirectoriesSound == OrdinaryUse => (Spec => []DirectoriesSound)
<1> SUFFICES ASSUME OrdinaryUse PROVE Spec => []DirectoriesSound
  OBVIOUS
<1>1. FsInv /\ FsDirInv => DirectoriesSound
  BY SetFactsHold, FsDirSound, Zenon
<1>. QED
  BY <1>1, FsDirInvariant, FsInvariant, PTL

\* No rmdir removes a directory of the shell's path: the emptiness test sees the entry
\* of the next one, and the last one is not an entry of itself.
THEOREM FsPathIsDirectories == OrdinaryUse => (Spec => []PathIsDirectories)
<1> SUFFICES ASSUME OrdinaryUse PROVE Spec => []PathIsDirectories
  OBVIOUS
<1>1. FsInv /\ FsDirInv => PathIsDirectories
  BY SetFactsHold, FsDirSound, Zenon
<1>. QED
  BY <1>1, FsDirInvariant, FsInvariant, PTL

\* A removal that succeeds takes its name from the directory, and no other: no name
\* behind the freed entry is lost to lookup, and none comes to lead elsewhere.
THEOREM FsRemovalTakesOneName == OrdinaryUse => (Spec => []RemovalTakesOneName)
<1> SUFFICES ASSUME OrdinaryUse PROVE Spec => []RemovalTakesOneName
  OBVIOUS
<1>1. FsInv /\ FsDirInv => RemovalTakesOneName
  BY SetFactsHold, FsRemoves, Zenon
<1>. QED
  BY <1>1, FsDirInvariant, FsInvariant, PTL

=============================================================================
