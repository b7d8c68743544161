--------------------------------- MODULE Fs ---------------------------------
(***************************************************************************)
(* The file system (src/fs/fs.c, fs_shell.c) on its RAM disk (disksim.c),  *)
(* driven by the shell's file commands (shell.c).  One block group.  The   *)
(* disk is its two bitmaps, the counters in the super block and the group  *)
(* descriptor, the inode table and the data blocks.  A data block is an    *)
(* array of cells, each the size of a directory entry; file contents are   *)
(* whole cells of text, which read as directory entries have a name no     *)
(* command asks for and an inode number out of range.                      *)
(***************************************************************************)
EXTENDS Integers, Sequences, FiniteSets, FiniteSetsExt

CONSTANTS
  NBlocks,    \* NUMBER_OF_BLOCK
  DataBase,   \* DATA_BLOCK_BASE, the block of the root directory
  NInodes,    \* NUMBER_OF_INODES
  Reserved,   \* inode bits initInodeBitmap sets: 10
  EPB,        \* directory entries in a block
  DBlocks,    \* FS_D_BLOCKS
  Names,      \* names formatName accepts, formatted
  Typed,      \* bound: what the user types: names, Dot, DotDot, DotDotX, Bad
  Texts,      \* bound: what the user writes to files
  Sizes,      \* bound: the sizes of what the user writes, in cells
  MaxPath,    \* bound: the depth of the path stack (256 in the shell)
  DirWrites   \* bound: whether writes that land on a directory are explored too

VARIABLES
  disk,         \* the disk
  mounted,      \* g_isMounted
  cachedFree,   \* fs->gd.freeInodesCount: read by mount, never again
  path,         \* the shell's path stack up to pathTop: inode numbers
  halted        \* an exception handler has stopped the machine
vars == <<disk, mounted, cachedFree, path, halted>>

Block == 0 .. NBlocks - 1
DataBlock == DataBase .. NBlocks - 1
Inum == 1 .. NInodes
Root == 2                  \* NUM_OF_ROOT_INODE
Slot == 0 .. EPB - 1

NoMore == "no more"        \* DIR_ENTRY_NO_MORE
Free == "free"             \* DIR_ENTRY_FREE
Dot == "."
DotDot == ".."
DotDotX == "..x"           \* typed, and formatted to ".."
Bad == "?"                 \* a name formatName refuses
Visible == "visible"       \* the NULL name of fsRmdir's emptiness test
Junk == NInodes + 1        \* the inode number in a cell of text

ASSUME FsAssumption ==
  /\ NBlocks \in Nat /\ DataBase \in Nat \ {0} /\ DataBase < NBlocks
  /\ NInodes \in Nat /\ Reserved \in Nat /\ Root <= Reserved
  /\ NBlocks - DataBase <= 15      \* FS_N_BLOCKS: no directory outgrows block[]
  /\ Reserved < NInodes /\ EPB \in Nat /\ EPB >= 3 /\ DBlocks \in Nat \ {0}
  /\ Sizes \subseteq Nat /\ MaxPath \in Nat \ {0} /\ DirWrites \in BOOLEAN
  /\ Typed \subseteq Names \cup {Dot, DotDot, DotDotX, Bad}
  /\ (Names \cup Texts) \cap {NoMore, Free, Dot, DotDot, DotDotX, Bad, Visible} = {}
  /\ Names \cap Texts = {}         \* text never reads as an entry someone asks for

ZeroCell == [name |-> NoMore, inode |-> 0]
FreeCell == [name |-> Free, inode |-> 0]
ZeroBlock == [i \in Slot |-> ZeroCell]
ZeroInode == [mode |-> "none", size |-> 0, blk |-> <<>>]

-----------------------------------------------------------------------------
(* Bitmaps and counters                                                    *)

GetFreeInode(d) == IF Inum \subseteq d.ib THEN 0 ELSE Min(Inum \ d.ib)

\* The next k blocks getFreeBlockNumber returns: the lowest clear bits.
FreeBlocks(d) == Block \ d.bb
NthFree(d, i) ==
  CHOOSE b \in FreeBlocks(d) : Cardinality({c \in FreeBlocks(d) : c < b}) = i - 1
GetFreeBlock(d) == IF FreeBlocks(d) = {} THEN 0 ELSE NthFree(d, 1)

\* setBit and setZeroBit, for every number in ns.
SetBits(bits, ns) == bits \cup ns
ClearBits(bits, ns) == bits \ ns

InsertInode(d, n, inode) == [d EXCEPT !.inode[n] = inode]

\* setSb/Gd...Count(-k), one at a time: a counter stops at zero.
Down(c, k) == IF c >= k THEN c - k ELSE 0
BlocksDown(d, k) == [d EXCEPT !.sbFB = Down(@, k), !.gdFB = Down(@, k)]
BlocksUp(d, k) == [d EXCEPT !.sbFB = @ + k, !.gdFB = @ + k]
InodesDown(d) == [d EXCEPT !.sbFI = Down(@, 1), !.gdFI = Down(@, 1)]
InodesUp(d) == [d EXCEPT !.sbFI = @ + 1, !.gdFI = @ + 1]

-----------------------------------------------------------------------------
(* Directories                                                             *)

\* The cells of a directory in scanning order are numbered from 0.
Cells(d, n) == 0 .. EPB * Len(d.inode[n].blk) - 1
BlockOf(d, n, p) == d.inode[n].blk[p \div EPB + 1]
\* Block 0, where a failed lookup may leave the location, is never written.
CellAt(d, loc) ==
  IF loc.block \in DataBlock THEN d.data[loc.block][loc.offset] ELSE ZeroCell
Cell(d, n, p) == d.data[BlockOf(d, n, p)][p % EPB]

Matches(name, key) ==
  IF key = Visible THEN name \notin {NoMore, Free, Dot, DotDot} ELSE name = key

\* lookupEntry: the first cell that matches, unless a NO_MORE cell comes before
\* it.  When nothing is found, the location is left at the last block read.
Lookup(d, n, key) ==
  LET stops == {p \in Cells(d, n) : \/ Matches(Cell(d, n, p).name, key)
                                    \/ Cell(d, n, p).name = NoMore}
      len == Len(d.inode[n].blk)
  IN  IF stops = {}
      THEN [ok |-> FALSE, inode |-> 0,
            loc |-> [block |-> IF len = 0 THEN 0 ELSE d.inode[n].blk[len],
                     offset |-> 0]]
      ELSE LET p == Min(stops)
               ok == Matches(Cell(d, n, p).name, key)
           IN  [ok |-> ok, inode |-> Cell(d, n, p).inode,
                loc |-> [block |-> BlockOf(d, n, p),
                         offset |-> IF ok THEN p % EPB ELSE 0]]

\* fsReadDir: in every block, the entries before its first NO_MORE cell.
ReadDir(d, n) ==
  {Cell(d, n, p) : p \in {q \in Cells(d, n) :
     /\ Matches(Cell(d, n, q).name, Visible)
     /\ \A r \in 0 .. q : r \div EPB = q \div EPB => Cell(d, n, r).name # NoMore}}

SetEntry(d, loc, cell) == [d EXCEPT !.data[loc.block][loc.offset] = cell]

\* A directory gets block b, which starts with the entry end.
GrowDir(d, n, b, end) ==
  BlocksDown([d EXCEPT !.bb = @ \cup {b}, !.inode[n].blk = Append(@, b),
                       !.data[b] = [ZeroBlock EXCEPT ![0] = end]], 1)

\* insertEntry: into a FREE cell, else over the NO_MORE cell, which moves to the
\* next cell or, behind the last one, to a new zeroed block.  placed is whether
\* the entry was written, ok what is returned.
InsertEntry(d, n, cell) ==
  LET f == Lookup(d, n, Free)
      e == Lookup(d, n, NoMore)
      d1 == SetEntry(d, e.loc, cell)
      end == CellAt(d, e.loc)
      b == GetFreeBlock(d1)
  IN  IF f.ok THEN [d |-> SetEntry(d, f.loc, cell), ok |-> TRUE,
                    placed |-> TRUE, loc |-> f.loc]
      ELSE IF ~e.ok THEN [d |-> d, ok |-> FALSE, placed |-> FALSE, loc |-> e.loc]
      ELSE IF e.loc.offset + 1 < EPB
      THEN [d |-> SetEntry(d1, [e.loc EXCEPT !.offset = @ + 1], end),
            ok |-> TRUE, placed |-> TRUE, loc |-> e.loc]
      ELSE IF b = 0 THEN [d |-> d1, ok |-> FALSE, placed |-> TRUE, loc |-> e.loc]
      ELSE [d |-> GrowDir(d1, n, b, end), ok |-> TRUE, placed |-> TRUE, loc |-> e.loc]

-----------------------------------------------------------------------------
(* Operations of fs.c: each returns the new disk and what it reports       *)

\* fillSuperBlock and fillDescriptorTable, written by initSuperBlock and initFsGdt.
FillSuperBlock(d) ==
  [d EXCEPT !.magic = TRUE,
            !.sbFB = NBlocks - (DataBase - 1) - 1, !.gdFB = NBlocks - (DataBase - 1) - 1,
            !.sbFI = NInodes - (Reserved + 1), !.gdFI = NInodes - (Reserved + 1)]

InitBitmaps(d) == [d EXCEPT !.bb = SetBits({}, 0 .. DataBase - 1),
                            !.ib = SetBits({}, 1 .. Reserved)]

\* The root directory takes the first data block.
CreateRoot(d) ==
  [BlocksDown(d, 1) EXCEPT
     !.bb = SetBits(@, {DataBase}),
     !.inode[Root] = [mode |-> "dir", size |-> 0, blk |-> <<DataBase>>],
     !.data[DataBase] = [ZeroBlock EXCEPT ![0] = [name |-> DotDot, inode |-> Root],
                                          ![1] = [name |-> Dot, inode |-> Root]]]

FsFormat(d) == CreateRoot(InitBitmaps(FillSuperBlock(d)))

\* readSuperblock: fails without the magic number of a formatted disk.
ReadSuperblock(d) == [ok |-> d.magic, freeInodes |-> d.gdFI]

\* getFreeInodeNumber and getFreeBlockNumber, called one after the other: a bit
\* that was found stays set even when the other bitmap has none.
TakeBoth(d) ==
  [d EXCEPT !.ib = @ \cup ({GetFreeInode(d)} \ {0}),
            !.bb = @ \cup ({GetFreeBlock(d)} \ {0})]
CanTakeBoth(d) == GetFreeInode(d) # 0 /\ GetFreeBlock(d) # 0

\* fsCreate.  ub: it failed before it wrote the node that sfsCreate then reads.
FsCreate(d, n, name) ==
  LET i == GetFreeInode(d)
      old == Lookup(d, n, name)
      d1 == InodesDown(BlocksDown(TakeBoth(d), 1))
      d2 == InsertInode(d1, i, [mode |-> "file", size |-> 0,
                                blk |-> <<GetFreeBlock(d)>>])
      ins == InsertEntry(d2, n, [name |-> name, inode |-> i])
  IN  IF cachedFree = 0 \/ name = Bad
      THEN [d |-> d, ok |-> FALSE, ub |-> TRUE, loc |-> old.loc]
      ELSE IF old.ok THEN [d |-> d, ok |-> FALSE, ub |-> FALSE, loc |-> old.loc]
      ELSE IF ~CanTakeBoth(d)
      THEN [d |-> TakeBoth(d), ok |-> FALSE, ub |-> FALSE, loc |-> old.loc]
      ELSE [d |-> ins.d, ok |-> TRUE, ub |-> FALSE, loc |-> ins.loc]

\* isExist: whether ls would show the name.
IsExist(d, n, name) == \E c \in ReadDir(d, n) : c.name = name

\* sfsMkdir and fsMkdir: the test for an existing name looks at what ls shows,
\* and the block of the new directory is used as it is.
FsMkdir(d, n, name) ==
  LET i == GetFreeInode(d)
      d1 == InodesDown(BlocksDown(TakeBoth(d), 1))
      ins == InsertEntry(d1, n, [name |-> name, inode |-> i])
      d2 == InsertInode(ins.d, i, [mode |-> "dir", size |-> 0,
                                   blk |-> <<GetFreeBlock(d)>>])
      d3 == InsertEntry(d2, i, [name |-> Dot, inode |-> i]).d
      d4 == InsertEntry(d3, i, [name |-> DotDot, inode |-> n]).d
  IN  IF IsExist(d, n, name)
      THEN [d |-> d, ok |-> FALSE, ub |-> FALSE]
      ELSE IF name = Bad THEN [d |-> d, ok |-> FALSE, ub |-> TRUE]
      ELSE IF ~CanTakeBoth(d) THEN [d |-> TakeBoth(d), ok |-> FALSE, ub |-> TRUE]
      ELSE IF ~ins.ok THEN [d |-> ins.d, ok |-> FALSE, ub |-> FALSE]
      ELSE [d |-> d4, ok |-> TRUE, ub |-> FALSE]

\* fillDataBlock: size cells of text, the rest of the last block zeroed.
FillData(d, blk, size, text) ==
  [d EXCEPT !.data = [b \in DataBlock |->
     IF \E i \in DOMAIN blk : blk[i] = b
     THEN LET i == CHOOSE j \in DOMAIN blk : blk[j] = b
          IN  [s \in Slot |-> IF (i - 1) * EPB + s < size
                              THEN [name |-> text, inode |-> Junk] ELSE ZeroCell]
     ELSE @[b]]]

BlockCount(size) == IF size = 0 THEN 1 ELSE (size + EPB - 1) \div EPB

\* Mutant of GivenBack: one block too many.
GivenBackOneMore(old, want) == {old[i] : i \in want .. Len(old)}

\* The blocks of a file that shrinks to want blocks.
GivenBack(old, want) == {old[i] : i \in want + 1 .. Len(old)}

\* Mutant of RunOut: the blocks added before the disk ran out stay taken.
RunOutKeeps(d) ==
  BlocksDown([d EXCEPT !.bb = Block], Cardinality(FreeBlocks(d)))

\* A file grows and the disk runs out: the blocks that were left are taken one
\* by one, and given back, bits and counters.
RunOut(d) == LET k == Cardinality(FreeBlocks(d)) IN BlocksUp(BlocksDown(d, k), k)

\* fsWrite at offset 0 to the file whose entry is at loc: blocks are added or
\* given back; when the disk runs out, the ones just added are given back.
FsWrite(d, loc, size, text) ==
  LET n == CellAt(d, loc).inode
      want == BlockCount(size)
      old == d.inode[n].blk
      more == IF want > Len(old) THEN want - Len(old) ELSE 0
      added == [i \in 1 .. more |-> NthFree(d, i)]
      kept == SubSeq(old, 1, IF want < Len(old) THEN want ELSE Len(old))
      freed == GivenBack(old, want)
      d1 == BlocksUp(BlocksDown(d, more), Cardinality(freed))
      bits == ClearBits(d.bb \cup {added[i] : i \in 1 .. more}, freed)
      d2 == InsertInode([d1 EXCEPT !.bb = bits], n,
                        [d.inode[n] EXCEPT !.blk = kept \o added, !.size = size])
  IN  IF want > DBlocks \/ n \notin Inum THEN [d |-> d, ok |-> FALSE]
      ELSE IF more > Cardinality(FreeBlocks(d)) THEN [d |-> RunOut(d), ok |-> FALSE]
      ELSE [d |-> FillData(d2, kept \o added, size, text), ok |-> TRUE]

\* The first FS_D_BLOCKS blocks of an inode are zeroed and freed.
FreeBlocksOf(d, n) ==
  LET blk == d.inode[n].blk
      gone == {blk[i] : i \in {j \in DOMAIN blk : j <= DBlocks}}
  IN  BlocksUp([d EXCEPT !.bb = ClearBits(@, gone),
                         !.data = [b \in DataBlock |->
                                     IF b \in gone THEN ZeroBlock ELSE @[b]]],
               Cardinality(gone))

\* Mutant of ClearEntry: the entry is zeroed and not marked FREE.
ClearEntryEnds(d, loc) == SetEntry(d, loc, ZeroCell)

\* Mutant of ClearEntry: the entry stays in its directory.
ClearEntryKeeps(d, loc) == d

ClearEntry(d, loc) == SetEntry(d, loc, FreeCell)

\* The inode is zeroed and its bit cleared; bit numbers are taken modulo the
\* inodes of a group, so that the last inode's bit is missed.
FreeInode(d, m) ==
  InodesUp(InsertInode([d EXCEPT !.ib = ClearBits(@, {m} \ {NInodes})], m, ZeroInode))

\* The common part of fsRemove and fsRmdir, for the entry at loc of inode n: the
\* blocks are freed, then the entry is read again and freed with its inode.  The
\* number read is 0 when the entry lies in a block just zeroed: insertInodeTable
\* then faults.  For the last inode, a byte far outside the bitmap is written,
\* to no effect or to a fault.
RemoveEntry(d, loc, n) ==
  LET d1 == FreeBlocksOf(d, n)
      m == CellAt(d1, loc).inode
  IN  IF m = 0 THEN [d |-> d, ok |-> FALSE, fault |-> {TRUE}]
      ELSE [d |-> FreeInode(ClearEntry(d1, loc), m), ok |-> TRUE,
            fault |-> IF m = NInodes THEN BOOLEAN ELSE {FALSE}]

\* sfsRemove and fsRemove.
FsRemove(d, n, name) ==
  LET e == Lookup(d, n, name)
  IN  IF ~e.ok \/ d.inode[e.inode].mode = "dir"
      THEN [d |-> d, ok |-> FALSE, fault |-> {FALSE}]
      ELSE RemoveEntry(d, e.loc, e.inode)

\* sfsRmdir and fsRmdir: a directory with a visible entry is kept.
FsRmdir(d, n, name) ==
  LET e == Lookup(d, n, name)
  IN  IF \/ ~e.ok
         \/ d.inode[e.inode].mode # "dir"
         \/ Lookup(d, e.inode, Visible).ok
      THEN [d |-> d, ok |-> FALSE, fault |-> {FALSE}]
      ELSE RemoveEntry(d, e.loc, e.inode)

-----------------------------------------------------------------------------
(* Shell commands                                                          *)

cwd == path[Len(path)]

\* formatName: what the name a user types is looked for, or stored, as.
FormatName(t) == IF t = DotDotX THEN DotDot ELSE t

\* The RAM disk is zero and the shell is not in a file system.
Init == /\ disk = [magic |-> FALSE, bb |-> {}, ib |-> {}, sbFB |-> 0, gdFB |-> 0,
                   sbFI |-> 0, gdFI |-> 0, inode |-> [n \in Inum |-> ZeroInode],
                   data |-> [b \in DataBlock |-> ZeroBlock]]
        /\ mounted = FALSE /\ cachedFree = 0 /\ path = <<Root>> /\ halted = FALSE

Running == mounted /\ ~halted

Format == /\ ~mounted /\ ~halted
          /\ disk' = FsFormat(disk)
          /\ UNCHANGED <<mounted, cachedFree, path, halted>>

Mount == /\ ~mounted /\ ~halted
         /\ ReadSuperblock(disk).ok
         /\ mounted' = TRUE /\ cachedFree' = ReadSuperblock(disk).freeInodes
         /\ path' = <<Root>>
         /\ UNCHANGED <<disk, halted>>

Touch(t) ==
  /\ Running
  /\ \E r \in {FsCreate(disk, cwd, FormatName(t))} :
       disk' = r.d /\ halted' \in IF r.ub THEN BOOLEAN ELSE {FALSE}
  /\ UNCHANGED <<mounted, cachedFree, path>>

Mkdir(t) ==
  /\ Running
  /\ \E r \in {FsMkdir(disk, cwd, FormatName(t))} :
       disk' = r.d /\ halted' \in IF r.ub THEN BOOLEAN ELSE {FALSE}
  /\ UNCHANGED <<mounted, cachedFree, path>>

\* echo > file and fill: the file is looked up, created when it is not found,
\* and written.  (fill's kmalloc, from a heap of 30 MB, fails only for sizes that
\* fsWrite refuses too.)
WriteTarget(t) ==
  LET e == Lookup(disk, cwd, FormatName(t))
  IN  IF e.ok THEN [d |-> disk, ok |-> TRUE, ub |-> FALSE, loc |-> e.loc]
      ELSE FsCreate(disk, cwd, FormatName(t))

WriteResult(t, size, text) ==
  LET c == WriteTarget(t)
      w == FsWrite(c.d, c.loc, size, text)
  IN  IF c.ok THEN [d |-> w.d, ok |-> w.ok, ub |-> FALSE]
      ELSE [d |-> c.d, ok |-> FALSE, ub |-> c.ub]

\* The entry found or made names a directory.
LandsOnDir(c) ==
  LET n == CellAt(c.d, c.loc).inode
  IN  c.ok /\ n \in Inum /\ c.d.inode[n].mode = "dir"

Write(t, size, text) ==
  /\ Running
  /\ DirWrites \/ ~LandsOnDir(WriteTarget(t))
  /\ \E r \in {WriteResult(t, size, text)} :
       disk' = r.d /\ halted' \in IF r.ub THEN BOOLEAN ELSE {FALSE}
  /\ UNCHANGED <<mounted, cachedFree, path>>

Rm(t) ==
  /\ Running
  /\ \E r \in {FsRemove(disk, cwd, FormatName(t))} : disk' = r.d /\ halted' \in r.fault
  /\ UNCHANGED <<mounted, cachedFree, path>>

Rmdir(t) ==
  /\ Running
  /\ \E r \in {FsRmdir(disk, cwd, FormatName(t))} : disk' = r.d /\ halted' \in r.fault
  /\ UNCHANGED <<mounted, cachedFree, path>>

\* exit stops the processor, and the RAM disk is lost with it.
Exit == /\ ~halted
        /\ halted' = TRUE
        /\ UNCHANGED <<disk, mounted, cachedFree, path>>

CdRoot == /\ Running
          /\ path' = <<Root>>
          /\ UNCHANGED <<disk, mounted, cachedFree, halted>>

\* Mutant of IsDirectory: the inode's mode is not looked at.
IsDirectoryAlways(d, n) == TRUE

\* isDirectory, as fsNodeToShellEntry sets it.
IsDirectory(d, n) == d.inode[n].mode = "dir" \/ n = Root

\* cd "..", below the bottom of the stack.
CdUp == /\ Running /\ Len(path) > 1
        /\ path' = SubSeq(path, 1, Len(path) - 1)
        /\ UNCHANGED <<disk, mounted, cachedFree, halted>>

\* cd: "." stays; any other name, ".." at the bottom of the stack included, is
\* looked up and a directory is pushed.
Cd(t) ==
  LET e == Lookup(disk, cwd, FormatName(t))
  IN  /\ Running /\ t # Dot /\ ~(t = DotDot /\ Len(path) > 1)
      /\ e.ok /\ IsDirectory(disk, e.inode)
      /\ Len(path) < MaxPath
      /\ path' = Append(path, e.inode)
      /\ UNCHANGED <<disk, mounted, cachedFree, halted>>

Next ==
  \/ Format \/ Mount \/ CdRoot \/ CdUp \/ Exit
  \/ \E t \in Typed : Touch(t) \/ Mkdir(t) \/ Rm(t) \/ Rmdir(t) \/ Cd(t)
  \/ \E t \in Typed, size \in Sizes, text \in Texts : Write(t, size, text)

Spec == Init /\ [][Next]_vars

-----------------------------------------------------------------------------
(* Properties                                                              *)

\* fsRead, as cat and read_whole_file loop over it: the contents of file n.
FsRead(d, n) ==
  [p \in 0 .. d.inode[n].size - 1 |-> Cell(d, n, p).name]

Clear == Block \ disk.bb
ClearInodes == Inum \ disk.ib
BlockSlots == UNION {{<<n, i>> : i \in DOMAIN disk.inode[n].blk} : n \in Inum}
BlockIn(s) == disk.inode[s[1]].blk[s[2]]
Dirs == {n \in Inum : disk.inode[n].mode = "dir"}

\* Type: bitmaps, counters, inode records and cells have their shapes; no counter
\* is negative and the path never names an inode outside the table.
TypeOK ==
  LET CellType == [name : Names \cup Texts \cup {NoMore, Free, Dot, DotDot},
                   inode : 0 .. Junk]
  IN  /\ disk.magic \in BOOLEAN
      /\ disk.bb \subseteq Block /\ disk.ib \subseteq Inum
      /\ disk.sbFB \in Nat /\ disk.gdFB \in Nat
      /\ disk.sbFI \in Nat /\ disk.gdFI \in Nat
      /\ \A n \in Inum : /\ disk.inode[n].mode \in {"none", "file", "dir"}
                         /\ disk.inode[n].size \in Nat
                         /\ disk.inode[n].blk \in Seq(DataBlock)
      /\ disk.data \in [DataBlock -> [Slot -> CellType]]
      /\ mounted \in BOOLEAN /\ halted \in BOOLEAN /\ cachedFree \in Nat
      /\ path \in Seq(Inum) /\ Len(path) \in 1 .. MaxPath

\* Every block some inode's block[] names is a data block marked in the bitmap,
\* and no block is named twice, in one inode or in two: create, mkdir, directory
\* growth, write, shrink, rollback and remove never share or lose track of one.
BlocksOwnedOnce ==
  /\ \A s \in BlockSlots : BlockIn(s) \in disk.bb
  /\ \A s, t \in BlockSlots : BlockIn(s) = BlockIn(t) => s = t

\* The super block and the group descriptor count the same number of free blocks:
\* at least the clear bits and at most the data blocks no inode names.  (The two
\* differ by the blocks that failed commands leave marked.)
BlockCountBounds ==
  disk.magic => /\ disk.sbFB = disk.gdFB
                /\ Cardinality(Clear) <= disk.sbFB
                /\ disk.sbFB <= Cardinality(DataBlock) - Cardinality(BlockSlots)

\* The two free inode counts agree, and are never more than one below the clear
\* bits of the inode bitmap.
InodeCountBounds ==
  disk.magic => /\ disk.sbFI = disk.gdFI
                /\ Cardinality(ClearInodes) <= disk.sbFI + 1

\* Blocks, inodes and their counts after any sequence of commands, also those that
\* fail halfway for want of one of them.
SpaceAccounted == TypeOK /\ BlocksOwnedOnce /\ BlockCountBounds /\ InodeCountBounds

\* The cells of the entries ls and lookup find under ordinary names.
NamedCells(n) == {p \in Cells(disk, n) : Cell(disk, n, p).name \in Names}

\* Every file or directory entry under an ordinary name has an allocated inode
\* that is not a reserved one, and no two entries share an inode.
EntriesSound ==
  LET at == UNION {{<<n, p>> : p \in NamedCells(n)} : n \in Dirs}
      ino(e) == Cell(disk, e[1], e[2]).inode
  IN  ~halted => /\ \A e \in at : ino(e) \in disk.ib \ (1 .. Reserved)
                 /\ \A e, f \in at : ino(e) = ino(f) => e = f

\* In every directory, an entry under an ordinary name is there once, fsReadDir
\* lists it and fsLookup finds it, though the first stops a block at its NO_MORE
\* entry and the second stops the directory there.
ListingAgrees ==
  ~halted => \A n \in Dirs :
    /\ \A p, q \in NamedCells(n) : Cell(disk, n, p).name = Cell(disk, n, q).name => p = q
    /\ \A p \in NamedCells(n) : LET c == Cell(disk, n, p)
                                IN  /\ c \in ReadDir(disk, n)
                                    /\ Lookup(disk, n, c.name).inode = c.inode
                                    /\ Lookup(disk, n, c.name).ok

\* The entries of every directory lead to their own inodes, and listing and lookup
\* agree on them.
DirectoriesSound == EntriesSound /\ ListingAgrees

\* Every directory on the shell's path stack, the working directory included, is
\* an allocated directory: rmdir never removes one the user still stands in.
PathIsDirectories ==
  (mounted /\ ~halted) => \A i \in DOMAIN path : path[i] \in Dirs /\ path[i] \in disk.ib

\* The properties from here on are about the next command, whatever it is: they
\* compare the disk before it with the disk it leaves.

\* A write to an existing file leaves in it what was written, as fsRead returns
\* it, and leaves the contents of every other file as they were.
OverwriteStaysInFile ==
  Running => \A t \in Typed, size \in Sizes, text \in Texts :
    \A e \in {Lookup(disk, cwd, FormatName(t))}, r \in {WriteResult(t, size, text)} :
      (e.ok /\ disk.inode[e.inode].mode # "dir" /\ r.ok)
      => /\ FsRead(r.d, e.inode) = [p \in 0 .. size - 1 |-> text]
         /\ \A n \in Inum \ {e.inode} :
              disk.inode[n].mode = "file" => FsRead(r.d, n) = FsRead(disk, n)

\* A write to an existing file that fails (too large, or the disk is full after
\* some blocks were added) leaves the disk exactly as it was.
FailedWriteIsUndone ==
  Running => \A t \in Typed, size \in Sizes, text \in Texts :
    \A r \in {WriteResult(t, size, text)} :
      (Lookup(disk, cwd, FormatName(t)).ok /\ ~r.ok) => r.d = disk

\* A write to an existing file does what it says and nothing else, or nothing.
WriteAllOrNothing == OverwriteStaysInFile /\ FailedWriteIsUndone

\* rm and rmdir: after a removal that reports success the name is gone from the
\* directory, and every other name finds the inode it found before.
RemovalTakesOneName ==
  Running => \A t \in Names : \A r \in {FsRemove(disk, cwd, t), FsRmdir(disk, cwd, t)} :
    r.ok => /\ ~Lookup(r.d, cwd, t).ok
            /\ \A u \in Names \ {t} :
                 LET before == Lookup(disk, cwd, u)
                     after == Lookup(r.d, cwd, u)
                 IN  /\ after.ok = before.ok
                     /\ before.ok => after.inode = before.inode

-----------------------------------------------------------------------------
(* What the shell's messages say, and the code does not do                 *)

\* "kfree inode count" as mount prints it: the clear bits of the inode bitmap.
FreeInodeCountExact == disk.magic => disk.sbFI = Cardinality(ClearInodes)

\* "kfree block count" as mount prints it: the clear bits of the block bitmap.
FreeBlockCountExact == disk.magic => disk.sbFB = Cardinality(Clear)

\* "touch <file> - create an empty file": a touch that reports success leaves an
\* empty file under that name.
TouchCreates ==
  Running => \A t \in Names :
    \A r \in {FsCreate(disk, cwd, t)} : \A e \in {Lookup(r.d, cwd, t)} :
      r.ok => e.ok /\ r.d.inode[e.inode].mode = "file" /\ r.d.inode[e.inode].size = 0

\* "echo <text...> - print text (supports > redirect)": a redirect to a new name
\* that reports success takes no entry away from any directory.
RedirectKeepsEntries ==
  Running => \A t \in Names, size \in Sizes, text \in Texts :
    \A r \in {WriteResult(t, size, text)} :
      (~Lookup(disk, cwd, t).ok /\ r.ok)
      => \A n \in Dirs, u \in Names : Lookup(disk, n, u).ok => Lookup(r.d, n, u).ok

\* "mkdir <name> - create a directory": a mkdir that reports success leaves an
\* empty directory under that name, with its "." and "..".
MkdirCreates ==
  Running => \A t \in Names :
    \A r \in {FsMkdir(disk, cwd, t)} : \A n \in {Lookup(r.d, cwd, t).inode} :
      r.ok => /\ r.d.inode[n].mode = "dir"
              /\ Lookup(r.d, n, Dot).inode = n
              /\ Lookup(r.d, n, DotDot).inode = cwd
              /\ ~Lookup(r.d, n, Visible).ok

\* "fill <file> <size> - write <size> bytes of test data to a file": a write that
\* reports success takes no entry away from any directory.
FillWritesToFile ==
  Running => \A t \in Typed, size \in Sizes, text \in Texts :
    \A r \in {WriteResult(t, size, text)} :
      r.ok => \A n \in Dirs, u \in Names : Lookup(disk, n, u).ok => Lookup(r.d, n, u).ok
=============================================================================
