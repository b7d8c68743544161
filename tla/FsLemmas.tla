------------------------------ MODULE FsLemmas ------------------------------
(***************************************************************************)
(* Lemmas about the file system, for every disk size, directory block,     *)
(* bound on a file and set of names: what the operations on bitmaps,       *)
(* inodes, blocks and cells give, the invariant that the space is          *)
(* accounted for, and the one about directories that FsProofs shows the    *)
(* commands to keep.                                                       *)
(***************************************************************************)
EXTENDS Fs, TLAPS

\* A cell under a name that a command can ask for leads to an inode.
CellSet ==
  {c \in [name : Names \cup Texts \cup {NoMore, Free, Dot, DotDot}, inode : 0 .. Junk] :
     c.name \in Names \cup {Dot, DotDot} => c.inode \in Inum}

\* The blocks of a file hold what its size says.
InodeSet ==
  {r \in [mode : {"none", "file", "dir"}, size : Nat, blk : Seq(DataBlock)] :
     r.mode = "file" => r.size <= EPB * Len(r.blk)}

Disk == [magic : BOOLEAN, bb : SUBSET Block, ib : SUBSET Inum,
         sbFB : Nat, gdFB : Nat, sbFI : Nat, gdFI : Nat,
         inode : [Inum -> InodeSet], data : [DataBlock -> [Slot -> CellSet]]]

\* The blocks of a list, of an inode table, and of all its inodes but n.
Rng(blk) == {blk[i] : i \in DOMAIN blk}
Owned(tab) == UNION {Rng(tab[n].blk) : n \in Inum}
Others(tab, n) == UNION {Rng(tab[m].blk) : m \in Inum \ {n}}

\* No block is named twice.
Once(blk) == \A i, j \in DOMAIN blk : blk[i] = blk[j] => i = j
OwnedOnce(tab) ==
  /\ \A n \in Inum : Once(tab[n].blk)
  /\ \A m, n \in Inum : m # n => Rng(tab[m].blk) \cap Rng(tab[n].blk) = {}

\* The blocks in used are marked, and c, a count of free blocks, is at least the
\* clear bits and at most the data blocks that are not in used.
Space(bb, used, c) ==
  /\ 0 .. DataBase - 1 \subseteq bb /\ bb \subseteq Block
  /\ used \subseteq bb /\ used \subseteq DataBlock
  /\ c \in Nat
  /\ Cardinality(Block \ bb) <= c
  /\ c <= Cardinality(DataBlock \ used)

\* A disk in the middle of a command: the blocks in E are taken and not yet an
\* inode's.
Sound(d, E) ==
  /\ d \in Disk /\ d.magic
  /\ OwnedOnce(d.inode)
  /\ E \cap Owned(d.inode) = {}
  /\ Space(d.bb, Owned(d.inode) \cup E, d.sbFB)
  /\ d.gdFB = d.sbFB /\ d.gdFI = d.sbFI
  /\ Cardinality(Inum \ d.ib) <= d.sbFI + 1

\* The inductive invariant.  Format, which does not clear the inode table, runs
\* only while no inode but the root has blocks.
FsInv ==
  /\ disk \in Disk
  /\ disk.magic => Sound(disk, {})
  /\ mounted => disk.magic
  /\ ~mounted => \A n \in Inum \ {Root} : disk.inode[n].blk = <<>>
  /\ ~disk.magic => \A n \in Inum : disk.inode[n].blk = <<>>
  /\ mounted \in BOOLEAN /\ halted \in BOOLEAN /\ cachedFree \in Nat
  /\ path \in Seq(Inum) /\ Len(path) \in 1 .. MaxPath

-----------------------------------------------------------------------------
(* Finite sets                                                             *)

\* What the proofs use of finite sets and of the order of the naturals.  It is the
\* hypothesis of the lemmas that need it, and the theorems at the end of FsProofs
\* discharge it with the library's theorems, which all rest on induction.  The
\* provers carry every fact of a module's context through each of its steps: so the
\* library is in the context only where SetFactsHold needs it.
SetFacts ==
  /\ \A T \in SUBSET Nat : T # {} => \E x \in T : \A y \in T : x <= y
  /\ \A S : IsFiniteSet(S) =>
       Cardinality(S) \in Nat
  /\ \A S, T : IsFiniteSet(S) /\ ExistsBijection(S, T) =>
       IsFiniteSet(T) /\ Cardinality(T) = Cardinality(S)
  /\ \A S, T, f : f \in Injection(S, T) /\ IsFiniteSet(T) =>
       /\ IsFiniteSet(S) /\ Cardinality(S) <= Cardinality(T)
       /\ Cardinality(S) = Cardinality(T) <=> f \in Surjection(S, T)
  /\ IsFiniteSet({}) /\ Cardinality({}) = 0
  /\ \A S : IsFiniteSet(S) => (Cardinality(S) = 0 <=> S = {})
  /\ \A x :
       IsFiniteSet({x}) /\ Cardinality({x}) = 1
  /\ \A S, x : IsFiniteSet(S) =>
       /\ IsFiniteSet(S \cup {x})
       /\ Cardinality(S \cup {x}) = IF x \in S THEN Cardinality(S) ELSE Cardinality(S) + 1
  /\ \A S, x : IsFiniteSet(S) =>
       /\ IsFiniteSet(S \ {x})
       /\ Cardinality(S \ {x}) = IF x \in S THEN Cardinality(S) - 1 ELSE Cardinality(S)
  /\ \A S, T : IsFiniteSet(S) /\ T \subseteq S =>
       /\ IsFiniteSet(T) /\ Cardinality(T) <= Cardinality(S)
       /\ Cardinality(S) = Cardinality(T) => S = T
  /\ \A a, b \in Int :
       /\ IsFiniteSet(a .. b)
       /\ Cardinality(a .. b) = IF a > b THEN 0 ELSE b - a + 1
  /\ \A S, T : IsFiniteSet(S) /\ IsFiniteSet(T) =>
       /\ IsFiniteSet(S \cup T)
       /\ Cardinality(S \cup T) = Cardinality(S) + Cardinality(T) - Cardinality(S \cap T)
  /\ \A S, T : IsFiniteSet(S) =>
       IsFiniteSet(S \cap T) /\ Cardinality(S \cap T) <= Cardinality(S)
  /\ \A S, T : IsFiniteSet(S) =>
       /\ IsFiniteSet(S \ T)
       /\ Cardinality(S \ T) = Cardinality(S) - Cardinality(S \cap T)

\* A non-empty set of naturals has a least element.
LEMMA LeastNat ==
  ASSUME SetFacts, NEW T \in SUBSET Nat, T # {}
  PROVE  \E x \in T : \A y \in T : x <= y
BY Zenon DEF SetFacts

\* A cardinality is a natural.
LEMMA CardNat ==
  ASSUME SetFacts, NEW S, IsFiniteSet(S)
  PROVE  Cardinality(S) \in Nat
BY Zenon DEF SetFacts

\* A bijection keeps the cardinality.
LEMMA CardBijection ==
  ASSUME SetFacts, NEW S, NEW T, IsFiniteSet(S), ExistsBijection(S, T)
  PROVE  IsFiniteSet(T) /\ Cardinality(T) = Cardinality(S)
BY Zenon DEF SetFacts

\* An injection between sets of one size is onto.
LEMMA CardInjection ==
  ASSUME SetFacts, NEW S, NEW T, NEW f, f \in Injection(S, T), IsFiniteSet(T)
  PROVE  /\ IsFiniteSet(S) /\ Cardinality(S) <= Cardinality(T)
         /\ Cardinality(S) = Cardinality(T) <=> f \in Surjection(S, T)
BY Zenon DEF SetFacts

\* The empty set has no element, and no other finite set has none.
LEMMA CardEmpty ==
  ASSUME SetFacts
  PROVE  /\ IsFiniteSet({}) /\ Cardinality({}) = 0
         /\ \A S : IsFiniteSet(S) => (Cardinality(S) = 0 <=> S = {})
BY Zenon DEF SetFacts

\* A singleton has one.
LEMMA CardSingleton ==
  ASSUME SetFacts, NEW x
  PROVE  IsFiniteSet({x}) /\ Cardinality({x}) = 1
BY Zenon DEF SetFacts

\* An element more.
LEMMA CardAdd ==
  ASSUME SetFacts, NEW S, NEW x, IsFiniteSet(S)
  PROVE  /\ IsFiniteSet(S \cup {x})
         /\ Cardinality(S \cup {x}) = IF x \in S THEN Cardinality(S) ELSE Cardinality(S) + 1
BY Zenon DEF SetFacts

\* An element less.
LEMMA CardRemove ==
  ASSUME SetFacts, NEW S, NEW x, IsFiniteSet(S)
  PROVE  /\ IsFiniteSet(S \ {x})
         /\ Cardinality(S \ {x}) = IF x \in S THEN Cardinality(S) - 1 ELSE Cardinality(S)
BY Zenon DEF SetFacts

\* A subset of the size of the set is the set.
LEMMA CardSubset ==
  ASSUME SetFacts, NEW S, IsFiniteSet(S), NEW T \in SUBSET S
  PROVE  /\ IsFiniteSet(T) /\ Cardinality(T) <= Cardinality(S)
         /\ Cardinality(S) = Cardinality(T) => S = T
BY Zenon DEF SetFacts

\* An interval.
LEMMA CardInterval ==
  ASSUME SetFacts, NEW a \in Int, NEW b \in Int
  PROVE  /\ IsFiniteSet(a .. b)
         /\ Cardinality(a .. b) = IF a > b THEN 0 ELSE b - a + 1
BY Zenon DEF SetFacts

\* A union.
LEMMA CardUnion ==
  ASSUME SetFacts, NEW S, NEW T, IsFiniteSet(S), IsFiniteSet(T)
  PROVE  /\ IsFiniteSet(S \cup T)
         /\ Cardinality(S \cup T) = Cardinality(S) + Cardinality(T) - Cardinality(S \cap T)
<1>1. \A X, Y : IsFiniteSet(X) /\ IsFiniteSet(Y) =>
        /\ IsFiniteSet(X \cup Y)
        /\ Cardinality(X \cup Y) = Cardinality(X) + Cardinality(Y) - Cardinality(X \cap Y)
  BY Zenon DEF SetFacts
<1>. QED
  BY <1>1, Zenon

\* An intersection.
LEMMA CardIntersection ==
  ASSUME SetFacts, NEW S, NEW T, IsFiniteSet(S)
  PROVE  IsFiniteSet(S \cap T) /\ Cardinality(S \cap T) <= Cardinality(S)
BY Zenon DEF SetFacts

\* A difference.
LEMMA CardDifference ==
  ASSUME SetFacts, NEW S, NEW T, IsFiniteSet(S)
  PROVE  /\ IsFiniteSet(S \ T)
         /\ Cardinality(S \ T) = Cardinality(S) - Cardinality(S \cap T)
BY Zenon DEF SetFacts

-----------------------------------------------------------------------------
(* Numbers and finite sets                                                 *)

\* Min, of a non-empty set of naturals, is its least element.
LEMMA MinLeast ==
  ASSUME SetFacts, NEW T \in SUBSET Nat, T # {}
  PROVE  Min(T) \in T /\ \A y \in T : Min(T) <= y
BY LeastNat, Zenon DEF Min

\* A cell number is a block's position in the directory and a slot in the block.
LEMMA DivMod ==
  ASSUME NEW p \in Nat, NEW k \in Nat, p < EPB * k
  PROVE  /\ p \div EPB \in Nat /\ p \div EPB + 1 \in 1 .. k
         /\ p % EPB \in Slot
         /\ (p \div EPB) * EPB + (p % EPB) = p
<1> USE FsAssumption DEF Slot
<1>1. p \div EPB \in Nat /\ p % EPB \in 0 .. EPB - 1
  BY Z3
<1>2. (p \div EPB) * EPB + (p % EPB) = p
  BY <1>1, Z3
<1>3. p \div EPB < k
  <2> DEFINE q == p \div EPB
  <2>1. q \in Nat /\ q * EPB <= p
    BY <1>1, <1>2
  <2> HIDE DEF q
  <2>2. q * EPB < EPB * k
    BY <2>1
  <2>. QED
    BY <2>1, <2>2, Z3 DEF q
<1>. QED
  BY <1>1, <1>2, <1>3

\* The blocks a file of size cells needs hold them.
LEMMA BlockCountHolds ==
  ASSUME NEW size \in Nat
  PROVE  BlockCount(size) \in Nat \ {0} /\ size <= EPB * BlockCount(size)
<1> USE FsAssumption
<1>1. CASE size = 0
  BY <1>1 DEF BlockCount
<1>2. CASE size # 0
  <2> DEFINE x == size + EPB - 1
             q == x \div EPB
  <2>1. x \in Nat /\ x >= EPB
    BY <1>2
  <2> HIDE DEF x
  <2>2. q \in Nat /\ q # 0 /\ x < EPB * q + EPB
    BY <2>1, Z3
  <2> HIDE DEF q
  <2>3. size <= EPB * q
    <3>1. EPB * q \in Nat
      BY <2>2
    <3>. QED
      BY <2>2, <3>1 DEF x
  <2>. QED
    BY <1>2, <2>2, <2>3, Zenon DEF BlockCount, q, x
<1>. QED
  BY <1>1, <1>2, Zenon

\* Blocks and inodes are finitely many.
LEMMA FiniteSpace ==
  ASSUME SetFacts
  PROVE  /\ IsFiniteSet(Block) /\ IsFiniteSet(DataBlock) /\ IsFiniteSet(Inum)
         /\ DataBlock \subseteq Block
         /\ Cardinality(DataBlock) = NBlocks - DataBase
         /\ Cardinality(Inum) = NInodes
BY FsAssumption, CardInterval DEF Block, DataBlock, Inum

\* A subset of a finite set, and what is left without it.
LEMMA Without ==
  ASSUME SetFacts, NEW S, IsFiniteSet(S), NEW T \in SUBSET S
  PROVE  /\ IsFiniteSet(S \ T) /\ IsFiniteSet(T)
         /\ Cardinality(T) \in Nat /\ Cardinality(S) \in Nat
         /\ Cardinality(S \ T) = Cardinality(S) - Cardinality(T)
         /\ Cardinality(T) <= Cardinality(S)
<1> USE Zenon
<1>1. S \cap T = T
  OBVIOUS
<1>2. IsFiniteSet(S \ T) /\ Cardinality(S \ T) = Cardinality(S) - Cardinality(S \cap T)
  BY CardDifference
<1>3. IsFiniteSet(T) /\ Cardinality(T) <= Cardinality(S)
  BY CardSubset
<1>4. Cardinality(T) \in Nat /\ Cardinality(S) \in Nat
  BY <1>3, CardNat
<1>. QED
  BY <1>1, <1>2, <1>3, <1>4

\* A union with something apart.
LEMMA With ==
  ASSUME SetFacts, NEW S, IsFiniteSet(S), NEW T, IsFiniteSet(T), S \cap T = {}
  PROVE  /\ IsFiniteSet(S \cup T)
         /\ Cardinality(S \cup T) = Cardinality(S) + Cardinality(T)
         /\ Cardinality(S) \in Nat /\ Cardinality(T) \in Nat
BY CardUnion, CardEmpty, CardNat

-----------------------------------------------------------------------------
(* What taking and giving back blocks does to the counts                   *)

\* What Space says of the sets it is about.
LEMMA SpaceSets ==
  ASSUME SetFacts, NEW bb, NEW used, NEW c, Space(bb, used, c)
  PROVE  /\ Block \ bb \subseteq DataBlock
         /\ IsFiniteSet(Block \ bb) /\ Cardinality(Block \ bb) \in Nat
         /\ IsFiniteSet(used) /\ Cardinality(used) \in Nat
         /\ Cardinality(DataBlock \ used) = Cardinality(DataBlock) - Cardinality(used)
<1> USE Zenon
<1>1. Block \ bb \subseteq DataBlock
  BY FsAssumption, SMT DEF Space, Block, DataBlock
<1>2. bb \subseteq Block /\ used \in SUBSET DataBlock
  BY DEF Space
<1>3. IsFiniteSet(Block \ bb) /\ Cardinality(Block \ bb) \in Nat
  <2>1. bb \in SUBSET Block
    BY <1>2
  <2>. QED
    BY <2>1, Without, FiniteSpace, CardNat
<1>4. /\ IsFiniteSet(used) /\ Cardinality(used) \in Nat
      /\ Cardinality(DataBlock \ used) = Cardinality(DataBlock) - Cardinality(used)
  BY <1>2, Without, FiniteSpace
<1>. QED
  BY <1>1, <1>3, <1>4

\* getFreeBlockNumber and the counter, for the blocks of A.
LEMMA SpaceTake ==
  ASSUME SetFacts, NEW bb, NEW used, NEW c, Space(bb, used, c),
         NEW A \in SUBSET (Block \ bb)
  PROVE  /\ Cardinality(A) \in Nat /\ Cardinality(A) <= c
         /\ Space(bb \cup A, used \cup A, Down(c, Cardinality(A)))
<1> USE Zenon
<1> DEFINE k == Cardinality(A)
           free == Block \ bb
           spare == DataBlock \ used
<1>1. /\ free \subseteq DataBlock /\ IsFiniteSet(free) /\ Cardinality(free) \in Nat
  BY SpaceSets
<1>2. /\ 0 .. DataBase - 1 \subseteq bb /\ bb \subseteq Block
      /\ used \subseteq bb /\ used \subseteq DataBlock /\ c \in Nat
      /\ Cardinality(free) <= c /\ c <= Cardinality(spare)
  BY DEF Space
<1>3. /\ k \in Nat /\ IsFiniteSet(A)
      /\ Cardinality(free \ A) = Cardinality(free) - k /\ k <= Cardinality(free)
  BY <1>1, Without
<1>4. A \subseteq spare /\ IsFiniteSet(spare)
  BY <1>1, <1>2, FiniteSpace, CardDifference
<1>5. Cardinality(spare \ A) = Cardinality(spare) - k /\ Cardinality(spare) \in Nat
  BY <1>4, Without
<1>6. Block \ (bb \cup A) = free \ A /\ DataBlock \ (used \cup A) = spare \ A
  OBVIOUS
<1>7. k <= c /\ Down(c, k) = c - k /\ c - k \in Nat
  <2> HIDE DEF k, free, spare
  <2>. QED
    BY <1>1, <1>2, <1>3, SMT DEF Down
<1>8. /\ Cardinality(Block \ (bb \cup A)) <= Down(c, k)
      /\ Down(c, k) <= Cardinality(DataBlock \ (used \cup A))
  <2>1. Cardinality(free \ A) <= c - k /\ c - k <= Cardinality(spare \ A)
    <3> HIDE DEF k, free, spare
    <3>. QED
      BY <1>1, <1>2, <1>3, <1>5, SMT
  <2>. QED
    BY <1>6, <1>7, <2>1
<1>9. /\ 0 .. DataBase - 1 \subseteq bb \cup A /\ bb \cup A \subseteq Block
      /\ used \cup A \subseteq bb \cup A /\ used \cup A \subseteq DataBlock
  BY <1>1, <1>2
<1>. QED
  BY <1>3, <1>7, <1>8, <1>9 DEF Space

\* Blocks of G are freed and counted.
LEMMA SpaceGive ==
  ASSUME SetFacts, NEW bb, NEW used, NEW c, Space(bb, used, c), NEW G \in SUBSET used
  PROVE  /\ Cardinality(G) \in Nat
         /\ Space(bb \ G, used \ G, c + Cardinality(G))
<1> USE Zenon
<1> DEFINE k == Cardinality(G)
           free == Block \ bb
           spare == DataBlock \ used
<1>1. /\ IsFiniteSet(free) /\ Cardinality(free) \in Nat
      /\ IsFiniteSet(used)
  BY SpaceSets
<1>2. /\ 0 .. DataBase - 1 \subseteq bb /\ bb \subseteq Block
      /\ used \subseteq bb /\ used \subseteq DataBlock /\ c \in Nat
      /\ Cardinality(free) <= c /\ c <= Cardinality(spare)
  BY DEF Space
<1>3. k \in Nat /\ IsFiniteSet(G)
  BY <1>1, Without
<1>4. IsFiniteSet(spare)
  BY FiniteSpace, CardDifference
<1>5. Cardinality(free \cup G) = Cardinality(free) + k
  <2>1. free \cap G = {}
    BY <1>2
  <2>. QED
    BY <1>1, <1>3, <2>1, With
<1>6. Cardinality(spare \cup G) = Cardinality(spare) + k /\ Cardinality(spare) \in Nat
  <2>1. spare \cap G = {}
    BY <1>2
  <2>. QED
    BY <1>3, <1>4, <2>1, With
<1>7. Block \ (bb \ G) = free \cup G /\ DataBlock \ (used \ G) = spare \cup G
  BY <1>2, FiniteSpace
<1>8. 0 .. DataBase - 1 \subseteq bb \ G
  BY <1>2, FsAssumption, SMT DEF DataBlock
<1>9. bb \ G \subseteq Block /\ used \ G \subseteq bb \ G /\ used \ G \subseteq DataBlock
  BY <1>2
<1>10. /\ c + k \in Nat
       /\ Cardinality(free \cup G) <= c + k /\ c + k <= Cardinality(spare \cup G)
  <2> HIDE DEF k, free, spare
  <2>. QED
    BY <1>1, <1>2, <1>3, <1>5, <1>6, SMT
<1>. QED
  BY <1>3, <1>7, <1>8, <1>9, <1>10 DEF Space

\* Blocks of A are marked, and neither counted nor used.
LEMMA SpaceMark ==
  ASSUME SetFacts, NEW bb, NEW used, NEW c, Space(bb, used, c), NEW A \in SUBSET Block
  PROVE  Space(bb \cup A, used, c)
<1> USE Zenon
<1>1. /\ Block \ (bb \cup A) \in SUBSET (Block \ bb)
      /\ IsFiniteSet(Block \ bb) /\ Cardinality(Block \ bb) \in Nat
  BY SpaceSets
<1>2. /\ Cardinality(Block \ (bb \cup A)) <= Cardinality(Block \ bb)
      /\ Cardinality(Block \ (bb \cup A)) \in Nat
  BY <1>1, Without
<1>3. /\ 0 .. DataBase - 1 \subseteq bb /\ bb \subseteq Block
      /\ used \subseteq bb /\ used \subseteq DataBlock /\ c \in Nat
      /\ Cardinality(Block \ bb) <= c /\ c <= Cardinality(DataBlock \ used)
  BY DEF Space
<1>4. Cardinality(Block \ (bb \cup A)) <= c
  BY <1>1, <1>2, <1>3, SMT
<1>5. /\ 0 .. DataBase - 1 \subseteq bb \cup A /\ bb \cup A \subseteq Block
      /\ used \subseteq bb \cup A
  BY <1>3
<1>. QED
  BY <1>3, <1>4, <1>5 DEF Space

\* Blocks no longer used stay marked.
LEMMA SpaceDrop ==
  ASSUME SetFacts, NEW bb, NEW used, NEW c, Space(bb, used, c), NEW rest \in SUBSET used
  PROVE  Space(bb, rest, c)
<1> USE Zenon
<1>1. /\ IsFiniteSet(used) /\ Cardinality(used) \in Nat
      /\ Cardinality(DataBlock \ used) = Cardinality(DataBlock) - Cardinality(used)
  BY SpaceSets
<1>2. /\ used \subseteq bb /\ used \subseteq DataBlock /\ c \in Nat
      /\ c <= Cardinality(DataBlock \ used)
  BY DEF Space
<1>3. Cardinality(rest) \in Nat /\ Cardinality(rest) <= Cardinality(used)
  BY <1>1, Without
<1>4. /\ Cardinality(DataBlock \ rest) = Cardinality(DataBlock) - Cardinality(rest)
      /\ Cardinality(DataBlock) \in Nat
  <2>1. rest \in SUBSET DataBlock
    BY <1>2
  <2>. QED
    BY <2>1, FiniteSpace, Without
<1>5. c <= Cardinality(DataBlock \ rest)
  BY <1>1, <1>2, <1>3, <1>4, SMT
<1>. QED
  BY <1>2, <1>5 DEF Space

-----------------------------------------------------------------------------
(* The inode table and the free blocks                                     *)

\* The blocks of a table are those of one inode and those of the others.
LEMMA TableSplit ==
  ASSUME NEW tab, NEW n \in Inum
  PROVE  /\ Owned(tab) = Others(tab, n) \cup Rng(tab[n].blk)
         /\ OwnedOnce(tab) => Others(tab, n) \cap Rng(tab[n].blk) = {}
BY Zenon DEF Owned, Others, OwnedOnce

\* An inode gets blocks that no other has.
LEMMA TableSet ==
  ASSUME NEW tab \in [Inum -> InodeSet], OwnedOnce(tab),
         NEW n \in Inum, NEW r \in InodeSet, Once(r.blk),
         Rng(r.blk) \cap Others(tab, n) = {}
  PROVE  /\ [tab EXCEPT ![n] = r] \in [Inum -> InodeSet]
         /\ OwnedOnce([tab EXCEPT ![n] = r])
         /\ Owned([tab EXCEPT ![n] = r]) = Others(tab, n) \cup Rng(r.blk)
<1> USE Zenon
<1> DEFINE t == [tab EXCEPT ![n] = r]
<1>1. /\ t \in [Inum -> InodeSet] /\ t[n] = r
      /\ \A m \in Inum : m # n => t[m] = tab[m]
  OBVIOUS
<1> HIDE DEF t
<1>2. Others(t, n) = Others(tab, n)
  BY <1>1 DEF Others
<1>3. Owned(t) = Others(tab, n) \cup Rng(r.blk)
  BY <1>1, <1>2, TableSplit
<1>4. \A m \in Inum : Once(t[m].blk)
  BY <1>1 DEF OwnedOnce
<1>5. \A m \in Inum : m # n => Rng(t[m].blk) \cap Rng(t[n].blk) = {}
  <2>1. \A m \in Inum : m # n => Rng(tab[m].blk) \subseteq Others(tab, n)
    BY DEF Others
  <2>. QED
    BY <1>1, <2>1
<1>6. \A m, k \in Inum : m # k => Rng(t[m].blk) \cap Rng(t[k].blk) = {}
  <2> TAKE m, k \in Inum
  <2> HAVE m # k
  <2>1. CASE m = n
    BY <2>1, <1>5
  <2>2. CASE k = n
    BY <2>2, <1>5
  <2>3. CASE m # n /\ k # n
    BY <2>3, <1>1 DEF OwnedOnce
  <2>. QED
    BY <2>1, <2>2, <2>3
<1>. QED
  BY <1>1, <1>3, <1>4, <1>6 DEF t, OwnedOnce

\* The i-th free block is a free block, with i - 1 free blocks below it.
LEMMA NthFreeIs ==
  ASSUME SetFacts, NEW d, NEW i \in Nat \ {0}, i <= Cardinality(FreeBlocks(d))
  PROVE  /\ NthFree(d, i) \in FreeBlocks(d)
         /\ Cardinality({c \in FreeBlocks(d) : c < NthFree(d, i)}) = i - 1
<1> DEFINE F == FreeBlocks(d)
           below(k) == {c \in F : c < k}
           card(k) == Cardinality(below(k))
           K == {k \in 0 .. NBlocks : card(k) >= i}
<1>1. IsFiniteSet(F) /\ F \subseteq Block
  BY FiniteSpace, CardDifference, Zenon DEF FreeBlocks
<1>2. \A k : below(k) \in SUBSET F
  BY Zenon
<1>3. \A k : IsFiniteSet(below(k)) /\ Cardinality(below(k)) \in Nat
  <2> HIDE DEF below, F
  <2>. QED
    BY <1>1, <1>2, Without, Zenon
<1>4. NBlocks \in K
  <2>1. below(NBlocks) = F
    BY <1>1, FsAssumption DEF Block
  <2>2. Cardinality(F) \in Nat /\ Cardinality(F) >= i
    BY <1>1, CardNat, Zenon
  <2>3. card(NBlocks) = Cardinality(F) /\ Cardinality(F) >= i
    BY <2>1, <2>2, Zenon
  <2> HIDE DEF card, F
  <2>. QED
    BY <2>2, <2>3, FsAssumption
<1> HIDE DEF card
<1>5. PICK k \in K : \A j \in K : k <= j
  <2>1. K \in SUBSET Nat /\ K # {}
    BY <1>4
  <2> HIDE DEF K
  <2>. QED
    BY <2>1, LeastNat, Zenon
<1>6. k # 0
  <2>1. below(0) = {}
    BY <1>1, FsAssumption DEF Block
  <2>2. card(0) = 0
    BY <2>1, CardEmpty, Zenon DEF card
  <2>. QED
    BY <2>2
<1> DEFINE b == k - 1
<1>7. b \in 0 .. NBlocks /\ b \notin K
  BY <1>5, <1>6, FsAssumption
<1>8. card(b) < i /\ card(k) >= i /\ card(b) \in Nat /\ card(k) \in Nat
  <2>1. card(b) \in Nat /\ card(k) \in Nat
    BY <1>3, Zenon DEF card
  <2>. QED
    BY <1>7, <2>1
<1>9. below(k) = IF b \in F THEN below(b) \cup {b} ELSE below(b)
  BY <1>1, <1>7, FsAssumption DEF Block
<1>10. b \in F
  <2>1. b \notin F => card(k) = card(b)
    BY <1>9, Zenon DEF card
  <2>. QED
    BY <1>8, <2>1
<1>11. card(k) = card(b) + 1
  <2>1. b \notin below(b)
    BY <1>7
  <2> HIDE DEF below, b
  <2>. QED
    BY <1>3, <1>9, <1>10, <2>1, CardAdd, Zenon DEF card
<1>12. card(b) = i - 1
  BY <1>8, <1>11
<1>13. \E c \in F : Cardinality({e \in F : e < c}) = i - 1
  BY <1>10, <1>12, Zenon DEF card
<1> HIDE DEF F
<1>14. LET c == CHOOSE c \in F : Cardinality({e \in F : e < c}) = i - 1
       IN  c \in F /\ Cardinality({e \in F : e < c}) = i - 1
  BY <1>13, Zenon
<1>. QED
  BY <1>14, Zenon DEF NthFree, F

\* Getting a free block, or 0.
LEMMA GetFreeBlockIs ==
  ASSUME SetFacts, NEW d
  PROVE  /\ FreeBlocks(d) = {} => GetFreeBlock(d) = 0
         /\ FreeBlocks(d) # {} => GetFreeBlock(d) \in FreeBlocks(d)
<1> USE Zenon
<1>1. CASE FreeBlocks(d) = {}
  BY <1>1 DEF GetFreeBlock
<1>2. CASE FreeBlocks(d) # {}
  <2>1. IsFiniteSet(FreeBlocks(d))
    BY FiniteSpace, CardDifference DEF FreeBlocks
  <2>2. Cardinality(FreeBlocks(d)) \in Nat /\ Cardinality(FreeBlocks(d)) # 0
    BY <1>2, <2>1, CardNat, CardEmpty
  <2>3. NthFree(d, 1) \in FreeBlocks(d)
    <3>1. 1 \in Nat \ {0} /\ 1 <= Cardinality(FreeBlocks(d))
      BY <2>2, SMT
    <3>. QED
      BY <3>1, NthFreeIs
  <2>. QED
    BY <1>2, <2>3 DEF GetFreeBlock
<1>. QED
  BY <1>1, <1>2

\* Getting a free inode, or 0.
LEMMA GetFreeInodeIs ==
  ASSUME SetFacts, NEW d
  PROVE  /\ Inum \subseteq d.ib => GetFreeInode(d) = 0
         /\ ~(Inum \subseteq d.ib) => GetFreeInode(d) \in Inum \ d.ib
<1>1. CASE ~(Inum \subseteq d.ib)
  <2> DEFINE T == Inum \ d.ib
  <2>1. T \in SUBSET Nat /\ T # {}
    BY <1>1, FsAssumption DEF Inum
  <2>2. Min(T) \in T
    <3> HIDE DEF T
    <3>. QED
      BY <2>1, MinLeast, Zenon
  <2>. QED
    BY <1>1, <2>2, Zenon DEF GetFreeInode
<1>. QED
  BY <1>1, Zenon DEF GetFreeInode

-----------------------------------------------------------------------------
(* Cells and lookups                                                       *)

\* A place in a data block, or in block 0, where a lookup that fails may stop.
Place == [block : DataBlock, offset : Slot]
Loc == [block : {0} \cup DataBlock, offset : Slot]

\* e differs from d at most in the inode table and the data blocks.
SameSpace(e, d) ==
  /\ e.magic = d.magic /\ e.bb = d.bb /\ e.ib = d.ib
  /\ e.sbFB = d.sbFB /\ e.gdFB = d.gdFB /\ e.sbFI = d.sbFI /\ e.gdFI = d.gdFI

\* The fields of a disk.
LEMMA DiskFields ==
  ASSUME NEW d \in Disk
  PROVE  /\ d.magic \in BOOLEAN /\ d.bb \in SUBSET Block /\ d.ib \in SUBSET Inum
         /\ d.sbFB \in Nat /\ d.gdFB \in Nat /\ d.sbFI \in Nat /\ d.gdFI \in Nat
         /\ d.inode \in [Inum -> InodeSet] /\ d.data \in [DataBlock -> [Slot -> CellSet]]
BY Zenon DEF Disk

\* The cells that mark and end entries are cells.
LEMMA PlainCells ==
  ZeroCell \in CellSet /\ FreeCell \in CellSet /\ ZeroBlock \in [Slot -> CellSet]
<1>1. ZeroCell \in CellSet /\ FreeCell \in CellSet
  <2>1. NoMore \notin Names \cup {Dot, DotDot} /\ Free \notin Names \cup {Dot, DotDot}
    BY FsAssumption, Zenon DEF NoMore, Free, Dot, DotDot
  <2>2. 0 \in 0 .. Junk
    BY FsAssumption DEF Junk
  <2>. QED
    BY <2>1, <2>2, Zenon DEF ZeroCell, FreeCell, CellSet
<1>. QED
  BY <1>1, Zenon DEF ZeroBlock

\* What a location holds, block 0 included, is a cell.
LEMMA CellAtIs ==
  ASSUME NEW d \in Disk, NEW loc \in Loc
  PROVE  CellAt(d, loc) \in CellSet
BY DiskFields, PlainCells DEF CellAt, Loc

\* A cell of a directory lies in one of its blocks.
LEMMA CellIs ==
  ASSUME NEW d \in Disk, NEW n \in Inum, NEW p \in Cells(d, n)
  PROVE  /\ p \in Nat
         /\ BlockOf(d, n, p) \in DataBlock /\ p % EPB \in Slot
         /\ Cell(d, n, p) \in CellSet
         /\ Cell(d, n, p) = d.data[BlockOf(d, n, p)][p % EPB]
<1> DEFINE blk == d.inode[n].blk
<1>1. blk \in Seq(DataBlock)
  BY DiskFields, Zenon DEF InodeSet
<1>2. p \in Nat /\ Len(blk) \in Nat /\ p < EPB * Len(blk)
  <2>1. Len(blk) \in Nat /\ p \in 0 .. EPB * Len(blk) - 1
    BY <1>1 DEF Cells
  <2>2. EPB * Len(blk) \in Nat
    BY <2>1, FsAssumption
  <2>. QED
    BY <2>1, <2>2
<1>3. p \div EPB + 1 \in 1 .. Len(blk) /\ p % EPB \in Slot
  <2> HIDE DEF blk
  <2>. QED
    BY <1>2, DivMod, Zenon
<1>4. BlockOf(d, n, p) \in DataBlock
  BY <1>1, <1>3 DEF BlockOf
<1>. QED
  BY <1>2, <1>3, <1>4, DiskFields, Zenon DEF Cell

\* Where a lookup stops, and what it has found.
LEMMA LookupIs ==
  ASSUME SetFacts, NEW d \in Disk, NEW n \in Inum, NEW key
  PROVE  LET e == Lookup(d, n, key)
         IN  /\ e.ok \in BOOLEAN /\ e.loc \in Loc
             /\ e.ok => /\ e.loc \in Place
                        /\ Matches(CellAt(d, e.loc).name, key)
                        /\ CellAt(d, e.loc).inode = e.inode
<1> USE Zenon
<1> DEFINE stops == {p \in Cells(d, n) : \/ Matches(Cell(d, n, p).name, key)
                                         \/ Cell(d, n, p).name = NoMore}
           blk == d.inode[n].blk
           e == Lookup(d, n, key)
<1>0. \A x : Matches(x, key) \in BOOLEAN
  BY DEF Matches
<1>1. CASE stops = {}
  <2>1. e = [ok |-> FALSE, inode |-> 0,
             loc |-> [block |-> IF Len(blk) = 0 THEN 0 ELSE blk[Len(blk)], offset |-> 0]]
    BY <1>1 DEF Lookup
  <2>2. blk \in Seq(DataBlock)
    BY DiskFields DEF InodeSet
  <2>3. Len(blk) # 0 => blk[Len(blk)] \in DataBlock
    BY <2>2, SMT
  <2>4. 0 \in Slot
    BY FsAssumption, SMT DEF Slot
  <2> HIDE DEF e
  <2>. QED
    BY <2>1, <2>3, <2>4, SMT DEF Loc, e
<1>2. CASE stops # {}
  <2> DEFINE p == Min(stops)
             ok == Matches(Cell(d, n, p).name, key)
  <2>1. e = [ok |-> ok, inode |-> Cell(d, n, p).inode,
             loc |-> [block |-> BlockOf(d, n, p), offset |-> IF ok THEN p % EPB ELSE 0]]
    BY <1>2 DEF Lookup
  <2>2. p \in Cells(d, n)
    <3>1. stops \in SUBSET Nat
      BY CellIs
    <3>2. p \in stops
      <4> HIDE DEF stops
      <4>. QED
        BY <1>2, <3>1, MinLeast
    <3>. QED
      BY <3>2
  <2> HIDE DEF p
  <2>3. /\ BlockOf(d, n, p) \in DataBlock /\ p % EPB \in Slot
        /\ Cell(d, n, p) = d.data[BlockOf(d, n, p)][p % EPB]
    BY <2>2, CellIs
  <2>4. 0 \in Slot
    BY FsAssumption, SMT DEF Slot
  <2>5. ok \in BOOLEAN
    BY <1>0
  <2>6. e.ok = ok /\ e.inode = Cell(d, n, p).inode /\ e.loc \in Loc
        /\ e.loc.block = BlockOf(d, n, p) /\ (ok => e.loc.offset = p % EPB)
        /\ e.loc \in Place
    <3> HIDE DEF ok, e
    <3>. QED
      BY <2>1, <2>3, <2>4 DEF Loc, Place
  <2>7. ok => CellAt(d, e.loc) = Cell(d, n, p)
    <3> HIDE DEF ok, e
    <3>. QED
      BY <2>3, <2>6 DEF CellAt
  <2> HIDE DEF e
  <2>. QED
    BY <2>5, <2>6, <2>7 DEF e
<1>. QED
  BY <1>1, <1>2

\* A name a user can type is found only in a cell that leads to an inode.
LEMMA FoundInode ==
  ASSUME SetFacts, NEW d \in Disk, NEW n \in Inum, NEW t \in Typed \cup Names,
         Lookup(d, n, FormatName(t)).ok
  PROVE  Lookup(d, n, FormatName(t)).inode \in Inum
<1> USE Zenon
<1> DEFINE key == FormatName(t)
           e == Lookup(d, n, key)
           c == CellAt(d, e.loc)
<1>1. key \in Names \cup {Dot, DotDot, Bad} /\ key # Visible
  BY FsAssumption DEF FormatName, DotDotX, Dot, DotDot, Bad, Visible, NoMore, Free
<1> HIDE DEF key
<1>2. /\ e.loc \in Loc /\ Matches(c.name, key) /\ c.inode = e.inode
  BY LookupIs DEF key
<1>3. c \in CellSet
  BY <1>2, CellAtIs
<1>4. c.name = key
  BY <1>1, <1>2 DEF Matches
<1> HIDE DEF c
<1>5. c.name # Bad
  BY <1>3, FsAssumption DEF CellSet, DotDotX, Dot, DotDot, Bad, Visible, NoMore, Free
<1>6. c.inode \in Inum
  BY <1>1, <1>3, <1>4, <1>5 DEF CellSet
<1>. QED
  BY <1>2, <1>6 DEF key

-----------------------------------------------------------------------------
(* Steps of the commands: each keeps the disk sound                        *)

\* Only data blocks change.
LEMMA DataOnly ==
  ASSUME NEW d, NEW E, Sound(d, E), NEW e \in Disk,
         SameSpace(e, d), e.inode = d.inode
  PROVE  Sound(e, E)
BY Zenon DEF Sound, SameSpace

\* Writing one cell leaves the space as it was.
LEMMA SetEntryKeeps ==
  ASSUME NEW d, NEW E, Sound(d, E), NEW loc \in Place, NEW cell \in CellSet
  PROVE  /\ Sound(SetEntry(d, loc, cell), E)
         /\ SameSpace(SetEntry(d, loc, cell), d)
         /\ SetEntry(d, loc, cell).inode = d.inode
<1> DEFINE e == SetEntry(d, loc, cell)
<1>1. d \in Disk
  BY Zenon DEF Sound
<1>2. e \in Disk /\ SameSpace(e, d) /\ e.inode = d.inode
  BY <1>1, Zenon DEF SetEntry, Disk, SameSpace, Place
<1> HIDE DEF e
<1>. QED
  BY <1>2, DataOnly, Zenon DEF e

\* A list gets a block it does not have.
LEMMA AppendOnce ==
  ASSUME NEW blk \in Seq(DataBlock), NEW b \in DataBlock, Once(blk), b \notin Rng(blk)
  PROVE  /\ Append(blk, b) \in Seq(DataBlock) /\ Len(Append(blk, b)) = Len(blk) + 1
         /\ Once(Append(blk, b)) /\ Rng(Append(blk, b)) = Rng(blk) \cup {b}
<1> DEFINE a == Append(blk, b)
<1>1. /\ a \in Seq(DataBlock) /\ Len(a) = Len(blk) + 1 /\ Len(blk) \in Nat
      /\ DOMAIN blk = 1 .. Len(blk) /\ DOMAIN a = 1 .. Len(blk) + 1
      /\ a[Len(blk) + 1] = b /\ \A i \in 1 .. Len(blk) : a[i] = blk[i]
  OBVIOUS
<1> HIDE DEF a
<1>2. Once(a)
  BY <1>1 DEF Once, Rng
<1>3. Rng(a) = Rng(blk) \cup {b}
  <2>1. \A i \in DOMAIN a : i \in DOMAIN blk \/ i = Len(blk) + 1
    BY <1>1
  <2>2. \A i \in DOMAIN blk : i \in DOMAIN a /\ a[i] = blk[i]
    BY <1>1
  <2>3. Len(blk) + 1 \in DOMAIN a
    BY <1>1
  <2>. QED
    BY <1>1, <2>1, <2>2, <2>3, Zenon DEF Rng
<1>. QED
  BY <1>1, <1>2, <1>3, Zenon DEF a

\* A longer block list still holds the file.
LEMMA InodeBlk ==
  ASSUME NEW x \in InodeSet, NEW blk \in Seq(DataBlock), Len(x.blk) <= Len(blk)
  PROVE  [x EXCEPT !.blk = blk] \in InodeSet /\ [x EXCEPT !.blk = blk].blk = blk
<1> DEFINE r == [x EXCEPT !.blk = blk]
<1>1. /\ x \in [mode : {"none", "file", "dir"}, size : Nat, blk : Seq(DataBlock)]
      /\ x.mode = "file" => x.size <= EPB * Len(x.blk)
  BY Zenon DEF InodeSet
<1>2. /\ r \in [mode : {"none", "file", "dir"}, size : Nat, blk : Seq(DataBlock)]
      /\ r.mode = x.mode /\ r.size = x.size /\ r.blk = blk
  BY <1>1, Zenon
<1>3. x.size \in Nat /\ Len(x.blk) \in Nat /\ Len(blk) \in Nat
  BY <1>1
<1>4. EPB * Len(x.blk) <= EPB * Len(blk) /\ EPB * Len(x.blk) \in Nat /\ EPB * Len(blk) \in Nat
  <2> DEFINE k == Len(x.blk)
             l == Len(blk)
  <2>1. k \in Nat /\ l \in Nat /\ k <= l
    BY <1>3, Zenon
  <2> HIDE DEF k, l
  <2>2. PICK j \in Nat : l = k + j
    BY <2>1
  <2>3. EPB * l = EPB * k + EPB * j /\ EPB * j \in Nat /\ EPB * k \in Nat
    BY <2>1, <2>2, FsAssumption
  <2>. QED
    BY <2>3 DEF k, l
<1> HIDE DEF r
<1>5. r.mode = "file" => r.size <= EPB * Len(r.blk)
  BY <1>1, <1>2, <1>3, <1>4
<1>. QED
  BY <1>2, <1>5, Zenon DEF InodeSet, r

\* Counters stay naturals.
LEMMA DownType ==
  ASSUME NEW c \in Nat, NEW k \in Nat
  PROVE  Down(c, k) \in Nat
BY DEF Down

\* The disk whose block counters go down.
LEMMA BlocksDownIs ==
  ASSUME NEW d \in Disk, NEW k \in Nat
  PROVE  LET e == BlocksDown(d, k)
         IN  /\ e \in Disk /\ e.sbFB = Down(d.sbFB, k) /\ e.gdFB = Down(d.gdFB, k)
             /\ e.magic = d.magic /\ e.bb = d.bb /\ e.ib = d.ib
             /\ e.sbFI = d.sbFI /\ e.gdFI = d.gdFI /\ e.inode = d.inode /\ e.data = d.data
<1>1. Down(d.sbFB, k) \in Nat /\ Down(d.gdFB, k) \in Nat
  BY DiskFields, DownType, Zenon
<1>. QED
  BY <1>1, Zenon DEF BlocksDown, Disk

\* A directory takes a free block.
LEMMA GrowDirKeeps ==
  ASSUME SetFacts, NEW d, NEW E, Sound(d, E), NEW n \in Inum,
         NEW b \in FreeBlocks(d), NEW end \in CellSet
  PROVE  Sound(GrowDir(d, n, b, end), E)
<1> USE Zenon
<1> DEFINE e == GrowDir(d, n, b, end)
           blk == d.inode[n].blk
           r == [d.inode[n] EXCEPT !.blk = Append(blk, b)]
           used == Owned(d.inode) \cup E
<1>1. /\ d \in Disk /\ d.magic /\ OwnedOnce(d.inode) /\ E \cap Owned(d.inode) = {}
      /\ Space(d.bb, used, d.sbFB) /\ d.gdFB = d.sbFB /\ d.gdFI = d.sbFI
      /\ Cardinality(Inum \ d.ib) <= d.sbFI + 1
  BY DEF Sound
<1>2. b \in DataBlock /\ b \in Block \ d.bb
  BY <1>1, SpaceSets DEF FreeBlocks
<1>3. b \notin used /\ used \subseteq d.bb
  BY <1>1, <1>2 DEF Space
<1>4. d.inode[n] \in InodeSet /\ blk \in Seq(DataBlock) /\ Once(blk)
  BY <1>1, DiskFields DEF InodeSet, OwnedOnce
<1>5. Rng(blk) \subseteq used /\ Others(d.inode, n) \subseteq used
  BY TableSplit
<1>6. /\ Append(blk, b) \in Seq(DataBlock) /\ Len(Append(blk, b)) = Len(blk) + 1
      /\ Once(Append(blk, b)) /\ Rng(Append(blk, b)) = Rng(blk) \cup {b}
  <2> HIDE DEF blk, used
  <2>. QED
    BY <1>2, <1>3, <1>4, <1>5, AppendOnce
<1>7. r \in InodeSet /\ r.blk = Append(blk, b)
  <2>1. Len(blk) <= Len(Append(blk, b))
    BY <1>4, <1>6, SMT
  <2>. QED
    BY <1>4, <1>6, <2>1, InodeBlk
<1> DEFINE tab == [d.inode EXCEPT ![n] = r]
           dat == [d.data EXCEPT ![b] = [ZeroBlock EXCEPT ![0] = end]]
           d1 == [d EXCEPT !.bb = @ \cup {b}, !.inode = tab, !.data = dat]
<1>8. /\ tab \in [Inum -> InodeSet] /\ OwnedOnce(tab)
      /\ Owned(tab) = Owned(d.inode) \cup {b}
  <2> HIDE DEF r
  <2>1. Rng(r.blk) \cap Others(d.inode, n) = {}
    BY <1>1, <1>3, <1>5, <1>6, <1>7, TableSplit
  <2>2. d.inode \in [Inum -> InodeSet] /\ Once(r.blk)
    BY <1>1, <1>6, <1>7, DiskFields
  <2>3. /\ tab \in [Inum -> InodeSet] /\ OwnedOnce(tab)
        /\ Owned(tab) = Others(d.inode, n) \cup Rng(r.blk)
    BY <1>1, <1>7, <2>1, <2>2, TableSet
  <2> HIDE DEF tab
  <2>. QED
    BY <1>6, <1>7, <2>3, TableSplit
<1>9. dat \in [DataBlock -> [Slot -> CellSet]]
  <2>1. [ZeroBlock EXCEPT ![0] = end] \in [Slot -> CellSet]
    BY PlainCells
  <2> DEFINE z == [ZeroBlock EXCEPT ![0] = end]
  <2> HIDE DEF z
  <2>2. [d.data EXCEPT ![b] = z] \in [DataBlock -> [Slot -> CellSet]]
    BY <1>1, <2>1, DiskFields DEF z
  <2>. QED
    BY <2>2 DEF z
<1>10. e = BlocksDown(d1, 1)
  BY <1>1 DEF GrowDir, Disk
<1> HIDE DEF tab, dat, r
<1>11. /\ d1 \in Disk /\ d1.magic = d.magic /\ d1.bb = d.bb \cup {b} /\ d1.ib = d.ib
       /\ d1.sbFB = d.sbFB /\ d1.gdFB = d.gdFB
       /\ d1.sbFI = d.sbFI /\ d1.gdFI = d.gdFI /\ d1.inode = tab /\ d1.data = dat
  BY <1>1, <1>2, <1>8, <1>9 DEF Disk
<1> HIDE DEF d1, e
<1>12. /\ e \in Disk /\ e.magic = d.magic /\ e.bb = d.bb \cup {b} /\ e.ib = d.ib
       /\ e.sbFB = Down(d.sbFB, 1) /\ e.gdFB = Down(d.gdFB, 1)
       /\ e.sbFI = d.sbFI /\ e.gdFI = d.gdFI /\ e.inode = tab
  BY <1>10, <1>11, BlocksDownIs, SMT
<1>13. Space(d.bb \cup {b}, used \cup {b}, Down(d.sbFB, 1))
  <2>1. {b} \in SUBSET (Block \ d.bb) /\ Cardinality({b}) = 1
    BY <1>2, CardSingleton
  <2> HIDE DEF used
  <2>. QED
    BY <1>1, <2>1, SpaceTake
<1>14. used \cup {b} = Owned(tab) \cup E /\ E \cap Owned(tab) = {}
  BY <1>1, <1>3, <1>8
<1>. QED
  BY <1>1, <1>8, <1>13, <1>14, <1>12 DEF Sound, e

\* insertEntry, whether it places the entry, grows the directory or fails.
LEMMA InsertEntryKeeps ==
  ASSUME SetFacts, NEW d, NEW E, Sound(d, E), NEW n \in Inum, NEW cell \in CellSet
  PROVE  /\ Sound(InsertEntry(d, n, cell).d, E)
         /\ InsertEntry(d, n, cell).loc \in Loc
<1> USE Zenon
<1> DEFINE f == Lookup(d, n, Free)
           e == Lookup(d, n, NoMore)
           d1 == SetEntry(d, e.loc, cell)
           end == CellAt(d, e.loc)
           b == GetFreeBlock(d1)
           r == InsertEntry(d, n, cell)
           next == [e.loc EXCEPT !.offset = @ + 1]
<1>1. d \in Disk
  BY DEF Sound
<1>2. f.loc \in Loc /\ e.loc \in Loc
  BY <1>1, LookupIs
<1>3. CASE f.ok
  <2>1. r.d = SetEntry(d, f.loc, cell) /\ r.loc = f.loc
    BY <1>3 DEF InsertEntry
  <2>2. f.loc \in Place
    BY <1>1, <1>3, LookupIs
  <2>3. Sound(SetEntry(d, f.loc, cell), E)
    BY <2>2, SetEntryKeeps
  <2>. QED
    BY <1>2, <2>1, <2>3
<1>4. CASE ~f.ok /\ ~e.ok
  <2>1. r.d = d /\ r.loc = e.loc
    BY <1>4 DEF InsertEntry
  <2>. QED
    BY <1>2, <2>1
<1>5. CASE ~f.ok /\ e.ok
  <2>1. e.loc \in Place /\ end \in CellSet
    BY <1>1, <1>2, <1>5, LookupIs, CellAtIs
  <2>2. Sound(d1, E)
    BY <2>1, SetEntryKeeps
  <2>3. CASE e.loc.offset + 1 < EPB
    <3>1. r.d = SetEntry(d1, next, end) /\ r.loc = e.loc
      BY <1>5, <2>3 DEF InsertEntry
    <3>2. next \in Place
      BY <2>1, <2>3, FsAssumption, SMT DEF Place, Slot
    <3>3. Sound(SetEntry(d1, next, end), E)
      <4> HIDE DEF d1, end, next
      <4>. QED
        BY <2>1, <2>2, <3>2, SetEntryKeeps
    <3>. QED
      BY <1>2, <3>1, <3>3
  <2>4. CASE ~(e.loc.offset + 1 < EPB) /\ b = 0
    <3>1. r.d = d1 /\ r.loc = e.loc
      BY <1>5, <2>4 DEF InsertEntry
    <3>. QED
      BY <1>2, <2>2, <3>1
  <2>5. CASE ~(e.loc.offset + 1 < EPB) /\ b # 0
    <3>1. r.d = GrowDir(d1, n, b, end) /\ r.loc = e.loc
      BY <1>5, <2>5 DEF InsertEntry
    <3>2. b \in FreeBlocks(d1)
      <4> HIDE DEF d1
      <4>. QED
        BY <2>5, GetFreeBlockIs
    <3>3. Sound(GrowDir(d1, n, b, end), E)
      <4> HIDE DEF d1, end, b
      <4>. QED
        BY <2>1, <2>2, <3>2, GrowDirKeeps
    <3>. QED
      BY <1>2, <3>1, <3>3
  <2>. QED
    BY <2>3, <2>4, <2>5
<1>. QED
  BY <1>3, <1>4, <1>5

\* An inode gets, of its own blocks and those just taken, the ones of r; blocks it
\* gives up without freeing them are lost.
LEMMA SetInodeKeeps ==
  ASSUME SetFacts, NEW d, NEW E, Sound(d, E), NEW n \in Inum, NEW r \in InodeSet,
         Once(r.blk),
         Rng(r.blk) \subseteq Rng(d.inode[n].blk) \cup E
  PROVE  Sound(InsertInode(d, n, r), {})
<1> USE Zenon
<1> DEFINE e == InsertInode(d, n, r)
           tab == [d.inode EXCEPT ![n] = r]
<1>1. /\ d \in Disk /\ d.magic /\ OwnedOnce(d.inode) /\ E \cap Owned(d.inode) = {}
      /\ Space(d.bb, Owned(d.inode) \cup E, d.sbFB)
      /\ d.gdFB = d.sbFB /\ d.gdFI = d.sbFI
      /\ Cardinality(Inum \ d.ib) <= d.sbFI + 1
  BY DEF Sound
<1>2. /\ Owned(d.inode) = Others(d.inode, n) \cup Rng(d.inode[n].blk)
      /\ Others(d.inode, n) \cap Rng(d.inode[n].blk) = {}
  BY <1>1, TableSplit
<1>3. Rng(r.blk) \cap Others(d.inode, n) = {}
  BY <1>1, <1>2
<1>4. d.inode \in [Inum -> InodeSet]
  BY <1>1, DiskFields
<1>5. /\ tab \in [Inum -> InodeSet] /\ OwnedOnce(tab)
      /\ Owned(tab) = Others(d.inode, n) \cup Rng(r.blk)
  BY <1>1, <1>3, <1>4, TableSet
<1>6. e \in Disk /\ SameSpace(e, d) /\ e.inode = tab
  BY <1>1, <1>5 DEF InsertInode, Disk, SameSpace
<1> HIDE DEF e, tab
<1>7. Owned(tab) \cup {} \in SUBSET (Owned(d.inode) \cup E)
  BY <1>2, <1>5
<1>8. Space(d.bb, Owned(tab) \cup {}, d.sbFB)
  BY <1>1, <1>7, SpaceDrop
<1>. QED
  BY <1>1, <1>5, <1>6, <1>8 DEF Sound, SameSpace, e

\* fsCreate and fsMkdir take a bit from one bitmap or both and then give up: the
\* counters stay.
LEMMA TakeBothKeeps ==
  ASSUME SetFacts, NEW d, Sound(d, {})
  PROVE  Sound(TakeBoth(d), {})
<1> USE Zenon
<1> DEFINE e == TakeBoth(d)
           I == {GetFreeInode(d)} \ {0}
           B == {GetFreeBlock(d)} \ {0}
<1>1. /\ d \in Disk /\ d.magic /\ OwnedOnce(d.inode)
      /\ Space(d.bb, Owned(d.inode) \cup {}, d.sbFB)
      /\ d.gdFB = d.sbFB /\ d.gdFI = d.sbFI
      /\ Cardinality(Inum \ d.ib) <= d.sbFI + 1
  BY DEF Sound
<1>2. I \in SUBSET Inum
  BY GetFreeInodeIs
<1>3. B \in SUBSET Block
  BY GetFreeBlockIs DEF FreeBlocks
<1> HIDE DEF I, B
<1>4. /\ e \in Disk /\ e.magic = d.magic /\ e.bb = d.bb \cup B /\ e.ib = d.ib \cup I
      /\ e.sbFB = d.sbFB /\ e.gdFB = d.gdFB /\ e.sbFI = d.sbFI /\ e.gdFI = d.gdFI
      /\ e.inode = d.inode
  BY <1>1, <1>2, <1>3 DEF TakeBoth, Disk, I, B
<1> HIDE DEF e
<1>5. Space(e.bb, Owned(e.inode) \cup {}, e.sbFB)
  BY <1>1, <1>3, <1>4, SpaceMark, SMT
<1>6. Cardinality(Inum \ e.ib) <= e.sbFI + 1
  <2>1. Inum \ e.ib \in SUBSET (Inum \ d.ib) /\ IsFiniteSet(Inum \ d.ib)
    BY <1>4, FiniteSpace, CardDifference
  <2>2. /\ Cardinality(Inum \ e.ib) <= Cardinality(Inum \ d.ib)
        /\ Cardinality(Inum \ e.ib) \in Nat /\ Cardinality(Inum \ d.ib) \in Nat
    BY <2>1, Without
  <2>3. d.sbFI \in Nat
    BY <1>1, DiskFields
  <2>. QED
    BY <1>1, <1>4, <2>2, <2>3, SMT
<1>. QED
  BY <1>1, <1>4, <1>5, <1>6 DEF Sound, e

\* They take one of each, and count them.
LEMMA TakeAndCount ==
  ASSUME SetFacts, NEW d, Sound(d, {}), CanTakeBoth(d)
  PROVE  /\ GetFreeInode(d) \in Inum /\ GetFreeBlock(d) \in DataBlock
         /\ Sound(InodesDown(BlocksDown(TakeBoth(d), 1)), {GetFreeBlock(d)})
<1> USE Zenon
<1> DEFINE i == GetFreeInode(d)
           b == GetFreeBlock(d)
           e == TakeBoth(d)
           f == BlocksDown(e, 1)
           g == InodesDown(f)
<1>1. /\ d \in Disk /\ d.magic /\ OwnedOnce(d.inode)
      /\ Space(d.bb, Owned(d.inode) \cup {}, d.sbFB)
      /\ d.gdFB = d.sbFB /\ d.gdFI = d.sbFI
      /\ Cardinality(Inum \ d.ib) <= d.sbFI + 1
  BY DEF Sound
<1>2. i \in Inum \ d.ib /\ i # 0
  BY GetFreeInodeIs DEF CanTakeBoth
<1>3. b \in Block \ d.bb /\ b # 0 /\ b \in DataBlock
  <2>1. b \in Block \ d.bb /\ b # 0
    BY GetFreeBlockIs DEF CanTakeBoth, FreeBlocks
  <2>. QED
    BY <1>1, <2>1, SpaceSets
<1>4. /\ e \in Disk /\ e.magic = d.magic /\ e.bb = d.bb \cup {b} /\ e.ib = d.ib \cup {i}
      /\ e.sbFB = d.sbFB /\ e.gdFB = d.gdFB /\ e.sbFI = d.sbFI /\ e.gdFI = d.gdFI
      /\ e.inode = d.inode
  <2>1. {i} \ {0} = {i} /\ {b} \ {0} = {b}
    BY <1>2, <1>3
  <2>2. {i} \subseteq Inum /\ {b} \subseteq Block
    BY <1>2, <1>3
  <2>3. e = [d EXCEPT !.ib = @ \cup {i}, !.bb = @ \cup {b}]
    BY <2>1 DEF TakeBoth
  <2> HIDE DEF e, i, b
  <2>. QED
    BY <1>1, <2>2, <2>3 DEF Disk
<1> HIDE DEF e, i, b
<1>5. /\ f \in Disk /\ f.magic = d.magic /\ f.bb = d.bb \cup {b} /\ f.ib = d.ib \cup {i}
      /\ f.sbFB = Down(d.sbFB, 1) /\ f.gdFB = Down(d.gdFB, 1)
      /\ f.sbFI = d.sbFI /\ f.gdFI = d.gdFI /\ f.inode = d.inode
  BY <1>4, BlocksDownIs, SMT
<1> HIDE DEF f
<1>6. /\ g \in Disk /\ g.magic = d.magic /\ g.bb = d.bb \cup {b} /\ g.ib = d.ib \cup {i}
      /\ g.sbFB = Down(d.sbFB, 1) /\ g.gdFB = Down(d.gdFB, 1)
      /\ g.sbFI = Down(d.sbFI, 1) /\ g.gdFI = Down(d.gdFI, 1) /\ g.inode = d.inode
  <2>1. Down(f.sbFI, 1) \in Nat /\ Down(f.gdFI, 1) \in Nat
    BY <1>5, DiskFields, DownType
  <2>. QED
    BY <1>5, <2>1 DEF InodesDown, Disk
<1> HIDE DEF g
<1>7. Space(g.bb, Owned(g.inode) \cup {b}, g.sbFB)
  <2>1. {b} \in SUBSET (Block \ d.bb) /\ Cardinality({b}) = 1
    BY <1>3, CardSingleton
  <2>2. Space(d.bb \cup {b}, (Owned(d.inode) \cup {}) \cup {b}, Down(d.sbFB, 1))
    BY <1>1, <2>1, SpaceTake
  <2>3. (Owned(d.inode) \cup {}) \cup {b} = Owned(g.inode) \cup {b}
    BY <1>6
  <2>. QED
    BY <1>6, <2>2, <2>3
<1>8. {b} \cap Owned(g.inode) = {}
  BY <1>1, <1>3, <1>6 DEF Space
<1>9. Cardinality(Inum \ g.ib) <= g.sbFI + 1
  <2> DEFINE S == Inum \ d.ib
  <2>1. IsFiniteSet(S) /\ i \in S /\ Inum \ g.ib = S \ {i}
    BY <1>2, <1>6, FiniteSpace, CardDifference
  <2>2. Cardinality(S \ {i}) = Cardinality(S) - 1 /\ Cardinality(S) \in Nat
    BY <2>1, CardRemove, CardNat
  <2>3. d.sbFI \in Nat
    BY <1>1, DiskFields
  <2> HIDE DEF S
  <2>4. Cardinality(S) <= d.sbFI + 1
    BY <1>1 DEF S
  <2>5. g.sbFI = Down(d.sbFI, 1)
    BY <1>6
  <2>6. Cardinality(S) - 1 <= Down(d.sbFI, 1) + 1
    BY <2>2, <2>3, <2>4, SMT DEF Down
  <2>. QED
    BY <2>1, <2>2, <2>5, <2>6
<1>10. Sound(g, {b})
  BY <1>1, <1>6, <1>7, <1>8, <1>9 DEF Sound
<1>. QED
  BY <1>2, <1>3, <1>10 DEF e, f, g, i, b

\* The names commands pass on.
Formatted == Names \cup {Dot, DotDot, Bad}

\* An entry under such a name that leads to an inode.
LEMMA EntryIs ==
  ASSUME NEW name \in Formatted, name # Bad, NEW i \in Inum
  PROVE  [name |-> name, inode |-> i] \in CellSet
<1>1. i \in 0 .. Junk
  BY FsAssumption DEF Inum, Junk
<1>. QED
  BY <1>1, Zenon DEF CellSet, Formatted

\* A new inode with the block just taken.
LEMMA NewInodeKeeps ==
  ASSUME SetFacts, NEW d, NEW b \in DataBlock, Sound(d, {b}), NEW i \in Inum,
         NEW mode \in {"file", "dir"}
  PROVE  Sound(InsertInode(d, i, [mode |-> mode, size |-> 0, blk |-> <<b>>]), {})
<1> DEFINE r == [mode |-> mode, size |-> 0, blk |-> <<b>>]
<1>1. /\ <<b>> \in Seq(DataBlock) /\ Len(<<b>>) = 1
      /\ Once(<<b>>) /\ Rng(<<b>>) = {b}
  BY DEF Once, Rng
<1>2. r \in InodeSet /\ r.blk = <<b>>
  BY <1>1, FsAssumption DEF InodeSet
<1>3. Rng(r.blk) \subseteq Rng(d.inode[i].blk) \cup {b} /\ Once(r.blk)
  BY <1>1, <1>2, Zenon
<1> HIDE DEF r
<1>4. Sound(InsertInode(d, i, r), {})
  BY <1>2, <1>3, SetInodeKeeps, Zenon
<1>. QED
  BY <1>4, Zenon DEF r

\* fsCreate, also when it stops halfway for want of a block or an inode.
LEMMA FsCreateKeeps ==
  ASSUME SetFacts, NEW d, Sound(d, {}), NEW n \in Inum, NEW name \in Formatted
  PROVE  LET r == FsCreate(d, n, name)
         IN  Sound(r.d, {}) /\ r.loc \in Loc /\ r.ub \in BOOLEAN
<1> USE Zenon
<1> DEFINE i == GetFreeInode(d)
           b == GetFreeBlock(d)
           old == Lookup(d, n, name)
           d1 == InodesDown(BlocksDown(TakeBoth(d), 1))
           d2 == InsertInode(d1, i, [mode |-> "file", size |-> 0, blk |-> <<b>>])
           ins == InsertEntry(d2, n, [name |-> name, inode |-> i])
           r == FsCreate(d, n, name)
<1>1. old.loc \in Loc
  BY LookupIs DEF Sound
<1>2. CASE cachedFree = 0 \/ name = Bad \/ old.ok
  <2>1. r.d = d /\ r.loc = old.loc /\ r.ub \in BOOLEAN
    BY <1>2 DEF FsCreate
  <2>. QED
    BY <1>1, <2>1
<1>3. CASE ~(cachedFree = 0 \/ name = Bad \/ old.ok) /\ ~CanTakeBoth(d)
  <2>1. r.d = TakeBoth(d) /\ r.loc = old.loc /\ r.ub \in BOOLEAN
    BY <1>3 DEF FsCreate
  <2>2. Sound(TakeBoth(d), {})
    BY TakeBothKeeps
  <2>. QED
    BY <1>1, <2>1, <2>2
<1>4. CASE ~(cachedFree = 0 \/ name = Bad \/ old.ok) /\ CanTakeBoth(d)
  <2>1. r.d = ins.d /\ r.loc = ins.loc /\ r.ub \in BOOLEAN
    BY <1>4 DEF FsCreate
  <2>2. i \in Inum /\ b \in DataBlock /\ Sound(d1, {b})
    BY <1>4, TakeAndCount
  <2>3. Sound(d2, {})
    <3> HIDE DEF d1, i, b
    <3>. QED
      BY <2>2, NewInodeKeeps
  <2>4. [name |-> name, inode |-> i] \in CellSet
    <3> HIDE DEF i
    <3>. QED
      BY <1>4, <2>2, EntryIs
  <2>5. Sound(ins.d, {}) /\ ins.loc \in Loc
    <3> DEFINE cell == [name |-> name, inode |-> i]
    <3> HIDE DEF d2, cell
    <3>1. cell \in CellSet
      BY <2>4 DEF cell
    <3>2. Sound(InsertEntry(d2, n, cell).d, {}) /\ InsertEntry(d2, n, cell).loc \in Loc
      BY <2>3, <3>1, InsertEntryKeeps
    <3>. QED
      BY <3>2 DEF cell
  <2> HIDE DEF ins, r
  <2>. QED
    BY <2>1, <2>5 DEF r
<1>. QED
  BY <1>2, <1>3, <1>4

\* fsMkdir, also when it stops halfway for want of a block or an inode.
LEMMA FsMkdirKeeps ==
  ASSUME SetFacts, NEW d, Sound(d, {}), NEW n \in Inum, NEW name \in Formatted
  PROVE  LET r == FsMkdir(d, n, name)
         IN  Sound(r.d, {}) /\ r.ub \in BOOLEAN
<1> USE Zenon
<1> DEFINE i == GetFreeInode(d)
           b == GetFreeBlock(d)
           d1 == InodesDown(BlocksDown(TakeBoth(d), 1))
           c1 == [name |-> name, inode |-> i]
           ins == InsertEntry(d1, n, c1)
           d2 == InsertInode(ins.d, i, [mode |-> "dir", size |-> 0, blk |-> <<b>>])
           c2 == [name |-> Dot, inode |-> i]
           d3 == InsertEntry(d2, i, c2).d
           c3 == [name |-> DotDot, inode |-> n]
           d4 == InsertEntry(d3, i, c3).d
           r == FsMkdir(d, n, name)
<1>1. CASE IsExist(d, n, name) \/ name = Bad
  <2>1. r.d = d /\ r.ub \in BOOLEAN
    BY <1>1 DEF FsMkdir
  <2>. QED
    BY <2>1
<1>2. CASE ~(IsExist(d, n, name) \/ name = Bad) /\ ~CanTakeBoth(d)
  <2>1. r.d = TakeBoth(d) /\ r.ub \in BOOLEAN
    BY <1>2 DEF FsMkdir
  <2>2. Sound(TakeBoth(d), {})
    BY TakeBothKeeps
  <2>. QED
    BY <2>1, <2>2
<1>3. CASE ~(IsExist(d, n, name) \/ name = Bad) /\ CanTakeBoth(d)
  <2>1. (r.d = ins.d \/ r.d = d4) /\ r.ub \in BOOLEAN
    BY <1>3 DEF FsMkdir
  <2>2. i \in Inum /\ b \in DataBlock /\ Sound(d1, {b})
    BY <1>3, TakeAndCount
  <2>3. c1 \in CellSet /\ c2 \in CellSet /\ c3 \in CellSet
    <3>1. Dot \in Formatted /\ DotDot \in Formatted /\ Dot # Bad /\ DotDot # Bad
      BY DEF Formatted, Dot, DotDot, Bad
    <3> HIDE DEF i
    <3>. QED
      BY <1>3, <2>2, <3>1, EntryIs
  <2> HIDE DEF d1, i, b, c1, c2, c3
  <2>4. Sound(ins.d, {b})
    BY <2>2, <2>3, InsertEntryKeeps
  <2> HIDE DEF ins
  <2>5. Sound(d2, {})
    BY <2>2, <2>4, NewInodeKeeps
  <2>6. Sound(ins.d, {})
    <3>1. Owned(ins.d.inode) \cup {} \in SUBSET (Owned(ins.d.inode) \cup {b})
      OBVIOUS
    <3>2. Space(ins.d.bb, Owned(ins.d.inode) \cup {b}, ins.d.sbFB)
      BY <2>4 DEF Sound
    <3>3. Space(ins.d.bb, Owned(ins.d.inode) \cup {}, ins.d.sbFB)
      BY <3>1, <3>2, SpaceDrop
    <3>. QED
      BY <2>4, <3>3 DEF Sound
  <2> HIDE DEF d2
  <2>7. Sound(d3, {})
    BY <2>2, <2>3, <2>5, InsertEntryKeeps
  <2> HIDE DEF d3
  <2>8. Sound(d4, {})
    BY <2>2, <2>3, <2>7, InsertEntryKeeps
  <2> HIDE DEF d4, r
  <2>. QED
    BY <2>1, <2>6, <2>8 DEF r
<1>. QED
  BY <1>1, <1>2, <1>3

-----------------------------------------------------------------------------
(* fsWrite                                                                 *)

\* Two disks with the same fields are the same disk.
LEMMA DiskEqual ==
  ASSUME NEW d \in Disk, NEW e \in Disk, SameSpace(e, d),
         e.inode = d.inode, e.data = d.data
  PROVE  e = d
BY DEF Disk, SameSpace

\* Raising the two counts of free blocks.
LEMMA BlocksUpIs ==
  ASSUME NEW d \in Disk, NEW k \in Nat
  PROVE  LET e == BlocksUp(d, k)
         IN  /\ e \in Disk /\ e.sbFB = d.sbFB + k /\ e.gdFB = d.gdFB + k
             /\ e.magic = d.magic /\ e.bb = d.bb /\ e.ib = d.ib
             /\ e.sbFI = d.sbFI /\ e.gdFI = d.gdFI /\ e.inode = d.inode /\ e.data = d.data
<1>1. d.sbFB + k \in Nat /\ d.gdFB + k \in Nat
  BY DiskFields
<1>. QED
  BY <1>1, Zenon DEF BlocksUp, Disk

\* A write that runs out of blocks gives back, and counts, what it took.
LEMMA RunOutIsUndone ==
  ASSUME SetFacts, NEW d, Sound(d, {})
  PROVE  RunOut(d) = d
<1> USE Zenon
<1> DEFINE k == Cardinality(FreeBlocks(d))
           e == BlocksDown(d, k)
           f == BlocksUp(e, k)
<1>1. d \in Disk /\ Space(d.bb, Owned(d.inode) \cup {}, d.sbFB) /\ d.gdFB = d.sbFB
  BY DEF Sound
<1>2. k \in Nat
  BY <1>1, SpaceSets DEF FreeBlocks
<1>3. k <= d.sbFB
  BY <1>1 DEF Space, FreeBlocks
<1> HIDE DEF k
<1>4. /\ e \in Disk /\ e.sbFB = Down(d.sbFB, k) /\ e.gdFB = Down(d.gdFB, k)
      /\ e.magic = d.magic /\ e.bb = d.bb /\ e.ib = d.ib
      /\ e.sbFI = d.sbFI /\ e.gdFI = d.gdFI /\ e.inode = d.inode /\ e.data = d.data
  BY <1>1, <1>2, BlocksDownIs
<1> HIDE DEF e
<1>5. /\ f \in Disk /\ f.sbFB = Down(d.sbFB, k) + k /\ f.gdFB = Down(d.gdFB, k) + k
      /\ f.magic = d.magic /\ f.bb = d.bb /\ f.ib = d.ib
      /\ f.sbFI = d.sbFI /\ f.gdFI = d.gdFI /\ f.inode = d.inode /\ f.data = d.data
  BY <1>2, <1>4, BlocksUpIs, SMT
<1> HIDE DEF f
<1>6. Down(d.sbFB, k) + k = d.sbFB /\ Down(d.gdFB, k) + k = d.gdFB
  BY <1>1, <1>2, <1>3, DiskFields, SMT DEF Down
<1>7. f = d
  BY <1>1, <1>5, <1>6, DiskEqual DEF SameSpace
<1>. QED
  BY <1>7 DEF RunOut, f, e, k

\* The blocks getFreeBlockNumber returns one after the other are different ones.
LEMMA AddedBlocks ==
  ASSUME SetFacts, NEW d, Sound(d, {}), NEW more \in Nat, more <= Cardinality(FreeBlocks(d))
  PROVE  LET added == [i \in 1 .. more |-> NthFree(d, i)]
         IN  /\ added \in Seq(DataBlock) /\ Len(added) = more
             /\ Once(added) /\ Rng(added) \in SUBSET FreeBlocks(d)
             /\ Cardinality(Rng(added)) = more
<1> USE Zenon
<1> DEFINE added == [i \in 1 .. more |-> NthFree(d, i)]
           F == FreeBlocks(d)
           below(b) == Cardinality({c \in F : c < b})
<1>1. Space(d.bb, Owned(d.inode) \cup {}, d.sbFB)
  BY DEF Sound
<1>2. F \subseteq DataBlock
  BY <1>1, SpaceSets DEF FreeBlocks
<1>3. ASSUME NEW i \in 1 .. more
      PROVE  NthFree(d, i) \in F /\ below(NthFree(d, i)) = i - 1
  <2>1. i \in Nat \ {0} /\ i <= Cardinality(FreeBlocks(d))
    <3>1. Cardinality(FreeBlocks(d)) \in Nat
      BY <1>1, SpaceSets DEF FreeBlocks
    <3>. QED
      BY <3>1, SMT
  <2>. QED
    BY <2>1, NthFreeIs
<1> HIDE DEF F, below
<1>4. \A i \in 1 .. more : added[i] \in F /\ below(added[i]) = i - 1
  BY <1>3
<1>5. added \in Seq(DataBlock) /\ Len(added) = more /\ DOMAIN added = 1 .. more
  BY <1>2, <1>4, SMT
<1> HIDE DEF added
<1>6. Once(added)
  <2>1. ASSUME NEW i \in 1 .. more, NEW j \in 1 .. more, added[i] = added[j] PROVE i = j
    <3>1. i - 1 = j - 1
      BY <1>4, <2>1
    <3>. QED
      BY <3>1, SMT
  <2>. QED
    BY <1>5, <2>1 DEF Once
<1>7. Rng(added) \in SUBSET F
  BY <1>4, <1>5 DEF Rng
<1>8. Cardinality(Rng(added)) = more
  <2>1. added \in Bijection(1 .. more, Rng(added))
    <3>1. added \in [1 .. more -> Rng(added)]
      BY <1>5, SMT DEF Rng
    <3>2. \A y \in Rng(added) : \E i \in 1 .. more : added[i] = y
      BY <1>5 DEF Rng
    <3>3. \A i, j \in 1 .. more : added[i] = added[j] => i = j
      BY <1>5, <1>6 DEF Once
    <3>. QED
      BY <3>1, <3>2, <3>3 DEF Bijection, Injection, Surjection, IsInjective
  <2>2. ExistsBijection(1 .. more, Rng(added))
    BY <2>1 DEF ExistsBijection
  <2>3. IsFiniteSet(1 .. more) /\ Cardinality(1 .. more) = more
    BY CardInterval, SMT
  <2>. QED
    BY <2>2, <2>3, CardBijection
<1>. QED
  BY <1>5, <1>6, <1>7, <1>8 DEF added, F

\* One list after another.
LEMMA ConcatIs ==
  ASSUME NEW S, NEW a \in Seq(S), NEW b \in Seq(S)
  PROVE  /\ a \o b \in Seq(S) /\ Len(a \o b) = Len(a) + Len(b)
         /\ DOMAIN (a \o b) = 1 .. Len(a) + Len(b)
         /\ \A i \in 1 .. Len(a) : (a \o b)[i] = a[i]
         /\ \A i \in Len(a) + 1 .. Len(a) + Len(b) : (a \o b)[i] = b[i - Len(a)]
<1>1. a \o b \in Seq(S) /\ Len(a \o b) = Len(a) + Len(b)
  OBVIOUS
<1>2. \A i \in 1 .. Len(a) : (a \o b)[i] = a[i]
  OBVIOUS
<1>3. \A i \in Len(a) + 1 .. Len(a) + Len(b) : (a \o b)[i] = b[i - Len(a)]
  OBVIOUS
<1>4. DOMAIN (a \o b) = 1 .. Len(a) + Len(b)
  BY <1>1
<1>. QED
  BY <1>1, <1>2, <1>3, <1>4, Zenon

\* The block list of a file that gets want blocks: the old ones as far as they go,
\* then the added ones.
LEMMA NewList ==
  ASSUME NEW old \in Seq(DataBlock), Once(old), NEW want \in Nat,
         NEW more \in Nat, more = IF want > Len(old) THEN want - Len(old) ELSE 0,
         NEW added \in Seq(DataBlock), Len(added) = more, Once(added),
         Rng(added) \cap Rng(old) = {}
  PROVE  LET kept == SubSeq(old, 1, IF want < Len(old) THEN want ELSE Len(old))
             new == kept \o added
         IN  /\ new \in Seq(DataBlock) /\ Len(new) = want /\ Once(new)
             /\ GivenBack(old, want) \subseteq Rng(old)
             /\ Rng(new) = (Rng(old) \ GivenBack(old, want)) \cup Rng(added)
<1> DEFINE l == Len(old)
           m == IF want < l THEN want ELSE l
           kept == SubSeq(old, 1, m)
           new == kept \o added
<1>1. /\ l \in Nat /\ DOMAIN old = 1 .. l /\ DOMAIN added = 1 .. more
      /\ more = IF want > l THEN want - l ELSE 0
  OBVIOUS
<1>2. kept \in Seq(DataBlock) /\ Len(kept) = m /\ \A i \in 1 .. m : kept[i] = old[i]
  BY <1>1
<1> HIDE DEF l, kept
<1>3. m \in Nat /\ m <= l /\ m + more = want /\ (m < l => more = 0)
  <2>1. CASE want < l
    BY <1>1, <2>1
  <2>2. CASE ~(want < l)
    BY <1>1, <2>2
  <2>. QED
    BY <2>1, <2>2, Zenon
<1> HIDE DEF m
<1>4. /\ new \in Seq(DataBlock) /\ Len(new) = m + more /\ DOMAIN new = 1 .. m + more
      /\ \A i \in 1 .. m : new[i] = old[i]
      /\ \A i \in m + 1 .. m + more : new[i] = added[i - m]
  <2>1. /\ new \in Seq(DataBlock) /\ Len(new) = Len(kept) + Len(added)
        /\ DOMAIN new = 1 .. Len(kept) + Len(added)
        /\ \A i \in 1 .. Len(kept) : new[i] = kept[i]
        /\ \A i \in Len(kept) + 1 .. Len(kept) + Len(added) : new[i] = added[i - Len(kept)]
    BY <1>2, ConcatIs, ZenonT(30)
  <2>2. Len(kept) = m /\ Len(added) = more
    BY <1>2
  <2> HIDE DEF new
  <2>. QED
    BY <1>2, <2>1, <2>2
<1> HIDE DEF new
<1>5. \A i \in 1 .. m : i \in DOMAIN old
  BY <1>1, <1>3
<1>6. \A i \in m + 1 .. m + more : i - m \in DOMAIN added
  BY <1>1, <1>3
<1>7. Once(new)
  <2>1. ASSUME NEW i \in DOMAIN new, NEW j \in DOMAIN new, new[i] = new[j]
        PROVE  i = j
    <3>1. (i \in 1 .. m \/ i \in m + 1 .. m + more) /\ (j \in 1 .. m \/ j \in m + 1 .. m + more)
      BY <1>3, <1>4
    <3>2. CASE i \in 1 .. m /\ j \in 1 .. m
      BY <1>4, <1>5, <2>1, <3>2, Zenon DEF Once
    <3>3. CASE i \in m + 1 .. m + more /\ j \in m + 1 .. m + more
      <4>1. i - m = j - m
        BY <1>4, <1>6, <2>1, <3>3 DEF Once
      <4>. QED
        BY <1>3, <3>3, <4>1
    <3>4. ASSUME NEW x \in 1 .. m, NEW y \in m + 1 .. m + more PROVE new[x] # new[y]
      <4>1. new[x] \in Rng(old) /\ new[y] \in Rng(added)
        BY <1>4, <1>5, <1>6, Zenon DEF Rng
      <4>. QED
        BY <4>1, Zenon
    <3>. QED
      BY <2>1, <3>1, <3>2, <3>3, <3>4, Zenon
  <2>. QED
    BY <2>1, Zenon DEF Once
<1>8. GivenBack(old, want) = {old[i] : i \in m + 1 .. l} /\ GivenBack(old, want) \subseteq Rng(old)
  <2>1. want + 1 .. l = m + 1 .. l
    BY <1>1, <1>3 DEF m
  <2>2. \A i \in m + 1 .. l : i \in DOMAIN old
    BY <1>1, <1>3
  <2>. QED
    BY <2>1, <2>2, Zenon DEF GivenBack, Rng, l
<1>9. Rng(old) \ GivenBack(old, want) = {old[i] : i \in 1 .. m}
  <2>1. ASSUME NEW i \in DOMAIN old, old[i] \notin GivenBack(old, want) PROVE i \in 1 .. m
    BY <1>1, <1>3, <1>8, <2>1
  <2>2. ASSUME NEW i \in 1 .. m PROVE old[i] \notin GivenBack(old, want)
    <3>1. ASSUME NEW j \in m + 1 .. l, old[i] = old[j] PROVE FALSE
      BY <1>1, <1>3, <3>1 DEF Once
    <3>. QED
      BY <1>8, <3>1, Zenon
  <2>. QED
    BY <1>5, <2>1, <2>2, Zenon DEF Rng
<1>10. Rng(new) = {old[i] : i \in 1 .. m} \cup Rng(added)
  <2>1. \A i \in DOMAIN new : i \in 1 .. m \/ i \in m + 1 .. m + more
    BY <1>3, <1>4
  <2>2. \A i \in 1 .. m : i \in DOMAIN new
    BY <1>3, <1>4
  <2>3. ASSUME NEW j \in DOMAIN added
        PROVE  m + j \in DOMAIN new /\ new[m + j] = added[j]
    <3>1. j \in 1 .. more /\ m + j \in m + 1 .. m + more /\ (m + j) - m = j
      BY <1>1, <1>3
    <3>2. m + j \in DOMAIN new
      BY <1>3, <1>4, <3>1
    <3>. QED
      BY <1>4, <3>1, <3>2, Zenon
  <2>4. \A i \in DOMAIN new : new[i] \in {old[j] : j \in 1 .. m} \cup Rng(added)
    BY <1>4, <1>6, <2>1, Zenon DEF Rng
  <2>5. \A i \in 1 .. m : old[i] \in Rng(new)
    BY <1>4, <2>2, Zenon DEF Rng
  <2>6. \A j \in DOMAIN added : added[j] \in Rng(new)
    BY <2>3, Zenon DEF Rng
  <2>. QED
    BY <2>4, <2>5, <2>6, Zenon DEF Rng
<1>. QED
  BY <1>3, <1>4, <1>7, <1>8, <1>9, <1>10, Zenon DEF new, kept, m, l

\* A write that fails leaves the disk as it was.
LEMMA FsWriteFailed ==
  ASSUME SetFacts, NEW d, Sound(d, {}), NEW loc, NEW size, NEW text,
         ~FsWrite(d, loc, size, text).ok
  PROVE  FsWrite(d, loc, size, text).d = d
<1>1. RunOut(d) = d
  BY RunOutIsUndone, Zenon
<1>. QED
  BY <1>1, Zenon DEF FsWrite

\* fillDataBlock writes the blocks of the list and no others.
LEMMA FillDataIs ==
  ASSUME NEW d \in Disk, NEW blk \in Seq(DataBlock), Once(blk),
         NEW size \in Nat, NEW text \in Texts
  PROVE  LET e == FillData(d, blk, size, text)
         IN  /\ e \in Disk /\ SameSpace(e, d) /\ e.inode = d.inode
             /\ \A b \in DataBlock \ Rng(blk) : e.data[b] = d.data[b]
             /\ \A b \in Rng(blk), s \in Slot : e.data[b][s].name \notin Names
             /\ \A i \in DOMAIN blk, s \in Slot :
                  (i - 1) * EPB + s < size => e.data[blk[i]][s].name = text
<1> USE Zenon
<1> DEFINE cell(i, s) == IF (i - 1) * EPB + s < size
                         THEN [name |-> text, inode |-> Junk] ELSE ZeroCell
           at(b) == CHOOSE j \in DOMAIN blk : blk[j] = b
           in(b) == \E i \in DOMAIN blk : blk[i] = b
           dat == [b \in DataBlock |-> IF in(b) THEN [s \in Slot |-> cell(at(b), s)]
                                       ELSE d.data[b]]
           e == FillData(d, blk, size, text)
<1>1. e = [d EXCEPT !.data = dat]
  BY DEF FillData
<1>2. \A i, s : cell(i, s) \in CellSet
  <2>1. [name |-> text, inode |-> Junk] \in CellSet
    <3>1. Junk \in 0 .. Junk
      BY FsAssumption, SMT DEF Junk
    <3>2. text \notin Names \cup {Dot, DotDot}
      BY FsAssumption
    <3>. QED
      BY <3>1, <3>2 DEF CellSet
  <2>. QED
    BY <2>1, PlainCells
<1>3. dat \in [DataBlock -> [Slot -> CellSet]]
  <2> HIDE DEF cell, at, in
  <2>. QED
    BY <1>2, DiskFields
<1>4. \A b \in DataBlock \ Rng(blk) : dat[b] = d.data[b]
  BY DEF Rng
<1>5. ASSUME NEW i \in DOMAIN blk PROVE blk[i] \in DataBlock /\ at(blk[i]) = i /\ in(blk[i])
  BY SMT DEF Once
<1>6. ASSUME NEW i \in DOMAIN blk, NEW s \in Slot, (i - 1) * EPB + s < size
      PROVE  dat[blk[i]][s].name = text
  <2>1. cell(i, s).name = text
    BY <1>6
  <2> HIDE DEF cell, at, in
  <2>2. dat[blk[i]][s] = cell(i, s)
    BY <1>5
  <2>. QED
    BY <2>1, <2>2
<1>7. ASSUME NEW b \in Rng(blk), NEW s \in Slot PROVE dat[b][s].name \notin Names
  <2>1. \A i : cell(i, s).name \in {text, NoMore}
    BY DEF ZeroCell
  <2>2. text \notin Names /\ NoMore \notin Names
    BY FsAssumption
  <2>3. b \in DataBlock /\ in(b)
    BY SMT DEF Rng
  <2> HIDE DEF cell, at, in
  <2>4. dat[b][s] = cell(at(b), s)
    BY <2>3
  <2>. QED
    BY <2>1, <2>2, <2>4
<1> HIDE DEF dat, e
<1>8. e \in Disk /\ SameSpace(e, d) /\ e.inode = d.inode /\ e.data = dat
  BY <1>1, <1>3 DEF Disk, SameSpace
<1>. QED
  BY <1>4, <1>6, <1>7, <1>8 DEF e

\* What a write of size bytes to inode n makes of disk d: the file has the blocks and
\* the size asked for, its blocks were its own or free, and only they are written,
\* with nothing that reads as an entry.
Written(d, w, n, size, text) ==
  /\ n \in Inum /\ Sound(w, {}) /\ w.ib = d.ib
  /\ Len(w.inode[n].blk) = BlockCount(size) /\ w.inode[n].size = size
  /\ w.inode[n].mode = d.inode[n].mode
  /\ Rng(w.inode[n].blk) \subseteq Rng(d.inode[n].blk) \cup FreeBlocks(d)
  /\ \A m \in Inum \ {n} : w.inode[m] = d.inode[m]
  /\ \A b \in DataBlock \ Rng(w.inode[n].blk) : w.data[b] = d.data[b]
  /\ \A b \in Rng(w.inode[n].blk), s \in Slot : w.data[b][s].name \notin Names
  /\ \A i \in DOMAIN w.inode[n].blk, s \in Slot :
       (i - 1) * EPB + s < size => w.data[w.inode[n].blk[i]][s].name = text

\* A write that succeeds.
LEMMA FsWriteDone ==
  ASSUME SetFacts, NEW d, Sound(d, {}), NEW loc \in Loc, NEW size \in Nat,
         NEW text \in Texts,
         FsWrite(d, loc, size, text).ok
  PROVE  Written(d, FsWrite(d, loc, size, text).d, CellAt(d, loc).inode, size, text)
<1> USE Zenon
<1> DEFINE n == CellAt(d, loc).inode
           want == BlockCount(size)
           x == d.inode[n]
           old == x.blk
           more == IF want > Len(old) THEN want - Len(old) ELSE 0
           added == [i \in 1 .. more |-> NthFree(d, i)]
           kept == SubSeq(old, 1, IF want < Len(old) THEN want ELSE Len(old))
           new == kept \o added
           A == Rng(added)
           freed == GivenBack(old, want)
           k == Cardinality(freed)
           e == BlocksDown(d, more)
           f == BlocksUp(e, k)
           bits == (d.bb \cup A) \ freed
           r == [x EXCEPT !.blk = new, !.size = size]
           tab == [d.inode EXCEPT ![n] = r]
           g == InsertInode([f EXCEPT !.bb = bits], n, r)
           w == FillData(g, new, size, text)
<1>1. n \in Inum /\ more <= Cardinality(FreeBlocks(d)) /\ FsWrite(d, loc, size, text).d = w
  <2>1. n \in Inum /\ ~(more > Cardinality(FreeBlocks(d)))
    BY DEF FsWrite
  <2>2. {added[i] : i \in 1 .. more} = A
    BY DEF Rng
  <2>3. FsWrite(d, loc, size, text).d = w
    <3>1. bits = ClearBits(d.bb \cup {added[i] : i \in 1 .. more}, freed)
      BY <2>2 DEF ClearBits
    <3>. QED
      BY <3>1 DEF FsWrite
  <2>4. Cardinality(FreeBlocks(d)) \in Nat
    BY SpaceSets DEF FreeBlocks, Sound
  <2>5. want \in Nat
    BY BlockCountHolds
  <2>6. old \in Seq(DataBlock)
    BY <2>1, DiskFields DEF Sound, InodeSet
  <2>7. more \in Nat
    <3>1. Len(old) \in Nat
      BY <2>6, SMT
    <3> HIDE DEF want, old
    <3>. QED
      BY <2>5, <3>1, SMT
  <2> HIDE DEF more, n, w
  <2>. QED
    BY <2>1, <2>3, <2>4, <2>7, SMT
<1>2. /\ d \in Disk /\ d.magic /\ OwnedOnce(d.inode)
      /\ Space(d.bb, Owned(d.inode) \cup {}, d.sbFB)
      /\ d.gdFB = d.sbFB /\ d.gdFI = d.sbFI
      /\ Cardinality(Inum \ d.ib) <= d.sbFI + 1
  BY DEF Sound
<1> HIDE DEF n
<1>3. x \in InodeSet /\ old \in Seq(DataBlock) /\ Once(old) /\ Len(old) \in Nat
  BY <1>1, <1>2, DiskFields, SMT DEF InodeSet, OwnedOnce
<1>4. want \in Nat \ {0} /\ size <= EPB * want
  BY BlockCountHolds
<1> HIDE DEF want, x
<1>5. more \in Nat
  BY <1>3, <1>4, SMT
<1>6. /\ added \in Seq(DataBlock) /\ Len(added) = more /\ Once(added)
      /\ A \in SUBSET FreeBlocks(d) /\ Cardinality(A) = more
  <2> HIDE DEF more
  <2>. QED
    BY <1>1, <1>5, AddedBlocks
<1>7. /\ Owned(d.inode) = Others(d.inode, n) \cup Rng(old)
      /\ Others(d.inode, n) \cap Rng(old) = {}
      /\ Owned(d.inode) \cap FreeBlocks(d) = {}
  BY <1>1, <1>2, TableSplit DEF Space, FreeBlocks, x
<1>8. /\ new \in Seq(DataBlock) /\ Len(new) = want /\ Once(new)
      /\ freed \subseteq Rng(old) /\ Rng(new) = (Rng(old) \ freed) \cup A
  <2>1. A \cap Rng(old) = {}
    BY <1>6, <1>7
  <2>2. want \in Nat /\ Once(old)
    BY <1>3, <1>4
  <2> DEFINE add == added
  <2>3. add = added
    OBVIOUS
  <2> HIDE DEF add
  <2>4. add \in Seq(DataBlock) /\ Len(add) = more /\ Once(add) /\ Rng(add) \cap Rng(old) = {}
    BY <1>6, <2>1, <2>3
  <2>5. more = IF want > Len(old) THEN want - Len(old) ELSE 0
    OBVIOUS
  <2> HIDE DEF more, old
  <2> DEFINE knew == kept \o add
  <2>6. /\ knew \in Seq(DataBlock) /\ Len(knew) = want /\ Once(knew)
        /\ GivenBack(old, want) \subseteq Rng(old)
        /\ Rng(knew) = (Rng(old) \ GivenBack(old, want)) \cup Rng(add)
    BY <1>3, <1>5, <2>2, <2>4, <2>5, NewList, SMT
  <2>. QED
    BY <2>3, <2>6
<1> HIDE DEF added, kept, freed, A, old, new, more
<1>9. /\ Space(bits, (Owned(d.inode) \cup A) \ freed, Down(d.sbFB, more) + k)
      /\ k \in Nat
  <2>1. A \in SUBSET (Block \ d.bb)
    BY <1>6 DEF FreeBlocks
  <2>2. Space(d.bb \cup A, (Owned(d.inode) \cup {}) \cup A, Down(d.sbFB, more))
    BY <1>2, <1>6, <2>1, SpaceTake
  <2>3. freed \in SUBSET ((Owned(d.inode) \cup {}) \cup A)
    BY <1>7, <1>8
  <2>4. /\ Space((d.bb \cup A) \ freed, ((Owned(d.inode) \cup {}) \cup A) \ freed,
                 Down(d.sbFB, more) + k)
        /\ k \in Nat
    BY <2>2, <2>3, SpaceGive
  <2>5. ((Owned(d.inode) \cup {}) \cup A) \ freed = (Owned(d.inode) \cup A) \ freed
    BY <1>6, <1>7, <1>8
  <2>. QED
    BY <2>4, <2>5
<1>10. r \in InodeSet /\ r.blk = new /\ r.size = size /\ r.mode = x.mode
  <2>1. x \in [mode : {"none", "file", "dir"}, size : Nat, blk : Seq(DataBlock)]
    BY <1>3 DEF InodeSet
  <2>2. /\ r \in [mode : {"none", "file", "dir"}, size : Nat, blk : Seq(DataBlock)]
        /\ r.blk = new /\ r.size = size /\ r.mode = x.mode
    BY <1>8, <2>1
  <2>. QED
    BY <1>4, <1>8, <2>2 DEF InodeSet
<1> HIDE DEF r
<1>11. /\ tab \in [Inum -> InodeSet] /\ OwnedOnce(tab)
       /\ Owned(tab) = Others(d.inode, n) \cup Rng(new)
       /\ tab[n] = r /\ \A m \in Inum \ {n} : tab[m] = d.inode[m]
  <2>1. d.inode \in [Inum -> InodeSet]
    BY <1>2, DiskFields
  <2>2. Rng(r.blk) \cap Others(d.inode, n) = {} /\ Once(r.blk)
    BY <1>6, <1>7, <1>8, <1>10
  <2>3. /\ tab \in [Inum -> InodeSet] /\ OwnedOnce(tab)
        /\ Owned(tab) = Others(d.inode, n) \cup Rng(r.blk)
    BY <1>1, <1>2, <1>10, <2>1, <2>2, TableSet
  <2>. QED
    BY <1>1, <1>10, <2>1, <2>3
<1> HIDE DEF tab
<1>12. /\ e \in Disk /\ e.sbFB = Down(d.sbFB, more) /\ e.gdFB = Down(d.gdFB, more)
       /\ e.magic = d.magic /\ e.bb = d.bb /\ e.ib = d.ib
       /\ e.sbFI = d.sbFI /\ e.gdFI = d.gdFI /\ e.inode = d.inode /\ e.data = d.data
  BY <1>2, <1>5, BlocksDownIs
<1> HIDE DEF e, k
<1>13. /\ f \in Disk /\ f.sbFB = Down(d.sbFB, more) + k /\ f.gdFB = Down(d.gdFB, more) + k
       /\ f.magic = d.magic /\ f.bb = d.bb /\ f.ib = d.ib
       /\ f.sbFI = d.sbFI /\ f.gdFI = d.gdFI /\ f.inode = d.inode /\ f.data = d.data
  BY <1>9, <1>12, BlocksUpIs, SMT
<1> HIDE DEF f
<1>14. bits \in SUBSET Block
  BY <1>9 DEF Space
<1> HIDE DEF bits
<1>15. /\ g \in Disk /\ g.sbFB = Down(d.sbFB, more) + k /\ g.gdFB = Down(d.gdFB, more) + k
       /\ g.magic = d.magic /\ g.bb = bits /\ g.ib = d.ib
       /\ g.sbFI = d.sbFI /\ g.gdFI = d.gdFI /\ g.inode = tab /\ g.data = d.data
  BY <1>11, <1>13, <1>14 DEF InsertInode, Disk, tab
<1> HIDE DEF g
<1>16. Sound(g, {})
  <2>1. (Owned(d.inode) \cup A) \ freed = Owned(tab) \cup {}
    BY <1>6, <1>7, <1>8, <1>11
  <2>2. Space(g.bb, Owned(g.inode) \cup {}, g.sbFB)
    BY <1>9, <1>15, <2>1
  <2>. QED
    BY <1>2, <1>11, <1>15, <2>2 DEF Sound
<1>17. /\ w \in Disk /\ SameSpace(w, g) /\ w.inode = g.inode
       /\ \A b \in DataBlock \ Rng(new) : w.data[b] = g.data[b]
       /\ \A b \in Rng(new), s \in Slot : w.data[b][s].name \notin Names
       /\ \A i \in DOMAIN new, s \in Slot :
            (i - 1) * EPB + s < size => w.data[new[i]][s].name = text
  BY <1>8, <1>15, FillDataIs
<1> HIDE DEF w
<1>18. Sound(w, {})
  BY <1>16, <1>17, DataOnly
<1>19. w.inode[n].blk = new /\ w.inode[n].size = size /\ w.inode[n].mode = x.mode
       /\ w.ib = d.ib
  BY <1>10, <1>11, <1>15, <1>17 DEF SameSpace
<1>20. Rng(new) \subseteq Rng(old) \cup FreeBlocks(d)
  BY <1>6, <1>8, ZenonT(30)
<1>21. /\ n \in Inum /\ Sound(w, {}) /\ w.ib = d.ib
       /\ Len(w.inode[n].blk) = BlockCount(size) /\ w.inode[n].size = size
       /\ w.inode[n].mode = d.inode[n].mode
       /\ Rng(w.inode[n].blk) \subseteq Rng(d.inode[n].blk) \cup FreeBlocks(d)
       /\ \A m \in Inum \ {n} : w.inode[m] = d.inode[m]
       /\ \A b \in DataBlock \ Rng(w.inode[n].blk) : w.data[b] = d.data[b]
       /\ \A b \in Rng(w.inode[n].blk), s \in Slot : w.data[b][s].name \notin Names
       /\ \A i \in DOMAIN w.inode[n].blk, s \in Slot :
            (i - 1) * EPB + s < size => w.data[w.inode[n].blk[i]][s].name = text
  BY <1>1, <1>8, <1>11, <1>15, <1>17, <1>18, <1>19, <1>20, SMT DEF old, x, want
<1>. QED
  BY <1>1, <1>21 DEF n, Written

-----------------------------------------------------------------------------
(* fsRemove and fsRmdir                                                    *)

\* What the removal of inode n, with its entry at loc, makes of disk d: the inode is
\* zeroed and its bit cleared, the last inode's excepted; the entry is marked FREE; of
\* the other cells only those in the inode's blocks change.
Removed(d, w, loc, n) ==
  /\ w.ib = d.ib \ ({n} \ {NInodes})
  /\ w.inode = [d.inode EXCEPT ![n] = ZeroInode]
  /\ \A b \in DataBlock, s \in Slot :
       IF b = loc.block /\ s = loc.offset THEN w.data[b][s] = FreeCell
       ELSE \/ w.data[b][s] = d.data[b][s]
            \/ b \in Rng(d.inode[n].blk) /\ w.data[b][s] = ZeroCell

\* An inode whose entry is at loc gives up its blocks, its entry and itself; nothing is
\* removed only when the entry is in one of these blocks.
LEMMA RemoveEntryKeeps ==
  ASSUME SetFacts, NEW d, Sound(d, {}), NEW loc \in Place, NEW n \in Inum,
         CellAt(d, loc).inode = n
  PROVE  /\ Sound(RemoveEntry(d, loc, n).d, {})
         /\ RemoveEntry(d, loc, n).fault \subseteq BOOLEAN
         /\ \/ /\ RemoveEntry(d, loc, n).d = d /\ ~RemoveEntry(d, loc, n).ok
               /\ loc.block \in Rng(d.inode[n].blk)
            \/ Removed(d, RemoveEntry(d, loc, n).d, loc, n)
<1> USE Zenon
<1> DEFINE blk == d.inode[n].blk
           gone == {blk[i] : i \in {j \in DOMAIN blk : j <= DBlocks}}
           k == Cardinality(gone)
           dat == [b \in DataBlock |-> IF b \in gone THEN ZeroBlock ELSE d.data[b]]
           d0 == [d EXCEPT !.bb = ClearBits(@, gone), !.data = dat]
           d1 == BlocksUp(d0, k)
           m == CellAt(d1, loc).inode
           d2 == ClearEntry(d1, loc)
           I == {m} \ {NInodes}
           d3 == [d2 EXCEPT !.ib = ClearBits(@, I)]
           d4 == InsertInode(d3, m, ZeroInode)
           d5 == InodesUp(d4)
           tab == [d.inode EXCEPT ![n] = ZeroInode]
           r == RemoveEntry(d, loc, n)
<1>1. /\ d \in Disk /\ d.magic /\ OwnedOnce(d.inode)
      /\ Space(d.bb, Owned(d.inode) \cup {}, d.sbFB)
      /\ d.gdFB = d.sbFB /\ d.gdFI = d.sbFI
      /\ Cardinality(Inum \ d.ib) <= d.sbFI + 1
  BY DEF Sound
<1>2. FreeBlocksOf(d, n) = d1
  BY DEF FreeBlocksOf
<1>3. CASE m = 0
  <2>1. r.d = d /\ r.fault \subseteq BOOLEAN /\ r.ok = FALSE
    BY <1>2, <1>3 DEF RemoveEntry
  <2>2. loc.block \in Rng(blk)
    <3>1. gone \subseteq Rng(blk)
      BY SMT DEF Rng
    <3>2. dat \in [DataBlock -> [Slot -> CellSet]]
      <4> HIDE DEF gone
      <4>. QED
        BY <1>1, PlainCells, DiskFields
    <3>3. \A b \in DataBlock : b \notin gone => dat[b] = d.data[b]
      OBVIOUS
    <3> HIDE DEF dat, gone
    <3>4. d0 \in Disk /\ d0.data = dat
      BY <1>1, <3>2 DEF Disk, ClearBits
    <3> HIDE DEF d0
    <3>5. d1.data = dat
      BY <3>4 DEF BlocksUp, Disk
    <3> HIDE DEF d1
    <3>6. loc.block \in DataBlock /\ n # 0
      BY FsAssumption, SMT DEF Place, Inum
    <3>7. loc.block \notin gone => CellAt(d1, loc) = CellAt(d, loc)
      BY <3>3, <3>5, <3>6 DEF CellAt
    <3>. QED
      BY <1>3, <3>1, <3>6, <3>7
  <2> HIDE DEF r
  <2>. QED
    BY <2>1, <2>2 DEF r
<1>4. CASE m # 0
  <2>1. r.d = d5 /\ r.fault \subseteq BOOLEAN
    BY <1>2, <1>4 DEF RemoveEntry, FreeInode
  <2>2. /\ Owned(d.inode) = Others(d.inode, n) \cup Rng(blk)
        /\ Others(d.inode, n) \cap Rng(blk) = {} /\ gone \subseteq Rng(blk)
    BY <1>1, TableSplit, SMT DEF Rng
  <2> HIDE DEF gone, blk
  <2>3. /\ k \in Nat /\ Space(d.bb \ gone, (Owned(d.inode) \cup {}) \ gone, d.sbFB + k)
    <3>1. gone \in SUBSET (Owned(d.inode) \cup {})
      BY <2>2
    <3>. QED
      BY <1>1, <3>1, SpaceGive
  <2>4. Space(d.bb \ gone, Others(d.inode, n) \cup {}, d.sbFB + k)
    <3>1. Others(d.inode, n) \cup {} \in SUBSET ((Owned(d.inode) \cup {}) \ gone)
      BY <2>2
    <3>. QED
      BY <2>3, <3>1, SpaceDrop
  <2> HIDE DEF k
  <2>5. dat \in [DataBlock -> [Slot -> CellSet]]
    BY <1>1, PlainCells, DiskFields
  <2>6. \A b \in DataBlock : dat[b] = IF b \in gone THEN ZeroBlock ELSE d.data[b]
    OBVIOUS
  <2> HIDE DEF dat
  <2>7. /\ d0 \in Disk /\ d0.magic = d.magic /\ d0.bb = d.bb \ gone /\ d0.ib = d.ib
        /\ d0.sbFB = d.sbFB /\ d0.gdFB = d.gdFB /\ d0.sbFI = d.sbFI /\ d0.gdFI = d.gdFI
        /\ d0.inode = d.inode /\ d0.data = dat
    BY <1>1, <2>5 DEF Disk, ClearBits
  <2> HIDE DEF d0
  <2>8. /\ d1 \in Disk /\ d1.magic = d.magic /\ d1.bb = d.bb \ gone /\ d1.ib = d.ib
        /\ d1.sbFB = d.sbFB + k /\ d1.gdFB = d.gdFB + k
        /\ d1.sbFI = d.sbFI /\ d1.gdFI = d.gdFI /\ d1.inode = d.inode /\ d1.data = dat
    BY <2>3, <2>7, BlocksUpIs, SMT
  <2> HIDE DEF d1
  <2>9. m = n
    <3>1. loc.block \in DataBlock /\ loc.offset \in Slot
      BY DEF Place
    <3>2. CellAt(d, loc) = d.data[loc.block][loc.offset]
          /\ CellAt(d1, loc) = dat[loc.block][loc.offset]
      BY <2>8, <3>1 DEF CellAt
    <3>3. CASE loc.block \in gone
      <4>1. CellAt(d1, loc) = ZeroCell
        BY <2>6, <3>1, <3>2, <3>3 DEF ZeroBlock
      <4>. QED
        BY <1>4, <4>1, SMT DEF ZeroCell
    <3>4. CASE loc.block \notin gone
      BY <2>6, <3>1, <3>2, <3>4
    <3>. QED
      BY <3>3, <3>4
  <2>10. /\ d2 \in Disk /\ SameSpace(d2, d1) /\ d2.inode = d1.inode
         /\ d2.data = [dat EXCEPT ![loc.block][loc.offset] = FreeCell]
    BY <2>8, PlainCells DEF ClearEntry, SetEntry, Disk, SameSpace, Place
  <2> HIDE DEF d2, m
  <2>11. I \in SUBSET Inum /\ IsFiniteSet(I) /\ Cardinality(I) \in Nat /\ Cardinality(I) <= 1
    <3>1. I \in SUBSET {n} /\ IsFiniteSet({n}) /\ Cardinality({n}) = 1
      BY <2>9, CardSingleton
    <3>. QED
      BY <3>1, CardSubset, CardNat, SMT
  <2> HIDE DEF I
  <2>12. /\ d3 \in Disk /\ d3.magic = d.magic /\ d3.bb = d.bb \ gone /\ d3.ib = d.ib \ I
         /\ d3.sbFB = d.sbFB + k /\ d3.gdFB = d.gdFB + k
         /\ d3.sbFI = d.sbFI /\ d3.gdFI = d.gdFI /\ d3.inode = d.inode /\ d3.data = d2.data
    BY <2>8, <2>10, <2>11 DEF Disk, ClearBits, SameSpace
  <2> HIDE DEF d3
  <2>13. /\ tab \in [Inum -> InodeSet] /\ OwnedOnce(tab)
         /\ Owned(tab) = Others(d.inode, n) \cup {}
    <3>1. ZeroInode \in InodeSet /\ Once(ZeroInode.blk) /\ Rng(ZeroInode.blk) = {}
      BY FsAssumption, SMT DEF ZeroInode, InodeSet, Once, Rng
    <3>2. d.inode \in [Inum -> InodeSet]
      BY <1>1, DiskFields
    <3>3. Rng(ZeroInode.blk) \cap Others(d.inode, n) = {}
      BY <3>1
    <3>4. /\ tab \in [Inum -> InodeSet] /\ OwnedOnce(tab)
          /\ Owned(tab) = Others(d.inode, n) \cup Rng(ZeroInode.blk)
      BY <1>1, <3>1, <3>2, <3>3, TableSet
    <3>. QED
      BY <3>1, <3>4
  <2> HIDE DEF tab
  <2>14. /\ d4 \in Disk /\ SameSpace(d4, d3) /\ d4.inode = tab /\ d4.data = d3.data
    BY <2>9, <2>12, <2>13 DEF Disk, InsertInode, SameSpace, tab
  <2> HIDE DEF d4
  <2>15. /\ d5 \in Disk /\ d5.magic = d.magic /\ d5.bb = d.bb \ gone /\ d5.ib = d.ib \ I
         /\ d5.sbFB = d.sbFB + k /\ d5.gdFB = d.gdFB + k
         /\ d5.sbFI = d.sbFI + 1 /\ d5.gdFI = d.gdFI + 1 /\ d5.inode = tab /\ d5.data = d4.data
    <3>1. d4.sbFI + 1 \in Nat /\ d4.gdFI + 1 \in Nat
      BY <2>14, DiskFields, SMT
    <3>. QED
      BY <2>12, <2>14, <3>1 DEF Disk, InodesUp, SameSpace
  <2> HIDE DEF d5
  <2>16. Cardinality(Inum \ d5.ib) <= d5.sbFI + 1
    <3> DEFINE S == Inum \ d.ib
    <3>1. IsFiniteSet(S) /\ Inum \ d5.ib \in SUBSET (S \cup I)
      BY <2>11, <2>15, FiniteSpace, CardDifference
    <3>2. /\ IsFiniteSet(S \cup I) /\ Cardinality(S) \in Nat /\ Cardinality(S \cap I) \in Nat
          /\ Cardinality(S \cup I) = Cardinality(S) + Cardinality(I) - Cardinality(S \cap I)
      BY <2>11, <3>1, CardUnion, CardNat, CardIntersection
    <3>3. /\ Cardinality(Inum \ d5.ib) <= Cardinality(S \cup I)
          /\ Cardinality(Inum \ d5.ib) \in Nat /\ Cardinality(S \cup I) \in Nat
      BY <3>1, <3>2, Without
    <3>4. Cardinality(S) <= d.sbFI + 1 /\ d.sbFI \in Nat
      BY <1>1, DiskFields
    <3> HIDE DEF S
    <3>. QED
      BY <2>11, <2>15, <3>2, <3>3, <3>4, SMT
  <2>17. Sound(d5, {})
    <3>1. Space(d5.bb, Owned(d5.inode) \cup {}, d5.sbFB)
      <4>1. Owned(d5.inode) \cup {} = Others(d.inode, n) \cup {}
        BY <2>13, <2>15
      <4>. QED
        BY <2>4, <2>15, <4>1
    <3>. QED
      BY <1>1, <2>13, <2>15, <2>16, <3>1 DEF Sound
  <2>18. Removed(d, d5, loc, n)
    <3>1. d5.ib = d.ib \ ({n} \ {NInodes}) /\ d5.inode = [d.inode EXCEPT ![n] = ZeroInode]
      BY <2>9, <2>15 DEF I, tab
    <3>2. d5.data = [dat EXCEPT ![loc.block][loc.offset] = FreeCell]
      BY <2>10, <2>12, <2>14, <2>15
    <3>3. loc.block \in DataBlock /\ loc.offset \in Slot
      BY DEF Place
    <3>4. d5.data[loc.block] = [dat[loc.block] EXCEPT ![loc.offset] = FreeCell]
      BY <2>5, <3>2, <3>3
    <3>5. \A b \in DataBlock : b # loc.block => d5.data[b] = dat[b]
      BY <2>5, <3>2, <3>3
    <3>6. dat[loc.block] \in [Slot -> CellSet]
      BY <2>5, <3>3
    <3>7. ASSUME NEW b \in DataBlock, NEW s \in Slot
          PROVE  IF b = loc.block /\ s = loc.offset THEN d5.data[b][s] = FreeCell
                 ELSE \/ d5.data[b][s] = d.data[b][s]
                      \/ b \in Rng(d.inode[n].blk) /\ d5.data[b][s] = ZeroCell
      <4>1. CASE b = loc.block /\ s = loc.offset
        BY <3>3, <3>4, <3>6, <4>1
      <4>2. CASE ~(b = loc.block /\ s = loc.offset)
        <5>1. d5.data[b][s] = dat[b][s]
          BY <3>3, <3>4, <3>5, <3>6, <4>2
        <5>2. b \in gone => b \in Rng(d.inode[n].blk) /\ dat[b][s] = ZeroCell
          BY <2>2, <2>6 DEF ZeroBlock, blk
        <5>3. b \notin gone => dat[b][s] = d.data[b][s]
          BY <2>6
        <5>. QED
          BY <4>2, <5>1, <5>2, <5>3
      <4>. QED
        BY <4>1, <4>2
    <3>. QED
      BY <3>1, <3>7 DEF Removed
  <2>. QED
    BY <2>1, <2>17, <2>18 DEF d5
<1>. QED
  BY <1>3, <1>4

\* fsRemove and fsRmdir, whether they find and remove an entry or not.
LEMMA RemovalKeeps ==
  ASSUME SetFacts, NEW d, Sound(d, {}), NEW n \in Inum, NEW t \in Typed \cup Names
  PROVE  /\ Sound(FsRemove(d, n, FormatName(t)).d, {})
         /\ FsRemove(d, n, FormatName(t)).fault \subseteq BOOLEAN
         /\ Sound(FsRmdir(d, n, FormatName(t)).d, {})
         /\ FsRmdir(d, n, FormatName(t)).fault \subseteq BOOLEAN
<1> USE Zenon
<1> DEFINE name == FormatName(t)
           e == Lookup(d, n, name)
           r == RemoveEntry(d, e.loc, e.inode)
<1>1. d \in Disk
  BY DEF Sound
<1>2. CASE ~e.ok
  <2>1. /\ FsRemove(d, n, name).d = d /\ FsRemove(d, n, name).fault \subseteq BOOLEAN
        /\ FsRmdir(d, n, name).d = d /\ FsRmdir(d, n, name).fault \subseteq BOOLEAN
    BY <1>2 DEF FsRemove, FsRmdir
  <2>. QED
    BY <2>1
<1>3. CASE e.ok
  <2>1. e.inode \in Inum
    BY <1>1, <1>3, FoundInode
  <2>2. e.loc \in Place /\ CellAt(d, e.loc).inode = e.inode
    BY <1>1, <1>3, LookupIs
  <2> HIDE DEF e
  <2>3. Sound(r.d, {}) /\ r.fault \subseteq BOOLEAN
    BY <2>1, <2>2, RemoveEntryKeeps
  <2> HIDE DEF r
  <2>4. \/ /\ FsRemove(d, n, name).d = d /\ FsRemove(d, n, name).fault \subseteq BOOLEAN
        \/ FsRemove(d, n, name) = r
    BY <1>3 DEF FsRemove, r, e
  <2>5. \/ /\ FsRmdir(d, n, name).d = d /\ FsRmdir(d, n, name).fault \subseteq BOOLEAN
        \/ FsRmdir(d, n, name) = r
    BY <1>3 DEF FsRmdir, r, e
  <2>. QED
    BY <2>3, <2>4, <2>5
<1>. QED
  BY <1>2, <1>3

-----------------------------------------------------------------------------
(* The invariant                                                           *)

\* Init: the RAM disk holds no file system.
LEMMA InitFsInv == Init => FsInv
<1> SUFFICES ASSUME Init PROVE FsInv
  BY Zenon
<1>1. ZeroInode \in InodeSet /\ ZeroInode.blk = <<>>
  BY FsAssumption DEF ZeroInode, InodeSet
<1>2. Root \in Inum /\ MaxPath \in Nat \ {0}
  BY FsAssumption DEF Root, Inum
<1>3. disk \in Disk /\ ~disk.magic /\ \A n \in Inum : disk.inode[n].blk = <<>>
  BY <1>1, PlainCells, Zenon DEF Init, Disk
<1>4. path \in Seq(Inum) /\ Len(path) \in 1 .. MaxPath
  BY <1>2 DEF Init
<1>5. mounted = FALSE /\ halted = FALSE /\ cachedFree = 0
  BY Zenon DEF Init
<1>. QED
  BY <1>3, <1>4, <1>5, Zenon DEF FsInv

\* fsFormat, on a disk on which only the root has blocks.
LEMMA FormatSound ==
  ASSUME SetFacts, NEW d \in Disk, \A n \in Inum \ {Root} : d.inode[n].blk = <<>>
  PROVE  /\ Sound(FsFormat(d), {})
         /\ \A n \in Inum \ {Root} : FsFormat(d).inode[n].blk = <<>>
         /\ FsFormat(d).ib = 1 .. Reserved /\ FsFormat(d).inode[Root].mode = "dir"
         /\ \A n \in Inum \ {Root} : FsFormat(d).inode[n] = d.inode[n]
         /\ \A b \in DataBlock, s \in Slot :
              \/ FsFormat(d).data[b][s] = d.data[b][s]
              \/ FsFormat(d).data[b][s].name \in {NoMore, Dot, DotDot}
<1> USE Zenon
<1> DEFINE c == NBlocks - (DataBase - 1) - 1
           ci == NInodes - (Reserved + 1)
           d1 == FillSuperBlock(d)
           d2 == InitBitmaps(d1)
           d3 == BlocksDown(d2, 1)
           root == [mode |-> "dir", size |-> 0, blk |-> <<DataBase>>]
           tab == [d.inode EXCEPT ![Root] = root]
           dots == [ZeroBlock EXCEPT ![0] = [name |-> DotDot, inode |-> Root],
                                     ![1] = [name |-> Dot, inode |-> Root]]
           dat == [d.data EXCEPT ![DataBase] = dots]
           bits == 0 .. DataBase
           e == FsFormat(d)
<1>1. /\ c \in Nat /\ c = NBlocks - DataBase /\ c >= 1 /\ ci \in Nat
      /\ DataBase \in DataBlock /\ Root \in Inum
      /\ 0 .. DataBase - 1 \subseteq Block /\ 1 .. Reserved \subseteq Inum
      /\ {DataBase} \subseteq Block /\ (0 .. DataBase - 1) \cup {DataBase} = bits
  BY FsAssumption, SMT DEF Block, DataBlock, Inum, Root
<1>2. /\ d1 \in Disk /\ d1.magic = TRUE /\ d1.sbFB = c /\ d1.gdFB = c
      /\ d1.sbFI = ci /\ d1.gdFI = ci /\ d1.inode = d.inode /\ d1.data = d.data
  <2> HIDE DEF c, ci
  <2>1. d1 = [d EXCEPT !.magic = TRUE, !.sbFB = c, !.gdFB = c, !.sbFI = ci, !.gdFI = ci]
    BY DEF FillSuperBlock, c, ci
  <2>. QED
    BY <1>1, <2>1 DEF Disk
<1> HIDE DEF c, ci, d1
<1>3. /\ d2 \in Disk /\ d2.magic = TRUE /\ d2.bb = 0 .. DataBase - 1 /\ d2.ib = 1 .. Reserved
      /\ d2.sbFB = c /\ d2.gdFB = c /\ d2.sbFI = ci /\ d2.gdFI = ci
      /\ d2.inode = d.inode /\ d2.data = d.data
  <2>1. d2 = [d1 EXCEPT !.bb = 0 .. DataBase - 1, !.ib = 1 .. Reserved]
    BY DEF InitBitmaps, SetBits
  <2>. QED
    BY <1>1, <1>2, <2>1 DEF Disk
<1> HIDE DEF d2
<1>4. /\ d3 \in Disk /\ d3.magic = TRUE /\ d3.bb = 0 .. DataBase - 1 /\ d3.ib = 1 .. Reserved
      /\ d3.sbFB = Down(c, 1) /\ d3.gdFB = Down(c, 1) /\ d3.sbFI = ci /\ d3.gdFI = ci
      /\ d3.inode = d.inode /\ d3.data = d.data
  BY <1>3, BlocksDownIs, SMT
<1> HIDE DEF d3
<1>5. /\ root \in InodeSet /\ root.blk = <<DataBase>> /\ root.mode = "dir"
      /\ Once(root.blk) /\ Rng(root.blk) = {DataBase}
  <2>1. root.blk = <<DataBase>> /\ <<DataBase>> \in Seq(DataBlock) /\ Len(<<DataBase>>) = 1
    BY <1>1, SMT
  <2>2. root \in InodeSet
    BY <2>1, FsAssumption DEF InodeSet
  <2>. QED
    BY <2>1, <2>2, SMT DEF Once, Rng
<1> HIDE DEF root
<1>6. /\ tab \in [Inum -> InodeSet] /\ tab[Root] = root
      /\ \A n \in Inum \ {Root} : tab[n].blk = <<>> /\ tab[n] = d.inode[n]
  BY <1>1, <1>5, DiskFields
<1>7. OwnedOnce(tab) /\ Owned(tab) \cup {} = {DataBase}
  <2> HIDE DEF tab
  <2>1. \A n \in Inum \ {Root} : Rng(tab[n].blk) = {} /\ Once(tab[n].blk)
    BY <1>6, SMT DEF Rng, Once
  <2>2. OwnedOnce(tab)
    BY <1>5, <1>6, <2>1 DEF OwnedOnce
  <2>3. Others(tab, Root) = {}
    BY <2>1 DEF Others
  <2>. QED
    BY <1>1, <1>5, <1>6, <2>2, <2>3, TableSplit
<1>8. dat \in [DataBlock -> [Slot -> CellSet]]
  <2>1. Dot \in Formatted /\ DotDot \in Formatted /\ Dot # Bad /\ DotDot # Bad
    BY DEF Formatted, Dot, DotDot, Bad
  <2>2. [name |-> DotDot, inode |-> Root] \in CellSet /\ [name |-> Dot, inode |-> Root] \in CellSet
    BY <1>1, <2>1, EntryIs
  <2>3. dots \in [Slot -> CellSet]
    BY <2>2, PlainCells
  <2> HIDE DEF dots
  <2>. QED
    BY <1>1, <2>3, DiskFields
<1>9. ASSUME NEW b \in DataBlock, NEW s \in Slot
       PROVE  dat[b][s] = d.data[b][s] \/ dat[b][s].name \in {NoMore, Dot, DotDot}
  <2>1. dots[s].name \in {NoMore, Dot, DotDot}
    <3>1. ZeroBlock \in [Slot -> CellSet] /\ \A u \in Slot : ZeroBlock[u].name = NoMore
      BY PlainCells DEF ZeroBlock, ZeroCell
    <3>2. dots[s] \in {ZeroBlock[s], [name |-> DotDot, inode |-> Root], [name |-> Dot, inode |-> Root]}
      BY <3>1
    <3>. QED
      BY <3>1, <3>2
  <2>2. dat[b] \in {d.data[b], dots}
    BY DiskFields
  <2>. QED
    BY <2>1, <2>2
<1> HIDE DEF dat, tab
<1>10. /\ e \in Disk /\ e.magic = TRUE /\ e.bb = bits /\ e.ib = 1 .. Reserved
      /\ e.sbFB = Down(c, 1) /\ e.gdFB = Down(c, 1) /\ e.sbFI = ci /\ e.gdFI = ci
      /\ e.inode = tab /\ e.data = dat
  <2>1. e = [d3 EXCEPT !.bb = bits, !.inode = tab, !.data = dat]
    <3>1. e = [d3 EXCEPT !.bb = SetBits(@, {DataBase}), !.inode[Root] = root,
                         !.data[DataBase] = dots]
      BY DEF FsFormat, CreateRoot, d3, d2, d1, root
    <3>. QED
      BY <1>1, <1>4, <3>1 DEF SetBits, tab, dat
  <2>2. bits \subseteq Block
    BY FsAssumption, SMT DEF Block
  <2> HIDE DEF bits
  <2>. QED
    BY <1>4, <1>6, <1>8, <2>1, <2>2 DEF Disk
<1> HIDE DEF e
<1>11. Space(bits, {DataBase}, Down(c, 1))
  <2>1. Block \ bits = DataBase + 1 .. NBlocks - 1 /\ DataBlock \ {DataBase} = DataBase + 1 .. NBlocks - 1
    BY FsAssumption, SMT DEF Block, DataBlock
  <2>2. Cardinality(DataBase + 1 .. NBlocks - 1) = NBlocks - DataBase - 1
    BY FsAssumption, CardInterval, SMT
  <2>3. Down(c, 1) = NBlocks - DataBase - 1 /\ Down(c, 1) \in Nat
    BY <1>1, FsAssumption, SMT DEF Down
  <2>4. /\ 0 .. DataBase - 1 \subseteq bits /\ bits \subseteq Block /\ {DataBase} \subseteq bits
        /\ {DataBase} \subseteq DataBlock
    BY <1>1, FsAssumption DEF Block
  <2> DEFINE rest == DataBase + 1 .. NBlocks - 1
             k == Cardinality(rest)
  <2> HIDE DEF bits, rest
  <2>5. Cardinality(Block \ bits) = k /\ Cardinality(DataBlock \ {DataBase}) = k
    BY <2>1 DEF rest
  <2>6. k = Down(c, 1)
    BY <2>2, <2>3 DEF rest
  <2> HIDE DEF k
  <2>. QED
    BY <2>3, <2>4, <2>5, <2>6, SMT DEF Space
<1>12. Cardinality(Inum \ (1 .. Reserved)) <= ci + 1
  <2>1. Inum \ (1 .. Reserved) = Reserved + 1 .. NInodes
    BY FsAssumption, SMT DEF Inum
  <2>2. Cardinality(Reserved + 1 .. NInodes) = NInodes - Reserved
    BY FsAssumption, CardInterval, SMT
  <2> DEFINE rest == Inum \ (1 .. Reserved)
             k == Cardinality(rest)
  <2> HIDE DEF rest
  <2>3. k = NInodes - Reserved
    BY <2>1, <2>2 DEF rest
  <2> HIDE DEF k
  <2>4. k <= ci + 1
    BY <2>3, FsAssumption, SMT DEF ci
  <2>. QED
    BY <2>4 DEF k, rest
<1>13. Sound(e, {})
  BY <1>7, <1>10, <1>11, <1>12 DEF Sound
<1>. QED
  BY <1>5, <1>6, <1>10, <1>13, <1>9 DEF e

\* The names the shell passes on.
LEMMA FormatNameIs ==
  ASSUME NEW t \in Typed
  PROVE  FormatName(t) \in Formatted
BY FsAssumption, Zenon DEF FormatName, Formatted, DotDotX, Dot, DotDot, Bad

\* What a command can rely on.
LEMMA RunningSound ==
  ASSUME FsInv, Running
  PROVE  Sound(disk, {}) /\ disk \in Disk /\ cwd \in Inum
BY DEF FsInv, Running, cwd

\* A command that leaves a sound disk.
LEMMA CommandKeeps ==
  ASSUME FsInv, Running, Sound(disk', {}), halted' \in BOOLEAN,
         UNCHANGED <<mounted, cachedFree, path>>
  PROVE  FsInv'
BY Zenon DEF FsInv, Running, Sound

\* The file a redirect or fill writes to, found or created.
LEMMA WriteTargetIs ==
  ASSUME SetFacts, FsInv, Running, NEW t \in Typed
  PROVE  LET c == WriteTarget(t) IN Sound(c.d, {}) /\ c.loc \in Loc /\ c.ub \in BOOLEAN
<1> USE Zenon
<1> DEFINE e == Lookup(disk, cwd, FormatName(t))
           c == WriteTarget(t)
<1>1. Sound(disk, {}) /\ disk \in Disk /\ cwd \in Inum /\ FormatName(t) \in Formatted
  BY RunningSound, FormatNameIs
<1>2. CASE e.ok
  <2>1. c.d = disk /\ c.loc = e.loc /\ c.ub = FALSE
    BY <1>2 DEF WriteTarget
  <2>2. e.loc \in Loc
    BY <1>1, LookupIs
  <2>. QED
    BY <1>1, <2>1, <2>2
<1>3. CASE ~e.ok
  <2>1. c = FsCreate(disk, cwd, FormatName(t))
    BY <1>3 DEF WriteTarget
  <2>. QED
    BY <1>1, <2>1, FsCreateKeeps
<1>. QED
  BY <1>2, <1>3

\* A redirect or fill, to a file that is there or one it creates first.
LEMMA WriteKeeps ==
  ASSUME SetFacts, FsInv, NEW t \in Typed, NEW size \in Sizes, NEW text \in Texts,
         Write(t, size, text)
  PROVE  FsInv'
<1> USE Zenon
<1> DEFINE c == WriteTarget(t)
           w == FsWrite(c.d, c.loc, size, text)
           r == WriteResult(t, size, text)
<1>1. Running
  BY DEF Write
<1>2. size \in Nat
  BY FsAssumption
<1>3. Sound(c.d, {}) /\ c.loc \in Loc /\ c.ub \in BOOLEAN
  BY <1>1, WriteTargetIs
<1> HIDE DEF c
<1>4. Sound(w.d, {})
  <2>1. CASE w.ok
    BY <1>2, <1>3, <2>1, FsWriteDone DEF Written
  <2>2. CASE ~w.ok
    BY <1>2, <1>3, <2>2, FsWriteFailed
  <2>. QED
    BY <2>1, <2>2
<1> HIDE DEF w
<1>5. Sound(r.d, {}) /\ r.ub \in BOOLEAN
  BY <1>3, <1>4 DEF WriteResult, c, w
<1> HIDE DEF r
<1>6. /\ disk' = r.d /\ halted' \in IF r.ub THEN BOOLEAN ELSE {FALSE}
      /\ UNCHANGED <<mounted, cachedFree, path>>
  BY DEF Write, r
<1>7. Sound(disk', {}) /\ halted' \in BOOLEAN
  BY <1>5, <1>6
<1>. QED
  BY <1>1, <1>6, <1>7, CommandKeeps

\* Every step keeps the invariant.
LEMMA NextFsInv ==
  ASSUME SetFacts
  PROVE  FsInv /\ [Next]_vars => FsInv'
<1> USE Zenon
<1> SUFFICES ASSUME FsInv, [Next]_vars PROVE FsInv'
  OBVIOUS
<1>1. CASE Format
  <2>1. disk' = FsFormat(disk) /\ ~mounted /\ UNCHANGED <<mounted, cachedFree, path, halted>>
    BY <1>1 DEF Format
  <2>2. disk \in Disk /\ \A n \in Inum \ {Root} : disk.inode[n].blk = <<>>
    BY <2>1 DEF FsInv
  <2>3. Sound(disk', {}) /\ \A n \in Inum \ {Root} : disk'.inode[n].blk = <<>>
    BY <2>1, <2>2, FormatSound
  <2>. QED
    BY <2>1, <2>3 DEF FsInv, Sound
<1>2. CASE Mount
  <2>1. disk.magic /\ cachedFree' = disk.gdFI /\ path' = <<Root>>
        /\ mounted' = TRUE /\ UNCHANGED <<disk, halted>>
    BY <1>2 DEF Mount, ReadSuperblock
  <2>2. cachedFree' \in Nat /\ path' \in Seq(Inum) /\ Len(path') \in 1 .. MaxPath
    BY <2>1, DiskFields, FsAssumption, SMT DEF FsInv, Inum, Root
  <2>. QED
    BY <2>1, <2>2 DEF FsInv
<1>3. CASE CdRoot
  <2>1. path' \in Seq(Inum) /\ Len(path') \in 1 .. MaxPath
    BY <1>3, FsAssumption, SMT DEF CdRoot, Inum, Root
  <2>. QED
    BY <1>3, <2>1 DEF CdRoot, FsInv
<1>4. CASE CdUp
  <2> DEFINE k == Len(path) - 1
  <2>1. path' = SubSeq(path, 1, k) /\ path \in Seq(Inum) /\ Len(path) \in 1 .. MaxPath
        /\ Len(path) > 1 /\ MaxPath \in Nat
    BY <1>4, FsAssumption DEF CdUp, FsInv
  <2>2. k \in 1 .. MaxPath /\ k <= Len(path)
    BY <2>1, SMT
  <2> HIDE DEF k
  <2>3. path' \in Seq(Inum) /\ Len(path') \in 1 .. MaxPath
    BY <2>1, <2>2, SMT
  <2>. QED
    BY <1>4, <2>3 DEF CdUp, FsInv
<1>5. CASE Exit
  BY <1>5 DEF Exit, FsInv
<1>6. ASSUME NEW t \in Typed, Touch(t) PROVE FsInv'
  <2>1. /\ Running /\ disk' = FsCreate(disk, cwd, FormatName(t)).d
        /\ halted' \in IF FsCreate(disk, cwd, FormatName(t)).ub THEN BOOLEAN ELSE {FALSE}
        /\ UNCHANGED <<mounted, cachedFree, path>>
    BY <1>6 DEF Touch
  <2>2. Sound(disk', {}) /\ halted' \in BOOLEAN
    BY <2>1, RunningSound, FormatNameIs, FsCreateKeeps
  <2>. QED
    BY <2>1, <2>2, CommandKeeps
<1>7. ASSUME NEW t \in Typed, Mkdir(t) PROVE FsInv'
  <2>1. /\ Running /\ disk' = FsMkdir(disk, cwd, FormatName(t)).d
        /\ halted' \in IF FsMkdir(disk, cwd, FormatName(t)).ub THEN BOOLEAN ELSE {FALSE}
        /\ UNCHANGED <<mounted, cachedFree, path>>
    BY <1>7 DEF Mkdir
  <2>2. Sound(disk', {}) /\ halted' \in BOOLEAN
    BY <2>1, RunningSound, FormatNameIs, FsMkdirKeeps
  <2>. QED
    BY <2>1, <2>2, CommandKeeps
<1>8. ASSUME NEW t \in Typed, Rm(t) PROVE FsInv'
  <2>1. /\ Running /\ disk' = FsRemove(disk, cwd, FormatName(t)).d
        /\ halted' \in FsRemove(disk, cwd, FormatName(t)).fault
        /\ UNCHANGED <<mounted, cachedFree, path>>
    BY <1>8 DEF Rm
  <2>2. Sound(disk', {}) /\ halted' \in BOOLEAN
    BY <2>1, RunningSound, RemovalKeeps
  <2>. QED
    BY <2>1, <2>2, CommandKeeps
<1>9. ASSUME NEW t \in Typed, Rmdir(t) PROVE FsInv'
  <2>1. /\ Running /\ disk' = FsRmdir(disk, cwd, FormatName(t)).d
        /\ halted' \in FsRmdir(disk, cwd, FormatName(t)).fault
        /\ UNCHANGED <<mounted, cachedFree, path>>
    BY <1>9 DEF Rmdir
  <2>2. Sound(disk', {}) /\ halted' \in BOOLEAN
    BY <2>1, RunningSound, RemovalKeeps
  <2>. QED
    BY <2>1, <2>2, CommandKeeps
<1>10. ASSUME NEW t \in Typed, Cd(t) PROVE FsInv'
  <2> DEFINE e == Lookup(disk, cwd, FormatName(t))
  <2>1. /\ Running /\ e.ok /\ Len(path) < MaxPath /\ path' = Append(path, e.inode)
        /\ UNCHANGED <<disk, mounted, cachedFree, halted>>
    BY <1>10 DEF Cd
  <2>2. e.inode \in Inum
    BY <2>1, RunningSound, FoundInode
  <2> HIDE DEF e
  <2>3. path' \in Seq(Inum) /\ Len(path') \in 1 .. MaxPath
    BY <2>1, <2>2, FsAssumption, SMT DEF FsInv
  <2>. QED
    BY <2>1, <2>3 DEF FsInv
<1>11. ASSUME NEW t \in Typed, NEW size \in Sizes, NEW text \in Texts, Write(t, size, text)
       PROVE  FsInv'
  BY <1>11, WriteKeeps
<1>12. CASE UNCHANGED vars
  BY <1>12 DEF vars, FsInv
<1>. QED
  BY <1>1, <1>2, <1>3, <1>4, <1>5, <1>6, <1>7, <1>8, <1>9, <1>10, <1>11, <1>12 DEF Next

-----------------------------------------------------------------------------
(* What the invariant gives                                                *)

\* A position in an inode's block list, and the block there.
LEMMA SlotIs ==
  ASSUME FsInv, NEW s \in BlockSlots
  PROVE  /\ s = <<s[1], s[2]>> /\ s[1] \in Inum /\ s[2] \in DOMAIN disk.inode[s[1]].blk
         /\ BlockIn(s) \in Rng(disk.inode[s[1]].blk)
         /\ BlockIn(s) \in Owned(disk.inode) /\ disk.magic
<1>1. PICK n \in Inum : \E i \in DOMAIN disk.inode[n].blk : s = <<n, i>>
  BY Zenon DEF BlockSlots
<1>2. PICK i \in DOMAIN disk.inode[n].blk : s = <<n, i>>
  BY <1>1, Zenon
<1>3. s[1] = n /\ s[2] = i
  BY <1>2, Zenon
<1>4. disk.inode[n].blk # <<>>
  BY <1>2
<1>5. disk.magic
  BY <1>1, <1>4, Zenon DEF FsInv
<1>. QED
  BY <1>2, <1>3, <1>5 DEF BlockIn, Rng, Owned

\* Two positions never name the same block.
LEMMA SlotsDiffer ==
  ASSUME FsInv, NEW s \in BlockSlots, NEW t \in BlockSlots, BlockIn(s) = BlockIn(t)
  PROVE  s = t
<1> USE Zenon
<1>1. OwnedOnce(disk.inode)
  BY SlotIs DEF FsInv, Sound
<1>2. /\ s = <<s[1], s[2]>> /\ s[1] \in Inum /\ s[2] \in DOMAIN disk.inode[s[1]].blk
      /\ BlockIn(s) \in Rng(disk.inode[s[1]].blk)
  BY SlotIs
<1>3. /\ t = <<t[1], t[2]>> /\ t[1] \in Inum /\ t[2] \in DOMAIN disk.inode[t[1]].blk
      /\ BlockIn(t) \in Rng(disk.inode[t[1]].blk)
  BY SlotIs
<1>4. s[1] = t[1]
  BY <1>1, <1>2, <1>3 DEF OwnedOnce
<1>5. s[2] = t[2]
  BY <1>1, <1>2, <1>3, <1>4 DEF OwnedOnce, Once, BlockIn
<1>. QED
  BY <1>2, <1>3, <1>4, <1>5

\* There are no more positions than blocks in them.
LEMMA SlotCount ==
  ASSUME SetFacts, FsInv, disk.magic
  PROVE  /\ Cardinality(BlockSlots) \in Nat
         /\ Cardinality(BlockSlots) <= Cardinality(Owned(disk.inode))
<1> USE Zenon
<1> DEFINE f == [s \in BlockSlots |-> BlockIn(s)]
           used == Owned(disk.inode)
<1>1. IsFiniteSet(used)
  <2>1. Space(disk.bb, used \cup {}, disk.sbFB)
    BY DEF FsInv, Sound
  <2>. QED
    BY <2>1, SpaceSets
<1>2. f \in [BlockSlots -> used] /\ \A s, t \in BlockSlots : f[s] = f[t] => s = t
  BY SlotIs, SlotsDiffer
<1> HIDE DEF f, used
<1>3. f \in Injection(BlockSlots, used)
  BY <1>2 DEF Injection, IsInjective
<1>4. IsFiniteSet(BlockSlots) /\ Cardinality(BlockSlots) <= Cardinality(used)
  BY <1>1, <1>3, CardInjection
<1>. QED
  BY <1>4, CardNat DEF used

\* The invariant gives the types.
LEMMA FsTypeOK == FsInv => TypeOK
<1> USE Zenon
<1> SUFFICES ASSUME FsInv PROVE TypeOK
  OBVIOUS
<1> DEFINE CellType == [name : Names \cup Texts \cup {NoMore, Free, Dot, DotDot}, inode : 0 .. Junk]
<1>1. CellSet \subseteq CellType
  BY DEF CellSet
<1>2. disk \in Disk
  BY DEF FsInv
<1>3. disk.data \in [DataBlock -> [Slot -> CellType]]
  BY <1>1, <1>2, DiskFields, SMT
<1>4. \A n \in Inum : /\ disk.inode[n].mode \in {"none", "file", "dir"}
                      /\ disk.inode[n].size \in Nat /\ disk.inode[n].blk \in Seq(DataBlock)
  BY <1>2, DiskFields DEF InodeSet
<1>. QED
  BY <1>2, <1>3, <1>4, DiskFields DEF TypeOK, FsInv

\* The invariant gives the space accounting.
LEMMA FsSpace ==
  ASSUME SetFacts
  PROVE  FsInv => SpaceAccounted
<1> USE Zenon
<1> SUFFICES ASSUME FsInv PROVE SpaceAccounted
  OBVIOUS
<1>1. BlocksOwnedOnce
  <2>1. ASSUME NEW s \in BlockSlots PROVE BlockIn(s) \in disk.bb
    <3>1. disk.magic /\ BlockIn(s) \in Owned(disk.inode)
      BY SlotIs
    <3>. QED
      BY <3>1 DEF FsInv, Sound, Space
  <2>. QED
    BY <2>1, SlotsDiffer DEF BlocksOwnedOnce
<1>2. ASSUME disk.magic PROVE disk.sbFB <= Cardinality(DataBlock) - Cardinality(BlockSlots)
  <2> DEFINE used == Owned(disk.inode)
             nd == Cardinality(DataBlock)
             nu == Cardinality(used)
             ns == Cardinality(BlockSlots)
             nf == Cardinality(DataBlock \ used)
  <2>1. Space(disk.bb, used, disk.sbFB)
    BY <1>2 DEF FsInv, Sound
  <2>2. nf = nd - nu /\ nu \in Nat
    BY <2>1, SpaceSets
  <2>3. disk.sbFB <= nf /\ disk.sbFB \in Nat
    BY <2>1 DEF Space
  <2>4. ns \in Nat /\ ns <= nu
    BY <1>2, SlotCount
  <2>5. nd \in Nat
    BY FiniteSpace, CardNat
  <2> HIDE DEF used, nd, nu, ns, nf
  <2>6. disk.sbFB <= nd - ns
    BY <2>2, <2>3, <2>4, <2>5, SMT
  <2>. QED
    BY <2>6 DEF nd, ns
<1>3. BlockCountBounds
  BY <1>2 DEF BlockCountBounds, FsInv, Sound, Space, Clear
<1>4. InodeCountBounds
  BY DEF InodeCountBounds, FsInv, Sound, ClearInodes
<1>. QED
  BY <1>1, <1>3, <1>4, FsTypeOK DEF SpaceAccounted

\* writeFile when the name is there: fsWrite on its inode.
LEMMA WriteToFound ==
  ASSUME NEW t, NEW size, NEW text, Lookup(disk, cwd, FormatName(t)).ok
  PROVE  LET w == FsWrite(disk, Lookup(disk, cwd, FormatName(t)).loc, size, text)
             r == WriteResult(t, size, text)
         IN  r.d = w.d /\ r.ok = w.ok
<1>1. /\ WriteTarget(t).ok = TRUE /\ WriteTarget(t).d = disk
      /\ WriteTarget(t).loc = Lookup(disk, cwd, FormatName(t)).loc
  BY Zenon DEF WriteTarget
<1>. QED
  BY <1>1, Zenon DEF WriteResult

\* Reading a file whose size its blocks hold, from two disks on which it has the
\* same inode and the same blocks.
LEMMA SameRead ==
  ASSUME NEW d \in Disk, NEW w \in Disk, NEW n \in Inum, d.inode[n].mode = "file",
         w.inode[n] = d.inode[n], \A b \in Rng(d.inode[n].blk) : w.data[b] = d.data[b]
  PROVE  FsRead(w, n) = FsRead(d, n)
<1> DEFINE blk == d.inode[n].blk
           size == d.inode[n].size
           k == Len(blk)
<1>1. blk \in Seq(DataBlock) /\ size \in Nat /\ size <= EPB * k /\ k \in Nat
  BY DiskFields DEF InodeSet
<1>2. ASSUME NEW p \in 0 .. size - 1 PROVE Cell(w, n, p).name = Cell(d, n, p).name
  <2>1. p \in Nat /\ p < EPB * k
    <3> HIDE DEF k, size
    <3>. QED
      BY <1>1, FsAssumption
  <2>2. p \div EPB + 1 \in 1 .. k
    BY <1>1, <2>1, DivMod, Zenon
  <2>3. p \div EPB + 1 \in DOMAIN blk
    BY <1>1, <2>2
  <2>4. BlockOf(d, n, p) \in Rng(blk) /\ BlockOf(w, n, p) = BlockOf(d, n, p)
    BY <2>3, Zenon DEF BlockOf, Rng
  <2>. QED
    BY <2>4, Zenon DEF Cell
<1>. QED
  BY <1>2, Zenon DEF FsRead

\* The contents a write leaves.
Filled(size, text) == [p \in 0 .. size - 1 |-> text]

\* What a write that succeeds leaves to read.
LEMMA WrittenIsRead ==
  ASSUME SetFacts, FsInv, Running, NEW t \in Typed, NEW size \in Sizes, NEW text \in Texts,
         Lookup(disk, cwd, FormatName(t)).ok, WriteResult(t, size, text).ok
  PROVE  LET n == Lookup(disk, cwd, FormatName(t)).inode
             w == WriteResult(t, size, text).d
         IN  /\ FsRead(w, n) = Filled(size, text)
             /\ \A m \in Inum \ {n} :
                  disk.inode[m].mode = "file" => FsRead(w, m) = FsRead(disk, m)
<1> USE Zenon
<1> DEFINE e == Lookup(disk, cwd, FormatName(t))
           n == e.inode
           f == FsWrite(disk, e.loc, size, text)
           w == WriteResult(t, size, text).d
           blk == w.inode[n].blk
           k == Len(blk)
<1>1. Sound(disk, {}) /\ disk \in Disk /\ cwd \in Inum
  BY RunningSound
<1>2. size \in Nat
  BY FsAssumption
<1>3. e.loc \in Loc /\ CellAt(disk, e.loc).inode = n
  BY <1>1, LookupIs
<1>4. f.ok /\ f.d = w
  BY WriteToFound
<1>5. /\ n \in Inum /\ Sound(w, {})
      /\ k = BlockCount(size) /\ w.inode[n].size = size
      /\ Rng(blk) \subseteq Rng(disk.inode[n].blk) \cup FreeBlocks(disk)
      /\ \A m \in Inum \ {n} : w.inode[m] = disk.inode[m]
      /\ \A b \in DataBlock \ Rng(blk) : w.data[b] = disk.data[b]
      /\ \A i \in DOMAIN blk, s \in Slot :
           (i - 1) * EPB + s < size => w.data[blk[i]][s].name = text
  <2>1. Written(disk, f.d, CellAt(disk, e.loc).inode, size, text)
    BY <1>1, <1>2, <1>3, <1>4, FsWriteDone
  <2>2. Written(disk, w, n, size, text)
    BY <1>3, <1>4, <2>1
  <2> HIDE DEF e, w
  <2>. QED
    BY <2>2 DEF Written
<1> HIDE DEF e, f, w
<1>6. w \in Disk /\ blk \in Seq(DataBlock) /\ k \in Nat
  <2>1. w \in Disk
    BY <1>5 DEF Sound
  <2>2. w.inode[n] \in InodeSet
    BY <1>5, <2>1, DiskFields
  <2>3. blk \in Seq(DataBlock)
    BY <2>2 DEF InodeSet
  <2> HIDE DEF blk
  <2>. QED
    BY <2>1, <2>3, SMT
<1>7. ASSUME NEW p \in 0 .. size - 1 PROVE Cell(w, n, p).name = text
  <2> DEFINE q == p \div EPB
             s == p % EPB
             i == q + 1
  <2>1. p \in Nat /\ p < size
    BY <1>2, SMT
  <2>2. p < EPB * k
    <3>1. size <= EPB * k
      BY <1>2, <1>5, BlockCountHolds
    <3> HIDE DEF k
    <3>. QED
      BY <1>2, <1>6, <2>1, <3>1, FsAssumption, SMT
  <2>3. q \in Nat /\ q + 1 \in 1 .. k /\ s \in Slot /\ q * EPB + s = p
    BY <1>6, <2>1, <2>2, DivMod
  <2>4. i \in DOMAIN blk
    BY <1>6, <2>3, SMT
  <2>5. Cell(w, n, p) = w.data[blk[i]][s]
    BY DEF Cell, BlockOf
  <2> HIDE DEF q, s
  <2>6. (i - 1) * EPB + s < size
    <3>1. i - 1 = q
      BY <2>3, SMT
    <3>. QED
      BY <2>1, <2>3, <3>1
  <2>7. w.data[blk[i]][s].name = text
    BY <1>5, <2>3, <2>4, <2>6
  <2>. QED
    BY <2>5, <2>7
<1>8. FsRead(w, n) = Filled(size, text)
  BY <1>5, <1>7 DEF FsRead, Filled
<1>9. ASSUME NEW m \in Inum \ {n}, disk.inode[m].mode = "file"
      PROVE  FsRead(w, m) = FsRead(disk, m)
  <2>1. Rng(disk.inode[m].blk) \subseteq DataBlock
    BY <1>1, DiskFields, SMT DEF InodeSet, Rng
  <2>2. Rng(disk.inode[m].blk) \cap Rng(disk.inode[n].blk) = {}
    BY <1>1, <1>5 DEF Sound, OwnedOnce
  <2>3. Rng(disk.inode[m].blk) \cap FreeBlocks(disk) = {}
    <3>1. Rng(disk.inode[m].blk) \subseteq Owned(disk.inode)
      BY DEF Owned
    <3>. QED
      BY <1>1, <3>1 DEF Sound, Space, FreeBlocks
  <2>4. \A b \in Rng(disk.inode[m].blk) : w.data[b] = disk.data[b]
    BY <1>5, <2>1, <2>2, <2>3
  <2>. QED
    BY <1>1, <1>5, <1>6, <1>9, <2>4, SameRead, ZenonT(30)
<1>. QED
  BY <1>8, <1>9 DEF e, w

\* The invariant gives what a write does.
LEMMA FsWrites ==
  ASSUME SetFacts
  PROVE  FsInv => WriteAllOrNothing
<1> USE Zenon
<1> SUFFICES ASSUME FsInv PROVE WriteAllOrNothing
  OBVIOUS
<1>1. OverwriteStaysInFile
  <2> SUFFICES ASSUME Running
               PROVE  \A t \in Typed, size \in Sizes, text \in Texts :
                        \A e \in {Lookup(disk, cwd, FormatName(t))},
                           r \in {WriteResult(t, size, text)} :
                          (e.ok /\ disk.inode[e.inode].mode # "dir" /\ r.ok)
                          => /\ FsRead(r.d, e.inode) = Filled(size, text)
                             /\ \A n \in Inum \ {e.inode} :
                                  disk.inode[n].mode = "file" => FsRead(r.d, n) = FsRead(disk, n)
    BY DEF OverwriteStaysInFile, Filled
  <2> TAKE t \in Typed, size \in Sizes, text \in Texts
  <2> TAKE e \in {Lookup(disk, cwd, FormatName(t))}, r \in {WriteResult(t, size, text)}
  <2> HAVE e.ok /\ disk.inode[e.inode].mode # "dir" /\ r.ok
  <2>1. e = Lookup(disk, cwd, FormatName(t)) /\ r = WriteResult(t, size, text)
    OBVIOUS
  <2>. QED
    BY <2>1, WrittenIsRead, ZenonT(30)
<1>2. FailedWriteIsUndone
  <2> SUFFICES ASSUME Running, NEW t \in Typed, NEW size \in Sizes, NEW text \in Texts,
                      Lookup(disk, cwd, FormatName(t)).ok, ~WriteResult(t, size, text).ok
               PROVE  WriteResult(t, size, text).d = disk
    BY DEF FailedWriteIsUndone
  <2>1. Sound(disk, {})
    BY RunningSound
  <2> DEFINE l == Lookup(disk, cwd, FormatName(t)).loc
             w == FsWrite(disk, l, size, text)
  <2>2. WriteResult(t, size, text).d = w.d /\ WriteResult(t, size, text).ok = w.ok
    BY WriteToFound
  <2>3. w.d = disk
    <3>1. ~w.ok
      BY <2>2
    <3>. QED
      BY <2>1, <3>1, FsWriteFailed
  <2>. QED
    BY <2>2, <2>3
<1>. QED
  BY <1>1, <1>2 DEF WriteAllOrNothing

-----------------------------------------------------------------------------
(* Directories: their entries and the shell's path                         *)

\* The commands are used as they are meant to be: names are ordinary names or are
\* refused, and what is written is a file.
OrdinaryUse == DirWrites = FALSE /\ Typed \subseteq Names \cup {Bad}

\* The directories of a disk and their blocks.
DirsOf(d) == {n \in Inum : d.inode[n].mode = "dir"}
DirBlocks(d) == UNION {Rng(d.inode[n].blk) : n \in DirsOf(d)}

\* A place in a data block that reads as an entry under an ordinary name.
Named(d, b, s) == d.data[b][s].name \in Names

\* In a directory no entry comes behind a NO_MORE cell, and no name is there twice.
Orderly(d, n) ==
  \A p, q \in Cells(d, n) : Cell(d, n, q).name \in Names =>
     /\ p < q => Cell(d, n, p).name # NoMore
     /\ Cell(d, n, p).name = Cell(d, n, q).name => p = q

\* Entries are in blocks of directories only, blocks that are free or taken and lost
\* included; they lead to inodes of their own; directories are in order; directories
\* and the reserved inodes are marked.
Entries(d) ==
  /\ \A b \in DataBlock, s \in Slot : Named(d, b, s) =>
       b \in DirBlocks(d) /\ d.data[b][s].inode \in d.ib \ (1 .. Reserved)
  /\ \A b, c \in DataBlock, s, u \in Slot :
       (Named(d, b, s) /\ Named(d, c, u) /\ d.data[b][s].inode = d.data[c][u].inode)
       => b = c /\ s = u
  /\ \A n \in DirsOf(d) : Orderly(d, n)
  /\ DirsOf(d) \cup (1 .. Reserved) \subseteq d.ib

\* Inode m has an entry that leads to n.
Leads(d, m, n) ==
  \E b \in Rng(d.inode[m].blk), s \in Slot : Named(d, b, s) /\ d.data[b][s].inode = n

\* A path from the root: every directory of it has the entry of the next one.
Walk(d, q) ==
  /\ q[1] = Root
  /\ \A i \in 1 .. Len(q) : q[i] \in DirsOf(d)
  /\ \A i \in 1 .. Len(q) - 1 : Leads(d, q[i], q[i + 1])

\* The inductive invariant of directories.  Before mount the disk holds no entry, and
\* no directory but the root of a formatted one.
FsDirInv ==
  /\ mounted => Entries(disk) /\ Walk(disk, path)
  /\ ~mounted => /\ \A b \in DataBlock, s \in Slot : ~Named(disk, b, s)
                 /\ DirsOf(disk) \subseteq {Root}
                 /\ disk.magic => Root \in DirsOf(disk) /\ 1 .. Reserved \subseteq disk.ib

\* The slot s of the block at position j + 1 of a list of k blocks has a cell number.
LEMMA CellNumber ==
  ASSUME NEW k \in Nat, NEW j \in Nat, j < k, NEW s \in Slot
  PROVE  LET p == j * EPB + s
         IN  p \in Nat /\ p < EPB * k /\ p \div EPB = j /\ p % EPB = s
<1> DEFINE p == j * EPB + s
<1>1. s \in Nat /\ s < EPB /\ EPB \in Nat /\ EPB >= 3
  BY FsAssumption DEF Slot
<1>2. p \in Nat /\ p < EPB * k
  <2>1. PICK i \in Nat : k = j + 1 + i
    BY Z3
  <2>2. EPB * k = j * EPB + EPB + EPB * i /\ EPB * i \in Nat /\ j * EPB \in Nat
    BY <1>1, <2>1, Z3
  <2>. QED
    BY <1>1, <2>2
<1> DEFINE q == p \div EPB
           r == p % EPB
<1>3. q \in Nat /\ r \in Slot /\ q * EPB + r = p
  <2> HIDE DEF p
  <2>. QED
    BY <1>2, DivMod, Zenon
<1>4. r \in Nat /\ r < EPB /\ q * EPB + r = j * EPB + s
  BY <1>1, <1>3 DEF Slot
<1> HIDE DEF q, r
<1>5. q = j
  <2>1. ASSUME NEW x \in Nat, NEW y \in Nat, NEW u \in Nat, x < y, u < EPB
        PROVE  x * EPB + u < y * EPB
    <3>1. PICK i \in Nat : y = x + 1 + i
      BY <2>1, Z3
    <3>2. y * EPB = x * EPB + EPB + i * EPB /\ i * EPB \in Nat /\ x * EPB \in Nat
      BY <1>1, <3>1, Z3
    <3>. QED
      BY <1>1, <2>1, <3>2
  <2>2. ~(q < j)
    <3>1. q < j => q * EPB + r < j * EPB
      BY <1>3, <1>4, <2>1
    <3>2. j * EPB \in Nat
      BY <1>1, Z3
    <3>. QED
      BY <1>1, <1>4, <3>1, <3>2
  <2>3. ~(j < q)
    <3>1. j < q => j * EPB + s < q * EPB
      BY <1>1, <1>3, <2>1
    <3>2. q * EPB \in Nat
      BY <1>1, <1>3, Z3
    <3>. QED
      BY <1>1, <1>4, <3>1, <3>2
  <2>. QED
    BY <1>3, <2>2, <2>3
<1>6. r = s
  <2>1. j * EPB \in Nat
    BY <1>1, Z3
  <2>. QED
    BY <1>1, <1>4, <1>5, <2>1
<1>. QED
  BY <1>2, <1>5, <1>6, Zenon DEF q, r

\* The block list of an inode.
LEMMA ListIs ==
  ASSUME NEW d \in Disk, NEW n \in Inum
  PROVE  /\ d.inode[n] \in InodeSet /\ d.inode[n].blk \in Seq(DataBlock)
         /\ Len(d.inode[n].blk) \in Nat /\ DOMAIN d.inode[n].blk = 1 .. Len(d.inode[n].blk)
<1>1. d.inode[n] \in InodeSet /\ d.inode[n].blk \in Seq(DataBlock)
  BY DiskFields, Zenon DEF InodeSet
<1>. QED
  BY <1>1

\* A cell of an inode is a slot of one of its blocks.
LEMMA CellPlace ==
  ASSUME NEW d \in Disk, NEW n \in Inum, NEW p \in Cells(d, n)
  PROVE  /\ BlockOf(d, n, p) \in Rng(d.inode[n].blk) /\ p \in Nat
         /\ p \div EPB + 1 \in DOMAIN d.inode[n].blk
         /\ (p \div EPB) * EPB + (p % EPB) = p
<1> DEFINE blk == d.inode[n].blk
<1>1. Len(blk) \in Nat /\ DOMAIN blk = 1 .. Len(blk)
  BY ListIs, Zenon
<1>2. p \in Nat /\ p < EPB * Len(blk)
  <2>1. p \in 0 .. EPB * Len(blk) - 1
    BY Zenon DEF Cells
  <2> HIDE DEF blk
  <2>2. EPB * Len(blk) \in Nat
    BY <1>1, FsAssumption
  <2>. QED
    BY <2>1, <2>2
<1>3. p \div EPB + 1 \in 1 .. Len(blk) /\ (p \div EPB) * EPB + (p % EPB) = p
  <2> HIDE DEF blk
  <2>. QED
    BY <1>1, <1>2, DivMod, Zenon
<1>. QED
  BY <1>1, <1>2, <1>3, Zenon DEF BlockOf, Rng

\* A slot of one of its blocks is a cell of an inode.
LEMMA PlaceCell ==
  ASSUME NEW d \in Disk, NEW n \in Inum, NEW b \in Rng(d.inode[n].blk), NEW s \in Slot
  PROVE  \E p \in Cells(d, n) : BlockOf(d, n, p) = b /\ p % EPB = s /\ Cell(d, n, p) = d.data[b][s]
<1> DEFINE blk == d.inode[n].blk
<1>1. Len(blk) \in Nat /\ DOMAIN blk = 1 .. Len(blk)
  BY ListIs, Zenon
<1>2. PICK i \in 1 .. Len(blk) : b = blk[i]
  BY <1>1, Zenon DEF Rng
<1> DEFINE j == i - 1
           p == j * EPB + s
<1>3. j \in Nat /\ j < Len(blk) /\ j + 1 = i
  BY <1>1, <1>2
<1> HIDE DEF j
<1>4. p \in Nat /\ p < EPB * Len(blk) /\ p \div EPB = j /\ p % EPB = s
  <2> HIDE DEF blk
  <2>. QED
    BY <1>1, <1>3, CellNumber, Zenon
<1> HIDE DEF p
<1>5. p \in Cells(d, n)
  <2>1. EPB * Len(blk) \in Nat
    BY <1>1, FsAssumption
  <2>. QED
    BY <1>4, <2>1 DEF Cells
<1>6. BlockOf(d, n, p) = b
  BY <1>2, <1>3, <1>4, Zenon DEF BlockOf
<1>. QED
  BY <1>4, <1>5, <1>6, Zenon DEF Cell

\* Two cells are at different places.
LEMMA CellsDiffer ==
  ASSUME NEW d \in Disk, OwnedOnce(d.inode), NEW m \in Inum, NEW n \in Inum,
         NEW p \in Cells(d, m), NEW q \in Cells(d, n),
         BlockOf(d, m, p) = BlockOf(d, n, q), p % EPB = q % EPB
  PROVE  m = n /\ p = q
<1> USE Zenon
<1>1. /\ BlockOf(d, m, p) \in Rng(d.inode[m].blk) /\ p \div EPB + 1 \in DOMAIN d.inode[m].blk
      /\ (p \div EPB) * EPB + (p % EPB) = p /\ p \in Nat
  BY CellPlace
<1>2. /\ BlockOf(d, n, q) \in Rng(d.inode[n].blk) /\ q \div EPB + 1 \in DOMAIN d.inode[n].blk
      /\ (q \div EPB) * EPB + (q % EPB) = q /\ q \in Nat
  BY CellPlace
<1>3. m = n
  BY <1>1, <1>2 DEF OwnedOnce
<1>4. p \div EPB + 1 = q \div EPB + 1
  BY <1>1, <1>2, <1>3 DEF OwnedOnce, Once, BlockOf
<1>5. p \div EPB = q \div EPB
  <2>1. p \div EPB \in Nat /\ q \div EPB \in Nat
    BY <1>1, <1>2, FsAssumption, Z3
  <2>. QED
    BY <1>4, <2>1, SMT
<1>. QED
  BY <1>1, <1>2, <1>3, <1>5

\* A lookup that succeeds stops at a matching cell with no NO_MORE cell before it;
\* when it fails, there is a NO_MORE cell before every matching one.
LEMMA LookupFirst ==
  ASSUME SetFacts, NEW d \in Disk, NEW n \in Inum, NEW key
  PROVE  LET e == Lookup(d, n, key)
         IN  /\ e.ok => \E p \in Cells(d, n) :
                          /\ Matches(Cell(d, n, p).name, key)
                          /\ e.loc = [block |-> BlockOf(d, n, p), offset |-> p % EPB]
                          /\ e.inode = Cell(d, n, p).inode
                          /\ \A q \in Cells(d, n) : q < p => Cell(d, n, q).name # NoMore
             /\ ~e.ok => \A p \in Cells(d, n) : Matches(Cell(d, n, p).name, key) =>
                           \E q \in Cells(d, n) : q < p /\ Cell(d, n, q).name = NoMore
<1> USE Zenon
<1> DEFINE stops == {p \in Cells(d, n) : \/ Matches(Cell(d, n, p).name, key)
                                         \/ Cell(d, n, p).name = NoMore}
           e == Lookup(d, n, key)
<1>1. CASE stops = {}
  <2>1. e.ok = FALSE
    BY <1>1 DEF Lookup
  <2>2. \A p \in Cells(d, n) : ~Matches(Cell(d, n, p).name, key)
    BY <1>1
  <2> HIDE DEF e
  <2>. QED
    BY <2>1, <2>2 DEF e
<1>2. CASE stops # {}
  <2> DEFINE p == Min(stops)
             ok == Matches(Cell(d, n, p).name, key)
             loc == [block |-> BlockOf(d, n, p), offset |-> IF ok THEN p % EPB ELSE 0]
  <2>1. e = [ok |-> ok, inode |-> Cell(d, n, p).inode, loc |-> loc]
    BY <1>2 DEF Lookup
  <2>2. stops \in SUBSET Nat
    BY CellIs
  <2>3. p \in stops /\ \A q \in stops : p <= q
    <3> HIDE DEF stops
    <3>. QED
      BY <1>2, <2>2, MinLeast
  <2> HIDE DEF p
  <2>4. p \in Cells(d, n) /\ (ok \/ Cell(d, n, p).name = NoMore) /\ p \in Nat
    BY <2>2, <2>3
  <2>5. \A q \in stops : ~(q < p)
    <3> HIDE DEF stops
    <3>. QED
      BY <2>2, <2>3, <2>4, SMT
  <2>6. \A q \in stops : q # p => p < q
    <3> HIDE DEF stops
    <3>. QED
      BY <2>2, <2>3, <2>4, SMT
  <2>7. e.ok = ok /\ e.inode = Cell(d, n, p).inode /\ e.loc = loc
    <3> HIDE DEF e, ok, loc
    <3>. QED
      BY <2>1
  <2>8. CASE ok
    <3>1. loc = [block |-> BlockOf(d, n, p), offset |-> p % EPB]
      BY <2>8
    <3>2. \A q \in Cells(d, n) : q < p => Cell(d, n, q).name # NoMore
      BY <2>5
    <3> HIDE DEF e, loc
    <3>. QED
      BY <2>4, <2>7, <2>8, <3>1, <3>2 DEF e
  <2>9. CASE ~ok
    <3>1. \A q \in Cells(d, n) : Matches(Cell(d, n, q).name, key) => p < q
      BY <2>6, <2>9
    <3> HIDE DEF e, loc
    <3>. QED
      BY <2>4, <2>7, <2>9, <3>1 DEF e
  <2>. QED
    BY <2>8, <2>9
<1>. QED
  BY <1>1, <1>2

\* An ordinary name is none of the marks, and what matches it is the name itself.
LEMMA OrdinaryName ==
  ASSUME NEW u \in Names
  PROVE  /\ u \notin {NoMore, Free, Dot, DotDot, Bad, Visible}
         /\ Matches(u, Visible) /\ \A x : Matches(x, u) <=> x = u
BY FsAssumption, Zenon DEF Matches

\* In an orderly directory a lookup of an ordinary name finds its cell.
LEMMA LookupNamed ==
  ASSUME SetFacts, NEW d \in Disk, NEW n \in Inum, Orderly(d, n), NEW u \in Names
  PROVE  LET e == Lookup(d, n, u)
         IN  /\ \A p \in Cells(d, n) : Cell(d, n, p).name = u =>
                  /\ e.ok /\ e.inode = Cell(d, n, p).inode
                  /\ e.loc = [block |-> BlockOf(d, n, p), offset |-> p % EPB]
             /\ e.ok => \E p \in Cells(d, n) : Cell(d, n, p).name = u
<1> USE Zenon
<1> DEFINE e == Lookup(d, n, u)
<1>1. /\ e.ok => \E p \in Cells(d, n) :
                   /\ Cell(d, n, p).name = u
                   /\ e.loc = [block |-> BlockOf(d, n, p), offset |-> p % EPB]
                   /\ e.inode = Cell(d, n, p).inode
      /\ ~e.ok => \A p \in Cells(d, n) : Cell(d, n, p).name = u =>
                    \E q \in Cells(d, n) : q < p /\ Cell(d, n, q).name = NoMore
  <2>1. \A x : Matches(x, u) <=> x = u
    BY OrdinaryName
  <2>2. /\ e.ok => \E p \in Cells(d, n) :
                     /\ Matches(Cell(d, n, p).name, u)
                     /\ e.loc = [block |-> BlockOf(d, n, p), offset |-> p % EPB]
                     /\ e.inode = Cell(d, n, p).inode
        /\ ~e.ok => \A p \in Cells(d, n) : Matches(Cell(d, n, p).name, u) =>
                      \E q \in Cells(d, n) : q < p /\ Cell(d, n, q).name = NoMore
    BY LookupFirst
  <2> HIDE DEF e
  <2>. QED
    BY <2>1, <2>2
<1> HIDE DEF e
<1>2. ASSUME NEW p \in Cells(d, n), Cell(d, n, p).name = u
      PROVE  /\ e.ok /\ e.inode = Cell(d, n, p).inode
             /\ e.loc = [block |-> BlockOf(d, n, p), offset |-> p % EPB]
  <2>1. e.ok
    BY <1>1, <1>2 DEF Orderly
  <2>2. PICK q \in Cells(d, n) :
               /\ Cell(d, n, q).name = u
               /\ e.loc = [block |-> BlockOf(d, n, q), offset |-> q % EPB]
               /\ e.inode = Cell(d, n, q).inode
    BY <1>1, <2>1
  <2>3. q = p
    BY <1>2, <2>2 DEF Orderly
  <2>. QED
    BY <2>1, <2>2, <2>3
<1>. QED
  BY <1>1, <1>2 DEF e

\* In an orderly directory ls shows every entry.
LEMMA ListsNamed ==
  ASSUME NEW d \in Disk, NEW n \in Inum, Orderly(d, n),
         NEW p \in Cells(d, n), Cell(d, n, p).name \in Names
  PROVE  Cell(d, n, p) \in ReadDir(d, n)
<1> USE Zenon
<1>1. Matches(Cell(d, n, p).name, Visible) /\ Cell(d, n, p).name # NoMore
  BY OrdinaryName
<1>2. ASSUME NEW r \in 0 .. p PROVE Cell(d, n, r).name # NoMore
  <2>1. CASE r = p
    BY <1>1, <2>1
  <2>2. CASE r # p
    <3>1. p \in Nat /\ p \in Cells(d, n)
      BY CellIs
    <3> DEFINE l == Len(d.inode[n].blk)
    <3>2. l \in Nat
      BY ListIs
    <3>3. Cells(d, n) = 0 .. EPB * l - 1
      BY DEF Cells
    <3> HIDE DEF l
    <3>4. r \in Cells(d, n) /\ r < p
      BY <2>2, <3>1, <3>2, <3>3, FsAssumption, SMT
    <3>. QED
      BY <3>4 DEF Orderly
  <2>. QED
    BY <2>1, <2>2
<1>. QED
  BY <1>1, <1>2 DEF ReadDir

\* A directory in which the emptiness test of rmdir sees nothing has no entry.
LEMMA EmptyHasNone ==
  ASSUME SetFacts, NEW d \in Disk, NEW n \in Inum, Orderly(d, n), ~Lookup(d, n, Visible).ok
  PROVE  \A b \in Rng(d.inode[n].blk), s \in Slot : ~Named(d, b, s)
<1> USE Zenon
<1> SUFFICES ASSUME NEW b \in Rng(d.inode[n].blk), NEW s \in Slot, Named(d, b, s)
             PROVE  FALSE
  OBVIOUS
<1>1. PICK p \in Cells(d, n) :
             BlockOf(d, n, p) = b /\ p % EPB = s /\ Cell(d, n, p) = d.data[b][s]
  BY PlaceCell, SMT
<1>2. Cell(d, n, p).name \in Names
  BY <1>1 DEF Named
<1>3. Matches(Cell(d, n, p).name, Visible)
  BY <1>2, OrdinaryName
<1>4. \E q \in Cells(d, n) : q < p /\ Cell(d, n, q).name = NoMore
  BY <1>3, LookupFirst
<1>. QED
  BY <1>2, <1>4 DEF Orderly

\* From disk d to disk e every entry stays where it is, and every directory keeps its
\* blocks.
Keeps(d, e) ==
  /\ \A b \in DataBlock, s \in Slot : Named(d, b, s) => e.data[b][s] = d.data[b][s]
  /\ \A n \in DirsOf(d) : n \in DirsOf(e) /\ Rng(d.inode[n].blk) \subseteq Rng(e.inode[n].blk)

\* Then two such changes in a row keep entries and directories, and an entry still leads
\* where it led.
LEMMA KeepsBoth ==
  ASSUME NEW d, NEW e, NEW f, Keeps(d, e), Keeps(e, f)
  PROVE  Keeps(d, f)
<1> USE Zenon
<1>1. ASSUME NEW b \in DataBlock, NEW s \in Slot, Named(d, b, s)
      PROVE  f.data[b][s] = d.data[b][s]
  <2>1. e.data[b][s] = d.data[b][s]
    BY <1>1 DEF Keeps
  <2>2. Named(e, b, s)
    BY <1>1, <2>1 DEF Named
  <2>. QED
    BY <2>1, <2>2 DEF Keeps
<1>2. ASSUME NEW n \in DirsOf(d)
      PROVE  n \in DirsOf(f) /\ Rng(d.inode[n].blk) \subseteq Rng(f.inode[n].blk)
  <2>1. n \in DirsOf(e) /\ Rng(d.inode[n].blk) \subseteq Rng(e.inode[n].blk)
    BY DEF Keeps
  <2>. QED
    BY <2>1 DEF Keeps
<1>. QED
  BY <1>1, <1>2 DEF Keeps

\* A disk keeps its own entries.
LEMMA KeepsSame ==
  ASSUME NEW d
  PROVE  Keeps(d, d)
BY Zenon DEF Keeps

\* The blocks of an inode are data blocks.
LEMMA RngData ==
  ASSUME NEW d \in Disk, NEW n \in Inum
  PROVE  Rng(d.inode[n].blk) \subseteq DataBlock
BY ListIs DEF Rng

\* An entry that stays leads where it led.
LEMMA KeepsLeads ==
  ASSUME NEW d \in Disk, NEW e, Keeps(d, e), NEW m \in DirsOf(d), NEW n, Leads(d, m, n)
  PROVE  Leads(e, m, n)
<1> USE Zenon
<1>1. PICK b \in Rng(d.inode[m].blk), s \in Slot : Named(d, b, s) /\ d.data[b][s].inode = n
  BY DEF Leads
<1>2. m \in Inum
  BY DEF DirsOf
<1>3. b \in DataBlock /\ b \in Rng(e.inode[m].blk)
  BY <1>1, <1>2, RngData DEF Keeps
<1>4. e.data[b][s] = d.data[b][s]
  BY <1>1, <1>3 DEF Keeps
<1>. QED
  BY <1>1, <1>3, <1>4 DEF Leads, Named

\* Directories and their blocks stay as they are, and elsewhere nothing reads as an
\* entry.
LEMMA SameDirs ==
  ASSUME NEW d \in Disk, NEW e \in Disk, Entries(d), DirsOf(e) = DirsOf(d), d.ib \subseteq e.ib,
         \A n \in DirsOf(d) : e.inode[n].blk = d.inode[n].blk,
         \A b \in DirBlocks(d) : e.data[b] = d.data[b],
         \A b \in DataBlock \ DirBlocks(d), s \in Slot : ~Named(e, b, s)
  PROVE  Entries(e) /\ Keeps(d, e)
<1> USE Zenon
<1>1. DirBlocks(e) = DirBlocks(d)
  BY DEF DirBlocks
<1>2. ASSUME NEW b \in DataBlock, NEW s \in Slot, Named(e, b, s)
      PROVE  b \in DirBlocks(d) /\ e.data[b][s] = d.data[b][s] /\ Named(d, b, s)
  BY <1>2 DEF Named
<1>3. ASSUME NEW b \in DataBlock, NEW s \in Slot, Named(e, b, s)
      PROVE  b \in DirBlocks(e) /\ e.data[b][s].inode \in e.ib \ (1 .. Reserved)
  <2>1. b \in DirBlocks(d) /\ e.data[b][s] = d.data[b][s] /\ Named(d, b, s)
    BY <1>2, <1>3
  <2>2. d.data[b][s].inode \in d.ib \ (1 .. Reserved)
    BY <2>1 DEF Entries
  <2>. QED
    BY <1>1, <2>1, <2>2
<1>4. ASSUME NEW b \in DataBlock, NEW c \in DataBlock, NEW s \in Slot, NEW u \in Slot,
             Named(e, b, s), Named(e, c, u), e.data[b][s].inode = e.data[c][u].inode
      PROVE  b = c /\ s = u
  <2>1. e.data[b][s] = d.data[b][s] /\ Named(d, b, s)
    BY <1>2, <1>4
  <2>2. e.data[c][u] = d.data[c][u] /\ Named(d, c, u)
    BY <1>2, <1>4
  <2>. QED
    BY <1>4, <2>1, <2>2 DEF Entries
<1>5. ASSUME NEW n \in DirsOf(d) PROVE Orderly(e, n)
  <2>1. n \in Inum /\ Orderly(d, n) /\ e.inode[n].blk = d.inode[n].blk
    BY DEF Entries, DirsOf
  <2>2. Cells(e, n) = Cells(d, n)
    BY <2>1 DEF Cells
  <2>3. ASSUME NEW p \in Cells(d, n) PROVE Cell(e, n, p) = Cell(d, n, p)
    <3>1. BlockOf(d, n, p) \in DirBlocks(d)
      BY <2>1, CellPlace DEF DirBlocks
    <3>2. BlockOf(e, n, p) = BlockOf(d, n, p)
      BY <2>1 DEF BlockOf
    <3>. QED
      BY <3>1, <3>2 DEF Cell
  <2>. QED
    BY <2>1, <2>2, <2>3 DEF Orderly
<1>6. DirsOf(e) \cup (1 .. Reserved) \subseteq e.ib
  BY DEF Entries
<1>7. Entries(e)
  BY <1>3, <1>4, <1>5, <1>6 DEF Entries
<1>8. Keeps(d, e)
  <2>1. ASSUME NEW b \in DataBlock, NEW s \in Slot, Named(d, b, s)
        PROVE  e.data[b][s] = d.data[b][s]
    BY <2>1 DEF Entries
  <2>. QED
    BY <2>1 DEF Keeps
<1>. QED
  BY <1>7, <1>8

\* The place of a cell.
At(d, n, p) == [block |-> BlockOf(d, n, p), offset |-> p % EPB]

\* What writing a cell makes of the disk and of its cells.
LEMMA SetCell ==
  ASSUME NEW d \in Disk, OwnedOnce(d.inode), NEW n \in Inum, NEW p \in Cells(d, n),
         NEW cell \in CellSet
  PROVE  LET e == SetEntry(d, At(d, n, p), cell)
         IN  /\ At(d, n, p) \in Place /\ e \in Disk /\ e.inode = d.inode /\ e.ib = d.ib /\ e.bb = d.bb
             /\ \A b \in DataBlock, s \in Slot :
                  e.data[b][s] = IF b = BlockOf(d, n, p) /\ s = p % EPB
                                 THEN cell ELSE d.data[b][s]
             /\ \A m \in Inum : /\ Cells(e, m) = Cells(d, m)
                                /\ \A q \in Cells(d, m) :
                                     Cell(e, m, q) = IF m = n /\ q = p THEN cell
                                                     ELSE Cell(d, m, q)
<1> USE Zenon
<1> DEFINE loc == At(d, n, p)
           b0 == BlockOf(d, n, p)
           s0 == p % EPB
           e == SetEntry(d, loc, cell)
<1>1. b0 \in DataBlock /\ s0 \in Slot
  BY CellIs
<1>2. loc \in Place /\ loc.block = b0 /\ loc.offset = s0
  BY <1>1 DEF At, Place
<1> HIDE DEF b0, s0, loc
<1>3. /\ e \in Disk /\ e.inode = d.inode /\ e.ib = d.ib /\ e.bb = d.bb
      /\ e.data = [d.data EXCEPT ![b0][s0] = cell]
  BY <1>1, <1>2 DEF SetEntry, Disk
<1> HIDE DEF e
<1>4. ASSUME NEW b \in DataBlock, NEW s \in Slot
      PROVE  e.data[b][s] = IF b = b0 /\ s = s0 THEN cell ELSE d.data[b][s]
  <2>1. d.data \in [DataBlock -> [Slot -> CellSet]]
    BY DiskFields
  <2>. QED
    BY <1>1, <1>3, <2>1, SMT
<1>5. ASSUME NEW m \in Inum
      PROVE  /\ Cells(e, m) = Cells(d, m)
             /\ \A q \in Cells(d, m) :
                  Cell(e, m, q) = IF m = n /\ q = p THEN cell ELSE Cell(d, m, q)
  <2>1. Cells(e, m) = Cells(d, m)
    BY <1>3 DEF Cells
  <2>2. ASSUME NEW q \in Cells(d, m)
        PROVE  Cell(e, m, q) = IF m = n /\ q = p THEN cell ELSE Cell(d, m, q)
    <3>1. BlockOf(d, m, q) \in DataBlock /\ q % EPB \in Slot
      BY CellIs
    <3>2. BlockOf(e, m, q) = BlockOf(d, m, q)
      BY <1>3 DEF BlockOf
    <3>3. (BlockOf(d, m, q) = b0 /\ q % EPB = s0) <=> (m = n /\ q = p)
      BY CellsDiffer DEF b0, s0
    <3>. QED
      BY <1>4, <3>1, <3>2, <3>3 DEF Cell
  <2>. QED
    BY <2>1, <2>2
<1>. QED
  BY <1>2, <1>3, <1>4, <1>5 DEF e, loc, b0, s0

\* A new entry for directory n: under a name that is not there, to a marked inode that
\* no entry leads to.
Fresh(d, n, cell) ==
  /\ \A q \in Cells(d, n) : Cell(d, n, q).name # cell.name
  /\ cell.inode \in d.ib \ (1 .. Reserved)
  /\ \A b \in DataBlock, s \in Slot : Named(d, b, s) => d.data[b][s].inode # cell.inode

\* Writing a cell of a directory over one that is no entry: an end mark behind the
\* entries, or a new entry with no end mark before it.
LEMMA DirSet ==
  ASSUME NEW d \in Disk, OwnedOnce(d.inode), Entries(d), NEW n \in DirsOf(d),
         NEW p \in Cells(d, n), NEW cell \in CellSet,
         Cell(d, n, p).name \notin Names,
         cell.name = NoMore => \A q \in Cells(d, n) : p < q => Cell(d, n, q).name \notin Names,
         cell.name \in Names =>
           Fresh(d, n, cell) /\ \A q \in Cells(d, n) : q < p => Cell(d, n, q).name # NoMore
  PROVE  Entries(SetEntry(d, At(d, n, p), cell)) /\ Keeps(d, SetEntry(d, At(d, n, p), cell))
<1> USE Zenon
<1> DEFINE e == SetEntry(d, At(d, n, p), cell)
           b0 == BlockOf(d, n, p)
           s0 == p % EPB
<1>1. n \in Inum
  BY DEF DirsOf
<1>2. /\ e \in Disk /\ e.inode = d.inode /\ e.ib = d.ib
      /\ \A b \in DataBlock, s \in Slot :
           e.data[b][s] = IF b = b0 /\ s = s0 THEN cell ELSE d.data[b][s]
      /\ \A m \in Inum : /\ Cells(e, m) = Cells(d, m)
                         /\ \A q \in Cells(d, m) :
                              Cell(e, m, q) = IF m = n /\ q = p THEN cell ELSE Cell(d, m, q)
  <2>1. e \in Disk /\ e.inode = d.inode /\ e.ib = d.ib
    BY <1>1, SetCell, SMTT(20)
  <2>2. \A b \in DataBlock, s \in Slot :
          e.data[b][s] = IF b = b0 /\ s = s0 THEN cell ELSE d.data[b][s]
    BY <1>1, SetCell, SMTT(20)
  <2>3. \A m \in Inum : /\ Cells(e, m) = Cells(d, m)
                        /\ \A q \in Cells(d, m) :
                             Cell(e, m, q) = IF m = n /\ q = p THEN cell ELSE Cell(d, m, q)
    BY <1>1, SetCell, SMT
  <2> HIDE DEF e, b0, s0
  <2>. QED
    BY <2>1, <2>2, <2>3
<1> HIDE DEF e
<1>3. DirsOf(e) = DirsOf(d) /\ DirBlocks(e) = DirBlocks(d)
  <2>1. e.inode = d.inode
    BY <1>2
  <2>. QED
    BY <2>1 DEF DirsOf, DirBlocks
<1>4. b0 \in DataBlock /\ s0 \in Slot /\ ~Named(d, b0, s0) /\ b0 \in DirBlocks(d)
  <2>1. b0 \in DataBlock /\ s0 \in Slot /\ Cell(d, n, p) = d.data[b0][s0]
    BY <1>1, CellIs
  <2>2. b0 \in DirBlocks(d)
    BY <1>1, CellPlace DEF DirBlocks
  <2>. QED
    BY <2>1, <2>2 DEF Named
<1> HIDE DEF b0, s0
<1>5. ASSUME NEW b \in DataBlock, NEW s \in Slot, Named(e, b, s)
      PROVE  \/ Named(d, b, s) /\ e.data[b][s] = d.data[b][s]
             \/ b = b0 /\ s = s0 /\ e.data[b][s] = cell /\ cell.name \in Names
  BY <1>2, <1>5 DEF Named
<1>6. ASSUME NEW b \in DataBlock, NEW s \in Slot, Named(e, b, s)
      PROVE  b \in DirBlocks(e) /\ e.data[b][s].inode \in e.ib \ (1 .. Reserved)
  <2>1. CASE Named(d, b, s) /\ e.data[b][s] = d.data[b][s]
    BY <1>2, <1>3, <2>1 DEF Entries
  <2>2. CASE b = b0 /\ s = s0 /\ e.data[b][s] = cell /\ cell.name \in Names
    BY <1>2, <1>3, <1>4, <2>2 DEF Fresh
  <2>. QED
    BY <1>5, <1>6, <2>1, <2>2
<1>7. ASSUME NEW b \in DataBlock, NEW c \in DataBlock, NEW s \in Slot, NEW u \in Slot,
             Named(e, b, s), Named(e, c, u), e.data[b][s].inode = e.data[c][u].inode
      PROVE  b = c /\ s = u
  <2>1. \/ Named(d, b, s) /\ e.data[b][s] = d.data[b][s]
        \/ b = b0 /\ s = s0 /\ e.data[b][s] = cell /\ cell.name \in Names
    BY <1>5, <1>7
  <2>2. \/ Named(d, c, u) /\ e.data[c][u] = d.data[c][u]
        \/ c = b0 /\ u = s0 /\ e.data[c][u] = cell /\ cell.name \in Names
    BY <1>5, <1>7
  <2>3. CASE Named(d, b, s) /\ e.data[b][s] = d.data[b][s]
             /\ Named(d, c, u) /\ e.data[c][u] = d.data[c][u]
    BY <1>7, <2>3 DEF Entries
  <2>4. CASE Named(d, b, s) /\ e.data[b][s] = d.data[b][s]
             /\ e.data[c][u] = cell /\ cell.name \in Names
    BY <1>7, <2>4 DEF Fresh
  <2>5. CASE Named(d, c, u) /\ e.data[c][u] = d.data[c][u]
             /\ e.data[b][s] = cell /\ cell.name \in Names
    BY <1>7, <2>5 DEF Fresh
  <2>. QED
    BY <2>1, <2>2, <2>3, <2>4, <2>5
<1>8. ASSUME NEW m \in DirsOf(d) PROVE Orderly(e, m)
  <2>1. m \in Inum /\ Orderly(d, m)
    BY DEF DirsOf, Entries
  <2>2. /\ Cells(e, m) = Cells(d, m)
        /\ \A q \in Cells(d, m) :
             Cell(e, m, q) = IF m = n /\ q = p THEN cell ELSE Cell(d, m, q)
    BY <1>2, <2>1
  <2>3. CASE m # n
    BY <2>1, <2>2, <2>3 DEF Orderly
  <2>4. CASE m = n
    <3>1. Cell(e, n, p) = cell /\ \A q \in Cells(d, n) : q # p => Cell(e, n, q) = Cell(d, n, q)
      BY <2>2, <2>4
    <3>2. ASSUME NEW x \in Cells(d, n), NEW y \in Cells(d, n), Cell(e, n, y).name \in Names
          PROVE  /\ x < y => Cell(e, n, x).name # NoMore
                 /\ Cell(e, n, x).name = Cell(e, n, y).name => x = y
      <4>1. p \in Nat /\ x \in Nat /\ y \in Nat
        BY <1>1, CellIs
      <4>2. CASE y = p
        <5>1. cell.name \in Names
          BY <3>1, <3>2, <4>2
        <5>2. /\ \A q \in Cells(d, n) : q < p => Cell(d, n, q).name # NoMore
              /\ \A q \in Cells(d, n) : Cell(d, n, q).name # cell.name
          BY <5>1 DEF Fresh
        <5>3. x < y => x # p
          BY <4>1, <4>2, SMT
        <5>. QED
          BY <3>1, <4>2, <5>2, <5>3
      <4>3. CASE y # p /\ x = p
        <5>1. Cell(d, n, y).name \in Names /\ Cell(e, n, y) = Cell(d, n, y)
          BY <3>1, <3>2, <4>3
        <5>2. x < y => cell.name # NoMore
          BY <4>3, <5>1
        <5>3. cell.name # Cell(d, n, y).name
          BY <5>1 DEF Fresh
        <5>. QED
          BY <3>1, <4>3, <5>1, <5>2, <5>3
      <4>4. CASE y # p /\ x # p
        BY <2>1, <2>4, <3>1, <3>2, <4>4 DEF Orderly
      <4>. QED
        BY <4>2, <4>3, <4>4
    <3>3. Cells(e, n) = Cells(d, n)
      BY <2>2, <2>4
    <3>4. Orderly(e, n)
      BY <3>2, <3>3 DEF Orderly
    <3>. QED
      BY <2>4, <3>4
  <2>. QED
    BY <2>3, <2>4
<1>9. Entries(e)
  <2>1. DirsOf(e) \cup (1 .. Reserved) \subseteq e.ib
    BY <1>2, <1>3 DEF Entries
  <2>. QED
    BY <1>3, <1>6, <1>7, <1>8, <2>1 DEF Entries
<1>10. Keeps(d, e)
  <2>1. ASSUME NEW b \in DataBlock, NEW s \in Slot, Named(d, b, s)
        PROVE  e.data[b][s] = d.data[b][s]
    BY <1>2, <1>4, <2>1
  <2>. QED
    BY <1>2, <1>3, <2>1 DEF Keeps
<1>. QED
  BY <1>9, <1>10 DEF e

\* A block that starts with an end mark and is otherwise zero.
LEMMA EndBlock ==
  ASSUME NEW end \in CellSet, end.name = NoMore, NEW s \in Slot
  PROVE  [ZeroBlock EXCEPT ![0] = end][s].name = NoMore
BY Zenon DEF ZeroBlock, ZeroCell

\* A directory that grows, by a block that ends it, keeps its entries.
LEMMA DirGrow ==
  ASSUME SetFacts, NEW d, NEW E, Sound(d, E), Entries(d), NEW n \in DirsOf(d),
         NEW b \in FreeBlocks(d), NEW end \in CellSet, end.name = NoMore
  PROVE  Entries(GrowDir(d, n, b, end)) /\ Keeps(d, GrowDir(d, n, b, end))
         /\ DirsOf(GrowDir(d, n, b, end)) = DirsOf(d)
<1> USE Zenon
<1> DEFINE e == GrowDir(d, n, b, end)
           blk == d.inode[n].blk
<1>1. d \in Disk /\ OwnedOnce(d.inode) /\ n \in Inum
  BY DEF Sound, DirsOf
<1>2. b \in DataBlock /\ b \notin Owned(d.inode)
  <2>1. Space(d.bb, Owned(d.inode) \cup E, d.sbFB) /\ b \in Block \ d.bb
    BY DEF Sound, FreeBlocks
  <2>. QED
    BY <2>1, SpaceSets DEF Space
<1>3. /\ e.ib = d.ib
      /\ e.inode = [d.inode EXCEPT ![n] = [d.inode[n] EXCEPT !.blk = Append(blk, b)]]
      /\ e.data = [d.data EXCEPT ![b] = [ZeroBlock EXCEPT ![0] = end]]
  BY <1>1, <1>2 DEF GrowDir, BlocksDown, Disk
<1>4. e \in Disk
  BY <1>1, GrowDirKeeps DEF Sound
<1> HIDE DEF e
<1>5. /\ blk \in Seq(DataBlock) /\ Len(blk) \in Nat /\ DOMAIN blk = 1 .. Len(blk)
      /\ d.inode[n] \in InodeSet
  BY <1>1, ListIs
<1>6. /\ e.inode[n].mode = d.inode[n].mode /\ e.inode[n].blk = Append(blk, b)
      /\ \A m \in Inum \ {n} : e.inode[m] = d.inode[m]
  <2>1. d.inode \in [Inum -> InodeSet]
    BY <1>1, DiskFields
  <2>. QED
    BY <1>1, <1>3, <1>5, <2>1 DEF InodeSet
<1>7. /\ Rng(e.inode[n].blk) = Rng(blk) \cup {b} /\ Len(e.inode[n].blk) = Len(blk) + 1
      /\ \A i \in 1 .. Len(blk) : e.inode[n].blk[i] = blk[i]
      /\ e.inode[n].blk[Len(blk) + 1] = b
  <2>1. Once(blk) /\ b \notin Rng(blk)
    BY <1>1, <1>2 DEF OwnedOnce, Owned
  <2> HIDE DEF blk
  <2>2. Len(Append(blk, b)) = Len(blk) + 1 /\ Rng(Append(blk, b)) = Rng(blk) \cup {b}
    BY <1>2, <1>5, <2>1, AppendOnce
  <2>3. /\ \A i \in 1 .. Len(blk) : Append(blk, b)[i] = blk[i]
        /\ Append(blk, b)[Len(blk) + 1] = b
    BY <1>2, <1>5, SMT
  <2>. QED
    BY <1>6, <2>2, <2>3
<1>8. DirsOf(e) = DirsOf(d)
  BY <1>1, <1>6 DEF DirsOf
<1>9. ASSUME NEW c \in DataBlock, NEW s \in Slot
      PROVE  IF c = b THEN e.data[c][s].name = NoMore ELSE e.data[c][s] = d.data[c][s]
  <2>1. d.data \in [DataBlock -> [Slot -> CellSet]]
    BY <1>1, DiskFields
  <2> DEFINE z == [ZeroBlock EXCEPT ![0] = end]
  <2>2. z[s].name = NoMore
    BY EndBlock
  <2> HIDE DEF z
  <2>3. e.data = [d.data EXCEPT ![b] = z]
    BY <1>3 DEF z
  <2>. QED
    BY <2>1, <2>2, <2>3
<1>10. NoMore \notin Names
  BY FsAssumption
<1>11. ASSUME NEW c \in DataBlock, NEW s \in Slot, Named(e, c, s)
       PROVE  c # b /\ Named(d, c, s) /\ e.data[c][s] = d.data[c][s]
  BY <1>9, <1>10, <1>11 DEF Named
<1>12. DirBlocks(d) \subseteq DirBlocks(e)
  <2>1. \A m \in DirsOf(d) : Rng(d.inode[m].blk) \subseteq Rng(e.inode[m].blk)
    BY <1>6, <1>7 DEF DirsOf
  <2>. QED
    BY <1>8, <2>1 DEF DirBlocks
<1>13. ASSUME NEW m \in DirsOf(d) PROVE Orderly(e, m)
  <2>1. m \in Inum /\ Orderly(d, m)
    BY DEF DirsOf, Entries
  <2>2. ASSUME NEW q \in Cells(d, m), e.inode[m].blk[q \div EPB + 1] = d.inode[m].blk[q \div EPB + 1]
        PROVE  Cell(e, m, q) = Cell(d, m, q)
    <3>1. /\ BlockOf(d, m, q) \in Rng(d.inode[m].blk) /\ BlockOf(d, m, q) \in DataBlock
          /\ q % EPB \in Slot
      BY <1>1, <2>1, CellPlace, CellIs
    <3>2. BlockOf(d, m, q) # b
      BY <1>2, <2>1, <3>1 DEF Owned
    <3>3. BlockOf(e, m, q) = BlockOf(d, m, q)
      BY <2>2 DEF BlockOf
    <3>. QED
      BY <1>9, <3>1, <3>2, <3>3 DEF Cell
  <2>3. CASE m # n
    <3>1. e.inode[m] = d.inode[m]
      BY <1>6, <2>1, <2>3
    <3>2. Cells(e, m) = Cells(d, m)
      BY <3>1 DEF Cells
    <3>3. \A q \in Cells(d, m) : Cell(e, m, q) = Cell(d, m, q)
      BY <2>2, <3>1
    <3>. QED
      BY <2>1, <3>2, <3>3 DEF Orderly
  <2>4. CASE m = n
    <3>1. ASSUME NEW q \in Cells(d, n) PROVE Cell(e, n, q) = Cell(d, n, q)
      <4>1. q \div EPB + 1 \in 1 .. Len(blk)
        BY <1>1, <1>5, CellPlace
      <4>. QED
        BY <1>7, <2>2, <2>4, <4>1
    <3>2. ASSUME NEW q \in Cells(e, n), q \notin Cells(d, n)
          PROVE  Cell(e, n, q).name = NoMore
      <4>1. /\ q \in Nat /\ q \div EPB + 1 \in DOMAIN e.inode[n].blk
            /\ (q \div EPB) * EPB + (q % EPB) = q /\ q % EPB \in Slot
        BY <1>1, <1>4, CellPlace, CellIs
      <4>2. DOMAIN e.inode[n].blk = 1 .. Len(blk) + 1
        BY <1>1, <1>4, <1>7, ListIs
      <4>3. EPB * Len(blk) \in Nat
        BY <1>5, FsAssumption, SMT
      <4>4. ~(q < EPB * Len(blk))
        <5>1. Cells(d, n) = 0 .. EPB * Len(blk) - 1
          BY DEF Cells
        <5> HIDE DEF blk
        <5>. QED
          BY <3>2, <4>1, <4>3, <5>1, SMT
      <4>5. q \div EPB + 1 = Len(blk) + 1
        <5> DEFINE j == q \div EPB
                   k == Len(blk)
        <5>1. j \in Nat /\ j + 1 \in 1 .. k + 1 /\ k \in Nat
          BY <1>5, <4>1, <4>2, FsAssumption, Z3
        <5>2. ASSUME j < k PROVE FALSE
          <6>1. j * EPB + (q % EPB) < EPB * k
            <7> HIDE DEF j, k
            <7>. QED
              BY <4>1, <5>1, <5>2, CellNumber
          <6>. QED
            BY <4>1, <4>4, <6>1
        <5> HIDE DEF j, k
        <5>3. j + 1 = k + 1
          BY <5>1, <5>2, SMT
        <5>. QED
          BY <5>3 DEF j, k
      <4>6. BlockOf(e, n, q) = b
        BY <1>7, <4>5 DEF BlockOf
      <4>. QED
        BY <1>2, <1>9, <4>1, <4>6 DEF Cell
    <3>3. ASSUME NEW x \in Cells(e, n), NEW y \in Cells(e, n), Cell(e, n, y).name \in Names
          PROVE  /\ x < y => Cell(e, n, x).name # NoMore
                 /\ Cell(e, n, x).name = Cell(e, n, y).name => x = y
      <4>1. y \in Cells(d, n) /\ Cell(d, n, y).name \in Names /\ Cell(e, n, y) = Cell(d, n, y)
        BY <1>10, <3>1, <3>2, <3>3
      <4>2. CASE x \in Cells(d, n)
        <5>1. Cell(e, n, x) = Cell(d, n, x)
          BY <3>1, <4>2
        <5>. QED
          BY <2>1, <2>4, <4>1, <4>2, <5>1 DEF Orderly
      <4>3. CASE x \notin Cells(d, n)
        <5>1. Cell(e, n, x).name = NoMore
          BY <3>2, <4>3
        <5>2. ~(x < y)
          <6>1. x \in Nat /\ y \in 0 .. EPB * Len(blk) - 1 /\ x \notin 0 .. EPB * Len(blk) - 1
            BY <1>1, <1>4, <4>1, <4>3, CellIs DEF Cells
          <6> HIDE DEF blk
          <6>2. EPB * Len(blk) \in Nat
            BY <1>5, FsAssumption, SMT
          <6>. QED
            BY <6>1, <6>2, SMT
        <5>. QED
          BY <1>10, <3>3, <5>1, <5>2
      <4>. QED
        BY <4>2, <4>3
    <3>. QED
      BY <2>4, <3>3 DEF Orderly
  <2>. QED
    BY <2>3, <2>4
<1>14. ASSUME NEW c \in DataBlock, NEW s \in Slot, Named(e, c, s)
       PROVE  c \in DirBlocks(e) /\ e.data[c][s].inode \in e.ib \ (1 .. Reserved)
  <2>1. Named(d, c, s) /\ e.data[c][s] = d.data[c][s]
    BY <1>11, <1>14
  <2>. QED
    BY <1>3, <1>12, <2>1 DEF Entries
<1>15. ASSUME NEW c \in DataBlock, NEW f \in DataBlock, NEW s \in Slot, NEW u \in Slot,
              Named(e, c, s), Named(e, f, u), e.data[c][s].inode = e.data[f][u].inode
       PROVE  c = f /\ s = u
  <2>1. Named(d, c, s) /\ e.data[c][s] = d.data[c][s]
    BY <1>11, <1>15
  <2>2. Named(d, f, u) /\ e.data[f][u] = d.data[f][u]
    BY <1>11, <1>15
  <2>. QED
    BY <1>15, <2>1, <2>2 DEF Entries
<1>16. Entries(e)
  <2>1. DirsOf(e) \cup (1 .. Reserved) \subseteq e.ib
    BY <1>3, <1>8 DEF Entries
  <2>. QED
    BY <1>8, <1>13, <1>14, <1>15, <2>1 DEF Entries
<1>17. Keeps(d, e)
  <2>1. ASSUME NEW c \in DataBlock, NEW s \in Slot, Named(d, c, s)
        PROVE  e.data[c][s] = d.data[c][s]
    <3>1. c \in Owned(d.inode)
      BY <2>1 DEF Entries, DirBlocks, DirsOf, Owned
    <3>. QED
      BY <1>2, <1>9, <3>1
  <2>2. \A m \in DirsOf(d) : Rng(d.inode[m].blk) \subseteq Rng(e.inode[m].blk)
    BY <1>6, <1>7 DEF DirsOf
  <2>. QED
    BY <1>8, <2>1, <2>2 DEF Keeps
<1>. QED
  BY <1>8, <1>16, <1>17 DEF e

\* The cell behind one that is not the last of its block.
LEMMA NextCell ==
  ASSUME NEW d \in Disk, NEW n \in Inum, NEW p \in Cells(d, n), (p % EPB) + 1 < EPB
  PROVE  /\ p + 1 \in Cells(d, n) /\ p \in Nat /\ p < p + 1
         /\ [At(d, n, p) EXCEPT !.offset = @ + 1] = At(d, n, p + 1)
<1> DEFINE k == Len(d.inode[n].blk)
           j == p \div EPB
           s == p % EPB
<1>1. /\ p \in Nat /\ j + 1 \in DOMAIN d.inode[n].blk /\ j * EPB + s = p
      /\ s \in Slot /\ k \in Nat /\ DOMAIN d.inode[n].blk = 1 .. k
  BY CellPlace, CellIs, ListIs, Zenon
<1>2. j \in Nat
  BY <1>1, FsAssumption, Z3
<1> HIDE DEF j, s, k
<1>3. j < k /\ s \in Nat /\ s + 1 \in Slot /\ j * EPB \in Nat
  <2>1. EPB \in Nat
    BY FsAssumption
  <2>2. j * EPB \in Nat
    BY <1>2, <2>1
  <2>. QED
    BY <1>1, <1>2, <2>1, <2>2 DEF Slot, s
<1>4. j * EPB + (s + 1) = p + 1
  BY <1>1, <1>3
<1>5. p + 1 \in Nat /\ p + 1 < EPB * k /\ (p + 1) \div EPB = j /\ (p + 1) % EPB = s + 1
  BY <1>1, <1>2, <1>3, <1>4, CellNumber
<1>6. p + 1 \in Cells(d, n)
  <2>1. EPB * k \in Nat
    BY <1>1, FsAssumption
  <2>2. Cells(d, n) = 0 .. EPB * k - 1
    BY Zenon DEF Cells, k
  <2>. QED
    BY <1>5, <2>1, <2>2
<1>7. BlockOf(d, n, p + 1) = BlockOf(d, n, p)
  BY <1>5, Zenon DEF BlockOf, j
<1>8. [At(d, n, p) EXCEPT !.offset = @ + 1] = At(d, n, p + 1)
  BY <1>5, <1>7 DEF At, s
<1>. QED
  BY <1>1, <1>6, <1>8

\* What the searches of insertEntry find.
LEMMA InsertAt ==
  ASSUME SetFacts, NEW d \in Disk, NEW n \in Inum, NEW key \in {Free, NoMore},
         Lookup(d, n, key).ok
  PROVE  \E p \in Cells(d, n) : /\ Cell(d, n, p).name = key
                                /\ Lookup(d, n, key).loc = At(d, n, p)
                                /\ \A q \in Cells(d, n) : q < p => Cell(d, n, q).name # NoMore
<1>1. \A x : Matches(x, key) => x = key
  BY Zenon DEF Matches, Visible, Free, NoMore
<1>2. PICK p \in Cells(d, n) :
             /\ Matches(Cell(d, n, p).name, key)
             /\ Lookup(d, n, key).loc = [block |-> BlockOf(d, n, p), offset |-> p % EPB]
             /\ \A q \in Cells(d, n) : q < p => Cell(d, n, q).name # NoMore
  BY LookupFirst, Zenon
<1>. QED
  BY <1>1, <1>2, Zenon DEF At

\* insertEntry keeps the directories, whether it places the entry, grows the directory
\* or fails.
LEMMA InsertDir ==
  ASSUME SetFacts, NEW d, NEW E, Sound(d, E), Entries(d), NEW n \in DirsOf(d),
         NEW cell \in CellSet,
         cell.name \in Names \cup {Dot, DotDot}, cell.name \in Names => Fresh(d, n, cell)
  PROVE  LET r == InsertEntry(d, n, cell)
         IN  Entries(r.d) /\ Keeps(d, r.d) /\ DirsOf(r.d) = DirsOf(d) /\ r.d.ib = d.ib
<1> USE Zenon
<1> DEFINE f == Lookup(d, n, Free)
           e == Lookup(d, n, NoMore)
           d1 == SetEntry(d, e.loc, cell)
           end == CellAt(d, e.loc)
           b == GetFreeBlock(d1)
           r == InsertEntry(d, n, cell)
           next == [e.loc EXCEPT !.offset = @ + 1]
<1>1. d \in Disk /\ OwnedOnce(d.inode) /\ n \in Inum /\ Orderly(d, n)
  BY DEF Sound, DirsOf, Entries
<1>2. Free \notin Names /\ NoMore \notin Names /\ cell.name # NoMore
  <2>1. Free \notin Names /\ NoMore \notin Names
    BY FsAssumption
  <2>. QED
    BY <2>1 DEF NoMore, Dot, DotDot
<1>3. CASE f.ok
  <2>1. r.d = SetEntry(d, f.loc, cell)
    BY <1>3 DEF InsertEntry
  <2>2. PICK p \in Cells(d, n) : /\ Cell(d, n, p).name = Free /\ f.loc = At(d, n, p)
                                 /\ \A q \in Cells(d, n) : q < p => Cell(d, n, q).name # NoMore
    BY <1>1, <1>3, InsertAt
  <2> DEFINE g == SetEntry(d, At(d, n, p), cell)
  <2>3. Entries(g) /\ Keeps(d, g)
    <3>1. Cell(d, n, p).name \notin Names
      BY <1>2, <2>2
    <3>2. /\ cell.name = NoMore => \A q \in Cells(d, n) : p < q => Cell(d, n, q).name \notin Names
          /\ cell.name \in Names =>
               Fresh(d, n, cell) /\ \A q \in Cells(d, n) : q < p => Cell(d, n, q).name # NoMore
      BY <1>2, <2>2
    <3>. QED
      BY <1>1, <3>1, <3>2, DirSet
  <2>4. g.inode = d.inode /\ g.ib = d.ib
    BY <1>1, SetCell, SMT
  <2> HIDE DEF g
  <2>5. r.d = g
    BY <2>1, <2>2 DEF g
  <2> HIDE DEF r
  <2>6. DirsOf(g) = DirsOf(d)
    BY <2>4 DEF DirsOf
  <2>. QED
    BY <2>3, <2>4, <2>5, <2>6 DEF r
<1>4. CASE ~f.ok /\ ~e.ok
  <2>1. r.d = d
    BY <1>4 DEF InsertEntry
  <2>. QED
    BY <2>1, KeepsSame
<1>5. CASE ~f.ok /\ e.ok
  <2>1. PICK p \in Cells(d, n) : /\ Cell(d, n, p).name = NoMore /\ e.loc = At(d, n, p)
                                 /\ \A q \in Cells(d, n) : q < p => Cell(d, n, q).name # NoMore
    BY <1>1, <1>5, InsertAt
  <2>2. At(d, n, p) \in Place
    BY <1>1, SetCell, SMT
  <2>3. Entries(d1) /\ Keeps(d, d1)
    <3> DEFINE g == SetEntry(d, At(d, n, p), cell)
    <3>1. Cell(d, n, p).name \notin Names
      BY <1>2, <2>1
    <3>2. Entries(g) /\ Keeps(d, g)
      BY <1>1, <1>2, <2>1, <3>1, DirSet, SMT
    <3>. QED
      BY <2>1, <3>2
  <2>4. /\ d1 \in Disk /\ d1.inode = d.inode /\ d1.ib = d.ib /\ Cells(d1, n) = Cells(d, n)
        /\ \A q \in Cells(d, n) : q # p => Cell(d1, n, q) = Cell(d, n, q)
    <3> DEFINE g == SetEntry(d, At(d, n, p), cell)
    <3>1. /\ g \in Disk /\ g.inode = d.inode /\ g.ib = d.ib
          /\ \A m \in Inum : /\ Cells(g, m) = Cells(d, m)
                             /\ \A q \in Cells(d, m) :
                                  Cell(g, m, q) = IF m = n /\ q = p THEN cell
                                                  ELSE Cell(d, m, q)
      BY <1>1, SetCell, SMT
    <3>2. d1 = g
      BY <2>1
    <3> HIDE DEF g, d1
    <3>. QED
      BY <1>1, <3>1, <3>2
  <2>5. Sound(d1, E)
    <3>1. e.loc \in Place
      BY <2>1, <2>2
    <3>. QED
      BY <3>1, SetEntryKeeps
  <2>6. end \in CellSet /\ end.name = NoMore
    <3>1. /\ BlockOf(d, n, p) \in DataBlock /\ Cell(d, n, p) \in CellSet
          /\ Cell(d, n, p) = d.data[BlockOf(d, n, p)][p % EPB]
      BY <1>1, CellIs
    <3>2. e.loc.block = BlockOf(d, n, p) /\ e.loc.offset = p % EPB
      <4> HIDE DEF e
      <4>. QED
        BY <2>1, SMT DEF At
    <3>3. end = Cell(d, n, p)
      <4> HIDE DEF e
      <4>. QED
        BY <3>1, <3>2 DEF CellAt
    <3>. QED
      BY <2>1, <3>1, <3>3
  <2>7. DirsOf(d1) = DirsOf(d)
    <3> HIDE DEF d1
    <3>1. d1.inode = d.inode
      BY <2>4
    <3>. QED
      BY <3>1 DEF DirsOf
  <2>8. CASE e.loc.offset + 1 < EPB
    <3>1. r.d = SetEntry(d1, next, end)
      BY <1>5, <2>8 DEF InsertEntry
    <3>2. (p % EPB) + 1 < EPB
      <4> HIDE DEF e
      <4>. QED
        BY <2>1, <2>8, SMT DEF At
    <3>3. p + 1 \in Cells(d, n) /\ p \in Nat /\ p < p + 1 /\ next = At(d, n, p + 1)
      BY <1>1, <2>1, <3>2, NextCell, ZenonT(40)
    <3>4. At(d1, n, p + 1) = At(d, n, p + 1)
      <4> HIDE DEF d1
      <4>. QED
        BY <2>4 DEF At, BlockOf
    <3>5. \A q \in Cells(d, n) : p < q => Cell(d1, n, q).name \notin Names
      <4> SUFFICES ASSUME NEW q \in Cells(d, n), p < q PROVE Cell(d1, n, q).name \notin Names
        OBVIOUS
      <4>1. q # p
        BY <3>3, SMT
      <4>2. Cell(d1, n, q) = Cell(d, n, q)
        BY <2>4, <4>1
      <4>. QED
        BY <1>1, <2>1, <4>2 DEF Orderly
    <3>6. \A q \in Cells(d, n) : p + 1 < q => p < q
      <4>1. \A q \in Cells(d, n) : q \in Nat
        BY <1>1, CellIs
      <4>. QED
        BY <3>3, <4>1, SMT
    <3> DEFINE g == SetEntry(d1, At(d1, n, p + 1), end)
    <3> HIDE DEF d1, end
    <3>7. Entries(g) /\ Keeps(d1, g)
      <4>1. /\ d1 \in Disk /\ OwnedOnce(d1.inode) /\ n \in DirsOf(d1) /\ p + 1 \in Cells(d1, n)
        BY <2>4, <2>7, <1>1, <3>3
      <4>2. Cell(d1, n, p + 1).name \notin Names
        BY <3>3, <3>5
      <4>3. \A q \in Cells(d1, n) : p + 1 < q => Cell(d1, n, q).name \notin Names
        BY <2>4, <3>5, <3>6
      <4>4. end.name \notin Names
        BY <1>2, <2>6
      <4>. QED
        BY <2>3, <2>6, <4>1, <4>2, <4>3, <4>4, DirSet
    <3>8. g.inode = d1.inode /\ g.ib = d1.ib
      <4>1. /\ d1 \in Disk /\ OwnedOnce(d1.inode) /\ n \in Inum /\ p + 1 \in Cells(d1, n)
        BY <2>4, <1>1, <3>3
      <4>. QED
        BY <2>6, <4>1, SetCell, SMT
    <3> HIDE DEF g
    <3>9. r.d = g
      BY <3>1, <3>3, <3>4 DEF g
    <3>10. DirsOf(g) = DirsOf(d) /\ g.ib = d.ib
      <4>1. g.inode = d.inode /\ g.ib = d.ib
        BY <2>4, <3>8
      <4>. QED
        BY <4>1 DEF DirsOf
    <3>11. Keeps(d, g)
      BY <2>3, <3>7, KeepsBoth
    <3> HIDE DEF r
    <3>. QED
      BY <3>7, <3>9, <3>10, <3>11 DEF r
  <2>9. CASE ~(e.loc.offset + 1 < EPB) /\ b = 0
    <3>1. r.d = d1
      BY <1>5, <2>9 DEF InsertEntry
    <3> HIDE DEF r, d1
    <3>. QED
      BY <2>3, <2>4, <2>7, <3>1 DEF r
  <2>10. CASE ~(e.loc.offset + 1 < EPB) /\ b # 0
    <3> DEFINE g == GrowDir(d1, n, b, end)
    <3>1. r.d = g
      BY <1>5, <2>10 DEF InsertEntry
    <3>2. b \in FreeBlocks(d1)
      <4> HIDE DEF d1
      <4>. QED
        BY <2>10, GetFreeBlockIs
    <3> HIDE DEF d1, end, b
    <3>3. n \in DirsOf(d1)
      BY <2>7
    <3>4. Entries(g) /\ Keeps(d1, g) /\ DirsOf(g) = DirsOf(d1)
      BY <2>3, <2>5, <2>6, <3>2, <3>3, DirGrow
    <3>5. g.ib = d1.ib
      <4>1. d1 \in Disk
        BY <2>4
      <4>. QED
        BY <4>1 DEF GrowDir, BlocksDown, Disk
    <3> HIDE DEF g, r
    <3>6. Keeps(d, g)
      BY <2>3, <3>4, KeepsBoth
    <3>. QED
      BY <2>4, <2>7, <3>1, <3>4, <3>5, <3>6 DEF r
  <2>. QED
    BY <2>8, <2>9, <2>10
<1>. QED
  BY <1>3, <1>4, <1>5
=============================================================================
