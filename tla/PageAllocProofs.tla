--------------------------- MODULE PageAllocProofs ---------------------------
(***************************************************************************)
(* Proofs about the page allocator, for every number of pages, page size   *)
(* and request bound.                                                      *)
(***************************************************************************)
EXTENDS PageAlloc, WellFoundedInduction, TLAPS

\* What the operations keep, of any bitmap bm and counts pc: the recorded runs
\* lie inside the bitmap, apart from each other and from page 0, and a bit is
\* set exactly for page 0 and the pages of the runs.
Typed(bm, pc) == bm \in SUBSET Page /\ pc \in [Page -> 0 .. CountMod - 1]
Inside(pc) == \A s \in Page : s + pc[s] <= NPages
Apart(pc) == \A s, t \in Page : s # t => Run(s, pc[s]) \cap Run(t, pc[t]) = {}
ZeroFree(pc) == \A s \in Page : 0 \notin Run(s, pc[s])
ByPage(bm, pc) ==
  \A q \in Page : q \in bm <=> q = 0 \/ \E s \in Page : q \in Run(s, pc[s])

Sound(bm, pc) ==
  Typed(bm, pc) /\ Inside(pc) /\ Apart(pc) /\ ZeroFree(pc) /\ ByPage(bm, pc)

\* The inductive invariant.
IInv == Sound(bitmap, page_counts) /\ held \in [Page -> Nat]

-----------------------------------------------------------------------------
\* A request, rounded up to pages, is at least one page.
LEMMA PagesForType ==
  ASSUME NEW size \in Size
  PROVE  PagesFor(size) \in Nat \ {0}
<1> USE PageAllocAssumption DEF Size
<1>1. CASE size < PageSize
  BY <1>1 DEF PagesFor
<1>2. CASE size >= PageSize
  <2>1. (size + PageSize - 1) \div PageSize \in Nat \ {0}
    BY <1>2, Z3
  <2>. QED
    BY <1>2, <2>1 DEF PagesFor
<1>. QED
  BY <1>1, <1>2

\* A non-empty set of naturals has a least element.
LEMMA LeastNat ==
  ASSUME NEW T \in SUBSET Nat, T # {}
  PROVE  \E x \in T : \A y \in T : x <= y
<1> DEFINE R == OpToRel(<, Nat)
<1>1. \E x \in T : \A y \in T : ~ (<<y, x>> \in R)
  <2> HIDE DEF R
  <2>1. IsWellFoundedOn(R, Nat)
    BY NatLessThanWellFounded, Zenon DEF R
  <2>. QED
    BY <2>1, WFMin, Zenon
<1>2. \A x, y \in T : <<y, x>> \notin R => x <= y
  BY DEF OpToRel
<1>. QED
  BY <1>1, <1>2, Zenon

\* FirstFit returns a run that fits, whenever there is one.
LEMMA FirstFitFits ==
  ASSUME NEW n, CanFit(n)
  PROVE  FirstFit(n) \in Page /\ FitsAt(FirstFit(n), n)
<1> DEFINE T == {s \in Page : FitsAt(s, n)}
<1>1. T \in SUBSET Nat /\ T # {}
  BY PageAllocAssumption DEF CanFit, Page
<1>2. \E s \in T : \A t \in T : s <= t
  <2> HIDE DEF T
  <2>. QED
    BY <1>1, LeastNat, Zenon
<1>3. \E s \in Page : FitsAt(s, n) /\ \A t \in Page : FitsAt(t, n) => s <= t
  BY <1>2, Zenon
<1>. QED
  BY <1>3, Zenon DEF FirstFit

-----------------------------------------------------------------------------
\* initAllocator establishes the invariant.
LEMMA InitIInv == Init => IInv
BY PageAllocAssumption
   DEF Init, IInv, Sound, Typed, Inside, Apart, ZeroFree, ByPage, Run, Page

\* Recording a new run over free pages keeps the invariant (kalloc).
LEMMA AddRun ==
  ASSUME NEW bm, NEW pc, Sound(bm, pc),
         NEW s \in Page, NEW n \in Nat \ {0},
         s + n <= NPages, Run(s, n) \cap bm = {}
  PROVE  Sound(bm \cup Run(s, n), [pc EXCEPT ![s] = n])
<1> USE PageAllocAssumption
<1> DEFINE bm2 == bm \cup Run(s, n)
           pc2 == [pc EXCEPT ![s] = n]
<1>0. Typed(bm, pc) /\ Inside(pc) /\ Apart(pc) /\ ZeroFree(pc) /\ ByPage(bm, pc)
  BY Zenon DEF Sound
<1>1. \A q \in Run(s, n) : q \in Page /\ q \notin bm /\ q # 0
  BY <1>0 DEF Run, Page, ByPage
<1>2. pc[s] = 0
  BY <1>0, <1>1 DEF Typed, ByPage, Run, Page
<1>3. Typed(bm2, pc2)
  <2>1. n \in 0 .. CountMod - 1
    BY DEF Page
  <2>2. bm2 \in SUBSET Page
    BY <1>0, <1>1, Zenon DEF Typed
  <2>. QED
    BY <1>0, <2>1, <2>2, Zenon DEF Typed
<1>4. pc2[s] = n /\ \A t \in Page : t # s => pc2[t] = pc[t]
  BY <1>0, Zenon DEF Typed
<1>5. \A t \in Page : t # s => Run(t, pc[t]) \cap Run(s, n) = {}
  BY <1>0, <1>1, Zenon DEF Typed, ByPage, Inside, Run, Page
<1> HIDE DEF pc2
<1>6. Inside(pc2)
  BY <1>0, <1>4, Zenon DEF Typed, Inside, Page
<1>7. Apart(pc2)
  BY <1>0, <1>4, <1>5, Zenon DEF Apart
<1>8. ZeroFree(pc2)
  BY <1>0, <1>1, <1>4, Zenon DEF ZeroFree
<1>9. ByPage(bm2, pc2)
  <2>1. Run(s, pc[s]) = {}
    BY <1>2 DEF Run, Page
  <2> SUFFICES ASSUME NEW q \in Page
               PROVE  q \in bm2 <=>
                        q = 0 \/ \E t \in Page : q \in Run(t, pc2[t])
    BY Zenon DEF ByPage
  <2>2. q \in bm2 <=> q \in bm \/ q \in Run(s, n)
    BY Zenon
  <2>3. (\E t \in Page : q \in Run(t, pc2[t])) <=>
        q \in Run(s, n) \/ \E t \in Page : q \in Run(t, pc[t])
    <3>1. CASE q \in Run(s, n)
      BY <1>4, <3>1, Zenon
    <3>2. CASE q \notin Run(s, n)
      <4>1. \A t \in Page : q \in Run(t, pc2[t]) <=> q \in Run(t, pc[t])
        BY <1>4, <2>1, <3>2, Zenon
      <4>. QED
        BY <3>2, <4>1, Zenon
    <3>. QED
      BY <3>1, <3>2, Zenon
  <2>4. q \in bm <=> q = 0 \/ \E t \in Page : q \in Run(t, pc[t])
    BY <1>0, Zenon DEF ByPage
  <2>. QED
    BY <2>2, <2>3, <2>4, Zenon
<1>. QED
  BY <1>3, <1>6, <1>7, <1>8, <1>9, Zenon DEF Sound, pc2

\* A run of c pages is its first m pages and the c - m pages after them.
LEMMA SplitRun ==
  ASSUME NEW p \in Nat, NEW c \in Nat, NEW m \in Nat, m <= c
  PROVE  /\ Run(p + m, c - m) \subseteq Run(p, c)
         /\ Run(p, m) \subseteq Run(p, c)
         /\ Run(p + m, c - m) \cap Run(p, m) = {}
         /\ \A q \in Run(p, c) : q \in Run(p, m) \/ q \in Run(p + m, c - m)
BY DEF Run

\* Cutting a recorded run to its first m pages, and clearing the bits of the
\* rest, keeps the invariant (page_free with m = 0, krealloc in place).
LEMMA CutRun ==
  ASSUME NEW bm, NEW pc, Sound(bm, pc),
         NEW p \in Page, NEW m \in Nat, m <= pc[p]
  PROVE  Sound(bm \ Run(p + m, pc[p] - m), [pc EXCEPT ![p] = m])
<1> USE PageAllocAssumption
<1> DEFINE tail == Run(p + m, pc[p] - m)
           bm2 == bm \ tail
           pc2 == [pc EXCEPT ![p] = m]
<1>0. Typed(bm, pc) /\ Inside(pc) /\ Apart(pc) /\ ZeroFree(pc) /\ ByPage(bm, pc)
  BY Zenon DEF Sound
<1>1. Typed(bm2, pc2)
  <2>1. m \in 0 .. CountMod - 1
    BY <1>0 DEF Typed
  <2>2. bm2 \in SUBSET Page
    BY <1>0, Zenon DEF Typed
  <2>. QED
    BY <1>0, <2>1, <2>2, Zenon DEF Typed
<1>2. pc2[p] = m /\ \A t \in Page : t # p => pc2[t] = pc[t]
  BY <1>0, Zenon DEF Typed
<1>3. /\ Run(p, m) \subseteq Run(p, pc[p])
      /\ tail \subseteq Run(p, pc[p])
      /\ tail \cap Run(p, m) = {}
      /\ \A q \in Run(p, pc[p]) : q \in Run(p, m) \/ q \in tail
  <2>1. pc[p] \in Nat /\ p \in Nat
    BY <1>0 DEF Typed, Page
  <2>. QED
    BY <2>1, SplitRun, Zenon
<1> HIDE DEF tail, pc2
<1>4. Inside(pc2)
  BY <1>0, <1>2, SMTT(20) DEF Inside, Typed, Page
<1>5. Apart(pc2)
  BY <1>0, <1>2, <1>3, Zenon DEF Apart
<1>6. ZeroFree(pc2)
  BY <1>0, <1>2, <1>3, Zenon DEF ZeroFree
<1>7. ByPage(bm2, pc2)
  <2>1. \A t \in Page : t # p => Run(t, pc[t]) \cap tail = {}
    BY <1>0, <1>3, Zenon DEF Apart
  <2>2. 0 \notin tail
    BY <1>0, <1>3, Zenon DEF ZeroFree
  <2> SUFFICES ASSUME NEW q \in Page
               PROVE  q \in bm2 <=>
                        q = 0 \/ \E s \in Page : q \in Run(s, pc2[s])
    BY Zenon DEF ByPage
  <2>3. CASE q \in tail
    BY <1>2, <1>3, <2>1, <2>2, <2>3, Zenon
  <2>4. CASE q \notin tail
    <3>1. q \in bm2 <=> q \in bm
      BY <2>4, Zenon
    <3>2. \A s \in Page : q \in Run(s, pc2[s]) <=> q \in Run(s, pc[s])
      BY <1>2, <1>3, <2>4, Zenon
    <3>. QED
      BY <1>0, <3>1, <3>2, Zenon DEF ByPage
  <2>. QED
    BY <2>3, <2>4, Zenon
<1>. QED
  BY <1>1, <1>4, <1>5, <1>6, <1>7, Zenon DEF Sound, pc2, tail

-----------------------------------------------------------------------------
\* Freeing the run at p, of any sound bitmap and counts (page_free).
LEMMA FreeRun ==
  ASSUME NEW bm, NEW pc, Sound(bm, pc), NEW p \in Page
  PROVE  Sound(bm \ Run(p, pc[p]), [pc EXCEPT ![p] = 0])
<1>1. pc[p] \in Nat /\ p \in Nat
  BY PageAllocAssumption DEF Sound, Typed, Page
<1>2. p + 0 = p /\ pc[p] - 0 = pc[p] /\ 0 <= pc[p]
  BY <1>1
<1>3. Sound(bm \ Run(p + 0, pc[p] - 0), [pc EXCEPT ![p] = 0])
  BY <1>2, CutRun, Zenon
<1>. QED
  BY <1>2, <1>3, Zenon

\* Every operation of the allocator keeps the invariant.
LEMMA NextIInv == IInv /\ [Next]_vars => IInv'
<1> SUFFICES ASSUME IInv, [Next]_vars
             PROVE  IInv'
  BY Zenon
<1> USE PageAllocAssumption
<1>0. Sound(bitmap, page_counts) /\ held \in [Page -> Nat]
  BY Zenon DEF IInv
<1>a. \A size \in Size : PagesFor(size) \in Nat \ {0}
  BY PagesForType, Zenon
<1>b. \A n : CanFit(n) => FirstFit(n) \in Page /\ FitsAt(FirstFit(n), n)
  BY FirstFitFits, Zenon
<1>1. ASSUME NEW size \in Size, Kalloc(size)
      PROVE  IInv'
  <2> DEFINE n == PagesFor(size)
             s == FirstFit(n)
  <2>1. s \in Page /\ s + n <= NPages /\ Run(s, n) \cap bitmap = {}
    BY <1>1, <1>b, Zenon DEF Kalloc, FitsAt
  <2>2. held' \in [Page -> Nat]
    BY <1>0, <1>1, <1>a, Zenon DEF Kalloc
  <2>3. Sound(bitmap \cup Run(s, n), [page_counts EXCEPT ![s] = n])
    BY <1>0, <1>a, <2>1, AddRun, Zenon
  <2>. QED
    BY <1>1, <2>2, <2>3, Zenon DEF Kalloc, IInv
<1>2. ASSUME NEW p \in Page, PageFree(p)
      PROVE  IInv'
  <2>1. held' \in [Page -> Nat]
    BY <1>0, <1>2, Zenon DEF PageFree
  <2>2. Sound(bitmap', page_counts')
    BY <1>0, <1>2, FreeRun, Zenon DEF PageFree
  <2>. QED
    BY <2>1, <2>2, Zenon DEF IInv
<1>3. ASSUME NEW p \in Page, NEW size \in Size, KreallocShrink(p, size)
      PROVE  IInv'
  <2> DEFINE new == PagesFor(size) % CountMod
  <2>1. new \in Nat /\ new <= page_counts[p]
    BY <1>3, <1>a DEF KreallocShrink
  <2>2. held' \in [Page -> Nat]
    BY <1>0, <1>3, <1>a, Zenon DEF KreallocShrink
  <2>3. Sound(bitmap \ Run(p + new, page_counts[p] - new),
              [page_counts EXCEPT ![p] = new])
    BY <1>0, <2>1, CutRun, Zenon
  <2>. QED
    BY <1>3, <2>2, <2>3, Zenon DEF KreallocShrink, IInv
<1>4. ASSUME NEW p \in Page, NEW size \in Size, KreallocGrow(p, size)
      PROVE  IInv'
  <2> DEFINE n == PagesFor(size)
             s == FirstFit(n)
             bm == bitmap \cup Run(s, n)
             pc == [page_counts EXCEPT ![s] = n]
  <2>1. s \in Page /\ s + n <= NPages /\ Run(s, n) \cap bitmap = {}
    BY <1>4, <1>b, Zenon DEF KreallocGrow, FitsAt
  <2>2. Sound(bm, pc)
    BY <1>0, <1>a, <2>1, AddRun, Zenon
  <2>3. Sound(bm \ Run(p, pc[p]), [pc EXCEPT ![p] = 0])
    <3> HIDE DEF bm, pc
    <3>. QED
      BY <2>2, FreeRun, Zenon
  <2>4. held' \in [Page -> Nat]
    BY <1>0, <1>4, <1>a, Zenon DEF KreallocGrow
  <2>. QED
    BY <1>4, <2>3, <2>4, Zenon DEF KreallocGrow, IInv
<1>5. CASE UNCHANGED vars
  BY <1>5, Zenon DEF vars, IInv
<1>. QED
  BY <1>1, <1>2, <1>3, <1>4, <1>5, Zenon
     DEF Next, KallocNull, PageFreeOutside, KreallocZero, KreallocNull

-----------------------------------------------------------------------------
\* The invariant, conjunct by conjunct, in the words of the checked properties.
LEMMA IInvMeaning ==
  IInv => /\ TypeOK /\ RunsInside /\ RunsApart
          /\ PageZeroReserved /\ BitmapExact
<1> SUFFICES ASSUME IInv
             PROVE  /\ TypeOK /\ RunsInside /\ RunsApart
                    /\ PageZeroReserved /\ BitmapExact
  BY Zenon
<1> USE PageAllocAssumption
<1>1. /\ Typed(bitmap, page_counts) /\ Inside(page_counts)
      /\ Apart(page_counts) /\ ZeroFree(page_counts)
      /\ ByPage(bitmap, page_counts) /\ held \in [Page -> Nat]
  BY Zenon DEF IInv, Sound
<1>2. TypeOK
  BY <1>1, Zenon DEF TypeOK, Typed
<1>3. RunsInside /\ RunsApart /\ PageZeroReserved
  BY <1>1, Zenon
     DEF RunsInside, RunsApart, PageZeroReserved, Inside, Apart, ZeroFree
<1>4. BitmapExact
  <2>1. \A s \in Page : Run(s, page_counts[s]) \subseteq Page
    <3> SUFFICES ASSUME NEW s \in Page
                 PROVE  Run(s, page_counts[s]) \subseteq Page
      BY Zenon
    <3>1. page_counts[s] \in Nat /\ s + page_counts[s] <= NPages
      BY <1>1 DEF Inside, Typed
    <3>. QED
      BY <3>1 DEF Run, Page
  <2>2. \A q : q \in bitmap <=>
               q \in {0} \cup UNION {Run(s, page_counts[s]) : s \in Page}
    <3>1. 0 \in Page
      BY DEF Page
    <3>. QED
      BY <1>1, <2>1, <3>1, Zenon DEF ByPage, Typed
  <2>. QED
    BY <2>2, Zenon DEF BitmapExact
<1>. QED
  BY <1>2, <1>3, <1>4, Zenon

\* The bitmap and the counts always have their types: a count fits 16 bits and
\* no bit outside the bitmap is ever set.
THEOREM TypeCorrect == Spec => []TypeOK
<1>1. Spec => []IInv
  BY InitIInv, NextIInv, PTL DEF Spec
<1>. QED
  BY <1>1, IInvMeaning, PTL

\* No two blocks handed out by kalloc or krealloc ever share a page.
THEOREM NoOverlap == Spec => []RunsApart
<1>1. Spec => []IInv
  BY InitIInv, NextIInv, PTL DEF Spec
<1>. QED
  BY <1>1, IInvMeaning, PTL

\* The bitmap is at all times exactly page 0 and the recorded runs: no page is
\* leaked by a free or a shrink, and none is free while a caller holds it.
THEOREM BitmapIsExact == Spec => []BitmapExact
<1>1. Spec => []IInv
  BY InitIInv, NextIInv, PTL DEF Spec
<1>. QED
  BY <1>1, IInvMeaning, PTL

\* Page 0 is never handed out.
THEOREM ZeroStaysReserved == Spec => []PageZeroReserved
<1>1. Spec => []IInv
  BY InitIInv, NextIInv, PTL DEF Spec
<1>. QED
  BY <1>1, IInvMeaning, PTL

\* All of this together, after any sequence of kalloc, krealloc and page_free.
THEOREM MemoryIsExact == Spec => []MemoryExact
<1>1. IInv => MemoryExact
  BY IInvMeaning, Zenon DEF MemoryExact
<1>2. Spec => []IInv
  BY InitIInv, NextIInv, PTL DEF Spec
<1>. QED
  BY <1>1, <1>2, PTL

-----------------------------------------------------------------------------
\* Without requests of CountMod pages or more, what a caller was told it holds
\* is what the allocator records.
NoHugeRequest == \A size \in Size : PagesFor(size) < CountMod

\* Every step keeps what callers were told true, if no request is that large.
LEMMA BackedStep ==
  ASSUME NoHugeRequest, IInv, HeldIsBacked, [Next]_vars
  PROVE  HeldIsBacked'
<1> USE PageAllocAssumption
<1>1. ASSUME NEW size \in Size, Kalloc(size) PROVE HeldIsBacked'
  BY <1>1, Zenon DEF Kalloc, HeldIsBacked
<1>2. ASSUME NEW p \in Page, PageFree(p) PROVE HeldIsBacked'
  BY <1>2, Zenon DEF PageFree, HeldIsBacked
<1>3. ASSUME NEW p \in Page, NEW size \in Size, KreallocShrink(p, size)
      PROVE  HeldIsBacked'
  <2>1. PagesFor(size) % CountMod = PagesFor(size)
    BY PagesForType DEF NoHugeRequest
  <2>. QED
    BY <1>3, <2>1, Zenon DEF KreallocShrink, HeldIsBacked
<1>4. ASSUME NEW p \in Page, NEW size \in Size, KreallocGrow(p, size)
      PROVE  HeldIsBacked'
  BY <1>4, Zenon DEF KreallocGrow, HeldIsBacked
<1>5. CASE UNCHANGED vars
  BY <1>5, Zenon DEF vars, HeldIsBacked
<1>. QED
  BY <1>1, <1>2, <1>3, <1>4, <1>5, Zenon
     DEF Next, KallocNull, PageFreeOutside, KreallocZero, KreallocNull

\* As long as no request rounds up to CountMod pages or more, every block is as
\* long as its caller was told, reallocated blocks included.
THEOREM CallersAreBacked == NoHugeRequest => (Spec => []HeldIsBacked)
<1> SUFFICES ASSUME NoHugeRequest
             PROVE  Spec => []HeldIsBacked
  BY Zenon
<1>1. Init => HeldIsBacked
  BY Zenon DEF Init, HeldIsBacked
<1>2. IInv /\ HeldIsBacked /\ [Next]_vars => HeldIsBacked'
  BY BackedStep, Zenon
<1>. QED
  BY <1>1, <1>2, InitIInv, NextIInv, PTL DEF Spec

-----------------------------------------------------------------------------
(* Refinement of MemBlocks                                                 *)

BlocksOf(pc) == {Run(s, pc[s]) : s \in {t \in Page : pc[t] > 0}}

\* A run recorded at a page that had none is one more block.
LEMMA AddBlock ==
  ASSUME NEW pc \in [Page -> Nat], NEW s \in Page, pc[s] = 0,
         NEW n \in Nat \ {0}
  PROVE  BlocksOf([pc EXCEPT ![s] = n]) = BlocksOf(pc) \cup {Run(s, n)}
<1> DEFINE pc2 == [pc EXCEPT ![s] = n]
<1>1. pc2[s] = n /\ \A t \in Page : t # s => pc2[t] = pc[t]
  BY Zenon
<1>2. {t \in Page : pc2[t] > 0} = {t \in Page : pc[t] > 0} \cup {s}
  BY <1>1
<1> HIDE DEF pc2
<1>3. \A b : b \in BlocksOf(pc2) <=> b \in BlocksOf(pc) \cup {Run(s, n)}
  BY <1>1, <1>2 DEF BlocksOf
<1>. QED
  BY <1>3, Zenon DEF pc2

\* Runs that start at different pages are different sets of pages.
LEMMA RunsDiffer ==
  ASSUME NEW pc \in [Page -> Nat], Apart(pc),
         NEW p \in Page, NEW t \in Page, t # p, pc[t] > 0
  PROVE  Run(t, pc[t]) # Run(p, pc[p])
<1>1. t \in Run(t, pc[t])
  BY PageAllocAssumption DEF Run, Page
<1>2. Run(t, pc[t]) \cap Run(p, pc[p]) = {}
  BY Zenon DEF Apart
<1>. QED
  BY <1>1, <1>2, Zenon

\* Cutting the run at p replaces its block, and no other.
LEMMA CutBlock ==
  ASSUME NEW pc \in [Page -> Nat], Apart(pc), NEW p \in Page, pc[p] > 0,
         NEW m \in Nat \ {0}
  PROVE  BlocksOf([pc EXCEPT ![p] = m]) =
           (BlocksOf(pc) \ {Run(p, pc[p])}) \cup {Run(p, m)}
<1> DEFINE pc2 == [pc EXCEPT ![p] = m]
<1>1. pc2[p] = m /\ \A t \in Page : t # p => pc2[t] = pc[t]
  BY Zenon
<1>2. \A t \in Page : t # p /\ pc[t] > 0 => Run(t, pc[t]) # Run(p, pc[p])
  BY RunsDiffer, Zenon
<1> HIDE DEF pc2
<1>3. \A b : b \in BlocksOf(pc2) <=>
             b \in (BlocksOf(pc) \ {Run(p, pc[p])}) \cup {Run(p, m)}
  BY <1>1, <1>2 DEF BlocksOf
<1>. QED
  BY <1>3, Zenon DEF pc2

\* Freeing the run at p removes its block, and no other.
LEMMA DropBlock ==
  ASSUME NEW pc \in [Page -> Nat], Apart(pc), NEW p \in Page, pc[p] > 0
  PROVE  BlocksOf([pc EXCEPT ![p] = 0]) = BlocksOf(pc) \ {Run(p, pc[p])}
<1> DEFINE pc2 == [pc EXCEPT ![p] = 0]
<1>1. pc2[p] = 0 /\ \A t \in Page : t # p => pc2[t] = pc[t]
  BY Zenon
<1>2. \A t \in Page : t # p /\ pc[t] > 0 => Run(t, pc[t]) # Run(p, pc[p])
  BY RunsDiffer, Zenon
<1> HIDE DEF pc2
<1>3. \A b : b \in BlocksOf(pc2) <=> b \in BlocksOf(pc) \ {Run(p, pc[p])}
  BY <1>1, <1>2 DEF BlocksOf
<1>. QED
  BY <1>3, Zenon DEF pc2

\* A run of at least one page, apart from page 0 and inside the bitmap, is a
\* block of MemBlocks.
LEMMA RunIsBlk ==
  ASSUME NEW bm, NEW pc, Sound(bm, pc), NEW s \in Page, pc[s] > 0
  PROVE  Run(s, pc[s]) \in Mem!Blk
<1> USE PageAllocAssumption
<1>1. pc[s] \in Nat /\ s + pc[s] <= NPages /\ 0 \notin Run(s, pc[s])
  BY DEF Sound, Typed, Inside, ZeroFree
<1>2. Run(s, pc[s]) \subseteq Page \ {0}
  BY <1>1 DEF Run, Page
<1>3. s \in Run(s, pc[s])
  BY <1>1 DEF Run, Page
<1>. QED
  BY <1>2, <1>3, Zenon DEF Mem!Blk

\* The pages of the blocks have their bits set.
LEMMA BlocksInBitmap ==
  ASSUME NEW bm, NEW pc, Sound(bm, pc), NEW b \in BlocksOf(pc)
  PROVE  b \subseteq bm
<1>1. PICK s \in Page : pc[s] > 0 /\ b = Run(s, pc[s])
  BY Zenon DEF BlocksOf
<1>2. pc[s] \in Nat /\ s + pc[s] <= NPages
  BY DEF Sound, Typed, Inside
<1>3. Run(s, pc[s]) \subseteq Page
  BY <1>1, <1>2, PageAllocAssumption DEF Run, Page
<1>. QED
  BY <1>1, <1>3, Zenon DEF Sound, ByPage

\* Every step of the page allocator is a step of MemBlocks or leaves the blocks
\* alone.
LEMMA MemStep ==
  ASSUME IInv, [Next]_vars
  PROVE  [Mem!Next]_Blocks
<1> USE PageAllocAssumption
<1>0. Sound(bitmap, page_counts)
  BY Zenon DEF IInv
<1>a. page_counts \in [Page -> Nat] /\ Apart(page_counts)
  BY <1>0 DEF Sound, Typed
<1>b. Blocks = BlocksOf(page_counts) /\ Blocks' = BlocksOf(page_counts')
  BY Zenon DEF Blocks, BlocksOf
<1>c. ASSUME NEW n \in Nat \ {0}, CanFit(n)
      PROVE  /\ FirstFit(n) \in Page
             /\ page_counts[FirstFit(n)] = 0
             /\ Run(FirstFit(n), n) \in Mem!Blk
             /\ Run(FirstFit(n), n) \cap UNION Blocks = {}
             /\ Sound(bitmap \cup Run(FirstFit(n), n),
                      [page_counts EXCEPT ![FirstFit(n)] = n])
  <2> DEFINE s == FirstFit(n)
             pc == [page_counts EXCEPT ![s] = n]
  <2>1. s \in Page /\ s + n <= NPages /\ Run(s, n) \cap bitmap = {}
    BY <1>c, FirstFitFits, Zenon DEF FitsAt
  <2> HIDE DEF s
  <2>2. Sound(bitmap \cup Run(s, n), pc)
    BY <1>0, <2>1, AddRun, Zenon
  <2>3. pc[s] = n
    BY <1>a, <2>1, Zenon
  <2>4. Run(s, n) \in Mem!Blk
    <3> HIDE DEF pc
    <3>. QED
      BY <2>1, <2>2, <2>3, RunIsBlk
  <2>5. s \notin bitmap
    BY <2>1 DEF Run, Page
  <2>6. page_counts[s] = 0
    BY <1>0, <1>a, <2>1, <2>5 DEF Sound, ByPage, Run, Page
  <2>7. Run(s, n) \cap UNION Blocks = {}
    BY <1>0, <1>b, <2>1, BlocksInBitmap, Zenon
  <2>. QED
    BY <2>1, <2>2, <2>4, <2>6, <2>7, Zenon DEF s
<1>1. ASSUME NEW size \in Size, Kalloc(size)
      PROVE  Mem!Next
  <2> DEFINE n == PagesFor(size)
             s == FirstFit(n)
  <2>1. n \in Nat \ {0} /\ CanFit(n)
    BY <1>1, PagesForType, Zenon DEF Kalloc
  <2>2. page_counts' = [page_counts EXCEPT ![s] = n]
    BY <1>1, Zenon DEF Kalloc
  <2> HIDE DEF n
  <2>3. Blocks' = Blocks \cup {Run(s, n)}
    BY <1>a, <1>b, <1>c, <2>1, <2>2, AddBlock, Zenon
  <2>. QED
    BY <1>c, <2>1, <2>3, Zenon DEF Mem!Next, Mem!Alloc
<1>2. ASSUME NEW p \in Page, PageFree(p)
      PROVE  [Mem!Next]_Blocks
  <2>1. page_counts' = [page_counts EXCEPT ![p] = 0]
    BY <1>2, Zenon DEF PageFree
  <2>2. CASE page_counts[p] = 0
    <3>1. page_counts' = page_counts
      BY <1>a, <2>1, <2>2, Zenon
    <3>. QED
      BY <1>b, <3>1, Zenon
  <2>3. CASE page_counts[p] > 0
    <3>1. Blocks' = Blocks \ {Run(p, page_counts[p])}
      BY <1>a, <1>b, <2>1, <2>3, DropBlock, Zenon
    <3>2. Run(p, page_counts[p]) \in Blocks
      BY <2>3, Zenon DEF Blocks
    <3>. QED
      BY <3>1, <3>2, Zenon DEF Mem!Next, Mem!Free
  <2>. QED
    BY <1>a, <2>2, <2>3
<1>3. ASSUME NEW p \in Page, NEW size \in Size, KreallocShrink(p, size)
      PROVE  [Mem!Next]_Blocks
  <2> DEFINE new == PagesFor(size) % CountMod
  <2>1. /\ new \in Nat /\ new <= page_counts[p]
        /\ page_counts' = [page_counts EXCEPT ![p] = new]
    BY <1>3, PagesForType DEF KreallocShrink
  <2> HIDE DEF new
  <2>2. CASE page_counts[p] = 0
    <3>1. page_counts' = page_counts
      BY <1>a, <2>1, <2>2
    <3>. QED
      BY <1>b, <3>1, Zenon
  <2>3. CASE page_counts[p] > 0 /\ new = 0
    <3>1. Blocks' = Blocks \ {Run(p, page_counts[p])}
      BY <1>a, <1>b, <2>1, <2>3, DropBlock, Zenon
    <3>2. Run(p, page_counts[p]) \in Blocks
      BY <2>3, Zenon DEF Blocks
    <3>. QED
      BY <3>1, <3>2, Zenon DEF Mem!Next, Mem!Free
  <2>4. CASE page_counts[p] > 0 /\ new > 0
    <3>1. Blocks' = (Blocks \ {Run(p, page_counts[p])}) \cup {Run(p, new)}
      <4>1. new \in Nat \ {0}
        BY <2>1, <2>4
      <4>2. BlocksOf([page_counts EXCEPT ![p] = new]) =
              (BlocksOf(page_counts) \ {Run(p, page_counts[p])}) \cup {Run(p, new)}
        BY <1>a, <2>4, <4>1, CutBlock, Zenon
      <4>. QED
        BY <1>b, <2>1, <4>2, Zenon
    <3>2. Run(p, page_counts[p]) \in Blocks
      BY <2>4, Zenon DEF Blocks
    <3>3. Run(p, new) \in (SUBSET Run(p, page_counts[p])) \ {{}}
      <4>1. p \in Run(p, new)
        BY <2>1, <2>4 DEF Run, Page
      <4>2. Run(p, new) \subseteq Run(p, page_counts[p])
        BY <1>a, <2>1 DEF Run, Page
      <4>. QED
        BY <4>1, <4>2, Zenon
    <3>. QED
      BY <3>1, <3>2, <3>3, Zenon DEF Mem!Next, Mem!Shrink
  <2>. QED
    BY <1>a, <2>1, <2>2, <2>3, <2>4
<1>4. ASSUME NEW p \in Page, NEW size \in Size, KreallocGrow(p, size)
      PROVE  [Mem!Next]_Blocks
  <2> DEFINE n == PagesFor(size)
             s == FirstFit(n)
             pc == [page_counts EXCEPT ![s] = n]
  <2>1. n \in Nat \ {0} /\ CanFit(n)
    BY <1>4, PagesForType, Zenon DEF KreallocGrow
  <2>2. page_counts' = [pc EXCEPT ![p] = 0]
    BY <1>4, Zenon DEF KreallocGrow
  <2> HIDE DEF n
  <2>3. /\ s \in Page /\ page_counts[s] = 0
        /\ Run(s, n) \in Mem!Blk /\ Run(s, n) \cap UNION Blocks = {}
        /\ Sound(bitmap \cup Run(s, n), pc)
    BY <1>c, <2>1, Zenon
  <2> HIDE DEF s
  <2>4. pc \in [Page -> Nat] /\ Apart(pc) /\ pc[s] = n
    <3>1. pc \in [Page -> Nat] /\ pc[s] = n
      BY <1>a, <2>1, <2>3, Zenon
    <3>2. Apart(pc)
      <4> HIDE DEF pc
      <4>. QED
        BY <2>3, Zenon DEF Sound
    <3>. QED
      BY <3>1, <3>2, Zenon
  <2>5. BlocksOf(pc) = Blocks \cup {Run(s, n)}
    BY <1>a, <1>b, <2>1, <2>3, AddBlock, ZenonT(30)
  <2>6. CASE page_counts[p] = 0
    <3>1. CASE p = s
      <4>1. page_counts' = page_counts
        BY <1>a, <2>2, <2>3, <2>6, <3>1, Zenon
      <4>. QED
        BY <1>b, <4>1, Zenon
    <3>2. CASE p # s
      <4>1. page_counts' = pc
        BY <1>a, <2>2, <2>4, <2>6, <3>2, Zenon
      <4>2. Blocks' = Blocks \cup {Run(s, n)}
        BY <1>b, <2>5, <4>1, Zenon
      <4>. QED
        BY <2>3, <4>2, Zenon DEF Mem!Next, Mem!Alloc
    <3>. QED
      BY <3>1, <3>2, Zenon
  <2>7. CASE page_counts[p] > 0
    <3>1. p # s /\ pc[p] = page_counts[p]
      BY <1>a, <2>3, <2>7
    <3>2. Blocks' = (Blocks \cup {Run(s, n)}) \ {Run(p, page_counts[p])}
      <4> HIDE DEF pc
      <4>. QED
        BY <1>b, <2>2, <2>4, <2>5, <2>7, <3>1, DropBlock, Zenon
    <3>3. Run(p, page_counts[p]) \in Blocks
      BY <2>7, Zenon DEF Blocks
    <3>4. Run(s, n) # Run(p, page_counts[p])
      <4>1. Run(s, n) # {}
        BY <2>3, Zenon DEF Mem!Blk
      <4>. QED
        BY <2>3, <3>3, <4>1, Zenon
    <3>5. Blocks' = (Blocks \ {Run(p, page_counts[p])}) \cup {Run(s, n)}
      BY <3>2, <3>4, Zenon
    <3>. QED
      BY <2>3, <3>3, <3>5, Zenon DEF Mem!Next, Mem!Move
  <2>. QED
    BY <1>a, <2>6, <2>7
<1>5. CASE UNCHANGED vars
  BY <1>5, Zenon DEF vars, Blocks
<1>. QED
  BY <1>1, <1>2, <1>3, <1>4, <1>5, Zenon
     DEF Next, KallocNull, PageFreeOutside, KreallocZero, KreallocNull

\* The page allocator implements the abstract allocator MemBlocks: for every
\* mix of kalloc, krealloc and page_free, whatever addresses the last two get,
\* the blocks callers hold change only as MemBlocks allows.
THEOREM Refinement == Spec => ImplementsMemBlocks
<1>1. Init => Mem!Init
  BY DEF Init, Mem!Init, Blocks
<1>2. IInv /\ [Next]_vars => [Mem!Next]_Blocks
  BY MemStep, Zenon
<1>. QED
  BY <1>1, <1>2, InitIInv, NextIInv, PTL DEF Spec, ImplementsMemBlocks, Mem!Spec

-----------------------------------------------------------------------------
(* The loop of kalloc.  Induction goes by the least page at which it fails. *)

\* Before the first page.
ScanZero == [run_start |-> 0, run_len |-> 0]

\* The states of the search at pages 0 .. k, in g.
ScanTo(g, k, n) ==
  g = [p \in 0 .. k |-> IF p = 0 THEN ScanZero ELSE ScanStep(g[p - 1], p - 1, n)]

\* The search has its states at every page.
LEMMA ScanStates ==
  ASSUME NEW n, NEW k \in Nat
  PROVE  \E g : ScanTo(g, k, n)
<1> DEFINE bad == {i \in Nat : ~ \E g : ScanTo(g, i, n)}
<1> SUFFICES ASSUME bad # {} PROVE FALSE
  BY Zenon
<1>1. PICK i \in bad : \A j \in bad : i <= j
  <2>1. bad \in SUBSET Nat
    BY Zenon
  <2> HIDE DEF bad
  <2>. QED
    BY <2>1, LeastNat, Zenon
<1>2. i \in Nat /\ ~ \E g : ScanTo(g, i, n)
  BY Zenon
<1>3. i # 0
  <2> DEFINE g == [p \in 0 .. 0 |-> ScanZero]
  <2>1. g = [p \in 0 .. 0 |-> IF p = 0 THEN ScanZero ELSE ScanStep(g[p - 1], p - 1, n)]
    OBVIOUS
  <2>2. ScanTo(g, 0, n)
    BY <2>1, Zenon DEF ScanTo
  <2>. QED
    BY <1>2, <2>2, Zenon
<1>4. PICK g : ScanTo(g, i - 1, n)
  <2>1. i - 1 \in Nat /\ ~(i <= i - 1)
    BY <1>2, <1>3
  <2>2. i - 1 \notin bad
    BY <1>1, <2>1, Zenon
  <2>. QED
    BY <2>1, <2>2, Zenon
<1> DEFINE h == [p \in 0 .. i |-> IF p = i THEN ScanStep(g[i - 1], i - 1, n) ELSE g[p]]
<1>5. ASSUME NEW p \in 0 .. i
      PROVE  h[p] = IF p = 0 THEN ScanZero ELSE ScanStep(h[p - 1], p - 1, n)
  <2>1. CASE p = i
    <3>1. h[p] = ScanStep(g[i - 1], i - 1, n) /\ h[i - 1] = g[i - 1]
      BY <1>2, <1>3, <2>1
    <3> HIDE DEF h
    <3>. QED
      BY <1>3, <2>1, <3>1, Zenon
  <2>2. CASE p # i
    <3>1. p \in 0 .. i - 1 /\ h[p] = g[p] /\ (p # 0 => h[p - 1] = g[p - 1])
      BY <1>2, <2>2
    <3>2. g[p] = IF p = 0 THEN ScanZero ELSE ScanStep(g[p - 1], p - 1, n)
      BY <1>4, <3>1, Zenon DEF ScanTo
    <3> HIDE DEF h
    <3>. QED
      BY <3>1, <3>2, Zenon
  <2>. QED
    BY <2>1, <2>2, Zenon
<1>6. ScanTo(h, i, n)
  <2>1. h = [p \in 0 .. i |-> h[p]]
    BY Zenon
  <2> HIDE DEF h
  <2>. QED
    BY <1>5, <2>1, Zenon DEF ScanTo
<1>. QED
  BY <1>2, <1>6, Zenon

\* What Scan returns is the last state.
LEMMA ScanIs ==
  ASSUME NEW n
  PROVE  \E g : ScanTo(g, NPages, n) /\ Scan(n) = g[NPages]
<1> DEFINE st == CHOOSE g : ScanTo(g, NPages, n)
<1>1. ScanTo(st, NPages, n)
  <2>1. \E g : ScanTo(g, NPages, n)
    BY ScanStates, PageAllocAssumption, Zenon
  <2>. QED
    BY <2>1, Zenon
<1>2. Scan(n) = st[NPages]
  BY Zenon DEF Scan, ScanTo, ScanZero
<1>. QED
  BY <1>1, <1>2, Zenon

\* The state q of the search before page p, for n pages: either it has found the
\* lowest run that fits, or none ends before p and q counts the free pages that do,
\* back to the last page in use.
Searched(q, p, n) ==
  \/ /\ q.run_len = n /\ q.run_start \in Page /\ FitsAt(q.run_start, n)
     /\ \A t \in Page : FitsAt(t, n) => q.run_start <= t
  \/ /\ q.run_len \in 0 .. n - 1 /\ q.run_len <= p
     /\ q.run_len > 0 => q.run_start = p - q.run_len
     /\ \A x \in p - q.run_len .. p - 1 : x \notin bitmap
     /\ q.run_len = p \/ p - q.run_len - 1 \in bitmap
     /\ \A t \in Page : FitsAt(t, n) => t + n > p

\* One more page keeps what the search knows.
LEMMA SearchStep ==
  ASSUME NEW n \in Nat \ {0}, NEW p \in Page, NEW q, Searched(q, p, n)
  PROVE  Searched(ScanStep(q, p, n), p + 1, n)
<1> DEFINE r == ScanStep(q, p, n)
           l == q.run_len
<1> USE PageAllocAssumption
<1>1. CASE l = n
  <2>1. r = q
    BY <1>1, Zenon DEF ScanStep
  <2>2. /\ q.run_start \in Page /\ FitsAt(q.run_start, n)
        /\ \A t \in Page : FitsAt(t, n) => q.run_start <= t
    BY <1>1 DEF Searched
  <2>. QED
    BY <1>1, <2>1, <2>2, Zenon DEF Searched
<1>2. CASE l # n
  <2>1. /\ l \in 0 .. n - 1 /\ l <= p
        /\ l > 0 => q.run_start = p - l
    BY <1>2, Zenon DEF Searched
  <2>2. \A x \in p - l .. p - 1 : x \notin bitmap
    BY <1>2, Zenon DEF Searched
  <2>3. l = p \/ p - l - 1 \in bitmap
    BY <1>2, Zenon DEF Searched
  <2>4. \A t \in Page : FitsAt(t, n) => t + n > p
    BY <1>2, Zenon DEF Searched
  <2>5. p \in Nat /\ p < NPages /\ NPages \in Nat /\ l \in Nat
    BY <2>1 DEF Page
  <2>6. CASE p \in bitmap
    <3>1. r.run_len = 0
      <4>1. r = [q EXCEPT !.run_len = 0]
        BY <1>2, <2>6, Zenon DEF ScanStep
      <4>. QED
        BY <4>1
    <3>2. ASSUME NEW t \in Page, FitsAt(t, n) PROVE t + n > p + 1
      <4>1. t + n > p /\ t \in Nat
        BY <2>4, <3>2 DEF Page
      <4>2. p \notin Run(t, n)
        BY <2>6, <3>2, Zenon DEF FitsAt
      <4>. QED
        BY <2>5, <4>1, <4>2 DEF Run
    <3> HIDE DEF r
    <3>3. Searched(r, p + 1, n)
      BY <2>5, <2>6, <3>1, <3>2 DEF Searched
    <3>. QED
      BY <3>3, Zenon DEF r
  <2>7. CASE p \notin bitmap
    <3>1. r.run_len = l + 1 /\ r.run_start = p + 1 - (l + 1)
      <4>1. r = [run_start |-> IF l = 0 THEN p ELSE q.run_start, run_len |-> l + 1]
        BY <1>2, <2>7, Zenon DEF ScanStep
      <4>2. r.run_len = l + 1 /\ r.run_start = IF l = 0 THEN p ELSE q.run_start
        BY <4>1
      <4> HIDE DEF l, r
      <4>. QED
        BY <2>1, <2>5, <4>2 DEF l
    <3> HIDE DEF r, l
    <3>2. \A x \in p + 1 - (l + 1) .. p : x \notin bitmap
      BY <2>2, <2>5, <2>7
    <3>3. CASE l + 1 = n
      <4>1. p + 1 - n \in Page /\ FitsAt(p + 1 - n, n)
        BY <2>1, <2>5, <3>2, <3>3 DEF FitsAt, Run, Page
      <4>2. \A t \in Page : FitsAt(t, n) => p + 1 - n <= t
        BY <2>4, <2>5 DEF Page
      <4>3. Searched(r, p + 1, n)
        BY <3>1, <3>3, <4>1, <4>2, Zenon DEF Searched
      <4>. QED
        BY <4>3, Zenon DEF r
    <3>4. CASE l + 1 # n
      <4>1. ASSUME NEW t \in Page, FitsAt(t, n) PROVE t + n > p + 1
        <5>1. t + n > p /\ t \in Nat
          BY <2>4, <4>1 DEF Page
        <5>2. SUFFICES ASSUME t + n = p + 1 PROVE FALSE
          BY <2>5, <5>1
        <5>3. p - l - 1 \in Run(t, n) /\ l # p
          BY <2>1, <2>5, <3>4, <5>1, <5>2 DEF Run
        <5>. QED
          BY <2>3, <4>1, <5>3, Zenon DEF FitsAt
      <4>2. l + 1 \in 0 .. n - 1 /\ l + 1 <= p + 1
        BY <2>1, <2>5, <3>4
      <4>3. l + 1 = p + 1 \/ p + 1 - (l + 1) - 1 \in bitmap
        BY <2>3, <2>5
      <4>4. Searched(r, p + 1, n)
        BY <2>5, <3>1, <3>2, <4>1, <4>2, <4>3 DEF Searched
      <4>. QED
        BY <4>4, Zenon DEF r
    <3>. QED
      BY <3>3, <3>4, Zenon
  <2>. QED
    BY <2>6, <2>7, Zenon
<1>. QED
  BY <1>1, <1>2, Zenon

\* The search, from the first page to the last.
LEMMA SearchEnds ==
  ASSUME NEW n \in 1 .. NPages
  PROVE  Searched(Scan(n), NPages, n)
<1> USE PageAllocAssumption
<1>1. PICK g : ScanTo(g, NPages, n) /\ Scan(n) = g[NPages]
  BY ScanIs, Zenon
<1> DEFINE bad == {i \in 0 .. NPages : ~Searched(g[i], i, n)}
<1> SUFFICES ASSUME bad # {} PROVE FALSE
  BY <1>1
<1>2. PICK i \in bad : \A j \in bad : i <= j
  <2>1. bad \in SUBSET Nat
    OBVIOUS
  <2> HIDE DEF bad
  <2>. QED
    BY <2>1, LeastNat, Zenon
<1>3. i \in 0 .. NPages /\ ~Searched(g[i], i, n)
  BY Zenon
<1>4. i # 0
  <2>1. g[0] = ScanZero
    BY <1>1 DEF ScanTo
  <2>2. \A t \in Page : t + n > 0
    BY DEF Page
  <2>3. Searched(ScanZero, 0, n)
    BY <2>2 DEF Searched, ScanZero
  <2>. QED
    BY <1>3, <2>1, <2>3, Zenon
<1>5. i - 1 \in Page /\ i - 1 \in 0 .. NPages /\ ~(i <= i - 1) /\ i = (i - 1) + 1
  BY <1>3, <1>4 DEF Page
<1>6. Searched(g[i - 1], i - 1, n)
  BY <1>2, <1>5, Zenon
<1>7. g[i] = ScanStep(g[i - 1], i - 1, n)
  BY <1>1, <1>3, <1>4, Zenon DEF ScanTo
<1>8. Searched(g[i], (i - 1) + 1, n)
  BY <1>5, <1>6, <1>7, SearchStep
<1>. QED
  BY <1>3, <1>5, <1>8, Zenon

\* What the scan returns is the first run of free pages that is long enough.
LEMMA ScanFinds == ScanIsFirstFit
<1> SUFFICES ASSUME NEW n \in 1 .. NPages
             PROVE  /\ (Scan(n).run_len = n) <=> CanFit(n)
                    /\ CanFit(n) => Scan(n).run_start = FirstFit(n)
  BY Zenon DEF ScanIsFirstFit
<1> DEFINE q == Scan(n)
<1>1. Searched(q, NPages, n)
  BY SearchEnds, Zenon
<1> HIDE DEF q
<1>2. CASE q.run_len = n
  <2>1. /\ q.run_start \in Page /\ FitsAt(q.run_start, n)
        /\ \A t \in Page : FitsAt(t, n) => q.run_start <= t
    BY <1>1, <1>2 DEF Searched
  <2>2. CanFit(n)
    BY <2>1, Zenon DEF CanFit
  <2>3. \A s \in Page : (FitsAt(s, n) /\ \A t \in Page : FitsAt(t, n) => s <= t)
                        => s = q.run_start
    BY <2>1 DEF Page
  <2>4. FirstFit(n) = q.run_start
    BY <2>1, <2>3, Zenon DEF FirstFit
  <2>. QED
    BY <1>2, <2>2, <2>4, Zenon DEF q
<1>3. CASE q.run_len # n
  <2>1. \A t \in Page : FitsAt(t, n) => t + n > NPages
    BY <1>1, <1>3, Zenon DEF Searched
  <2>2. ~CanFit(n)
    BY <2>1, PageAllocAssumption DEF CanFit, FitsAt, Page
  <2>. QED
    BY <1>3, <2>2, Zenon DEF q
<1>. QED
  BY <1>2, <1>3, Zenon

\* The loop of kalloc finds the lowest free run of n pages, and finds one whenever
\* there is one, for every number of pages and every bitmap.
THEOREM ScanIsCorrect == Spec => []ScanIsFirstFit
BY ScanFinds, PTL

=============================================================================
