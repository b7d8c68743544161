------------------------------ MODULE PageAlloc ------------------------------
(***************************************************************************)
(* The physical page allocator (src/mm/page_alloc.c): a bitmap with one    *)
(* bit per page and page_counts, the length of each allocated run, kept at *)
(* the index of the run's first page.  An address is modelled by the page  *)
(* it lies in, counted from first_page.                                    *)
(***************************************************************************)
EXTENDS Integers, FiniteSets

CONSTANTS
  NPages,      \* BITMAP_SIZE * 8
  PageSize,    \* PAGE_SIZE
  CountMod,    \* 2^16: page_counts and krealloc's new_pages are uint16_t
  MaxSize      \* bound: the largest size a caller asks for, in bytes

\* 7680 pages of 4096 bytes, counted in 16 bits.
ASSUME PageAllocAssumption ==
  /\ NPages \in Nat \ {0} /\ PageSize \in Nat \ {0} /\ MaxSize \in Nat
  /\ CountMod \in Nat /\ NPages < CountMod

VARIABLES
  bitmap,       \* the pages whose bit is set
  page_counts,  \* length of the run that starts at a page, else 0
  held          \* history: pages the caller was last told it has at a page
vars == <<bitmap, page_counts, held>>

Page == 0 .. NPages - 1
Size == 0 .. MaxSize

-----------------------------------------------------------------------------
(* Helpers                                                                 *)

PagesFor(size) ==
  IF size < PageSize THEN 1 ELSE (size + PageSize - 1) \div PageSize

Run(s, n) == s .. s + n - 1

\* n pages from s on are inside the bitmap and all free.
FitsAt(s, n) == s + n <= NPages /\ Run(s, n) \cap bitmap = {}

CanFit(n) == \E s \in Page : FitsAt(s, n)

\* What kalloc's search computes: the lowest free run of n pages.
FirstFit(n) ==
  CHOOSE s \in Page : FitsAt(s, n) /\ \A t \in Page : FitsAt(t, n) => s <= t

\* Mutant of ScanStep: a page in use does not restart the run.
ScanStepNoReset(q, p, n) ==
  IF q.run_len = n THEN q
  ELSE IF p \notin bitmap
  THEN [run_start |-> IF q.run_len = 0 THEN p ELSE q.run_start,
        run_len |-> q.run_len + 1]
  ELSE q

\* One turn of kalloc's for loop at page p; a run of n pages ends the search.
ScanStep(q, p, n) ==
  IF q.run_len = n THEN q
  ELSE IF p \notin bitmap
  THEN [run_start |-> IF q.run_len = 0 THEN p ELSE q.run_start,
        run_len |-> q.run_len + 1]
  ELSE [q EXCEPT !.run_len = 0]

\* kalloc's search, page by page: the loop state after every page was seen.
Scan(n) ==
  LET st[p \in 0 .. NPages] ==
        IF p = 0 THEN [run_start |-> 0, run_len |-> 0]
        ELSE ScanStep(st[p - 1], p - 1, n)
  IN  st[NPages]

-----------------------------------------------------------------------------
(* Operations                                                              *)

\* initAllocator: every page is free but page 0, whose bit is set while its
\* count stays 0.
Init == /\ bitmap = {0}
        /\ page_counts = [p \in Page |-> 0]
        /\ held = [p \in Page |-> 0]

\* kalloc: returns NULL for size 0 and when no run is long enough.
Kalloc(size) ==
  /\ size # 0
  /\ CanFit(PagesFor(size))
  /\ LET n == PagesFor(size)
         s == FirstFit(n)
     IN  /\ bitmap' = bitmap \cup Run(s, n)
         /\ page_counts' = [page_counts EXCEPT ![s] = n]
         /\ held' = [held EXCEPT ![s] = n]

KallocNull(size) ==
  /\ size = 0 \/ ~CanFit(PagesFor(size))
  /\ UNCHANGED vars

\* Mutant of PageFree: the count is left behind.
PageFreeKeepCount(p) ==
  /\ bitmap' = bitmap \ Run(p, page_counts[p])
  /\ page_counts' = page_counts
  /\ held' = [held EXCEPT ![p] = 0]

\* page_free: an address inside the managed range; the bits of the run that
\* starts there are cleared, none when no run starts there.
PageFree(p) ==
  /\ bitmap' = bitmap \ Run(p, page_counts[p])
  /\ page_counts' = [page_counts EXCEPT ![p] = 0]
  /\ held' = [held EXCEPT ![p] = 0]

\* page_free of an address outside the managed range.
PageFreeOutside == UNCHANGED vars

\* krealloc(addr, 0) frees.
KreallocZero(p) == held[p] > 0 /\ PageFree(p)

\* Mutant of KreallocShrink: the bits are cleared and the count is not updated.
KreallocShrinkKeepCount(p, size) ==
  LET old == page_counts[p]
      new == PagesFor(size) % CountMod
  IN  /\ held[p] > 0 /\ size # 0 /\ new <= old
      /\ bitmap' = bitmap \ Run(p + new, old - new)
      /\ page_counts' = page_counts
      /\ held' = [held EXCEPT ![p] = PagesFor(size)]

\* krealloc in place.  new_pages is 16 bits wide: a request of CountMod pages
\* or more is compared, and recorded, truncated.
KreallocShrink(p, size) ==
  LET old == page_counts[p]
      new == PagesFor(size) % CountMod
  IN  /\ held[p] > 0 /\ size # 0 /\ new <= old
      /\ bitmap' = bitmap \ Run(p + new, old - new)
      /\ page_counts' = [page_counts EXCEPT ![p] = new]
      /\ held' = [held EXCEPT ![p] = PagesFor(size)]

\* Mutant of KreallocGrow: the old block is freed before the new one is
\* looked for, so that the copy may run into it.
KreallocGrowFreeFirst(p, size) ==
  LET old == page_counts[p]
      n == PagesFor(size)
      free == bitmap \ Run(p, old)
      fits(t) == t + n <= NPages /\ Run(t, n) \cap free = {}
  IN  /\ held[p] > 0 /\ size # 0 /\ n % CountMod > old
      /\ \E s \in Page :
           /\ fits(s) /\ \A t \in Page : fits(t) => s <= t
           /\ bitmap' = free \cup Run(s, n)
           /\ page_counts' = [[page_counts EXCEPT ![p] = 0] EXCEPT ![s] = n]
           /\ held' = [[held EXCEPT ![p] = 0] EXCEPT ![s] = n]

\* krealloc to a larger block: kalloc, copy, page_free of the old one.
KreallocGrow(p, size) ==
  LET n == PagesFor(size)
      s == FirstFit(n)
      counts == [page_counts EXCEPT ![s] = n]
  IN  /\ held[p] > 0 /\ size # 0 /\ n % CountMod > page_counts[p]
      /\ CanFit(n)
      /\ bitmap' = (bitmap \cup Run(s, n)) \ Run(p, counts[p])
      /\ page_counts' = [counts EXCEPT ![p] = 0]
      /\ held' = [[held EXCEPT ![s] = n] EXCEPT ![p] = 0]

\* krealloc that finds no room: NULL, and the old block stays.
KreallocNull(p, size) ==
  /\ held[p] > 0 /\ size # 0
  /\ PagesFor(size) % CountMod > page_counts[p]
  /\ ~CanFit(PagesFor(size))
  /\ UNCHANGED vars

Next ==
  \/ \E size \in Size : Kalloc(size) \/ KallocNull(size)
  \/ \E p \in Page : PageFree(p) \/ KreallocZero(p)
  \/ PageFreeOutside
  \/ \E p \in Page, size \in Size :
       KreallocShrink(p, size) \/ KreallocGrow(p, size) \/ KreallocNull(p, size)

Spec == Init /\ [][Next]_vars

-----------------------------------------------------------------------------
(* Properties                                                              *)

TypeOK == /\ bitmap \in SUBSET Page
          /\ page_counts \in [Page -> 0 .. CountMod - 1]
          /\ held \in [Page -> Nat]

\* Two blocks that kalloc and krealloc handed out never share a page, however
\* allocations, frees and reallocations are mixed.
RunsApart ==
  \A s, t \in Page :
    s # t => Run(s, page_counts[s]) \cap Run(t, page_counts[t]) = {}

\* The bitmap and page_counts describe the same memory: a page's bit is set
\* exactly when it is page 0 or lies in a run that page_counts records, so a
\* page is neither lost nor free while in use.
BitmapExact ==
  bitmap = {0} \cup UNION {Run(s, page_counts[s]) : s \in Page}

\* Every recorded run ends inside the bitmap.
RunsInside == \A s \in Page : s + page_counts[s] <= NPages

\* Page 0, reserved by initAllocator with a count of 0, is never part of a
\* block, whatever address page_free and krealloc are called with.
PageZeroReserved == \A s \in Page : 0 \notin Run(s, page_counts[s])

\* Bitmap and counts describe one set of blocks after any mix of calls: the blocks
\* lie inside the memory, apart from each other and from page 0, and the bits set
\* are theirs and page 0's.
MemoryExact == TypeOK /\ RunsInside /\ RunsApart /\ PageZeroReserved /\ BitmapExact

\* A caller that was told it has n pages at an address has exactly the n pages
\* the allocator records there (krealloc included).
HeldIsBacked == held = page_counts

\* kalloc's loop (restart at a used page, stop at the n-th free one) finds the
\* lowest free run of n pages, and finds one whenever there is one.
ScanIsFirstFit ==
  \A n \in 1 .. NPages :
    /\ (Scan(n).run_len = n) <=> CanFit(n)
    /\ CanFit(n) => Scan(n).run_start = FirstFit(n)

\* krealloc's in-place branch, commented "Shrink in-place", is only taken for
\* requests that are no larger than the block.
InPlaceOnlyShrinks ==
  [][\A p \in Page, size \in Size :
        KreallocShrink(p, size) => PagesFor(size) <= page_counts[p]]_vars

\* The blocks that page_counts records, as the abstract allocator sees them.
Blocks ==
  {Run(s, page_counts[s]) : s \in {t \in Page : page_counts[t] > 0}}

Mem == INSTANCE MemBlocks WITH Units <- Page \ {0}, blocks <- Blocks

\* The page allocator is an allocator: every step hands out pages no caller
\* holds, takes a block back whole, or shrinks or moves one block, and a moved
\* block lies apart from the one it is copied from.
ImplementsMemBlocks == Mem!Spec
=============================================================================
