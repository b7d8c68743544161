-------------------------------- MODULE Slab --------------------------------
(***************************************************************************)
(* The kernel heap (src/mm/allocator.c): kmalloc and kfree over size       *)
(* caches made of slabs, and over whole pages for larger requests, on top  *)
(* of the page allocator PageAlloc.  Addresses count bytes from            *)
(* first_page; a slab is named by the page it starts at.                   *)
(***************************************************************************)
EXTENDS Integers, Sequences, FiniteSets, FiniteSetsExt

CONSTANTS
  NPages, PageSize, CountMod,  \* of the page allocator
  NCaches,     \* number of size_caches
  MinObj,      \* KMALLOC_MIN: objects of the first cache; each next one doubles
  Align,       \* ALLOC_ALIGNMENT
  SlabHdr,     \* sizeof(Slab)
  CtlSize,     \* sizeof(uint32_t): one bufctl entry
  CacheSize,   \* sizeof(Cache)
  HdrSize,     \* HDR_SIZE, the header kmalloc puts before a block
  Sizes        \* bound: the sizes callers ask kmalloc for

VARIABLES
  bitmap, page_counts, held,  \* of the page allocator
  cache,   \* per size cache: the lists of its slabs and its two counters
  slab,    \* per slab: its cache, its free counter and its bufctl array
  live     \* per block kmalloc handed out, by address: its size and its header
pages == <<bitmap, page_counts, held>>
vars == <<bitmap, page_counts, held, cache, slab, live>>

P == INSTANCE PageAlloc WITH MaxSize <- NPages * PageSize

Caches == 1 .. NCaches
None == 0        \* the NULL cache pointer in the header of a whole-page block

\* f with v at x.
With(f, x, v) == [y \in DOMAIN f \cup {x} |-> IF y = x THEN v ELSE f[y]]

-----------------------------------------------------------------------------
(* Geometry                                                                *)

AlignUp(x) == ((x + Align - 1) \div Align) * Align

\* The size each cache is made for: sz doubles from one to the next.
CacheBytes[c \in Caches] == IF c = 1 THEN MinObj ELSE 2 * CacheBytes[c - 1]
ObjSize(c) == AlignUp(CacheBytes[c])

PerSlab(objsize) ==
  LET n == (PageSize - SlabHdr) \div (objsize + CtlSize)
  IN  IF n = 0 THEN 1 ELSE n

ObjsPerSlab(c) == PerSlab(ObjSize(c))

SlabMem(objsize) ==
  SlabHdr + PerSlab(objsize) * CtlSize + (Align - 1) + PerSlab(objsize) * objsize

\* kernel_malloc asks the page allocator for whole pages.
Whole(bytes) == ((bytes + PageSize - 1) \div PageSize) * PageSize
KernelMalloc(bytes) == P!Kalloc(Whole(bytes))
KernelMallocAt(bytes) == P!FirstFit(P!PagesFor(Whole(bytes)))

\* Mutant of ObjBase: the objects start on top of the bufctl array.
ObjBaseNoCtl(s, c) == AlignUp(s * PageSize + SlabHdr)

\* slab->memory and the objects in it.
ObjBase(s, c) == AlignUp(s * PageSize + SlabHdr + ObjsPerSlab(c) * CtlSize)
ObjAddr(s, c, i) == ObjBase(s, c) + ObjSize(c) * i

\* The cache for a block and its header; None when no cache is large enough.
PickCache(total) ==
  LET fits == {c \in Caches : total <= CacheBytes[c]}
  IN  IF fits = {} THEN None ELSE CHOOSE c \in fits : \A d \in fits : c <= d

\* The sizes allocator_init relies on: alignment divides the page, and all size
\* caches fit the first slab of the cache of caches, so that it cannot fail.
ASSUME SlabAssumption ==
  /\ P!PageAllocAssumption
  /\ Align \in Nat \ {0} /\ PageSize % Align = 0
  /\ HdrSize \in Nat /\ HdrSize % Align = 0 /\ CacheSize \in Nat \ {0}
  /\ NCaches \in Nat \ {0} /\ MinObj \in Nat \ {0} /\ Sizes \subseteq Nat
  /\ SlabHdr \in Nat /\ SlabHdr < PageSize /\ CtlSize \in Nat \ {0}
  /\ NCaches <= PerSlab(AlignUp(CacheSize))
  /\ Whole(CacheSize) + Whole(SlabMem(AlignUp(CacheSize))) < NPages * PageSize

-----------------------------------------------------------------------------
(* Slab lists                                                              *)

\* list_remove: list l without slab s.
ListRemove(l, s) ==
  IF s \notin Range(l) THEN l
  ELSE LET i == CHOOSE j \in DOMAIN l : l[j] = s
       IN  SubSeq(l, 1, i - 1) \o SubSeq(l, i + 1, Len(l))

Emptied(k, s) == [k EXCEPT !.full = ListRemove(@, s), !.partial = ListRemove(@, s),
                           !.free = ListRemove(@, s)]
ToFull(k, s) == [Emptied(k, s) EXCEPT !.full = Append(@, s)]
ToPartial(k, s) == [Emptied(k, s) EXCEPT !.partial = Append(@, s)]
ToFree(k, s) == [Emptied(k, s) EXCEPT !.free = Append(@, s)]

\* cache_grow: the new slab goes to the free list.
CacheGrow(k, c, s) ==
  [k EXCEPT !.free = Append(@, s), !.totalobjs = @ + ObjsPerSlab(c)]

NewSlab(c) == [cache |-> c, free |-> 0,
               bufctl |-> [i \in 0 .. ObjsPerSlab(c) - 1 |-> i]]

\* cache_select, when a slab has room: partial slabs first.
CacheSelect(k) == IF k.partial # <<>> THEN k.partial[1] ELSE k.free[1]

\* Mutant of TakeFrom: a slab that fills up stays on the partial list.
TakeFromKeepPartial(k, s, sl) ==
  LET k1 == IF sl.free = 0 THEN ToPartial(k, s) ELSE k
  IN  [k1 EXCEPT !.inuse = @ + 1]

\* cache_alloc's list moves and count: onto partial with its first object, onto
\* full with its last.
TakeFrom(k, s, sl) ==
  LET k1 == IF sl.free = 0 THEN ToPartial(k, s) ELSE k
      k2 == IF sl.free + 1 = ObjsPerSlab(sl.cache) THEN ToFull(k1, s) ELSE k1
  IN  [k2 EXCEPT !.inuse = @ + 1]

\* The slab that holds object p, as cache_dealloc searches: the full list, then
\* the partial list; 0 when neither has it.
SlabOf(k, c, p) ==
  LET has(s) == ObjBase(s, c) <= p /\ p < ObjBase(s, c) + ObjSize(c) * ObjsPerSlab(c)
      on == k.full \o k.partial
      hits == {i \in DOMAIN on : has(on[i])}
  IN  IF hits = {} THEN 0 ELSE on[Min(hits)]

\* cache_dealloc_within's list moves and count.
GiveTo(k, s, sl) ==
  LET k1 == IF sl.free = ObjsPerSlab(sl.cache) THEN ToPartial(k, s) ELSE k
      k2 == IF sl.free = 1 THEN ToFree(k1, s) ELSE k1
  IN  [k2 EXCEPT !.inuse = @ - 1]

\* The freed object's index goes on top of the slab's stack of free indices.
PushFree(sl, s, p) ==
  LET i == (p - ObjBase(s, sl.cache)) \div ObjSize(sl.cache)
  IN  [sl EXCEPT !.free = @ - 1, !.bufctl[sl.free - 1] = i]

-----------------------------------------------------------------------------
(* Operations                                                              *)

\* The state allocator_init leaves: the cache of caches on the first free
\* pages, the slab with the size caches behind it, and no slab in any of them.
Init ==
  LET n1 == P!PagesFor(Whole(CacheSize))
      n2 == P!PagesFor(Whole(SlabMem(AlignUp(CacheSize))))
      counts == [p \in P!Page |->
                   IF p = 1 THEN n1 ELSE IF p = 1 + n1 THEN n2 ELSE 0]
  IN  /\ bitmap = 0 .. n1 + n2
      /\ page_counts = counts
      /\ held = counts
      /\ cache = [c \in Caches |-> [full |-> <<>>, partial |-> <<>>, free |-> <<>>,
                                    inuse |-> 0, totalobjs |-> 0]]
      /\ slab = << >>
      /\ live = << >>

\* Mutant of HasRoom: the free list is not looked at.
HasRoomPartialOnly(c) == cache[c].partial # <<>>

\* cache_select finds a slab without growing the cache.
HasRoom(c) == cache[c].partial # <<>> \/ cache[c].free # <<>>

\* Hands out the next object of slab s, of cache c, whose record is sl and whose
\* cache record is k.
Take(c, k, s, sl, size) ==
  LET p == ObjAddr(s, c, sl.bufctl[sl.free])
  IN  /\ cache' = [cache EXCEPT ![c] = TakeFrom(k, s, sl)]
      /\ slab' = With(slab, s, [sl EXCEPT !.free = @ + 1])
      /\ live' = With(live, p, [size |-> size, cache |-> c, raw_base |-> 0])

\* kmalloc from a slab that has room.
KmallocSlab(size) ==
  LET c == PickCache(HdrSize + size)
      s == CacheSelect(cache[c])
  IN  /\ size # 0 /\ c # None /\ HasRoom(c)
      /\ Take(c, cache[c], s, slab[s], size)
      /\ UNCHANGED pages

\* kmalloc that first adds a slab to the cache.
KmallocGrow(size) ==
  LET c == PickCache(HdrSize + size)
      bytes == SlabMem(ObjSize(c))
      s == KernelMallocAt(bytes)
  IN  /\ size # 0 /\ c # None /\ ~HasRoom(c)
      /\ KernelMalloc(bytes)
      /\ Take(c, CacheGrow(cache[c], c, s), s, NewSlab(c), size)

\* kmalloc of a block too large for the caches: whole pages, the header first.
RawBytes(size) == HdrSize + size + Align - 1
KmallocRaw(size) ==
  LET s == KernelMallocAt(RawBytes(size))
      user == AlignUp(s * PageSize + HdrSize)
  IN  /\ size # 0 /\ PickCache(HdrSize + size) = None
      /\ KernelMalloc(RawBytes(size))
      /\ live' = With(live, user - HdrSize, [size |-> size, cache |-> None, raw_base |-> s])
      /\ UNCHANGED <<cache, slab>>

\* kmalloc returns NULL: for size 0, or without pages for a slab or the block.
KmallocNull(size) ==
  LET c == PickCache(HdrSize + size)
      bytes == IF c = None THEN RawBytes(size) ELSE SlabMem(ObjSize(c))
  IN  /\ \/ size = 0
         \/ ~(c # None /\ HasRoom(c)) /\ ~P!CanFit(P!PagesFor(Whole(bytes)))
      /\ UNCHANGED vars

\* kfree of a block from a cache: its header names the cache, whose full and
\* partial lists are searched for the slab.
KfreeSlab(p) ==
  LET c == live[p].cache
      s == SlabOf(cache[c], c, p)
  IN  /\ c # None
      /\ IF s = 0 THEN UNCHANGED <<cache, slab>>
         ELSE /\ cache' = [cache EXCEPT ![c] = GiveTo(@, s, slab[s])]
              /\ slab' = [slab EXCEPT ![s] = PushFree(@, s, p)]
      /\ live' = [q \in DOMAIN live \ {p} |-> live[q]]
      /\ UNCHANGED pages

\* Mutant of KfreeRaw: the page behind the block's first one is freed.
KfreeRawOffByOne(p) ==
  /\ live[p].cache = None
  /\ P!PageFree((live[p].raw_base + 1) % NPages)
  /\ live' = [q \in DOMAIN live \ {p} |-> live[q]]
  /\ UNCHANGED <<cache, slab>>

\* kfree of a whole-page block: its header holds the first page.
KfreeRaw(p) ==
  /\ live[p].cache = None
  /\ P!PageFree(live[p].raw_base)
  /\ live' = [q \in DOMAIN live \ {p} |-> live[q]]
  /\ UNCHANGED <<cache, slab>>

\* kfree(NULL).
KfreeNull == UNCHANGED vars

Next ==
  \/ \E size \in Sizes :
       KmallocSlab(size) \/ KmallocGrow(size) \/ KmallocRaw(size) \/ KmallocNull(size)
  \/ \E p \in DOMAIN live : KfreeSlab(p) \/ KfreeRaw(p)
  \/ KfreeNull

Spec == Init /\ [][Next]_vars

-----------------------------------------------------------------------------
(* Properties                                                              *)

Slabs == DOMAIN slab
SlabRec == UNION {[cache : {c}, free : 0 .. ObjsPerSlab(c),
                   bufctl : [0 .. ObjsPerSlab(c) - 1 -> 0 .. ObjsPerSlab(c) - 1]]
                  : c \in Caches}

TypeOK ==
  /\ P!TypeOK
  /\ \A s \in Slabs : s \in P!Page /\ slab[s] \in SlabRec
  /\ \A c \in Caches : /\ cache[c].inuse \in Nat /\ cache[c].totalobjs \in Nat
                       /\ Range(cache[c].full \o cache[c].partial \o cache[c].free)
                            \subseteq Slabs
  /\ \A p \in DOMAIN live : live[p].cache \in Caches \cup {None}

\* The addresses of the blocks that live in slab s.
LiveIn(s) ==
  LET c == slab[s].cache
  IN  {p \in DOMAIN live : p \in ObjAddr(s, c, 0) .. ObjAddr(s, c, ObjsPerSlab(c)) - 1}

\* The list a slab is on always tells how full it is, and it is on one list
\* once: so cache_select never picks a full slab, kfree always finds the slab
\* of a block on the full or the partial list, and the "double free" branch of
\* cache_dealloc_within is never entered for a block that is in use.
ListsTellFill ==
  \A c \in Caches :
    LET on == cache[c].full \o cache[c].partial \o cache[c].free
        n == ObjsPerSlab(c)
    IN  /\ \A i, j \in DOMAIN on : i # j => on[i] # on[j]
        /\ Range(on) = {s \in Slabs : slab[s].cache = c}
        /\ \A s \in Range(cache[c].full) : slab[s].free = n
        /\ \A s \in Range(cache[c].partial) : slab[s].free \in 1 .. n - 1
        /\ \A s \in Range(cache[c].free) : slab[s].free = 0

\* Above the free counter, bufctl holds each index that is not in use once:
\* after any order of allocations and frees no object can be handed out twice
\* and none is lost.
FreeStackExact ==
  \A s \in Slabs :
    LET c == slab[s].cache
        n == ObjsPerSlab(c)
        stack == slab[s].free .. n - 1
    IN  /\ \A i, j \in stack : i # j => slab[s].bufctl[i] # slab[s].bufctl[j]
        /\ {ObjAddr(s, c, slab[s].bufctl[i]) : i \in stack} =
             {ObjAddr(s, c, i) : i \in 0 .. n - 1} \ LiveIn(s)

\* inuse and totalobjs count the blocks handed out and the objects that exist.
CountersExact ==
  \A c \in Caches :
    /\ cache[c].inuse = Cardinality({p \in DOMAIN live : live[p].cache = c})
    /\ cache[c].totalobjs =
         ObjsPerSlab(c) * Cardinality({s \in Slabs : slab[s].cache = c})

\* After any order of kmallocs and kfrees the lists, the stacks of free objects and
\* the counters of every cache describe the blocks in use.
SlabsExact == TypeOK /\ ListsTellFill /\ FreeStackExact /\ CountersExact

\* The runs the page allocator records are the cache of caches, the slab of the
\* size caches, the slabs and the whole-page blocks in use, no others: no path
\* through kmalloc and kfree leaks a page run or frees one that is in use.
PagesAccounted ==
  {s \in P!Page : page_counts[s] > 0} =
    {1, 1 + P!PagesFor(Whole(CacheSize))} \cup Slabs \cup
    {live[p].raw_base : p \in {q \in DOMAIN live : live[q].cache = None}}

\* The bytes of a block in use, its header included.
Extent(p) == p .. p + HdrSize + live[p].size - 1

\* A block lies inside the pages of its slab, behind the Slab structure and the
\* bufctl array, or inside its own whole pages: writing to it never reaches
\* allocator data or pages of someone else.
BlocksInTheirPages ==
  \A p \in DOMAIN live :
    \E s \in P!Page :
      /\ Extent(p) \subseteq s * PageSize .. (s + page_counts[s]) * PageSize - 1
      /\ IF live[p].cache = None THEN s = live[p].raw_base
         ELSE /\ s \in Slabs /\ slab[s].cache = live[p].cache
              /\ p >= s * PageSize + SlabHdr + ObjsPerSlab(slab[s].cache) * CtlSize

\* Every page run has one user, and every block lies inside what its user has.
PagesExact == PagesAccounted /\ BlocksInTheirPages

\* A cache takes pages for a slab only when every object it has is in use.
GrowsOnlyWhenFull ==
  [][\A c \in Caches : cache'[c].totalobjs # cache[c].totalobjs =>
       cache[c].inuse = cache[c].totalobjs]_vars

Mem == INSTANCE MemBlocks
         WITH Units <- 0 .. NPages * PageSize - 1,
              blocks <- {Extent(p) : p \in DOMAIN live}

\* The heap is an allocator, byte by byte: kmalloc hands out bytes, the header's
\* included, that no block in use has, and kfree takes one block back.
ImplementsMemBlocks == Mem!Spec
=============================================================================
