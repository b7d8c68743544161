---------------------------- MODULE SlabProofs -----------------------------
(***************************************************************************)
(* Proofs about the kernel heap, for every number of pages and caches and  *)
(* every size of pages, objects and headers: kmalloc and kfree keep the    *)
(* invariant of SlabLemmas, and what follows from it.                      *)
(***************************************************************************)
EXTENDS SlabLemmas

-----------------------------------------------------------------------------
(* Lists, counters and users after a step                                  *)

\* One cache's lists and counters changed, and one of its slabs.
LEMMA ListsStep ==
  ASSUME NEW ca, NEW sb, ListsOk(ca, sb), NEW c \in Caches, NEW sb2, NEW k,
         OnLists(k, FullOf(sb2, c), PartialOf(sb2, c), EmptyOf(sb2, c)),
         \A d \in Caches : d # c => /\ FullOf(sb2, d) = FullOf(sb, d)
                                    /\ PartialOf(sb2, d) = PartialOf(sb, d)
                                    /\ EmptyOf(sb2, d) = EmptyOf(sb, d),
         NEW ca2, ca2 = [ca EXCEPT ![c] = k]
  PROVE  ListsOk(ca2, sb2)
<1> USE Zenon
<1>1. /\ ca \in [Caches -> KRec] /\ k \in KRec
      /\ Listed(k, FullOf(sb2, c), PartialOf(sb2, c), EmptyOf(sb2, c))
  BY DEF ListsOk, OnLists
<1>2. ca2 \in [Caches -> KRec] /\ ca2[c] = k /\ \A d \in Caches : d # c => ca2[d] = ca[d]
  BY <1>1
<1>3. ASSUME NEW d \in Caches
      PROVE  Listed(ca2[d], FullOf(sb2, d), PartialOf(sb2, d), EmptyOf(sb2, d))
  <2>1. CASE d = c
    BY <1>1, <1>2, <2>1
  <2>2. CASE d # c
    <3>1. Listed(ca[d], FullOf(sb, d), PartialOf(sb, d), EmptyOf(sb, d))
      BY DEF ListsOk
    <3>. QED
      BY <1>2, <2>2, <3>1
  <2>. QED
    BY <2>1, <2>2
<1>. QED
  BY <1>2, <1>3 DEF ListsOk

\* A block handed out.
LEMMA CountsTake ==
  ASSUME SetFacts, NEW ca, NEW sb, NEW lv, CountsOk(ca, sb, lv), ca \in [Caches -> KRec],
         NEW c \in Caches, NEW p, p \notin DOMAIN lv, NEW h, h.cache = c, NEW k,
         k.inuse = ca[c].inuse + 1, k.totalobjs = ca[c].totalobjs,
         NEW sb2, \A d \in Caches : SlabsOf(sb2, d) = SlabsOf(sb, d)
  PROVE  CountsOk([ca EXCEPT ![c] = k], sb2, With(lv, p, h))
<1> USE Zenon
<1> DEFINE ca2 == [ca EXCEPT ![c] = k]
           lv2 == With(lv, p, h)
<1>1. ca2[c] = k /\ \A d \in Caches : d # c => ca2[d] = ca[d]
  OBVIOUS
<1>2. /\ DOMAIN lv2 = DOMAIN lv \cup {p} /\ lv2[p] = h
      /\ \A y \in DOMAIN lv : y # p => lv2[y] = lv[y]
  BY DEF With
<1> HIDE DEF ca2, lv2
<1>3. /\ IsFiniteSet(DOMAIN lv)
      /\ \A d \in Caches : /\ ca[d].inuse = Cardinality(LiveOf(lv, d))
                           /\ ca[d].totalobjs = ObjsPerSlab(d) * Cardinality(SlabsOf(sb, d))
  BY DEF CountsOk
<1>4. IsFiniteSet(DOMAIN lv2)
  BY <1>2, <1>3, CardAdd
<1>5. LiveOf(lv2, c) = LiveOf(lv, c) \cup {p} /\ p \notin LiveOf(lv, c)
  BY <1>2 DEF LiveOf
<1>6. \A d \in Caches : d # c => LiveOf(lv2, d) = LiveOf(lv, d)
  BY <1>2 DEF LiveOf
<1>7. Cardinality(LiveOf(lv2, c)) = Cardinality(LiveOf(lv, c)) + 1
  <2>1. IsFiniteSet(LiveOf(lv, c))
    BY <1>3, LiveFinite
  <2>. QED
    BY <1>5, <2>1, CardAdd, ZenonT(40)
<1>8. ASSUME NEW d \in Caches
      PROVE  /\ ca2[d].inuse = Cardinality(LiveOf(lv2, d))
             /\ ca2[d].totalobjs = ObjsPerSlab(d) * Cardinality(SlabsOf(sb2, d))
  <2>1. CASE d = c
    BY <1>1, <1>3, <1>7, <2>1
  <2>2. CASE d # c
    BY <1>1, <1>3, <1>6, <2>2
  <2>. QED
    BY <2>1, <2>2
<1>9. CountsOk(ca2, sb2, lv2)
  BY <1>4, <1>8 DEF CountsOk
<1>. QED
  BY <1>9 DEF ca2, lv2

\* A block given back.
LEMMA CountsGive ==
  ASSUME SetFacts, NEW ca, NEW sb, NEW lv, CountsOk(ca, sb, lv), ca \in [Caches -> KRec],
         NEW c \in Caches, NEW p \in DOMAIN lv, lv[p].cache = c, NEW k,
         k.inuse = ca[c].inuse - 1, k.totalobjs = ca[c].totalobjs,
         NEW sb2, \A d \in Caches : SlabsOf(sb2, d) = SlabsOf(sb, d)
  PROVE  CountsOk([ca EXCEPT ![c] = k], sb2, Drop(lv, p))
<1> USE Zenon
<1> DEFINE ca2 == [ca EXCEPT ![c] = k]
           lv2 == Drop(lv, p)
<1>1. ca2[c] = k /\ \A d \in Caches : d # c => ca2[d] = ca[d]
  OBVIOUS
<1>2. /\ DOMAIN lv2 = DOMAIN lv \ {p}
      /\ \A y \in DOMAIN lv : y # p => lv2[y] = lv[y]
  BY DEF Drop
<1> HIDE DEF ca2, lv2
<1>3. /\ IsFiniteSet(DOMAIN lv)
      /\ \A d \in Caches : /\ ca[d].inuse = Cardinality(LiveOf(lv, d))
                           /\ ca[d].totalobjs = ObjsPerSlab(d) * Cardinality(SlabsOf(sb, d))
  BY DEF CountsOk
<1>4. IsFiniteSet(DOMAIN lv2)
  BY <1>2, <1>3, CardRemove
<1>5. LiveOf(lv2, c) = LiveOf(lv, c) \ {p} /\ p \in LiveOf(lv, c)
  BY <1>2 DEF LiveOf
<1>6. \A d \in Caches : d # c => LiveOf(lv2, d) = LiveOf(lv, d)
  BY <1>2 DEF LiveOf
<1>7. Cardinality(LiveOf(lv2, c)) = Cardinality(LiveOf(lv, c)) - 1
  <2>1. IsFiniteSet(LiveOf(lv, c))
    BY <1>3, LiveFinite
  <2>. QED
    BY <1>5, <2>1, CardRemove
<1>8. ASSUME NEW d \in Caches
      PROVE  /\ ca2[d].inuse = Cardinality(LiveOf(lv2, d))
             /\ ca2[d].totalobjs = ObjsPerSlab(d) * Cardinality(SlabsOf(sb2, d))
  <2>1. CASE d = c
    BY <1>1, <1>3, <1>7, <2>1
  <2>2. CASE d # c
    BY <1>1, <1>3, <1>6, <2>2
  <2>. QED
    BY <2>1, <2>2
<1>9. CountsOk(ca2, sb2, lv2)
  BY <1>4, <1>8 DEF CountsOk
<1>. QED
  BY <1>9 DEF ca2, lv2

\* A new slab.
LEMMA CountsGrow ==
  ASSUME SetFacts, NEW ca, NEW sb, NEW lv, CountsOk(ca, sb, lv), ca \in [Caches -> KRec],
         NEW pc, SlabsOk(pc, sb), NEW c \in Caches, NEW k, k.inuse = ca[c].inuse,
         k.totalobjs = ca[c].totalobjs + ObjsPerSlab(c), NEW s, s \notin DOMAIN sb,
         NEW sb2, SlabsOf(sb2, c) = SlabsOf(sb, c) \cup {s},
         \A d \in Caches : d # c => SlabsOf(sb2, d) = SlabsOf(sb, d)
  PROVE  CountsOk([ca EXCEPT ![c] = k], sb2, lv)
<1> USE Zenon
<1> DEFINE ca2 == [ca EXCEPT ![c] = k]
           n == ObjsPerSlab(c)
           m == Cardinality(SlabsOf(sb, c))
<1>1. ca2[c] = k /\ \A d \in Caches : d # c => ca2[d] = ca[d]
  OBVIOUS
<1>2. /\ IsFiniteSet(DOMAIN lv)
      /\ \A d \in Caches : /\ ca[d].inuse = Cardinality(LiveOf(lv, d))
                           /\ ca[d].totalobjs = ObjsPerSlab(d) * Cardinality(SlabsOf(sb, d))
  BY DEF CountsOk
<1>3. IsFiniteSet(SlabsOf(sb, c)) /\ m \in Nat
  <2>1. SlabsOf(sb, c) \subseteq Page
    BY OnPages
  <2>2. 0 \in Int /\ NPages - 1 \in Int
    BY Consts, SMT
  <2>3. IsFiniteSet(Page)
    BY <2>2, CardInterval DEF Page
  <2>4. IsFiniteSet(SlabsOf(sb, c))
    BY <2>1, <2>3, CardSubset
  <2>. QED
    BY <2>4, CardNat
<1>4. Cardinality(SlabsOf(sb2, c)) = m + 1
  <2>1. s \notin SlabsOf(sb, c)
    BY DEF SlabsOf
  <2>. QED
    BY <1>3, <2>1, CardAdd
<1>5. n \in Nat
  BY ObjSizes, SMT
<1>6. n * m + n = n * (m + 1)
  <2> HIDE DEF n, m
  <2>. QED
    BY <1>3, <1>5, SMT
<1> HIDE DEF ca2
<1>7. ASSUME NEW d \in Caches
      PROVE  /\ ca2[d].inuse = Cardinality(LiveOf(lv, d))
             /\ ca2[d].totalobjs = ObjsPerSlab(d) * Cardinality(SlabsOf(sb2, d))
  <2>1. CASE d = c
    <3>1. k.totalobjs = n * m + n /\ k.inuse = Cardinality(LiveOf(lv, c))
      BY <1>2
    <3>. QED
      BY <1>1, <1>4, <1>6, <2>1, <3>1
  <2>2. CASE d # c
    BY <1>1, <1>2, <2>2
  <2>. QED
    BY <2>1, <2>2
<1>8. CountsOk(ca2, sb2, lv)
  BY <1>2, <1>7 DEF CountsOk
<1>. QED
  BY <1>8 DEF ca2

\* Blocks of whole pages are not counted.
LEMMA CountsRaw ==
  ASSUME SetFacts, NEW ca, NEW sb, NEW lv, CountsOk(ca, sb, lv), NEW p, NEW h
  PROVE  /\ p \notin DOMAIN lv /\ h.cache = None => CountsOk(ca, sb, With(lv, p, h))
         /\ p \in DOMAIN lv /\ lv[p].cache = None => CountsOk(ca, sb, Drop(lv, p))
<1> USE Zenon
<1>1. /\ IsFiniteSet(DOMAIN lv)
      /\ \A d \in Caches : /\ ca[d].inuse = Cardinality(LiveOf(lv, d))
                           /\ ca[d].totalobjs = ObjsPerSlab(d) * Cardinality(SlabsOf(sb, d))
  BY DEF CountsOk
<1>2. ASSUME p \notin DOMAIN lv, h.cache = None PROVE CountsOk(ca, sb, With(lv, p, h))
  <2> DEFINE lv2 == With(lv, p, h)
  <2>1. /\ DOMAIN lv2 = DOMAIN lv \cup {p} /\ lv2[p] = h
        /\ \A y \in DOMAIN lv : y # p => lv2[y] = lv[y]
    BY DEF With
  <2> HIDE DEF lv2
  <2>2. IsFiniteSet(DOMAIN lv2)
    BY <1>1, <2>1, CardAdd
  <2>3. \A d \in Caches : LiveOf(lv2, d) = LiveOf(lv, d)
    BY <1>2, <2>1, NoneIs DEF LiveOf
  <2>4. CountsOk(ca, sb, lv2)
    BY <1>1, <2>2, <2>3 DEF CountsOk
  <2>. QED
    BY <2>4 DEF lv2
<1>3. ASSUME p \in DOMAIN lv, lv[p].cache = None PROVE CountsOk(ca, sb, Drop(lv, p))
  <2> DEFINE lv2 == Drop(lv, p)
  <2>1. /\ DOMAIN lv2 = DOMAIN lv \ {p}
        /\ \A y \in DOMAIN lv : y # p => lv2[y] = lv[y]
    BY DEF Drop
  <2> HIDE DEF lv2
  <2>2. IsFiniteSet(DOMAIN lv2)
    BY <1>1, <2>1, CardRemove
  <2>3. \A d \in Caches : LiveOf(lv2, d) = LiveOf(lv, d)
    BY <1>3, <2>1, NoneIs DEF LiveOf
  <2>4. CountsOk(ca, sb, lv2)
    BY <1>1, <2>2, <2>3 DEF CountsOk
  <2>. QED
    BY <2>4 DEF lv2
<1>. QED
  BY <1>2, <1>3

\* An object handed out or given back changes no user of pages.
LEMMA OwnedTake ==
  ASSUME NEW pc, NEW sb, NEW lv, Owned(pc, sb, lv), NEW sb2, DOMAIN sb2 = DOMAIN sb,
         NEW p, p \notin DOMAIN lv, NEW h, h.cache # None
  PROVE  Owned(pc, sb2, With(lv, p, h))
<1> USE Zenon
<1> DEFINE lv2 == With(lv, p, h)
<1>1. /\ DOMAIN lv2 = DOMAIN lv \cup {p} /\ lv2[p] = h
      /\ \A y \in DOMAIN lv : y # p => lv2[y] = lv[y]
  BY DEF With
<1> HIDE DEF lv2
<1>2. \A s : Uses(s, sb2, lv2) <=> Uses(s, sb, lv)
  <2> SUFFICES ASSUME NEW s PROVE Uses(s, sb2, lv2) <=> Uses(s, sb, lv)
    OBVIOUS
  <2>1. (\E q \in DOMAIN lv2 : lv2[q].cache = None /\ lv2[q].raw_base = s)
          <=> \E q \in DOMAIN lv : lv[q].cache = None /\ lv[q].raw_base = s
    BY <1>1
  <2>. QED
    BY <2>1 DEF Uses
<1>3. Owned(pc, sb2, lv2)
  BY <1>2 DEF Owned
<1>. QED
  BY <1>3 DEF lv2

\* An object given back takes no page from anyone.
LEMMA OwnedGive ==
  ASSUME NEW pc, NEW sb, NEW lv, Owned(pc, sb, lv), NEW sb2, DOMAIN sb2 = DOMAIN sb,
         NEW p \in DOMAIN lv, lv[p].cache # None
  PROVE  Owned(pc, sb2, Drop(lv, p))
<1> USE Zenon
<1> DEFINE lv2 == Drop(lv, p)
<1>1. /\ DOMAIN lv2 = DOMAIN lv \ {p}
      /\ \A y \in DOMAIN lv : y # p => lv2[y] = lv[y]
  BY DEF Drop
<1> HIDE DEF lv2
<1>2. \A s : Uses(s, sb2, lv2) <=> Uses(s, sb, lv)
  <2> SUFFICES ASSUME NEW s PROVE Uses(s, sb2, lv2) <=> Uses(s, sb, lv)
    OBVIOUS
  <2>1. (\E q \in DOMAIN lv2 : lv2[q].cache = None /\ lv2[q].raw_base = s)
          <=> \E q \in DOMAIN lv : lv[q].cache = None /\ lv[q].raw_base = s
    BY <1>1
  <2>. QED
    BY <2>1 DEF Uses
<1>3. Owned(pc, sb2, lv2)
  BY <1>2 DEF Owned
<1>. QED
  BY <1>3 DEF lv2

-----------------------------------------------------------------------------
(* kmalloc and kfree, cache by cache                                       *)

\* cache_alloc on a slab with room.
LEMMA TakeKeeps ==
  ASSUME SetFacts, NEW bm, NEW pc, NEW ca, NEW sb, NEW lv, Inv(bm, pc, ca, sb, lv),
         NEW c \in Caches, NEW s \in DOMAIN sb, sb[s].cache = c, sb[s].free < ObjsPerSlab(c),
         NEW r, r = [sb[s] EXCEPT !.free = @ + 1],
         NEW p, p = ObjAddr(s, c, sb[s].bufctl[sb[s].free]),
         NEW h, h.cache = c, h.size \in Nat \ {0}, HdrSize + h.size <= ObjSize(c)
  PROVE  /\ p \notin DOMAIN lv
         /\ Inv(bm, pc, [ca EXCEPT ![c] = TakeFrom(ca[c], s, sb[s])], With(sb, s, r),
                With(lv, p, h))
<1> USE Zenon
<1> DEFINE sb2 == With(sb, s, r)
           lv2 == With(lv, p, h)
           k == TakeFrom(ca[c], s, sb[s])
           ca2 == [ca EXCEPT ![c] = k]
           f == sb[s].free
           n == ObjsPerSlab(c)
<1>1. /\ PagesOk(bm, pc) /\ SlabsOk(pc, sb) /\ LivesOk(pc, sb, lv) /\ StacksOk(sb, lv)
      /\ ListsOk(ca, sb) /\ CountsOk(ca, sb, lv) /\ Owned(pc, sb, lv)
  BY DEF Inv
<1>2. IsSlab(sb[s]) /\ s \in Page \ Fixed /\ pc[s] = SlabPages(c)
  BY <1>1 DEF SlabsOk
<1>3. IsSlab(r) /\ r.cache = c /\ r.free = f + 1 /\ r.bufctl = sb[s].bufctl
  BY <1>2, SlabUp
<1>4. p \notin DOMAIN lv /\ StacksOk(sb2, lv2) /\ sb[s].bufctl[f] \in Idx(c)
  <2>1. sb[s].free < ObjsPerSlab(sb[s].cache) /\ r.cache = sb[s].cache
        /\ p = ObjAddr(s, sb[s].cache, sb[s].bufctl[sb[s].free])
    BY <1>3
  <2>. QED
    BY <1>1, <1>3, <2>1, TakeStacks
<1>5. SlabsOk(pc, sb2)
  BY <1>1, <1>2, <1>3, SlabsWith
<1>6. DOMAIN sb2 = DOMAIN sb /\ SameSlabs(sb, sb2)
  BY <1>3 DEF With, SameSlabs
<1>7. LivesOk(pc, sb2, lv2)
  <2>1. LivesOk(pc, sb2, lv)
    BY <1>1, <1>6, LivesSame
  <2>2. sb2[s].cache = c /\ s \in DOMAIN sb2
    BY <1>3, <1>6 DEF SameSlabs
  <2> HIDE DEF sb2
  <2>3. IsObj(sb2, p, h)
    BY <1>4, <2>2 DEF IsObj
  <2>. QED
    BY <2>1, <2>3, LivesWith
<1> HIDE DEF ca2, sb2, lv2, k
<1>15. OfPut(sb, sb2, c, s, f + 1)
  <2>1. OfPut(sb, sb2, c, s, r.free)
    BY <1>3, OfWith DEF sb2
  <2>. QED
    BY <1>3, <2>1
<1>8. /\ FullOf(sb2, c) = PutIf(FullOf(sb, c), s, f + 1 = n)
      /\ PartialOf(sb2, c) = PutIf(PartialOf(sb, c), s, 0 < f + 1 /\ f + 1 < n)
      /\ EmptyOf(sb2, c) = PutIf(EmptyOf(sb, c), s, f + 1 = 0)
      /\ SlabsOf(sb2, c) = SlabsOf(sb, c) \cup {s}
      /\ \A d : d # c => /\ FullOf(sb2, d) = FullOf(sb, d)
                         /\ PartialOf(sb2, d) = PartialOf(sb, d)
                         /\ EmptyOf(sb2, d) = EmptyOf(sb, d)
                         /\ SlabsOf(sb2, d) = SlabsOf(sb, d)
  BY <1>15 DEF OfPut
<1>9. \A d \in Caches : SlabsOf(sb2, d) = SlabsOf(sb, d)
  <2>1. s \in SlabsOf(sb, c)
    BY DEF SlabsOf
  <2>. QED
    BY <1>8, <2>1
<1>10. ca \in [Caches -> KRec] /\ OnLists(ca[c], FullOf(sb, c), PartialOf(sb, c), EmptyOf(sb, c))
  BY <1>1 DEF ListsOk, OnLists
<1>11. /\ OnLists(k, FullOf(sb2, c), PartialOf(sb2, c), EmptyOf(sb2, c))
       /\ k.inuse = ca[c].inuse + 1 /\ k.totalobjs = ca[c].totalobjs
  <2>1. n \in Nat /\ f \in Nat /\ f < n
    <3>1. f \in 0 .. n
      BY <1>2 DEF IsSlab
    <3>. QED
      BY <3>1, ObjSizes, SMT
  <2>2. f > 0 => s \in PartialOf(sb, c) /\ s \notin FullOf(sb, c) /\ s \notin EmptyOf(sb, c)
    BY <2>1, SMT DEF PartialOf, FullOf, EmptyOf, SlabsOf
  <2>3. /\ FullOf(sb, c) \in SUBSET Page /\ PartialOf(sb, c) \in SUBSET Page
        /\ EmptyOf(sb, c) \in SUBSET Page
    BY <1>1, OnPages
  <2>4. ObjsPerSlab(sb[s].cache) = n /\ s \in Page
    BY <1>2
  <2> HIDE DEF n, f
  <2>5. /\ OnLists(k, PutIf(FullOf(sb, c), s, f + 1 = n),
                   PutIf(PartialOf(sb, c), s, 0 < f + 1 /\ f + 1 < n),
                   PutIf(EmptyOf(sb, c), s, f + 1 = 0))
        /\ k.inuse = ca[c].inuse + 1 /\ k.totalobjs = ca[c].totalobjs
    <3>1. sb[s].free = f
      BY DEF f
    <3>2. Filled(ca[c], FullOf(sb, c), PartialOf(sb, c), EmptyOf(sb, c), s, sb[s], f, n)
      <4>1. (0 < f /\ f < n) =>
              s \in PartialOf(sb, c) /\ s \notin FullOf(sb, c) /\ s \notin EmptyOf(sb, c)
        BY <2>1, <2>2, SMT
      <4>. QED
        BY <1>10, <2>1, <2>3, <2>4, <3>1, <4>1 DEF Filled
    <3>3. /\ Refilled(k, FullOf(sb, c), PartialOf(sb, c), EmptyOf(sb, c), s, f + 1, n)
          /\ k.inuse = ca[c].inuse + 1 /\ k.totalobjs = ca[c].totalobjs
      BY <2>1, <3>2, TakeLists, SMT DEF k
    <3>. QED
      BY <3>3 DEF Refilled
  <2>. QED
    BY <1>8, <2>5
<1>12. ListsOk(ca2, sb2)
  <2>1. \A d \in Caches : d # c => /\ FullOf(sb2, d) = FullOf(sb, d)
                                   /\ PartialOf(sb2, d) = PartialOf(sb, d)
                                   /\ EmptyOf(sb2, d) = EmptyOf(sb, d)
    BY <1>8
  <2>2. ca2 = [ca EXCEPT ![c] = k]
    BY DEF ca2
  <2>. QED
    BY <1>1, <1>11, <2>1, <2>2, ListsStep
<1>13. CountsOk(ca2, sb2, lv2)
  BY <1>1, <1>4, <1>9, <1>10, <1>11, CountsTake DEF ca2, lv2
<1>14. Owned(pc, sb2, lv2)
  BY <1>1, <1>4, <1>6, NoneIs, OwnedTake DEF lv2
<1>. QED
  BY <1>1, <1>4, <1>5, <1>7, <1>12, <1>13, <1>14 DEF Inv, ca2, k, sb2, lv2

\* A run that nobody uses is none of allocator_init's, no slab's and no block's.
LEMMA Unused ==
  ASSUME NEW pc, NEW sb, NEW lv, Owned(pc, sb, lv), NEW s \in Page, pc[s] = 0
  PROVE  /\ s \notin Fixed /\ s \notin DOMAIN sb
         /\ \A p \in DOMAIN lv : lv[p].cache = None => lv[p].raw_base # s
<1>1. ~(pc[s] > 0)
  OBVIOUS
<1>. QED
  BY <1>1, Zenon DEF Owned, Uses

\* No block in use begins in a run that was just taken.
LEMMA FreshApart ==
  ASSUME SetFacts, NEW bm, NEW pc, NEW sb, NEW lv, PagesOk(bm, pc), SlabsOk(pc, sb),
         LivesOk(pc, sb, lv), NEW s \in Page, pc[s] > 0, s \notin DOMAIN sb,
         \A p \in DOMAIN lv : lv[p].cache = None => lv[p].raw_base # s,
         NEW q \in Nat, NEW y \in Nat, y > 0, s * PageSize <= q,
         q + y <= (s + pc[s]) * PageSize
  PROVE  q \notin DOMAIN lv
<1> USE Zenon
<1> SUFFICES ASSUME q \in DOMAIN lv PROVE FALSE
  BY SMT
<1> DEFINE h == lv[q]
<1>1. h.size \in Nat \ {0} /\ (IsRaw(pc, sb, q, h) \/ IsObj(sb, q, h))
  BY DEF LivesOk
<1>2. PICK t \in Page : Home(pc, sb, q, h, t)
  BY <1>1, LiveHome
<1>3. t # s
  BY <1>2 DEF Home
<1>4. /\ pc[t] > 0 /\ t * PageSize <= q
      /\ q + HdrSize + h.size <= (t + pc[t]) * PageSize
  BY <1>2 DEF Home
<1> DEFINE z == HdrSize + h.size
           w == (t + pc[t]) * PageSize
<1>5. z \in Nat /\ z > 0 /\ q + z <= w
  <2> HIDE DEF w
  <2>1. q + HdrSize + h.size <= w
    BY <1>4 DEF w
  <2>. QED
    BY <1>1, <2>1, Consts, SMT
<1> HIDE DEF z, w
<1>6. q + z <= (t + pc[t]) * PageSize
  BY <1>5 DEF w
<1>7. q + y <= q \/ q + z <= q
  BY <1>3, <1>4, <1>5, <1>6, HomesApart
<1>. QED
  BY <1>5, <1>7, SMT

\* A new run has one more user.
LEMMA OwnedAdd ==
  ASSUME NEW pc, NEW sb, NEW lv, Owned(pc, sb, lv), pc \in [Page -> Nat], NEW s \in Page,
         NEW n \in Nat, n > 0, NEW sb2, NEW lv2,
         \A t : Uses(t, sb2, lv2) <=> Uses(t, sb, lv) \/ t = s
  PROVE  Owned([pc EXCEPT ![s] = n], sb2, lv2)
<1> USE Zenon
<1> DEFINE pc2 == [pc EXCEPT ![s] = n]
<1>1. pc2[s] = n /\ \A t \in Page : t # s => pc2[t] = pc[t]
  OBVIOUS
<1> HIDE DEF pc2
<1>2. ASSUME NEW t \in Page PROVE pc2[t] > 0 <=> Uses(t, sb2, lv2)
  <2>1. CASE t = s
    <3>1. pc2[t] > 0
      BY <1>1, <2>1
    <3>. QED
      BY <2>1, <3>1
  <2>2. CASE t # s
    BY <1>1, <2>2 DEF Owned
  <2>. QED
    BY <2>1, <2>2
<1>3. Fixed \subseteq Page
  BY DEF Owned
<1>4. Owned(pc2, sb2, lv2)
  BY <1>2, <1>3 DEF Owned
<1>. QED
  BY <1>4 DEF pc2

\* The stack of a new slab, whose objects are not in use.
LEMMA NewStack ==
  ASSUME SetFacts, NEW c \in Caches, NEW s, NEW lv,
         \A i \in Idx(c) : ObjAddr(s, c, i) \notin DOMAIN lv
  PROVE  StackOk(s, NewSlab(c), lv)
<1> USE Zenon
<1> DEFINE r == NewSlab(c)
<1>1. r.cache = c /\ r.free = 0 /\ r.bufctl = [i \in Idx(c) |-> i]
  BY NewIs
<1> HIDE DEF r
<1>2. Stack(r) = Idx(c) /\ \A i \in Idx(c) : r.bufctl[i] = i
  BY <1>1 DEF Stack, Idx
<1>3. StackOk(s, r, lv)
  BY <1>1, <1>2 DEF StackOk
<1>. QED
  BY <1>3 DEF r

\* cache_grow: a slab on pages that were free.
LEMMA GrowKeeps ==
  ASSUME SetFacts, NEW bm, NEW pc, NEW ca, NEW sb, NEW lv, Inv(bm, pc, ca, sb, lv),
         NEW c \in Caches, NEW s \in Page, NEW n, n = SlabPages(c), s + n <= NPages,
         \A x \in s .. s + n - 1 : x \notin bm
  PROVE  /\ s \notin DOMAIN sb
         /\ Inv(bm \cup (s .. s + n - 1), [pc EXCEPT ![s] = n],
                [ca EXCEPT ![c] = CacheGrow(ca[c], c, s)], With(sb, s, NewSlab(c)), lv)
<1> USE Zenon
<1> DEFINE r == NewSlab(c)
           bm2 == bm \cup (s .. s + n - 1)
           pc2 == [pc EXCEPT ![s] = n]
           sb2 == With(sb, s, r)
           k == CacheGrow(ca[c], c, s)
           ca2 == [ca EXCEPT ![c] = k]
<1>1. /\ PagesOk(bm, pc) /\ SlabsOk(pc, sb) /\ LivesOk(pc, sb, lv) /\ StacksOk(sb, lv)
      /\ ListsOk(ca, sb) /\ CountsOk(ca, sb, lv) /\ Owned(pc, sb, lv)
  BY DEF Inv
<1>2. pc \in [Page -> Nat] /\ n \in Nat \ {0} /\ n \in Nat /\ n > 0
  <2>1. SlabPages(c) \in Nat \ {0}
    BY ObjSizes, PagesCover DEF SlabPages
  <2>2. n \in Nat \ {0}
    BY <2>1
  <2>3. n \in Nat /\ n > 0
    BY <2>2, SMT
  <2>. QED
    BY <1>1, <2>2, <2>3 DEF PagesOk
<1>3. PagesOk(bm2, pc2) /\ pc[s] = 0
  BY <1>1, <1>2, AddPages
<1>4. /\ s \notin Fixed /\ s \notin DOMAIN sb
      /\ \A p \in DOMAIN lv : lv[p].cache = None => lv[p].raw_base # s
  BY <1>1, <1>3, Unused
<1>5. IsSlab(r) /\ r.cache = c /\ r.free = 0
  BY NewIs
<1>6. pc2[s] = n
  BY <1>2
<1>7. /\ DOMAIN sb2 = DOMAIN sb \cup {s} /\ sb2[s] = r
      /\ \A t \in DOMAIN sb : t # s => sb2[t] = sb[t]
  BY DEF With
<1>8. SlabsOk(pc2, sb)
  BY <1>1, <1>2, <1>4, SlabsCounts
<1>9. LivesOk(pc2, sb, lv)
  BY <1>1, <1>2, <1>3, LivesCounts
<1> HIDE DEF pc2, bm2, r
<1>10. SlabsOk(pc2, sb2)
  BY <1>4, <1>5, <1>6, <1>8, SlabsWith
<1>11. LivesOk(pc2, sb2, lv)
  BY <1>4, <1>9, LivesSlab
<1> HIDE DEF sb2
<1>12. ASSUME NEW i \in Idx(c) PROVE ObjAddr(s, c, i) \notin DOMAIN lv
  <2> DEFINE q == ObjAddr(s, c, i)
  <2>1. s \in DOMAIN sb2 /\ sb2[s].cache = c /\ i \in Idx(sb2[s].cache)
    BY <1>5, <1>7
  <2>2. /\ q \in Nat /\ pc2[s] > 0 /\ s * PageSize <= q
        /\ q + ObjSize(c) <= (s + pc2[s]) * PageSize
    BY <1>3, <1>10, <2>1, SlabSpan, SMTT(20)
  <2>3. ObjSize(c) \in Nat /\ ObjSize(c) > 0
    BY ObjSizes, SMT
  <2> HIDE DEF q
  <2>4. q \notin DOMAIN lv
    BY <1>3, <1>4, <1>8, <1>9, <2>2, <2>3, FreshApart
  <2>. QED
    BY <2>4 DEF q
<1>13. StacksOk(sb2, lv)
  <2>1. StackOk(s, r, lv)
    BY <1>12, NewStack DEF r
  <2>2. \A t \in DOMAIN sb : StackOk(t, sb[t], lv)
    BY <1>1 DEF StacksOk
  <2> SUFFICES ASSUME NEW t \in DOMAIN sb2 PROVE StackOk(t, sb2[t], lv)
    BY DEF StacksOk
  <2>3. CASE t = s
    BY <1>7, <2>1, <2>3
  <2>4. CASE t # s
    BY <1>7, <2>2, <2>4
  <2>. QED
    BY <2>3, <2>4
<1>14. OfPut(sb, sb2, c, s, 0)
  <2>1. OfPut(sb, sb2, c, s, r.free)
    BY <1>4, <1>5, OfWith DEF sb2
  <2>. QED
    BY <1>5, <2>1
<1>15. /\ FullOf(sb2, c) = FullOf(sb, c) /\ PartialOf(sb2, c) = PartialOf(sb, c)
       /\ EmptyOf(sb2, c) = EmptyOf(sb, c) \cup {s} /\ s \notin EmptyOf(sb, c)
  <2>1. s \notin FullOf(sb, c) /\ s \notin PartialOf(sb, c) /\ s \notin EmptyOf(sb, c)
    BY <1>4 DEF FullOf, PartialOf, EmptyOf, SlabsOf
  <2>2. ObjsPerSlab(c) # 0 /\ ~(0 < 0)
    BY ObjSizes, SMT
  <2>. QED
    BY <1>14, <2>1, <2>2 DEF OfPut, PutIf
<1>16. /\ SlabsOf(sb2, c) = SlabsOf(sb, c) \cup {s}
       /\ \A d \in Caches : d # c => /\ FullOf(sb2, d) = FullOf(sb, d)
                                     /\ PartialOf(sb2, d) = PartialOf(sb, d)
                                     /\ EmptyOf(sb2, d) = EmptyOf(sb, d)
       /\ \A d \in Caches : d # c => SlabsOf(sb2, d) = SlabsOf(sb, d)
  BY <1>14 DEF OfPut
<1>17. ca \in [Caches -> KRec] /\ OnLists(ca[c], FullOf(sb, c), PartialOf(sb, c), EmptyOf(sb, c))
  BY <1>1 DEF ListsOk, OnLists
<1>18. /\ OnLists(k, FullOf(sb, c), PartialOf(sb, c), EmptyOf(sb, c) \cup {s})
       /\ k.inuse = ca[c].inuse /\ k.totalobjs = ca[c].totalobjs + ObjsPerSlab(c)
  <2>1. EmptyOf(sb, c) \in SUBSET Page
    BY <1>1, OnPages
  <2>2. s \in Page \ EmptyOf(sb, c)
    BY <1>15
  <2>. QED
    BY <1>17, <2>1, <2>2, GrowLists, SMTT(20)
<1> HIDE DEF k, ca2
<1>19. OnLists(k, FullOf(sb2, c), PartialOf(sb2, c), EmptyOf(sb2, c))
  BY <1>15, <1>18
<1>20. ListsOk(ca2, sb2)
  <2>1. ca2 = [ca EXCEPT ![c] = k]
    BY DEF ca2
  <2>. QED
    BY <1>1, <1>16, <1>19, <2>1, ListsStep
<1>21. CountsOk(ca2, sb2, lv)
  BY <1>1, <1>4, <1>16, <1>17, <1>18, CountsGrow DEF ca2
<1>22. Owned(pc2, sb2, lv)
  <2>1. \A t : Uses(t, sb2, lv) <=> Uses(t, sb, lv) \/ t = s
    BY <1>7 DEF Uses
  <2>. QED
    BY <1>1, <1>2, <2>1, OwnedAdd DEF pc2
<1>. QED
  BY <1>3, <1>4, <1>10, <1>11, <1>13, <1>20, <1>21, <1>22
     DEF Inv, bm2, pc2, ca2, k, sb2, r

\* A block of whole pages does not matter to the stacks.
LEMMA RawStacks ==
  ASSUME SetFacts, NEW bm, NEW pc, NEW sb, PagesOk(bm, pc), SlabsOk(pc, sb), NEW p, NEW h,
         IsRaw(pc, sb, p, h), h.size \in Nat \ {0},
         NEW lv, StacksOk(sb, lv), NEW lv2, DOMAIN lv2 \ {p} = DOMAIN lv \ {p}
  PROVE  StacksOk(sb, lv2)
<1> USE Zenon
<1> SUFFICES ASSUME NEW t \in DOMAIN sb PROVE StackOk(t, sb[t], lv2)
  BY DEF StacksOk
<1>1. StackOk(t, sb[t], lv)
  BY DEF StacksOk
<1>2. \A i \in Idx(sb[t].cache) : ObjAddr(t, sb[t].cache, i) # p
  BY RawNoObj
<1>3. \A i \in Idx(sb[t].cache) :
        ObjAddr(t, sb[t].cache, i) \in DOMAIN lv2 <=> ObjAddr(t, sb[t].cache, i) \in DOMAIN lv
  BY <1>2
<1>. QED
  BY <1>1, <1>3 DEF StackOk

\* kmalloc of whole pages that were free.
LEMMA RawTaken ==
  ASSUME SetFacts, NEW bm, NEW pc, NEW ca, NEW sb, NEW lv, Inv(bm, pc, ca, sb, lv),
         NEW s \in Page, NEW h, h.cache = None, h.raw_base = s, h.size \in Nat \ {0},
         NEW n, n = PagesOf(RawBytes(h.size)), s + n <= NPages,
         \A x \in s .. s + n - 1 : x \notin bm, NEW p, p = RawAt(s)
  PROVE  /\ p \notin DOMAIN lv
         /\ Inv(bm \cup (s .. s + n - 1), [pc EXCEPT ![s] = n], ca, sb, With(lv, p, h))
<1> USE Zenon
<1> DEFINE bm2 == bm \cup (s .. s + n - 1)
           pc2 == [pc EXCEPT ![s] = n]
           lv2 == With(lv, p, h)
<1>1. /\ PagesOk(bm, pc) /\ SlabsOk(pc, sb) /\ LivesOk(pc, sb, lv) /\ StacksOk(sb, lv)
      /\ ListsOk(ca, sb) /\ CountsOk(ca, sb, lv) /\ Owned(pc, sb, lv)
  BY DEF Inv
<1>2. pc \in [Page -> Nat] /\ n \in Nat \ {0} /\ n \in Nat /\ n > 0
  <2>1. s \in Nat
    BY SMT DEF Page
  <2>2. PagesOf(RawBytes(h.size)) \in Nat \ {0}
    BY <2>1, RawInside
  <2>3. n \in Nat \ {0}
    BY <2>2
  <2>4. n \in Nat /\ n > 0
    BY <2>3, SMT
  <2>. QED
    BY <1>1, <2>3, <2>4 DEF PagesOk
<1>3. PagesOk(bm2, pc2) /\ pc[s] = 0
  BY <1>1, <1>2, AddPages
<1>4. /\ s \notin Fixed /\ s \notin DOMAIN sb
      /\ \A q \in DOMAIN lv : lv[q].cache = None => lv[q].raw_base # s
  BY <1>1, <1>3, Unused
<1>5. pc2[s] = n
  BY <1>2
<1>6. SlabsOk(pc2, sb)
  BY <1>1, <1>2, <1>4, SlabsCounts
<1>7. LivesOk(pc2, sb, lv)
  BY <1>1, <1>2, <1>3, LivesCounts
<1> HIDE DEF pc2, bm2
<1>8. IsRaw(pc2, sb, p, h)
  BY <1>4, <1>5 DEF IsRaw
<1>9. p \notin DOMAIN lv
  <2> DEFINE z == HdrSize + h.size
  <2>1. /\ p \in Nat /\ pc2[s] > 0 /\ s * PageSize <= p
        /\ p + HdrSize + h.size <= (s + pc2[s]) * PageSize
    BY <1>8, RawSpan, SMT
  <2>2. z \in Nat /\ z > 0 /\ p + HdrSize + h.size = p + z
    <3>1. h.size \in Nat /\ h.size > 0
      BY SMT
    <3>. QED
      BY <2>1, <3>1, Consts, SMTT(20)
  <2> HIDE DEF z
  <2>3. p + z <= (s + pc2[s]) * PageSize
    BY <2>1, <2>2
  <2>. QED
    BY <1>3, <1>4, <1>6, <1>7, <2>1, <2>2, <2>3, FreshApart
<1>10. LivesOk(pc2, sb, lv2)
  BY <1>7, <1>8, LivesWith
<1>11. /\ DOMAIN lv2 = DOMAIN lv \cup {p} /\ lv2[p] = h
       /\ \A q \in DOMAIN lv : q # p => lv2[q] = lv[q]
  BY DEF With
<1>12. CountsOk(ca, sb, lv2)
  BY <1>1, <1>9, CountsRaw
<1> HIDE DEF lv2
<1>13. StacksOk(sb, lv2)
  <2>1. DOMAIN lv2 \ {p} = DOMAIN lv \ {p}
    BY <1>11
  <2>. QED
    BY <1>1, <1>3, <1>6, <1>8, <2>1, RawStacks
<1>14. Owned(pc2, sb, lv2)
  <2>1. \A t : Uses(t, sb, lv2) <=> Uses(t, sb, lv) \/ t = s
    <3> SUFFICES ASSUME NEW t PROVE Uses(t, sb, lv2) <=> Uses(t, sb, lv) \/ t = s
      OBVIOUS
    <3>1. (\E q \in DOMAIN lv2 : lv2[q].cache = None /\ lv2[q].raw_base = t)
            <=> (\E q \in DOMAIN lv : lv[q].cache = None /\ lv[q].raw_base = t) \/ t = s
      BY <1>9, <1>11
    <3>. QED
      BY <3>1 DEF Uses
  <2>. QED
    BY <1>1, <1>2, <2>1, OwnedAdd DEF pc2
<1>. QED
  BY <1>1, <1>3, <1>6, <1>9, <1>10, <1>12, <1>13, <1>14 DEF Inv, bm2, pc2, lv2

\* kfree of whole pages.
LEMMA RawFreed ==
  ASSUME SetFacts, NEW bm, NEW pc, NEW ca, NEW sb, NEW lv, Inv(bm, pc, ca, sb, lv),
         NEW p \in DOMAIN lv, lv[p].cache = None, NEW s, s = lv[p].raw_base
  PROVE  Inv(bm \ (s .. s + pc[s] - 1), [pc EXCEPT ![s] = 0], ca, sb, Drop(lv, p))
<1> USE Zenon
<1> DEFINE bm2 == bm \ (s .. s + pc[s] - 1)
           pc2 == [pc EXCEPT ![s] = 0]
           lv2 == Drop(lv, p)
           h == lv[p]
<1>1. /\ PagesOk(bm, pc) /\ SlabsOk(pc, sb) /\ LivesOk(pc, sb, lv) /\ StacksOk(sb, lv)
      /\ ListsOk(ca, sb) /\ CountsOk(ca, sb, lv) /\ Owned(pc, sb, lv)
  BY DEF Inv
<1>2. h.size \in Nat \ {0} /\ IsRaw(pc, sb, p, h)
  BY <1>1, NoneIs DEF LivesOk, IsObj
<1>3. s \in Page \ Fixed /\ s \notin DOMAIN sb /\ p = RawAt(s) /\ pc \in [Page -> Nat]
  BY <1>1, <1>2 DEF IsRaw, PagesOk
<1>4. PagesOk(bm2, pc2)
  BY <1>1, <1>3, FreePages
<1>5. SlabsOk(pc2, sb)
  BY <1>1, <1>3, SlabsCounts
<1>6. pc2[s] = 0 /\ \A t \in Page : t # s => pc2[t] = pc[t]
  BY <1>3
<1>7. DOMAIN lv2 = DOMAIN lv \ {p} /\ \A q \in DOMAIN lv : q # p => lv2[q] = lv[q]
  BY DEF Drop
<1>8. CountsOk(ca, sb, lv2)
  BY <1>1, CountsRaw
<1> HIDE DEF bm2, pc2, lv2
<1>10. StacksOk(sb, lv2)
  <2>1. DOMAIN lv2 \ {p} = DOMAIN lv \ {p}
    BY <1>7
  <2>. QED
    BY <1>1, <1>2, <2>1, RawStacks
<1>11. ASSUME NEW q \in DOMAIN lv, q # p, lv[q].cache = None
       PROVE  IsRaw(pc, sb, q, lv[q]) /\ lv[q].raw_base # s
  <2>1. IsRaw(pc, sb, q, lv[q])
    BY <1>1, <1>11, NoneIs DEF LivesOk, IsObj
  <2>2. q = RawAt(lv[q].raw_base)
    BY <2>1 DEF IsRaw
  <2>. QED
    BY <1>3, <1>11, <2>1, <2>2
<1>12. LivesOk(pc2, sb, lv2)
  <2> SUFFICES ASSUME NEW q \in DOMAIN lv2
               PROVE  /\ lv2[q].size \in Nat \ {0}
                      /\ IsRaw(pc2, sb, q, lv2[q]) \/ IsObj(sb, q, lv2[q])
    BY DEF LivesOk
  <2>1. q \in DOMAIN lv /\ q # p /\ lv2[q] = lv[q]
    BY <1>7
  <2>2. lv[q].size \in Nat \ {0} /\ (IsRaw(pc, sb, q, lv[q]) \/ IsObj(sb, q, lv[q]))
    BY <1>1, <2>1 DEF LivesOk
  <2>3. IsRaw(pc, sb, q, lv[q]) => IsRaw(pc2, sb, q, lv[q])
    BY <1>6, <1>11, <2>1 DEF IsRaw
  <2>. QED
    BY <2>1, <2>2, <2>3
<1>13. Owned(pc2, sb, lv2)
  <2>1. Fixed \subseteq Page /\ \A t \in Page : pc[t] > 0 <=> Uses(t, sb, lv)
    BY <1>1 DEF Owned
  <2>2. ASSUME NEW t \in Page PROVE pc2[t] > 0 <=> Uses(t, sb, lv2)
    <3>1. CASE t = s
      <4>1. ~Uses(s, sb, lv2)
        BY <1>3, <1>7, <1>11 DEF Uses
      <4>2. ~(pc2[s] > 0)
        BY <1>6, SMT
      <4>. QED
        BY <3>1, <4>1, <4>2
    <3>2. CASE t # s
      <4>1. (\E q \in DOMAIN lv2 : lv2[q].cache = None /\ lv2[q].raw_base = t)
              <=> \E q \in DOMAIN lv : lv[q].cache = None /\ lv[q].raw_base = t
        BY <1>7, <3>2
      <4>2. Uses(t, sb, lv2) <=> Uses(t, sb, lv)
        BY <4>1 DEF Uses
      <4>. QED
        BY <1>6, <2>1, <3>2, <4>2
    <3>. QED
      BY <3>1, <3>2
  <2>. QED
    BY <2>1, <2>2 DEF Owned
<1>. QED
  BY <1>1, <1>4, <1>5, <1>8, <1>10, <1>12, <1>13 DEF Inv, bm2, pc2, lv2

\* cache_dealloc_within for an object in use.
LEMMA GiveKeeps ==
  ASSUME SetFacts, NEW bm, NEW pc, NEW ca, NEW sb, NEW lv, Inv(bm, pc, ca, sb, lv),
         NEW c \in Caches, NEW s \in DOMAIN sb, sb[s].cache = c, NEW i \in Idx(c),
         NEW p \in DOMAIN lv, p = ObjAddr(s, c, i), lv[p].cache = c,
         NEW r, r = PushFree(sb[s], s, p)
  PROVE  Inv(bm, pc, [ca EXCEPT ![c] = GiveTo(ca[c], s, sb[s])], With(sb, s, r), Drop(lv, p))
<1> USE Zenon
<1> DEFINE sb2 == With(sb, s, r)
           lv2 == Drop(lv, p)
           k == GiveTo(ca[c], s, sb[s])
           ca2 == [ca EXCEPT ![c] = k]
           f == sb[s].free
           n == ObjsPerSlab(c)
<1>1. /\ PagesOk(bm, pc) /\ SlabsOk(pc, sb) /\ LivesOk(pc, sb, lv) /\ StacksOk(sb, lv)
      /\ ListsOk(ca, sb) /\ CountsOk(ca, sb, lv) /\ Owned(pc, sb, lv)
  BY DEF Inv
<1>2. IsSlab(sb[s]) /\ s \in Page \ Fixed /\ pc[s] = SlabPages(c) /\ StackOk(s, sb[s], lv)
  BY <1>1 DEF SlabsOk, StacksOk
<1>3. f # 0 /\ i \in Idx(sb[s].cache) /\ p = ObjAddr(s, sb[s].cache, i)
  BY <1>2, InUse
<1>4. /\ IsSlab(r) /\ r.cache = sb[s].cache /\ r.cache = c /\ r.free = f - 1
      /\ r.bufctl = [sb[s].bufctl EXCEPT ![f - 1] = i]
  <2>1. s \in Nat
    BY <1>2, SMT DEF Page
  <2>2. r = PushFree(sb[s], s, ObjAddr(s, sb[s].cache, i))
    BY <1>3
  <2>3. Pushed(r, sb[s], i)
    BY <1>2, <1>3, <2>1, <2>2, PushIs
  <2>. QED
    BY <2>3 DEF Pushed
<1>5. StacksOk(sb2, lv2)
  BY <1>1, <1>3, <1>4, GiveStacks
<1>6. SlabsOk(pc, sb2)
  BY <1>1, <1>2, <1>4, SlabsWith
<1>7. DOMAIN sb2 = DOMAIN sb /\ SameSlabs(sb, sb2)
  BY <1>4 DEF With, SameSlabs
<1>8. LivesOk(pc, sb2, lv2)
  BY <1>1, <1>7, LivesSame, LivesDrop
<1> HIDE DEF ca2, sb2, lv2, k
<1>9. OfPut(sb, sb2, c, s, f - 1)
  <2>1. OfPut(sb, sb2, c, s, r.free)
    BY <1>4, OfWith DEF sb2
  <2>. QED
    BY <1>4, <2>1
<1>10. /\ FullOf(sb2, c) = PutIf(FullOf(sb, c), s, f - 1 = n)
       /\ PartialOf(sb2, c) = PutIf(PartialOf(sb, c), s, 0 < f - 1 /\ f - 1 < n)
       /\ EmptyOf(sb2, c) = PutIf(EmptyOf(sb, c), s, f - 1 = 0)
       /\ SlabsOf(sb2, c) = SlabsOf(sb, c) \cup {s}
       /\ \A d \in Caches : d # c => /\ FullOf(sb2, d) = FullOf(sb, d)
                                     /\ PartialOf(sb2, d) = PartialOf(sb, d)
                                     /\ EmptyOf(sb2, d) = EmptyOf(sb, d)
       /\ \A d : d # c => SlabsOf(sb2, d) = SlabsOf(sb, d)
  BY <1>9 DEF OfPut
<1>11. \A d \in Caches : SlabsOf(sb2, d) = SlabsOf(sb, d)
  <2>1. s \in SlabsOf(sb, c)
    BY DEF SlabsOf
  <2>. QED
    BY <1>10, <2>1
<1>12. ca \in [Caches -> KRec] /\ OnLists(ca[c], FullOf(sb, c), PartialOf(sb, c), EmptyOf(sb, c))
  BY <1>1 DEF ListsOk, OnLists
<1>13. /\ OnLists(k, FullOf(sb2, c), PartialOf(sb2, c), EmptyOf(sb2, c))
       /\ k.inuse = ca[c].inuse - 1 /\ k.totalobjs = ca[c].totalobjs
  <2>1. n \in Nat /\ f \in Nat /\ 0 < f /\ f <= n
    <3>1. f \in 0 .. n
      BY <1>2 DEF IsSlab
    <3>. QED
      BY <1>3, <3>1, ObjSizes, SMTT(20)
  <2>2. f < n => s \in PartialOf(sb, c) /\ s \notin FullOf(sb, c) /\ s \notin EmptyOf(sb, c)
    BY <2>1, SMT DEF PartialOf, FullOf, EmptyOf, SlabsOf
  <2>3. /\ FullOf(sb, c) \in SUBSET Page /\ PartialOf(sb, c) \in SUBSET Page
        /\ EmptyOf(sb, c) \in SUBSET Page
    BY <1>1, OnPages
  <2>4. ObjsPerSlab(sb[s].cache) = n /\ s \in Page
    BY <1>2, ZenonT(40)
  <2> HIDE DEF n, f
  <2>5. /\ OnLists(k, PutIf(FullOf(sb, c), s, f - 1 = n),
                   PutIf(PartialOf(sb, c), s, 0 < f - 1 /\ f - 1 < n),
                   PutIf(EmptyOf(sb, c), s, f - 1 = 0))
        /\ k.inuse = ca[c].inuse - 1 /\ k.totalobjs = ca[c].totalobjs
    <3>1. sb[s].free = f
      BY ZenonT(40) DEF f
    <3>2. Filled(ca[c], FullOf(sb, c), PartialOf(sb, c), EmptyOf(sb, c), s, sb[s], f, n)
      BY <1>12, <2>1, <2>2, <2>3, <2>4, <3>1 DEF Filled
    <3>3. /\ Refilled(k, FullOf(sb, c), PartialOf(sb, c), EmptyOf(sb, c), s, f - 1, n)
          /\ k.inuse = ca[c].inuse - 1 /\ k.totalobjs = ca[c].totalobjs
      BY <2>1, <3>2, GiveLists, SMTT(20) DEF k
    <3>. QED
      BY <3>3 DEF Refilled
  <2>. QED
    BY <1>10, <2>5
<1>14. ListsOk(ca2, sb2)
  <2>1. /\ ListsOk(ca, sb) /\ OnLists(k, FullOf(sb2, c), PartialOf(sb2, c), EmptyOf(sb2, c))
        /\ \A d \in Caches : d # c => /\ FullOf(sb2, d) = FullOf(sb, d)
                                      /\ PartialOf(sb2, d) = PartialOf(sb, d)
                                      /\ EmptyOf(sb2, d) = EmptyOf(sb, d)
    BY <1>1, <1>10, <1>13
  <2>2. ca2 = [ca EXCEPT ![c] = k]
    BY DEF ca2
  <2>. QED
    BY <2>1, <2>2, ListsStep
<1>15. CountsOk(ca2, sb2, lv2)
  BY <1>1, <1>11, <1>12, <1>13, CountsGive DEF ca2, lv2
<1>16. Owned(pc, sb2, lv2)
  BY <1>1, <1>7, NoneIs, OwnedGive DEF lv2
<1>. QED
  BY <1>1, <1>5, <1>6, <1>8, <1>14, <1>15, <1>16 DEF Inv, ca2, k, sb2, lv2

-----------------------------------------------------------------------------
(* The invariant holds                                                     *)

\* kernel_malloc takes free pages.
LEMMA TakesPages ==
  ASSUME SetFacts, IInv, NEW b \in Nat \ {0}, KernelMalloc(b), NEW s, s = KernelMallocAt(b),
         NEW n, n = PagesOf(b)
  PROVE  /\ s \in Page /\ s + n <= NPages /\ \A x \in s .. s + n - 1 : x \notin bitmap
         /\ bitmap' = bitmap \cup (s .. s + n - 1)
         /\ page_counts' = [page_counts EXCEPT ![s] = n] /\ held' \in [Page -> Nat]
<1> USE Zenon
<1>1. n \in Nat \ {0}
  BY PagesCover
<1>2. /\ P!CanFit(n) /\ bitmap' = bitmap \cup P!Run(s, n)
      /\ page_counts' = [page_counts EXCEPT ![s] = n] /\ held' = [held EXCEPT ![s] = n]
  BY DEF KernelMalloc, KernelMallocAt, P!Kalloc, PagesOf
<1>3. s = P!FirstFit(n)
  BY DEF KernelMallocAt, PagesOf
<1>4. s \in Page /\ s + n <= NPages /\ \A x \in s .. s + n - 1 : x \notin bitmap
  BY <1>1, <1>2, <1>3, FitIs
<1>5. P!Run(s, n) = s .. s + n - 1
  BY DEF P!Run
<1>6. held' \in [Page -> Nat]
  BY <1>1, <1>2 DEF IInv
<1>. QED
  BY <1>2, <1>4, <1>5, <1>6

\* The cache picked for a block holds it, header included.
LEMMA Picked ==
  ASSUME SetFacts, NEW size \in Sizes, size # 0, PickCache(HdrSize + size) # None
  PROVE  /\ size \in Nat \ {0} /\ PickCache(HdrSize + size) \in Caches
         /\ HdrSize + size <= ObjSize(PickCache(HdrSize + size))
<1> DEFINE c == PickCache(HdrSize + size)
<1>1. size \in Nat /\ HdrSize + size \in Nat /\ size \in Nat \ {0}
  BY Consts
<1>2. c \in Caches /\ HdrSize + size <= CacheBytes[c]
  BY <1>1, PickIs, Zenon
<1> HIDE DEF c
<1>3. CacheBytes[c] <= ObjSize(c) /\ ObjSize(c) \in Nat /\ CacheBytes[c] \in Nat
  BY <1>2, ObjSizes, CacheBytesType
<1>4. HdrSize + size <= ObjSize(c)
  BY <1>1, <1>2, <1>3
<1>. QED
  BY <1>1, <1>2, <1>4, Zenon DEF c

\* The slab that cache_select returns has room.
LEMMA Selected ==
  ASSUME SetFacts, NEW ca, NEW sb, ListsOk(ca, sb), NEW c \in Caches,
         ca[c].partial # <<>> \/ ca[c].free # <<>>, NEW s, s = CacheSelect(ca[c])
  PROVE  s \in DOMAIN sb /\ sb[s].cache = c /\ sb[s].free < ObjsPerSlab(c)
<1> USE Zenon
<1> DEFINE k == ca[c]
<1>1. Lists(k.partial, PartialOf(sb, c)) /\ Lists(k.free, EmptyOf(sb, c))
  BY DEF ListsOk, Listed
<1>2. ASSUME NEW T, NEW l, Lists(l, T), l # <<>> PROVE l[1] \in T
  <2>1. l \in Seq(T)
    BY <1>2 DEF Lists
  <2>. QED
    BY <1>2, <2>1, SMTT(20)
<1>3. CASE k.partial # <<>>
  <2>1. s \in PartialOf(sb, c)
    BY <1>1, <1>2, <1>3 DEF CacheSelect
  <2>. QED
    BY <2>1 DEF PartialOf, SlabsOf
<1>4. CASE ~(k.partial # <<>>)
  <2>1. s \in EmptyOf(sb, c)
    BY <1>1, <1>2, <1>4 DEF CacheSelect
  <2>2. s \in DOMAIN sb /\ sb[s].cache = c /\ sb[s].free = 0
    BY <2>1 DEF EmptyOf, SlabsOf
  <2>3. 0 < ObjsPerSlab(c)
    BY ObjSizes, SMTT(20)
  <2>. QED
    BY <2>2, <2>3
<1>. QED
  BY <1>3, <1>4

\* What kmalloc and kfree do to the blocks in use.
Takes(p, h) == p \notin DOMAIN live /\ live' = With(live, p, h)
Gives(p) == p \in DOMAIN live /\ live' = Drop(live, p)

\* kmalloc from a slab that has room.
LEMMA StepSlab ==
  ASSUME SetFacts, IInv, NEW size \in Sizes, KmallocSlab(size)
  PROVE  IInv' /\ SameSlabs(slab, slab') /\ \E p, h : Takes(p, h)
<1> USE Zenon
<1> DEFINE c == PickCache(HdrSize + size)
           s == CacheSelect(cache[c])
           r == [slab[s] EXCEPT !.free = @ + 1]
           p == ObjAddr(s, c, slab[s].bufctl[slab[s].free])
           h == [size |-> size, cache |-> c, raw_base |-> 0]
<1>1. /\ size # 0 /\ c # None /\ (cache[c].partial # <<>> \/ cache[c].free # <<>>)
      /\ cache' = [cache EXCEPT ![c] = TakeFrom(cache[c], s, slab[s])]
      /\ slab' = With(slab, s, r) /\ live' = With(live, p, h)
      /\ bitmap' = bitmap /\ page_counts' = page_counts /\ held' = held
  BY DEF KmallocSlab, HasRoom, Take, pages
<1>2. size \in Nat \ {0} /\ c \in Caches /\ HdrSize + size <= ObjSize(c)
  BY <1>1, Picked
<1>3. Inv(bitmap, page_counts, cache, slab, live) /\ held \in [Page -> Nat]
  BY DEF IInv
<1> HIDE DEF c
<1>4. s \in DOMAIN slab /\ slab[s].cache = c /\ slab[s].free < ObjsPerSlab(c)
  BY <1>1, <1>2, <1>3, Selected DEF Inv
<1>5. h.cache = c /\ h.size = size
  BY SMT
<1> HIDE DEF s, h
<1>6. h.size \in Nat \ {0} /\ HdrSize + h.size <= ObjSize(c)
  BY <1>2, <1>5
<1>7. r = [slab[s] EXCEPT !.free = @ + 1]
  BY SMT
<1> HIDE DEF r
<1>8. /\ p \notin DOMAIN live
      /\ Inv(bitmap, page_counts, [cache EXCEPT ![c] = TakeFrom(cache[c], s, slab[s])],
             With(slab, s, r), With(live, p, h))
  BY <1>2, <1>3, <1>4, <1>5, <1>6, <1>7, TakeKeeps, ZenonT(40)
<1>9. IInv'
  BY <1>1, <1>3, <1>8 DEF IInv
<1>10. SameSlabs(slab, slab')
  <2>1. r.cache = slab[s].cache
    <3>1. IsSlab(slab[s])
      BY <1>3, <1>4 DEF Inv, SlabsOk
    <3>. QED
      BY <1>4, <1>7, <3>1, SlabUp
  <2>. QED
    BY <1>1, <1>4, <2>1 DEF SameSlabs, With
<1>. QED
  BY <1>1, <1>8, <1>9, <1>10 DEF Takes

\* kmalloc that first adds a slab.
LEMMA StepGrow ==
  ASSUME SetFacts, IInv, NEW size \in Sizes, KmallocGrow(size)
  PROVE  /\ IInv' /\ \E p, h : Takes(p, h)
         /\ \E c \in Caches : ~HasRoom(c) /\ \E k : cache' = [cache EXCEPT ![c] = k]
<1> USE Zenon
<1> DEFINE c == PickCache(HdrSize + size)
           b == SlabMem(ObjSize(c))
           s == KernelMallocAt(b)
           n == SlabPages(c)
           k == CacheGrow(cache[c], c, s)
           sl == NewSlab(c)
           r == [sl EXCEPT !.free = @ + 1]
           p == ObjAddr(s, c, sl.bufctl[sl.free])
           h == [size |-> size, cache |-> c, raw_base |-> 0]
           ca1 == [cache EXCEPT ![c] = k]
           sb1 == With(slab, s, sl)
<1>1. /\ size # 0 /\ c # None /\ ~HasRoom(c) /\ KernelMalloc(b)
      /\ cache' = [cache EXCEPT ![c] = TakeFrom(k, s, sl)]
      /\ slab' = With(slab, s, r) /\ live' = With(live, p, h)
  BY DEF KmallocGrow, Take
<1>2. size \in Nat \ {0} /\ c \in Caches /\ HdrSize + size <= ObjSize(c)
  BY <1>1, Picked
<1>3. Inv(bitmap, page_counts, cache, slab, live)
  BY DEF IInv
<1> HIDE DEF c
<1>4. b \in Nat \ {0} /\ n = PagesOf(b)
  BY <1>2, ObjSizes DEF SlabPages
<1> HIDE DEF b
<1>5. /\ s \in Page /\ s + n <= NPages /\ \A x \in s .. s + n - 1 : x \notin bitmap
      /\ bitmap' = bitmap \cup (s .. s + n - 1)
      /\ page_counts' = [page_counts EXCEPT ![s] = n] /\ held' \in [Page -> Nat]
  BY <1>1, <1>4, TakesPages
<1> HIDE DEF s
<1>6. Inv(bitmap', page_counts', ca1, sb1, live)
  BY <1>2, <1>3, <1>5, GrowKeeps
<1>7. s \in DOMAIN sb1 /\ sb1[s] = sl
  BY DEF With
<1>8. cache \in [Caches -> KRec]
  BY <1>3 DEF Inv, ListsOk
<1>9. ca1[c] = k
  BY <1>2, <1>8
<1>10. sl.cache = c /\ sl.free < ObjsPerSlab(c)
  <2>1. sl.cache = c /\ sl.free = 0
    BY <1>2, NewIs
  <2>2. 0 < ObjsPerSlab(c)
    BY <1>2, ObjSizes, SMTT(20)
  <2>. QED
    BY <2>1, <2>2
<1>11. h.cache = c /\ h.size = size
  BY SMT
<1> HIDE DEF h, k, sl
<1>12. h.size \in Nat \ {0} /\ HdrSize + h.size <= ObjSize(c)
  BY <1>2, <1>11
<1>13. [ca1 EXCEPT ![c] = TakeFrom(k, s, sl)] = cache'
  BY <1>1, <1>2, <1>8
<1>14. With(sb1, s, r) = slab'
  <2> DEFINE f == [y \in DOMAIN slab \cup {s} |-> IF y = s THEN r ELSE slab[y]]
  <2>1. DOMAIN sb1 \cup {s} = DOMAIN slab \cup {s}
    BY DEF With
  <2>2. \A y \in DOMAIN slab \cup {s} : y # s => sb1[y] = slab[y]
    BY DEF With
  <2> HIDE DEF sb1, r
  <2>3. With(sb1, s, r) = f
    BY <2>1, <2>2 DEF With
  <2>4. slab' = f
    BY <1>1 DEF With
  <2>. QED
    BY <2>3, <2>4
<1> HIDE DEF ca1, sb1
<1>15. /\ sb1[s].cache = c /\ sb1[s].free < ObjsPerSlab(c) /\ r = [sb1[s] EXCEPT !.free = @ + 1]
       /\ p = ObjAddr(s, c, sb1[s].bufctl[sb1[s].free])
  BY <1>7, <1>10
<1> HIDE DEF r, p
<1>16. /\ p \notin DOMAIN live
       /\ Inv(bitmap', page_counts', [ca1 EXCEPT ![c] = TakeFrom(ca1[c], s, sb1[s])],
              With(sb1, s, r), With(live, p, h))
  BY <1>2, <1>6, <1>7, <1>11, <1>12, <1>15, TakeKeeps, ZenonT(40)
<1>17. Inv(bitmap', page_counts', cache', slab', live')
  BY <1>1, <1>7, <1>9, <1>13, <1>14, <1>16
<1>18. IInv'
  BY <1>5, <1>17 DEF IInv
<1>. QED
  BY <1>1, <1>2, <1>16, <1>18 DEF Takes

\* kmalloc of whole pages.
LEMMA StepRaw ==
  ASSUME SetFacts, IInv, NEW size \in Sizes, KmallocRaw(size)
  PROVE  /\ IInv' /\ \E p, h : Takes(p, h)
         /\ cache' = cache
<1> USE Zenon
<1> DEFINE b == RawBytes(size)
           s == KernelMallocAt(b)
           n == PagesOf(b)
           p == RawAt(s)
           h == [size |-> size, cache |-> None, raw_base |-> s]
<1>1. /\ size # 0 /\ KernelMalloc(b) /\ live' = With(live, p, h)
      /\ cache' = cache /\ slab' = slab
  BY DEF KmallocRaw, RawAt
<1>2. size \in Nat \ {0}
  BY <1>1, Consts, SMTT(20)
<1>3. Inv(bitmap, page_counts, cache, slab, live)
  BY DEF IInv
<1>4. b \in Nat \ {0}
  <2>1. 0 \in Nat
    BY SMT
  <2>. QED
    BY <1>2, <2>1, RawInside
<1>5. h.cache = None /\ h.size = size /\ h.raw_base = s
  BY SMT
<1> HIDE DEF b, h
<1>6. /\ s \in Page /\ s + n <= NPages /\ \A x \in s .. s + n - 1 : x \notin bitmap
      /\ bitmap' = bitmap \cup (s .. s + n - 1)
      /\ page_counts' = [page_counts EXCEPT ![s] = n] /\ held' \in [Page -> Nat]
  BY <1>1, <1>4, TakesPages
<1> HIDE DEF s
<1>7. h.size \in Nat \ {0} /\ n = PagesOf(RawBytes(h.size))
  BY <1>2, <1>5 DEF b
<1> HIDE DEF n
<1>8. /\ p \notin DOMAIN live
      /\ Inv(bitmap \cup (s .. s + n - 1), [page_counts EXCEPT ![s] = n], cache, slab,
             With(live, p, h))
  BY <1>3, <1>5, <1>6, <1>7, RawTaken
<1>9. IInv'
  BY <1>1, <1>6, <1>8 DEF IInv
<1>. QED
  BY <1>1, <1>8, <1>9 DEF Takes

\* kfree of an object.
LEMMA StepFreeSlab ==
  ASSUME SetFacts, IInv, NEW p \in DOMAIN live, KfreeSlab(p)
  PROVE  IInv' /\ SameSlabs(slab, slab') /\ Gives(p)
<1> USE Zenon
<1> DEFINE c == live[p].cache
           t == SlabOf(cache[c], c, p)
<1>1. /\ c # None /\ live' = Drop(live, p)
      /\ IF t = 0 THEN cache' = cache /\ slab' = slab
         ELSE /\ cache' = [cache EXCEPT ![c] = GiveTo(@, t, slab[t])]
              /\ slab' = [slab EXCEPT ![t] = PushFree(@, t, p)]
      /\ bitmap' = bitmap /\ page_counts' = page_counts /\ held' = held
  BY DEF KfreeSlab, Drop, pages
<1>2. Inv(bitmap, page_counts, cache, slab, live) /\ held \in [Page -> Nat]
  BY DEF IInv
<1>3. /\ PagesOk(bitmap, page_counts) /\ SlabsOk(page_counts, slab)
      /\ LivesOk(page_counts, slab, live) /\ StacksOk(slab, live) /\ ListsOk(cache, slab)
  BY <1>2 DEF Inv
<1>4. IsObj(slab, p, live[p])
  BY <1>1, <1>3 DEF LivesOk, IsRaw
<1>5. c \in Caches /\ \E s \in DOMAIN slab, i \in Idx(c) : slab[s].cache = c /\ p = ObjAddr(s, c, i)
  BY <1>4 DEF IsObj
<1>6. PICK s \in DOMAIN slab, i \in Idx(c) : slab[s].cache = c /\ p = ObjAddr(s, c, i)
  BY <1>5
<1>7. slab[s].free # 0 /\ IsSlab(slab[s]) /\ s \in Nat
  <2>1. IsSlab(slab[s]) /\ StackOk(s, slab[s], live) /\ s \in Page
    BY <1>3 DEF SlabsOk, StacksOk
  <2>2. i \in Idx(slab[s].cache) /\ ObjAddr(s, slab[s].cache, i) \in DOMAIN live
    BY <1>6
  <2>3. s \in Nat
    BY <2>1, SMTT(20) DEF Page
  <2>. QED
    BY <2>1, <2>2, <2>3, InUse
<1> HIDE DEF c
<1>8. t = s /\ s # 0
  <2>1. c \in Caches
    BY <1>5
  <2>2. /\ PagesOk(bitmap, page_counts) /\ SlabsOk(page_counts, slab) /\ ListsOk(cache, slab)
        /\ c \in Caches /\ s \in DOMAIN slab /\ slab[s].cache = c /\ slab[s].free # 0
        /\ i \in Idx(c) /\ p = ObjAddr(s, c, i)
    BY <1>3, <1>6, <1>7, <2>1
  <2>. QED
    BY <2>2, SlabFound, SMTT(20)
<1> DEFINE r == PushFree(slab[s], s, p)
<1>9. cache' = [cache EXCEPT ![c] = GiveTo(cache[c], s, slab[s])] /\ slab' = With(slab, s, r)
  <2>1. cache \in [Caches -> KRec]
    BY <1>3 DEF ListsOk
  <2>2. cache' = [cache EXCEPT ![c] = GiveTo(@, s, slab[s])]
        /\ slab' = [slab EXCEPT ![s] = PushFree(@, s, p)]
    <3> HIDE DEF t
    <3>. QED
      BY <1>1, <1>8
  <2>3. [slab EXCEPT ![s] = r] = With(slab, s, r)
    <3> HIDE DEF r
    <3>1. DOMAIN slab \cup {s} = DOMAIN slab
      OBVIOUS
    <3>. QED
      BY <3>1 DEF With
  <2>. QED
    BY <1>5, <2>1, <2>2, <2>3
<1>10. r.cache = slab[s].cache
  <2>1. i \in Idx(slab[s].cache) /\ p = ObjAddr(s, slab[s].cache, i)
    BY <1>6
  <2>2. r = PushFree(slab[s], s, ObjAddr(s, slab[s].cache, i))
    BY <2>1
  <2> HIDE DEF r
  <2>3. Pushed(r, slab[s], i)
    BY <1>7, <2>1, <2>2, PushIs
  <2>. QED
    BY <2>3 DEF Pushed
<1> HIDE DEF r
<1>11. Inv(bitmap, page_counts, [cache EXCEPT ![c] = GiveTo(cache[c], s, slab[s])],
           With(slab, s, r), Drop(live, p))
  <2>1. live[p].cache = c /\ r = PushFree(slab[s], s, p)
    BY DEF c, r
  <2>. QED
    BY <1>2, <1>5, <1>6, <2>1, GiveKeeps
<1>12. IInv'
  BY <1>1, <1>2, <1>9, <1>11 DEF IInv
<1>13. SameSlabs(slab, slab')
  BY <1>9, <1>10 DEF SameSlabs, With
<1>. QED
  BY <1>1, <1>12, <1>13 DEF Gives

\* kfree of whole pages.
LEMMA StepFreeRaw ==
  ASSUME SetFacts, IInv, NEW p \in DOMAIN live, KfreeRaw(p)
  PROVE  IInv' /\ cache' = cache /\ Gives(p)
<1> USE Zenon
<1> DEFINE s == live[p].raw_base
<1>1. /\ live[p].cache = None /\ live' = Drop(live, p) /\ cache' = cache /\ slab' = slab
      /\ bitmap' = bitmap \ P!Run(s, page_counts[s])
      /\ page_counts' = [page_counts EXCEPT ![s] = 0] /\ held' = [held EXCEPT ![s] = 0]
  BY DEF KfreeRaw, Drop, P!PageFree
<1>2. P!Run(s, page_counts[s]) = s .. s + page_counts[s] - 1
  BY DEF P!Run
<1>3. Inv(bitmap, page_counts, cache, slab, live) /\ held \in [Page -> Nat]
  BY DEF IInv
<1>4. Inv(bitmap \ (s .. s + page_counts[s] - 1), [page_counts EXCEPT ![s] = 0], cache, slab,
          Drop(live, p))
  BY <1>1, <1>3, RawFreed
<1>5. held' \in [Page -> Nat]
  <2>1. 0 \in Nat
    BY SMT
  <2>. QED
    BY <1>1, <1>3, <2>1
<1>6. IInv'
  BY <1>1, <1>2, <1>4, <1>5 DEF IInv
<1>. QED
  BY <1>1, <1>6 DEF Gives

\* kmalloc and kfree keep the invariant.
LEMMA NextIInv ==
  ASSUME SetFacts
  PROVE  IInv /\ [Next]_vars => IInv'
<1> USE Zenon
<1> SUFFICES ASSUME IInv, [Next]_vars PROVE IInv'
  OBVIOUS
<1>1. ASSUME UNCHANGED vars PROVE IInv'
  BY <1>1 DEF IInv, vars
<1>2. ASSUME NEW size \in Sizes, KmallocNull(size) PROVE IInv'
  BY <1>1, <1>2 DEF KmallocNull
<1>. QED
  BY <1>1, <1>2, StepSlab, StepGrow, StepRaw, StepFreeSlab, StepFreeRaw
     DEF Next, KfreeNull

\* What a step does to the number of objects of a cache.
Grown == \A c \in Caches : cache'[c].totalobjs # cache[c].totalobjs =>
                             cache[c].inuse = cache[c].totalobjs

\* Only kmalloc, out of room in a cache, gives it more objects.
LEMMA GrowsFull ==
  ASSUME SetFacts, IInv, [Next]_vars
  PROVE  Grown \/ UNCHANGED vars
<1> USE Zenon
<1>1. ASSUME cache' = cache PROVE Grown
  BY <1>1 DEF Grown
<1>2. ASSUME NEW size \in Sizes, KmallocSlab(size) PROVE Grown
  BY <1>2, StepSlab, SameTotals DEF Grown
<1>3. ASSUME NEW size \in Sizes, KmallocGrow(size) PROVE Grown
  <2>1. PICK c \in Caches : ~HasRoom(c) /\ \E k : cache' = [cache EXCEPT ![c] = k]
    BY <1>3, StepGrow
  <2>2. cache[c].inuse = cache[c].totalobjs
    BY <2>1, FullCache
  <2>3. \A d \in Caches : d # c => cache'[d] = cache[d]
    <3>1. cache \in [Caches -> KRec]
      BY DEF IInv, Inv, ListsOk
    <3>. QED
      BY <2>1, <3>1
  <2>. QED
    BY <2>2, <2>3 DEF Grown
<1>4. ASSUME NEW size \in Sizes, KmallocRaw(size) PROVE Grown
  BY <1>1, <1>4, StepRaw
<1>5. ASSUME NEW size \in Sizes, KmallocNull(size) PROVE Grown
  BY <1>1, <1>5 DEF KmallocNull, vars
<1>6. ASSUME NEW p \in DOMAIN live, KfreeSlab(p) PROVE Grown
  BY <1>6, StepFreeSlab, SameTotals DEF Grown
<1>7. ASSUME NEW p \in DOMAIN live, KfreeRaw(p) PROVE Grown
  BY <1>1, <1>7, StepFreeRaw
<1>. QED
  BY <1>2, <1>3, <1>4, <1>5, <1>6, <1>7 DEF Next, KfreeNull

-----------------------------------------------------------------------------
(* The heap is an allocator                                                *)

\* kmalloc hands out bytes that no block has.
LEMMA TakesBytes ==
  ASSUME SetFacts, IInv, IInv', NEW p, NEW h, Takes(p, h)
  PROVE  \E b \in Blocks(live') : /\ b \in Mem!Blk /\ b \cap UNION Blocks(live) = {}
                                  /\ Blocks(live') = Blocks(live) \cup {b}
<1> USE Zenon
<1> DEFINE b == Bytes(live', p)
<1>1. /\ p \notin DOMAIN live /\ DOMAIN live' = DOMAIN live \cup {p}
      /\ \A q \in DOMAIN live : q # p => live'[q] = live[q]
  BY DEF Takes, With
<1>2. \A q \in DOMAIN live : Bytes(live', q) = Bytes(live, q)
  BY <1>1 DEF Bytes
<1>3. /\ b \in Mem!Blk
      /\ \A q \in DOMAIN live' : q # p => b \cap Bytes(live', q) = {}
  <2>1. Inv(bitmap', page_counts', cache', slab', live') /\ p \in DOMAIN live'
    BY <1>1 DEF IInv
  <2>. QED
    BY <2>1, BytesAre
<1> HIDE DEF b
<1>4. \A q \in DOMAIN live : b \cap Bytes(live, q) = {}
  BY <1>1, <1>2, <1>3
<1>5. b \cap UNION Blocks(live) = {}
  BY <1>4 DEF Blocks
<1>6. Blocks(live') = Blocks(live) \cup {b}
  BY <1>1, <1>2 DEF Blocks, b
<1>. QED
  BY <1>3, <1>5, <1>6

\* kfree takes one block back.
LEMMA GivesBytes ==
  ASSUME SetFacts, IInv, NEW p, Gives(p)
  PROVE  \E b \in Blocks(live) : Blocks(live') = Blocks(live) \ {b}
<1> USE Zenon
<1> DEFINE b == Bytes(live, p)
<1>1. /\ p \in DOMAIN live /\ DOMAIN live' = DOMAIN live \ {p}
      /\ \A q \in DOMAIN live : q # p => live'[q] = live[q]
  BY DEF Gives, Drop
<1>2. \A q \in DOMAIN live' : Bytes(live', q) = Bytes(live, q)
  BY <1>1 DEF Bytes
<1>3. \A q \in DOMAIN live : q # p => Bytes(live, q) # b
  <2>1. b \in Mem!Blk /\ \A q \in DOMAIN live : q # p => b \cap Bytes(live, q) = {}
    BY <1>1, BytesAre DEF IInv
  <2>2. b # {}
    BY <2>1 DEF Mem!Blk
  <2> HIDE DEF b
  <2>. QED
    BY <2>1, <2>2
<1> HIDE DEF b
<1>4. Blocks(live') = Blocks(live) \ {b}
  BY <1>1, <1>2, <1>3 DEF Blocks, b
<1>5. b \in Blocks(live)
  BY <1>1 DEF Blocks, b
<1>. QED
  BY <1>4, <1>5

\* Each step is one of the allocator's or none.
LEMMA StepIsMem ==
  ASSUME SetFacts, IInv, [Next]_vars
  PROVE  [Mem!Next]_{Extent(p) : p \in DOMAIN live}
<1> USE Zenon
<1> DEFINE B == {Extent(p) : p \in DOMAIN live}
<1>0. B = Blocks(live) /\ B' = Blocks(live')
  BY DEF Extent, Blocks, Bytes
<1>1. ASSUME IInv', NEW p, NEW h, Takes(p, h) PROVE Mem!Next
  BY <1>0, <1>1, TakesBytes DEF Mem!Next, Mem!Alloc
<1>2. ASSUME NEW p, Gives(p) PROVE Mem!Next
  BY <1>0, <1>2, GivesBytes DEF Mem!Next, Mem!Free
<1>3. ASSUME UNCHANGED vars PROVE B' = B
  BY <1>0, <1>3 DEF vars
<1> HIDE DEF B
<1>4. ASSUME NEW size \in Sizes,
             KmallocSlab(size) \/ KmallocGrow(size) \/ KmallocRaw(size) \/ KmallocNull(size)
      PROVE  Mem!Next \/ B' = B
  <2>1. CASE KmallocSlab(size)
    BY <1>1, <2>1, StepSlab
  <2>2. CASE KmallocGrow(size)
    BY <1>1, <2>2, StepGrow
  <2>3. CASE KmallocRaw(size)
    BY <1>1, <2>3, StepRaw
  <2>4. CASE KmallocNull(size)
    BY <1>3, <2>4 DEF KmallocNull
  <2>. QED
    BY <1>4, <2>1, <2>2, <2>3, <2>4
<1>5. ASSUME NEW p \in DOMAIN live, KfreeSlab(p) \/ KfreeRaw(p) PROVE Mem!Next
  <2>1. CASE KfreeSlab(p)
    BY <1>2, <2>1, StepFreeSlab
  <2>2. CASE KfreeRaw(p)
    BY <1>2, <2>2, StepFreeRaw
  <2>. QED
    BY <1>5, <2>1, <2>2
<1>6. Mem!Next \/ B' = B
  BY <1>3, <1>4, <1>5 DEF Next, KfreeNull
<1>. QED
  BY <1>6 DEF B

-----------------------------------------------------------------------------
(* The theorems                                                            *)

INSTANCE FiniteSetTheorems

\* A non-empty set of naturals has a least element, from the library's
\* well-foundedness of the order of the naturals.
LEMMA NatMinimum ==
  ASSUME NEW T \in SUBSET Nat, T # {}
  PROVE  \E x \in T : \A y \in T : x <= y
<1> DEFINE R == OpToRel(<, Nat)
<1>1. \E x \in T : \A y \in T : ~ (<<y, x>> \in R)
  <2> HIDE DEF R
  <2>1. IsWellFoundedOn(R, Nat)
    BY NatLessThanWellFounded, Zenon DEF R
  <2>. QED
    BY <2>1, WFMin, Zenon
<1>2. \A x, y \in T : <<y, x>> \notin R => x <= y
  BY DEF OpToRel
<1>. QED
  BY <1>1, <1>2, Zenon

\* The facts about finite sets hold.
LEMMA SetFactsHold == SetFacts
<1>1. \A T \in SUBSET Nat : T # {} => \E x \in T : \A y \in T : x <= y
  BY NatMinimum, Zenon
<1>2. \A S : IsFiniteSet(S) =>
        Cardinality(S) \in Nat
  BY FS_CardinalityType, Zenon
<1>3. \A S, T : IsFiniteSet(S) /\ ExistsBijection(S, T) =>
        IsFiniteSet(T) /\ Cardinality(T) = Cardinality(S)
  BY FS_Bijection, Zenon
<1>4. \A S, T, f : f \in Injection(S, T) /\ IsFiniteSet(T) =>
        /\ IsFiniteSet(S) /\ Cardinality(S) <= Cardinality(T)
        /\ Cardinality(S) = Cardinality(T) <=> f \in Surjection(S, T)
  BY FS_Injection, Zenon
<1>5. /\ IsFiniteSet({}) /\ Cardinality({}) = 0
      /\ \A S : IsFiniteSet(S) => (Cardinality(S) = 0 <=> S = {})
  BY FS_EmptySet, Zenon
<1>6. \A S, x : IsFiniteSet(S) =>
        /\ IsFiniteSet(S \cup {x})
        /\ Cardinality(S \cup {x}) = IF x \in S THEN Cardinality(S) ELSE Cardinality(S) + 1
  BY FS_AddElement, Zenon
<1>7. \A S, x : IsFiniteSet(S) =>
        /\ IsFiniteSet(S \ {x})
        /\ Cardinality(S \ {x}) = IF x \in S THEN Cardinality(S) - 1 ELSE Cardinality(S)
  BY FS_RemoveElement, Zenon
<1>8. \A S, T : IsFiniteSet(S) /\ T \subseteq S =>
        /\ IsFiniteSet(T) /\ Cardinality(T) <= Cardinality(S)
        /\ Cardinality(S) = Cardinality(T) => S = T
  BY FS_Subset, Zenon
<1>9. \A a, b \in Int :
        /\ IsFiniteSet(a .. b)
        /\ Cardinality(a .. b) = IF a > b THEN 0 ELSE b - a + 1
  BY FS_Interval, Zenon
<1>10. \A S, T : IsFiniteSet(S) /\ IsFiniteSet(T) =>
        IsFiniteSet(S \X T) /\ Cardinality(S \X T) = Cardinality(S) * Cardinality(T)
  BY FS_Product, Zenon
<1>. QED
  BY <1>1, <1>2, <1>3, <1>4, <1>5, <1>6, <1>7, <1>8, <1>9,
     <1>10, Zenon DEF SetFacts

\* The heap's invariant holds for every number of pages and caches and all sizes.
LEMMA Invariance == Spec => []IInv
<1>1. Init => IInv
  BY SetFactsHold, InitIInv, Zenon
<1>2. IInv /\ [Next]_vars => IInv'
  BY SetFactsHold, NextIInv, Zenon
<1>. QED
  BY <1>1, <1>2, PTL DEF Spec

\* However kmallocs and kfrees are mixed, in a heap of any size with any number of
\* caches: every slab is on the list for how full it is, its bufctl array holds
\* each index that is not in use once, and inuse and totalobjs count the blocks
\* handed out and the objects that exist.
THEOREM SlabListsAndStacks == Spec => []SlabsExact
<1>1. IInv => SlabsExact
  BY SetFactsHold, Typing, Filling, Stacked, Counting, Zenon DEF SlabsExact
<1>. QED
  BY <1>1, Invariance, PTL

\* In a heap of any size: the page runs are the two that allocator_init takes, the
\* slabs and the whole-page blocks in use, and every block lies inside the pages of
\* its slab, behind the Slab structure and its bufctl array, or inside its own.
THEOREM HeapPagesExact == Spec => []PagesExact
<1>1. IInv => PagesExact
  BY SetFactsHold, Accounted, Placed, Zenon DEF PagesExact
<1>. QED
  BY <1>1, Invariance, PTL

\* A cache of any size takes pages for another slab only when each of its objects
\* is in use.
THEOREM SlabGrowsOnlyWhenFull == Spec => GrowsOnlyWhenFull
<1>1. IInv /\ [Next]_vars => [Grown]_vars
  BY SetFactsHold, GrowsFull, Zenon
<1>2. Spec => [][Grown]_vars
  BY <1>1, Invariance, PTL DEF Spec
<1>. QED
  BY <1>2, Zenon DEF GrowsOnlyWhenFull, Grown

\* kmalloc and kfree, for every geometry and any mix of sizes, implement the
\* allocator MemBlocks byte by byte: what kmalloc hands out, header included, is
\* memory that no block in use has, and kfree gives back one block whole.
THEOREM HeapImplementsMemBlocks == Spec => ImplementsMemBlocks
<1>1. IInv /\ [Next]_vars => [Mem!Next]_{Extent(p) : p \in DOMAIN live}
  BY SetFactsHold, StepIsMem, Zenon
<1>. QED
  BY <1>1, InitIsMem, Invariance, PTL DEF Spec, ImplementsMemBlocks, Mem!Spec

=============================================================================
