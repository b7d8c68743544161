---------------------------- MODULE SlabLemmas -----------------------------
(***************************************************************************)
(* Lemmas about the kernel heap, for every number of pages and caches and  *)
(* every size of pages, objects and headers: what its operations on sizes, *)
(* runs of pages, lists of slabs and stacks of objects give, and the       *)
(* invariant that SlabProofs shows every kmalloc and kfree to keep.        *)
(***************************************************************************)
EXTENDS Slab, TLAPS

Page == 0 .. NPages - 1

-----------------------------------------------------------------------------
(* Finite sets                                                             *)

\* What the proofs use of finite sets and of the order of the naturals.  It is the
\* hypothesis of the lemmas that need it, and the theorems at the end of SlabProofs
\* discharge it with the library's theorems, which all rest on induction.  The
\* provers carry every fact of a module's context through each of its steps: so the
\* library is in the context only where SetFactsHold needs it.
SetFacts ==
  /\ \A T \in SUBSET Nat : T # {} => \E x \in T : \A y \in T : x <= y
  /\ \A S : IsFiniteSet(S) =>
       Cardinality(S) \in Nat
  /\ \A S, T : IsFiniteSet(S) /\ ExistsBijection(S, T) =>
       IsFiniteSet(T) /\ Cardinality(T) = Cardinality(S)
  /\ \A S, T, f : f \in Injection(S, T) /\ IsFiniteSet(T) =>
       /\ IsFiniteSet(S) /\ Cardinality(S) <= Cardinality(T)
       /\ Cardinality(S) = Cardinality(T) <=> f \in Surjection(S, T)
  /\ IsFiniteSet({}) /\ Cardinality({}) = 0
  /\ \A S : IsFiniteSet(S) => (Cardinality(S) = 0 <=> S = {})
  /\ \A S, x : IsFiniteSet(S) =>
       /\ IsFiniteSet(S \cup {x})
       /\ Cardinality(S \cup {x}) = IF x \in S THEN Cardinality(S) ELSE Cardinality(S) + 1
  /\ \A S, x : IsFiniteSet(S) =>
       /\ IsFiniteSet(S \ {x})
       /\ Cardinality(S \ {x}) = IF x \in S THEN Cardinality(S) - 1 ELSE Cardinality(S)
  /\ \A S, T : IsFiniteSet(S) /\ T \subseteq S =>
       /\ IsFiniteSet(T) /\ Cardinality(T) <= Cardinality(S)
       /\ Cardinality(S) = Cardinality(T) => S = T
  /\ \A a, b \in Int :
       /\ IsFiniteSet(a .. b)
       /\ Cardinality(a .. b) = IF a > b THEN 0 ELSE b - a + 1
  /\ \A S, T : IsFiniteSet(S) /\ IsFiniteSet(T) =>
       IsFiniteSet(S \X T) /\ Cardinality(S \X T) = Cardinality(S) * Cardinality(T)

\* A non-empty set of naturals has a least element.
LEMMA LeastNat ==
  ASSUME SetFacts, NEW T \in SUBSET Nat, T # {}
  PROVE  \E x \in T : \A y \in T : x <= y
BY Zenon DEF SetFacts

\* A cardinality is a natural.
LEMMA CardNat ==
  ASSUME SetFacts, NEW S, IsFiniteSet(S)
  PROVE  Cardinality(S) \in Nat
BY Zenon DEF SetFacts

\* A bijection keeps the cardinality.
LEMMA CardBijection ==
  ASSUME SetFacts, NEW S, NEW T, IsFiniteSet(S), ExistsBijection(S, T)
  PROVE  IsFiniteSet(T) /\ Cardinality(T) = Cardinality(S)
BY Zenon DEF SetFacts

\* An injection between sets of one size is onto.
LEMMA CardInjection ==
  ASSUME SetFacts, NEW S, NEW T, NEW f, f \in Injection(S, T), IsFiniteSet(T)
  PROVE  /\ IsFiniteSet(S) /\ Cardinality(S) <= Cardinality(T)
         /\ Cardinality(S) = Cardinality(T) <=> f \in Surjection(S, T)
BY Zenon DEF SetFacts

\* The empty set has no element, and no other finite set has none.
LEMMA CardEmpty ==
  ASSUME SetFacts
  PROVE  /\ IsFiniteSet({}) /\ Cardinality({}) = 0
         /\ \A S : IsFiniteSet(S) => (Cardinality(S) = 0 <=> S = {})
BY Zenon DEF SetFacts

\* An element more.
LEMMA CardAdd ==
  ASSUME SetFacts, NEW S, NEW x, IsFiniteSet(S)
  PROVE  /\ IsFiniteSet(S \cup {x})
         /\ Cardinality(S \cup {x}) = IF x \in S THEN Cardinality(S) ELSE Cardinality(S) + 1
BY Zenon DEF SetFacts

\* An element less.
LEMMA CardRemove ==
  ASSUME SetFacts, NEW S, NEW x, IsFiniteSet(S)
  PROVE  /\ IsFiniteSet(S \ {x})
         /\ Cardinality(S \ {x}) = IF x \in S THEN Cardinality(S) - 1 ELSE Cardinality(S)
BY Zenon DEF SetFacts

\* A subset of the size of the set is the set.
LEMMA CardSubset ==
  ASSUME SetFacts, NEW S, IsFiniteSet(S), NEW T \in SUBSET S
  PROVE  /\ IsFiniteSet(T) /\ Cardinality(T) <= Cardinality(S)
         /\ Cardinality(S) = Cardinality(T) => S = T
BY Zenon DEF SetFacts

\* An interval.
LEMMA CardInterval ==
  ASSUME SetFacts, NEW a \in Int, NEW b \in Int
  PROVE  /\ IsFiniteSet(a .. b)
         /\ Cardinality(a .. b) = IF a > b THEN 0 ELSE b - a + 1
BY Zenon DEF SetFacts

\* A product.
LEMMA CardProduct ==
  ASSUME SetFacts, NEW S, NEW T, IsFiniteSet(S), IsFiniteSet(T)
  PROVE  IsFiniteSet(S \X T) /\ Cardinality(S \X T) = Cardinality(S) * Cardinality(T)
<1>1. \A X, Y : IsFiniteSet(X) /\ IsFiniteSet(Y) =>
        IsFiniteSet(X \X Y) /\ Cardinality(X \X Y) = Cardinality(X) * Cardinality(Y)
  BY Zenon DEF SetFacts
<1>. QED
  BY <1>1, Zenon

-----------------------------------------------------------------------------
(* Arithmetic                                                              *)

\* The types of the constants.
LEMMA Consts ==
  /\ NPages \in Nat /\ NPages > 0 /\ PageSize \in Nat /\ PageSize > 0
  /\ CountMod \in Nat /\ NPages < CountMod /\ NPages * PageSize \in Nat
  /\ Align \in Nat /\ Align > 0 /\ HdrSize \in Nat /\ CacheSize \in Nat /\ CacheSize > 0
  /\ NCaches \in Nat /\ NCaches > 0 /\ MinObj \in Nat /\ MinObj > 0 /\ Sizes \subseteq Nat
  /\ SlabHdr \in Nat /\ SlabHdr < PageSize /\ CtlSize \in Nat /\ CtlSize > 0
BY SlabAssumption DEF P!PageAllocAssumption

\* A larger factor, a larger product.
LEMMA Mono ==
  ASSUME NEW a \in Nat, NEW b \in Nat, NEW c \in Nat, a <= b
  PROVE  a * c \in Nat /\ b * c \in Nat /\ a * c <= b * c
OBVIOUS

\* The other way round.
LEMMA MonoBack ==
  ASSUME NEW a \in Nat, NEW b \in Nat, NEW c \in Nat \ {0}, a * c < b * c
  PROVE  a < b
<1>1. CASE b <= a
  BY <1>1, Mono
<1>. QED
  BY <1>1

\* Quotients.
LEMMA DivBounds ==
  ASSUME NEW x \in Nat, NEW d \in Nat \ {0}
  PROVE  x \div d \in Nat /\ (x \div d) * d <= x /\ x < (x \div d) * d + d
OBVIOUS

\* A product has its factor as quotient, also with less than a divisor on top.
LEMMA DivExact ==
  ASSUME NEW k \in Nat, NEW d \in Nat \ {0}, NEW r \in Nat, r < d
  PROVE  (k * d + r) \div d = k
<1> DEFINE x == k * d + r
           q == x \div d
<1>1. x \in Nat
  OBVIOUS
<1>2. q \in Nat /\ q * d <= x /\ x < q * d + d
  <2> HIDE DEF x
  <2>. QED
    BY <1>1, DivBounds
<1> HIDE DEF q
<1>3. q * d < k * d + d /\ k * d < q * d + d
  BY <1>2
<1>4. q * d < (k + 1) * d /\ k * d < (q + 1) * d
  BY <1>2, <1>3
<1>5. q < k + 1 /\ k < q + 1
  BY <1>2, <1>4, MonoBack
<1>. QED
  BY <1>2, <1>5 DEF q

\* ALIGN_UP adds less than Align.
LEMMA AlignUpIs ==
  ASSUME NEW x \in Nat
  PROVE  AlignUp(x) \in Nat /\ x <= AlignUp(x) /\ AlignUp(x) <= x + (Align - 1)
<1> DEFINE y == x + Align - 1
           q == y \div Align
<1>1. y \in Nat /\ Align \in Nat \ {0}
  BY Consts
<1>2. q \in Nat /\ q * Align <= y /\ y < q * Align + Align
  <2> HIDE DEF y
  <2>. QED
    BY <1>1, DivBounds
<1>3. AlignUp(x) = q * Align
  BY DEF AlignUp
<1> HIDE DEF q
<1> DEFINE a == q * Align
<1>4. a \in Nat /\ a <= y /\ y < a + Align
  BY <1>1, <1>2
<1> HIDE DEF a
<1>. QED
  BY <1>1, <1>3, <1>4 DEF a

-----------------------------------------------------------------------------
(* Numbers of pages                                                        *)

PagesOf(bytes) == P!PagesFor(Whole(bytes))

\* The pages for a request hold it.
LEMMA PagesCover ==
  ASSUME NEW b \in Nat \ {0}
  PROVE  /\ PagesOf(b) \in Nat \ {0} /\ Whole(b) = PagesOf(b) * PageSize
         /\ b <= PagesOf(b) * PageSize /\ Whole(b) \in Nat \ {0}
<1> DEFINE y == b + PageSize - 1
           q == y \div PageSize
           w == q * PageSize
<1>1. y \in Nat /\ PageSize \in Nat \ {0} /\ y >= PageSize
  BY Consts
<1>2. q \in Nat /\ w <= y /\ y < w + PageSize
  <2> HIDE DEF y
  <2>. QED
    BY <1>1, DivBounds
<1>3. Whole(b) = w
  BY DEF Whole
<1>4. w \in Nat /\ w >= b /\ w > 0
  <2>1. w \in Nat
    BY <1>1, <1>2
  <2> HIDE DEF q, w
  <2>. QED
    BY <1>1, <1>2, <2>1
<1>5. q > 0
  <2>1. q = 0 => w = 0
    BY <1>1
  <2>. QED
    BY <1>2, <1>4, <2>1
<1>6. w >= PageSize
  <2>1. 1 * PageSize <= q * PageSize
    BY <1>1, <1>2, <1>5, Mono
  <2>. QED
    BY <1>1, <2>1
<1>7. (w + PageSize - 1) \div PageSize = q
  <2>1. PageSize - 1 \in Nat /\ PageSize - 1 < PageSize
    BY <1>1
  <2>2. (q * PageSize + (PageSize - 1)) \div PageSize = q
    BY <1>1, <1>2, <2>1, DivExact
  <2>3. w + PageSize - 1 = q * PageSize + (PageSize - 1)
    BY <1>1, <1>4
  <2>. QED
    BY <2>2, <2>3
<1>8. PagesOf(b) = q
  <2> HIDE DEF q, w
  <2>. QED
    BY <1>1, <1>3, <1>4, <1>6, <1>7 DEF PagesOf, P!PagesFor
<1> HIDE DEF y, q
<1>. QED
  BY <1>2, <1>3, <1>4, <1>5, <1>8

-----------------------------------------------------------------------------
(* Sizes and places of objects                                             *)

\* The sizes of the first k caches, in g.
DoubleTo(g, k) == g = [c \in 1 .. k |-> IF c = 1 THEN MinObj ELSE 2 * g[c - 1]]

\* There are such sizes: none is the first for which they are missing.
LEMMA Doubles ==
  ASSUME SetFacts, NEW k \in Nat
  PROVE  \E g : DoubleTo(g, k)
<1> USE Zenon
<1> DEFINE bad == {i \in Nat : ~ \E g : DoubleTo(g, i)}
<1> SUFFICES ASSUME bad # {} PROVE FALSE
  OBVIOUS
<1>1. PICK i \in bad : \A j \in bad : i <= j
  <2>1. bad \in SUBSET Nat
    OBVIOUS
  <2> HIDE DEF bad
  <2>. QED
    BY <2>1, LeastNat
<1>2. i \in Nat /\ ~ \E g : DoubleTo(g, i)
  OBVIOUS
<1>3. i # 0
  <2> DEFINE g == [c \in 1 .. 0 |-> MinObj]
  <2>1. g = [c \in 1 .. 0 |-> IF c = 1 THEN MinObj ELSE 2 * g[c - 1]]
    BY SMT
  <2>2. DoubleTo(g, 0)
    BY <2>1 DEF DoubleTo
  <2>. QED
    BY <1>2, <2>2
<1>4. PICK g : DoubleTo(g, i - 1)
  <2>1. i - 1 \in Nat /\ ~(i <= i - 1)
    BY <1>2, <1>3, SMT
  <2>2. i - 1 \notin bad
    BY <1>1, <2>1
  <2>. QED
    BY <2>1, <2>2
<1> DEFINE new == IF i = 1 THEN MinObj ELSE 2 * g[i - 1]
           h == [c \in 1 .. i |-> IF c = i THEN new ELSE g[c]]
<1>5. ASSUME NEW c \in 1 .. i
      PROVE  h[c] = IF c = 1 THEN MinObj ELSE 2 * h[c - 1]
  <2>1. CASE c = i
    <3>1. h[c] = new /\ (c # 1 => h[c - 1] = g[c - 1])
      BY <1>2, <1>3, <2>1, SMT
    <3> HIDE DEF h
    <3>. QED
      BY <2>1, <3>1
  <2>2. CASE c # i
    <3>1. c \in 1 .. i - 1 /\ h[c] = g[c] /\ (c # 1 => h[c - 1] = g[c - 1])
      BY <1>2, <2>2, SMT
    <3>2. g[c] = IF c = 1 THEN MinObj ELSE 2 * g[c - 1]
      BY <1>4, <3>1 DEF DoubleTo
    <3> HIDE DEF h
    <3>. QED
      BY <3>1, <3>2
  <2>. QED
    BY <2>1, <2>2
<1>6. DoubleTo(h, i)
  <2>1. h = [c \in 1 .. i |-> h[c]]
    OBVIOUS
  <2> HIDE DEF h
  <2>. QED
    BY <1>5, <2>1 DEF DoubleTo
<1>. QED
  BY <1>2, <1>6

\* The caches have positive sizes: none is the first without.
LEMMA CacheBytesType ==
  ASSUME SetFacts, NEW c \in Caches
  PROVE  CacheBytes[c] \in Nat \ {0}
<1>1. DoubleTo(CacheBytes, NCaches)
  <2>1. \E g : DoubleTo(g, NCaches)
    BY Consts, Doubles
  <2>. QED
    BY <2>1, Zenon DEF CacheBytes, DoubleTo, Caches
<1>2. \A d \in 1 .. NCaches : CacheBytes[d] = IF d = 1 THEN MinObj ELSE 2 * CacheBytes[d - 1]
  BY <1>1, Zenon DEF DoubleTo
<1> DEFINE f == CacheBytes
           bad == {d \in 1 .. NCaches : f[d] \notin Nat \ {0}}
<1>3. \A d \in 1 .. NCaches : f[d] = IF d = 1 THEN MinObj ELSE 2 * f[d - 1]
  BY <1>2
<1> HIDE DEF f
<1>4. bad = {}
  <2> SUFFICES ASSUME bad # {} PROVE FALSE
    BY Zenon
  <2>1. PICK d \in bad : \A e \in bad : d <= e
    <3>1. bad \in SUBSET Nat
      BY Consts
    <3> HIDE DEF bad
    <3>. QED
      BY <3>1, LeastNat, Zenon
  <2>2. d \in 1 .. NCaches /\ f[d] \notin Nat \ {0}
    OBVIOUS
  <2>3. d # 1
    BY <1>3, <2>2, Consts
  <2>4. d - 1 \in 1 .. NCaches /\ ~(d <= d - 1)
    BY <2>2, <2>3, Consts
  <2>5. f[d - 1] \in Nat \ {0}
    BY <2>1, <2>4
  <2>6. f[d] = 2 * f[d - 1]
    BY <1>3, <2>2, <2>3
  <2>. QED
    BY <2>2, <2>5, <2>6
<1>. QED
  BY <1>4 DEF f, Caches

\* How many objects a slab holds, and the memory it takes.
LEMMA PerSlabType ==
  ASSUME NEW z \in Nat \ {0}
  PROVE  PerSlab(z) \in Nat \ {0} /\ SlabMem(z) \in Nat \ {0}
<1> DEFINE d == z + CtlSize
           n == (PageSize - SlabHdr) \div d
           m == PerSlab(z)
<1>1. d \in Nat \ {0} /\ PageSize - SlabHdr \in Nat
  BY Consts
<1> HIDE DEF d
<1>2. n \in Nat
  BY <1>1, DivBounds
<1>3. m = IF n = 0 THEN 1 ELSE n
  BY Zenon DEF PerSlab, d
<1> HIDE DEF n
<1>4. m \in Nat \ {0}
  BY <1>2, <1>3
<1>5. SlabMem(z) = SlabHdr + m * CtlSize + (Align - 1) + m * z
  BY Zenon DEF SlabMem
<1> HIDE DEF m
<1>6. m * CtlSize \in Nat /\ m * z \in Nat /\ m * z > 0
  BY <1>4, Consts
<1>7. SlabHdr + m * CtlSize + (Align - 1) + m * z \in Nat \ {0}
  BY <1>6, Consts
<1>. QED
  BY <1>4, <1>5, <1>7 DEF m

\* An object of a cache, and how many there are in a slab.
LEMMA ObjSizes ==
  ASSUME SetFacts, NEW c \in Caches
  PROVE  /\ ObjSize(c) \in Nat \ {0} /\ CacheBytes[c] <= ObjSize(c)
         /\ ObjsPerSlab(c) \in Nat \ {0} /\ SlabMem(ObjSize(c)) \in Nat \ {0}
         /\ SlabMem(ObjSize(c)) = SlabHdr + ObjsPerSlab(c) * CtlSize + (Align - 1)
                                    + ObjsPerSlab(c) * ObjSize(c)
<1>1. CacheBytes[c] \in Nat \ {0}
  BY CacheBytesType
<1>2. ObjSize(c) \in Nat \ {0} /\ CacheBytes[c] <= ObjSize(c)
  BY <1>1, AlignUpIs DEF ObjSize
<1>3. ObjsPerSlab(c) \in Nat \ {0} /\ SlabMem(ObjSize(c)) \in Nat \ {0}
  BY <1>2, PerSlabType, Zenon DEF ObjsPerSlab
<1>4. SlabMem(ObjSize(c)) = SlabHdr + ObjsPerSlab(c) * CtlSize + (Align - 1)
                              + ObjsPerSlab(c) * ObjSize(c)
  BY Zenon DEF SlabMem, ObjsPerSlab
<1>. QED
  BY <1>2, <1>3, <1>4, Zenon

\* The pages of a slab.
SlabPages(c) == PagesOf(SlabMem(ObjSize(c)))

\* An object lies in its slab's pages, behind the bufctl array, in the part that
\* cache_dealloc looks at.
LEMMA ObjInside ==
  ASSUME SetFacts, NEW s \in Nat, NEW c \in Caches, NEW i \in 0 .. ObjsPerSlab(c) - 1
  PROVE  /\ ObjAddr(s, c, i) \in Nat /\ ObjBase(s, c) \in Nat
         /\ s * PageSize + SlabHdr + ObjsPerSlab(c) * CtlSize <= ObjAddr(s, c, i)
         /\ ObjBase(s, c) <= ObjAddr(s, c, i)
         /\ ObjAddr(s, c, i) + ObjSize(c) <= ObjBase(s, c) + ObjSize(c) * ObjsPerSlab(c)
         /\ ObjAddr(s, c, i) + ObjSize(c) <= (s + SlabPages(c)) * PageSize
         /\ SlabPages(c) \in Nat \ {0}
<1> DEFINE z == ObjSize(c)
           m == ObjsPerSlab(c)
           b == ObjBase(s, c)
           h == s * PageSize + SlabHdr + m * CtlSize
           k == SlabPages(c)
<1>1. /\ z \in Nat \ {0} /\ m \in Nat \ {0} /\ SlabMem(z) \in Nat \ {0}
      /\ SlabMem(z) = SlabHdr + m * CtlSize + (Align - 1) + m * z
  BY ObjSizes, Zenon
<1>2. k \in Nat \ {0} /\ SlabMem(z) <= k * PageSize
  BY <1>1, PagesCover DEF SlabPages
<1>3. ObjAddr(s, c, i) = b + z * i /\ b = AlignUp(h)
  BY Zenon DEF ObjAddr, ObjBase
<1> HIDE DEF z, m, k, b
<1>4. s * PageSize \in Nat /\ m * CtlSize \in Nat /\ h \in Nat
  BY <1>1, Consts
<1> HIDE DEF h
<1>5. b \in Nat /\ h <= b /\ b <= h + (Align - 1)
  BY <1>3, <1>4, AlignUpIs
<1>6. i \in Nat /\ z * i \in Nat /\ z * i + z <= z * m /\ z * m \in Nat /\ z * m = m * z
  <2>1. i \in Nat /\ i + 1 <= m /\ i + 1 \in Nat
    BY <1>1 DEF m
  <2>2. (i + 1) * z <= m * z /\ m * z \in Nat
    BY <1>1, <2>1, Mono
  <2>3. (i + 1) * z = z * i + z /\ z * i \in Nat
    BY <1>1, <2>1
  <2>. QED
    BY <1>1, <2>1, <2>2, <2>3
<1>7. (s + k) * PageSize = s * PageSize + k * PageSize
  BY <1>2, Consts
<1> DEFINE sp == s * PageSize
           kp == k * PageSize
           mc == m * CtlSize
           zi == z * i
           zm == z * m
<1>8. /\ sp \in Nat /\ kp \in Nat /\ mc \in Nat /\ zi \in Nat /\ zm \in Nat
      /\ zi + z <= zm /\ h = sp + SlabHdr + mc /\ h <= b /\ b <= h + (Align - 1)
      /\ SlabHdr + mc + (Align - 1) + zm <= kp
  BY <1>1, <1>2, <1>4, <1>5, <1>6, Consts DEF h
<1>9. (s + k) * PageSize = sp + kp
  BY <1>7
<1> HIDE DEF sp, kp, mc, zi, zm
<1>10. /\ h <= b + zi /\ b <= b + zi /\ (b + zi) + z <= b + zm /\ (b + zi) + z <= sp + kp
       /\ b + zi \in Nat
  BY <1>1, <1>5, <1>8, Consts
<1>. QED
  BY <1>2, <1>3, <1>5, <1>9, <1>10, Zenon DEF z, m, k, b, h, zi, zm

\* The objects of a slab lie one behind the other.
LEMMA ObjApart ==
  ASSUME SetFacts, NEW s \in Nat, NEW c \in Caches, NEW i \in 0 .. ObjsPerSlab(c) - 1,
         NEW j \in 0 .. ObjsPerSlab(c) - 1, i < j
  PROVE  ObjAddr(s, c, i) + ObjSize(c) <= ObjAddr(s, c, j)
<1> DEFINE z == ObjSize(c)
           b == ObjBase(s, c)
<1>1. z \in Nat \ {0} /\ ObjsPerSlab(c) \in Nat \ {0} /\ b \in Nat
  BY ObjSizes, ObjInside
<1>2. ObjAddr(s, c, i) = b + z * i /\ ObjAddr(s, c, j) = b + z * j
  BY Zenon DEF ObjAddr
<1> HIDE DEF z, b
<1>3. i + 1 \in Nat /\ i + 1 <= j /\ i \in Nat /\ j \in Nat
  BY <1>1
<1>4. (i + 1) * z <= j * z
  BY <1>1, <1>3, Mono
<1>5. (i + 1) * z = z * i + z /\ j * z = z * j /\ z * i \in Nat /\ z * j \in Nat
  BY <1>1, <1>3
<1> DEFINE zi == z * i
           zj == z * j
<1>6. zi + z <= zj /\ zi \in Nat /\ zj \in Nat
  BY <1>4, <1>5
<1>7. ObjAddr(s, c, i) = b + zi /\ ObjAddr(s, c, j) = b + zj
  BY <1>2
<1> HIDE DEF zi, zj
<1>8. (b + zi) + z <= b + zj
  BY <1>1, <1>6
<1>. QED
  BY <1>7, <1>8, Zenon DEF z

\* Where the block of a request for whole pages at s starts, and that it ends in them.
RawAt(s) == AlignUp(s * PageSize + HdrSize) - HdrSize

\* A block of whole pages: its bytes lie inside the pages it was given.
LEMMA RawInside ==
  ASSUME NEW s \in Nat, NEW size \in Nat \ {0}
  PROVE  /\ RawAt(s) \in Nat /\ s * PageSize <= RawAt(s)
         /\ PagesOf(RawBytes(size)) \in Nat \ {0} /\ RawBytes(size) \in Nat \ {0}
         /\ RawAt(s) + HdrSize + size <= (s + PagesOf(RawBytes(size))) * PageSize
<1> DEFINE k == PagesOf(RawBytes(size))
           sp == s * PageSize
           kp == k * PageSize
           a == AlignUp(sp + HdrSize)
<1>1. RawBytes(size) = HdrSize + size + Align - 1 /\ RawBytes(size) \in Nat \ {0}
  BY Consts DEF RawBytes
<1>2. k \in Nat \ {0} /\ RawBytes(size) <= kp
  BY <1>1, PagesCover
<1>3. sp \in Nat /\ sp + HdrSize \in Nat
  BY Consts
<1>4. a \in Nat /\ sp + HdrSize <= a /\ a <= sp + HdrSize + (Align - 1)
  <2> HIDE DEF sp
  <2>. QED
    BY <1>3, AlignUpIs
<1>5. RawAt(s) = a - HdrSize
  BY Zenon DEF RawAt
<1>6. (s + k) * PageSize = sp + kp /\ kp \in Nat
  BY <1>2, Consts
<1> HIDE DEF k, kp, a
<1>7. sp <= a - HdrSize /\ a - HdrSize \in Nat /\ (a - HdrSize) + HdrSize + size <= sp + kp
  <2> HIDE DEF sp
  <2>. QED
    BY <1>1, <1>2, <1>3, <1>4, <1>6, Consts
<1>. QED
  BY <1>1, <1>2, <1>5, <1>6, <1>7, Zenon DEF k

-----------------------------------------------------------------------------
(* The inductive invariant                                                 *)

\* The page allocator: the pages of every run are marked and the runs lie one
\* behind the other, behind page 0.
PagesOk(bm, pc) ==
  /\ bm \subseteq Page /\ pc \in [Page -> Nat] /\ 0 \in bm /\ pc[0] = 0
  /\ \A s \in Page : s + pc[s] <= NPages
  /\ \A s, x \in Page : s <= x /\ x < s + pc[s] => x \in bm
  /\ \A s, t \in Page : pc[s] > 0 /\ pc[t] > 0 /\ s < t => s + pc[s] <= t

\* The runs of allocator_init.
Fixed == {1, 1 + PagesOf(CacheSize)}

Idx(c) == 0 .. ObjsPerSlab(c) - 1
IsSlab(sl) == /\ sl.cache \in Caches /\ sl.free \in 0 .. ObjsPerSlab(sl.cache)
              /\ sl.bufctl \in [Idx(sl.cache) -> Idx(sl.cache)]
              /\ sl = [cache |-> sl.cache, free |-> sl.free, bufctl |-> sl.bufctl]

\* A slab lies at the start of a run of its own, made for its cache.
SlabsOk(pc, sb) ==
  \A s \in DOMAIN sb : /\ s \in Page \ Fixed /\ IsSlab(sb[s])
                       /\ pc[s] = SlabPages(sb[s].cache)

\* A block in use has whole pages of its own, or is an object of a slab.
IsRaw(pc, sb, p, h) ==
  /\ h.cache = None /\ h.raw_base \in Page \ Fixed /\ h.raw_base \notin DOMAIN sb
  /\ pc[h.raw_base] = PagesOf(RawBytes(h.size)) /\ p = RawAt(h.raw_base)
IsObj(sb, p, h) ==
  /\ h.cache \in Caches /\ HdrSize + h.size <= ObjSize(h.cache)
  /\ \E s \in DOMAIN sb, i \in Idx(h.cache) :
       sb[s].cache = h.cache /\ p = ObjAddr(s, h.cache, i)
LivesOk(pc, sb, lv) ==
  \A p \in DOMAIN lv : /\ lv[p].size \in Nat \ {0}
                       /\ IsRaw(pc, sb, p, lv[p]) \/ IsObj(sb, p, lv[p])

\* The indices on the stack of free objects are different and those not in use.
Stack(sl) == sl.free .. ObjsPerSlab(sl.cache) - 1
StackOk(s, sl, lv) ==
  /\ \A i, j \in Stack(sl) : sl.bufctl[i] = sl.bufctl[j] => i = j
  /\ \A i \in Idx(sl.cache) :
       ObjAddr(s, sl.cache, i) \in DOMAIN lv <=> \A j \in Stack(sl) : sl.bufctl[j] # i
StacksOk(sb, lv) == \A s \in DOMAIN sb : StackOk(s, sb[s], lv)

\* l lists the members of T, each once.
Lists(l, T) ==
  /\ l \in Seq(T) /\ \A s \in T : \E i \in 1 .. Len(l) : l[i] = s
  /\ \A i, j \in 1 .. Len(l) : l[i] = l[j] => i = j

\* Every slab is on the list for how full it is.
SlabsOf(sb, c) == {s \in DOMAIN sb : sb[s].cache = c}
FullOf(sb, c) == {s \in SlabsOf(sb, c) : sb[s].free = ObjsPerSlab(c)}
PartialOf(sb, c) == {s \in SlabsOf(sb, c) : 0 < sb[s].free /\ sb[s].free < ObjsPerSlab(c)}
EmptyOf(sb, c) == {s \in SlabsOf(sb, c) : sb[s].free = 0}

KRec == [full : Seq(Page), partial : Seq(Page), free : Seq(Page), inuse : Int,
         totalobjs : Int]
Listed(k, F, Q, Z) == Lists(k.full, F) /\ Lists(k.partial, Q) /\ Lists(k.free, Z)
ListsOk(ca, sb) ==
  /\ ca \in [Caches -> KRec]
  /\ \A c \in Caches : Listed(ca[c], FullOf(sb, c), PartialOf(sb, c), EmptyOf(sb, c))

\* The counters count.
LiveOf(lv, c) == {p \in DOMAIN lv : lv[p].cache = c}
CountsOk(ca, sb, lv) ==
  /\ IsFiniteSet(DOMAIN lv)
  /\ \A c \in Caches : /\ ca[c].inuse = Cardinality(LiveOf(lv, c))
                       /\ ca[c].totalobjs = ObjsPerSlab(c) * Cardinality(SlabsOf(sb, c))

\* Every run has its user.
Uses(s, sb, lv) ==
  \/ s \in Fixed \/ s \in DOMAIN sb
  \/ \E p \in DOMAIN lv : lv[p].cache = None /\ lv[p].raw_base = s
Owned(pc, sb, lv) == Fixed \subseteq Page /\ \A s \in Page : pc[s] > 0 <=> Uses(s, sb, lv)

Inv(bm, pc, ca, sb, lv) ==
  /\ PagesOk(bm, pc) /\ SlabsOk(pc, sb) /\ LivesOk(pc, sb, lv) /\ StacksOk(sb, lv)
  /\ ListsOk(ca, sb) /\ CountsOk(ca, sb, lv) /\ Owned(pc, sb, lv)

IInv == Inv(bitmap, page_counts, cache, slab, live) /\ held \in [Page -> Nat]

\* No cache is None.
LEMMA NoneIs == None \notin Caches
BY DEF None, Caches

\* allocator_init.
LEMMA InitIInv ==
  ASSUME SetFacts
  PROVE  Init => IInv
<1> SUFFICES ASSUME Init PROVE IInv
  OBVIOUS
<1> DEFINE n1 == PagesOf(CacheSize)
           b2 == SlabMem(AlignUp(CacheSize))
           n2 == PagesOf(b2)
           counts == [p \in Page |-> IF p = 1 THEN n1 ELSE IF p = 1 + n1 THEN n2 ELSE 0]
<1>1. n1 \in Nat \ {0} /\ n2 \in Nat \ {0} /\ n1 + n2 < NPages
  <2>1. CacheSize \in Nat \ {0}
    BY Consts
  <2>2. AlignUp(CacheSize) \in Nat \ {0}
    <3>1. AlignUp(CacheSize) \in Nat /\ CacheSize <= AlignUp(CacheSize)
      BY <2>1, AlignUpIs
    <3>. QED
      BY <2>1, <3>1
  <2>3. b2 \in Nat \ {0}
    BY <2>2, PerSlabType, Zenon
  <2> HIDE DEF b2
  <2>4. n1 \in Nat \ {0} /\ Whole(CacheSize) = n1 * PageSize
    BY <2>1, PagesCover, Zenon
  <2>5. n2 \in Nat \ {0} /\ Whole(b2) = n2 * PageSize
    BY <2>3, PagesCover, Zenon
  <2>6. Whole(CacheSize) + Whole(b2) < NPages * PageSize
    BY SlabAssumption, Zenon DEF b2
  <2> HIDE DEF n1, n2
  <2>7. n1 \in Nat /\ n2 \in Nat /\ PageSize \in Nat \ {0} /\ n1 + n2 \in Nat /\ NPages \in Nat
    BY <2>4, <2>5, Consts
  <2>8. n1 * PageSize + n2 * PageSize = (n1 + n2) * PageSize
    BY <2>7
  <2>9. (n1 + n2) * PageSize < NPages * PageSize
    BY <2>4, <2>5, <2>6, <2>8, Zenon
  <2>10. n1 + n2 < NPages
    BY <2>7, <2>9, MonoBack, Zenon
  <2>. QED
    BY <2>4, <2>5, <2>10, Zenon
<1>2. /\ bitmap = 0 .. n1 + n2 /\ page_counts = counts /\ held = counts
      /\ cache = [c \in Caches |-> [full |-> <<>>, partial |-> <<>>, free |-> <<>>,
                                    inuse |-> 0, totalobjs |-> 0]]
      /\ slab = << >> /\ live = << >>
  BY Zenon DEF Init, PagesOf, Page, P!Page
<1> HIDE DEF n1, n2, b2
<1>3. counts \in [Page -> Nat]
  BY <1>1
<1>4. \A p \in Page : counts[p] = IF p = 1 THEN n1 ELSE IF p = 1 + n1 THEN n2 ELSE 0
  BY Zenon
<1> HIDE DEF counts
<1>5. PagesOk(bitmap, page_counts)
  <2>1. 0 .. n1 + n2 \subseteq Page /\ 0 \in 0 .. n1 + n2 /\ 0 \in Page
    BY <1>1, Consts DEF Page
  <2>2. counts[0] = 0
    BY <1>1, <1>4, <2>1
  <2>3. ASSUME NEW s \in Page
        PROVE  s + counts[s] <= NPages
               /\ \A x \in Page : s <= x /\ x < s + counts[s] => x \in 0 .. n1 + n2
    BY <1>1, <1>4, Consts DEF Page
  <2>4. ASSUME NEW s \in Page, NEW t \in Page, counts[s] > 0, counts[t] > 0, s < t
        PROVE  s + counts[s] <= t
    BY <1>1, <1>4, <2>4 DEF Page
  <2>. QED
    BY <1>2, <1>3, <2>1, <2>2, <2>3, <2>4, Zenon DEF PagesOk
<1>6. DOMAIN slab = {} /\ DOMAIN live = {}
  BY <1>2
<1>7. SlabsOk(page_counts, slab) /\ LivesOk(page_counts, slab, live) /\ StacksOk(slab, live)
  BY <1>6, Zenon DEF SlabsOk, LivesOk, StacksOk
<1>8. ASSUME NEW c \in Caches
      PROVE  /\ FullOf(slab, c) = {} /\ PartialOf(slab, c) = {} /\ EmptyOf(slab, c) = {}
             /\ SlabsOf(slab, c) = {} /\ LiveOf(live, c) = {}
  BY <1>6, Zenon DEF FullOf, PartialOf, EmptyOf, SlabsOf, LiveOf
<1>9. Lists(<<>>, {})
  BY DEF Lists
<1>10. ListsOk(cache, slab)
  <2>1. cache \in [Caches -> KRec]
    BY <1>2 DEF KRec
  <2>2. ASSUME NEW c \in Caches
        PROVE  cache[c].full = <<>> /\ cache[c].partial = <<>> /\ cache[c].free = <<>>
    BY <1>2
  <2>3. ASSUME NEW c \in Caches
        PROVE  Listed(cache[c], FullOf(slab, c), PartialOf(slab, c), EmptyOf(slab, c))
    BY <1>8, <1>9, <2>2, Zenon DEF Listed
  <2>. QED
    BY <2>1, <2>3, Zenon DEF ListsOk
<1>11. CountsOk(cache, slab, live)
  <2>1. IsFiniteSet({}) /\ Cardinality({}) = 0
    BY CardEmpty, Zenon
  <2>2. ASSUME NEW c \in Caches PROVE cache[c].inuse = 0 /\ cache[c].totalobjs = 0
    BY <1>2
  <2>3. ASSUME NEW c \in Caches PROVE ObjsPerSlab(c) * 0 = 0
    <3>1. ObjsPerSlab(c) \in Nat
      BY ObjSizes
    <3>. QED
      BY <3>1
  <2>. QED
    BY <1>6, <1>8, <2>1, <2>2, <2>3, Zenon DEF CountsOk
<1>12. Owned(page_counts, slab, live)
  <2>1. Fixed \subseteq Page
    BY <1>1, Consts DEF Fixed, Page, n1
  <2>2. ASSUME NEW s \in Page PROVE counts[s] > 0 <=> s \in Fixed
    BY <1>1, <1>4 DEF Fixed, n1
  <2>. QED
    BY <1>2, <1>6, <2>1, <2>2, Zenon DEF Owned, Uses
<1>. QED
  BY <1>2, <1>3, <1>5, <1>7, <1>10, <1>11, <1>12, Zenon DEF IInv, Inv

\* The heap starts with no block.
LEMMA InitIsMem == Init => Mem!Init
<1> SUFFICES ASSUME Init PROVE Mem!Init
  OBVIOUS
<1>1. live = << >>
  BY Zenon DEF Init
<1>2. DOMAIN live = {}
  BY <1>1
<1>. QED
  BY <1>2, Zenon DEF Mem!Init

-----------------------------------------------------------------------------
(* Where slabs and blocks lie                                              *)

\* So slabs have their type.
LEMMA SlabTyped ==
  ASSUME NEW sl, IsSlab(sl)
  PROVE  sl \in SlabRec
<1> DEFINE c == sl.cache
           f == sl.free
           b == sl.bufctl
           R(d) == [cache : {d}, free : 0 .. ObjsPerSlab(d),
                    bufctl : [0 .. ObjsPerSlab(d) - 1 -> 0 .. ObjsPerSlab(d) - 1]]
<1>1. /\ c \in Caches /\ f \in 0 .. ObjsPerSlab(c) /\ b \in [Idx(c) -> Idx(c)]
      /\ sl = [cache |-> c, free |-> f, bufctl |-> b]
  BY Zenon DEF IsSlab
<1> HIDE DEF c, f, b
<1>2. sl \in R(c)
  BY <1>1 DEF Idx
<1> HIDE DEF R
<1>3. SlabRec = UNION {R(d) : d \in Caches}
  BY Zenon DEF SlabRec, R
<1>. QED
  BY <1>1, <1>2, <1>3, Zenon

\* An object of a slab lies in the slab's run.
LEMMA SlabSpan ==
  ASSUME SetFacts, NEW bm, NEW pc, NEW sb, PagesOk(bm, pc), SlabsOk(pc, sb),
         NEW s \in DOMAIN sb,
         NEW i \in Idx(sb[s].cache)
  PROVE  LET c == sb[s].cache
             p == ObjAddr(s, c, i)
         IN  /\ s \in Page /\ s \in Nat /\ c \in Caches /\ pc[s] > 0 /\ p \in Nat
             /\ s * PageSize + SlabHdr + ObjsPerSlab(c) * CtlSize <= p
             /\ s * PageSize <= p /\ p + ObjSize(c) <= (s + pc[s]) * PageSize
<1> DEFINE c == sb[s].cache
           p == ObjAddr(s, c, i)
<1>1. s \in Page /\ c \in Caches /\ pc[s] = SlabPages(c)
  BY Zenon DEF SlabsOk, IsSlab
<1>2. s \in Nat
  BY <1>1, Consts DEF Page
<1>3. i \in 0 .. ObjsPerSlab(c) - 1
  BY DEF Idx
<1> HIDE DEF c
<1>4. /\ p \in Nat /\ s * PageSize + SlabHdr + ObjsPerSlab(c) * CtlSize <= p
      /\ p + ObjSize(c) <= (s + SlabPages(c)) * PageSize /\ SlabPages(c) \in Nat \ {0}
  BY <1>1, <1>2, <1>3, ObjInside, Zenon
<1> DEFINE sp == s * PageSize
           mc == ObjsPerSlab(c) * CtlSize
<1>5. sp \in Nat /\ mc \in Nat /\ sp + SlabHdr + mc <= p
  BY <1>1, <1>2, <1>4, ObjSizes, Consts
<1> HIDE DEF sp, mc, p
<1>6. sp <= p
  BY <1>4, <1>5, Consts
<1>7. pc[s] > 0
  BY <1>1, <1>4
<1>. QED
  BY <1>1, <1>2, <1>4, <1>6, <1>7, Zenon DEF c, p, sp

\* A block of whole pages lies in them.
LEMMA RawSpan ==
  ASSUME NEW pc, NEW sb, NEW p, NEW h, IsRaw(pc, sb, p, h), h.size \in Nat \ {0}
  PROVE  LET s == h.raw_base
         IN  /\ s \in Page /\ pc[s] > 0 /\ p \in Nat /\ s * PageSize <= p
             /\ p + HdrSize + h.size <= (s + pc[s]) * PageSize
<1> DEFINE s == h.raw_base
           z == h.size
<1>1. s \in Page /\ pc[s] = PagesOf(RawBytes(z)) /\ p = RawAt(s) /\ z \in Nat \ {0}
  BY Zenon DEF IsRaw
<1> HIDE DEF s, z
<1>2. s \in Nat
  BY <1>1, Consts DEF Page
<1>3. /\ RawAt(s) \in Nat /\ s * PageSize <= RawAt(s) /\ PagesOf(RawBytes(z)) \in Nat \ {0}
      /\ RawAt(s) + HdrSize + z <= (s + PagesOf(RawBytes(z))) * PageSize
  BY <1>1, <1>2, RawInside, Zenon
<1>4. pc[s] > 0
  BY <1>1, <1>3
<1>. QED
  BY <1>1, <1>3, <1>4, Zenon DEF s, z

\* The run a block in use lies in.
Home(pc, sb, p, h, s) ==
  /\ pc[s] > 0 /\ p \in Nat /\ s * PageSize <= p
  /\ p + HdrSize + h.size <= (s + pc[s]) * PageSize
  /\ h.cache = None => s = h.raw_base
  /\ h.cache # None =>
       /\ s \in DOMAIN sb /\ sb[s].cache = h.cache
       /\ s * PageSize + SlabHdr + ObjsPerSlab(h.cache) * CtlSize <= p

\* An object in use lies inside the pages of its slab.
LEMMA ObjHome ==
  ASSUME SetFacts, NEW bm, NEW pc, NEW sb, PagesOk(bm, pc), SlabsOk(pc, sb), NEW h,
         h.size \in Nat \ {0}, h.cache \in Caches, HdrSize + h.size <= ObjSize(h.cache),
         NEW s \in DOMAIN sb, sb[s].cache = h.cache, NEW i \in Idx(h.cache)
  PROVE  s \in Page /\ Home(pc, sb, ObjAddr(s, h.cache, i), h, s)
<1> DEFINE c == h.cache
           z == h.size
           p == ObjAddr(s, c, i)
           e == (s + pc[s]) * PageSize
<1>1. /\ s \in Page /\ s \in Nat /\ c \in Caches /\ pc[s] > 0 /\ p \in Nat
      /\ s * PageSize + SlabHdr + ObjsPerSlab(c) * CtlSize <= p
      /\ s * PageSize <= p /\ p + ObjSize(c) <= e
  BY SlabSpan, Zenon
<1>2. pc[s] \in Nat
  BY <1>1, Zenon DEF PagesOk
<1>3. e \in Nat
  BY <1>1, <1>2, Consts
<1>4. ObjSize(c) \in Nat /\ z \in Nat /\ HdrSize + z <= ObjSize(c)
  BY <1>1, ObjSizes
<1>5. c # None
  BY <1>1, NoneIs, Zenon
<1> HIDE DEF c, z, p, e
<1>6. p + HdrSize + z <= e
  BY <1>1, <1>3, <1>4, Consts
<1>. QED
  BY <1>1, <1>5, <1>6, Zenon DEF Home, c, z, p, e

\* So every block in use lies inside the pages of one run.
LEMMA LiveHome ==
  ASSUME SetFacts, NEW bm, NEW pc, NEW sb, PagesOk(bm, pc), SlabsOk(pc, sb), NEW p, NEW h,
         h.size \in Nat \ {0}, IsRaw(pc, sb, p, h) \/ IsObj(sb, p, h)
  PROVE  \E s \in Page : Home(pc, sb, p, h, s)
<1> USE Zenon
<1>1. CASE IsRaw(pc, sb, p, h)
  <2>1. h.cache = None
    BY <1>1 DEF IsRaw
  <2>2. h.raw_base \in Page /\ Home(pc, sb, p, h, h.raw_base)
    BY <1>1, <2>1, RawSpan DEF Home
  <2>. QED
    BY <2>2
<1>2. CASE IsObj(sb, p, h)
  <2>1. PICK s \in DOMAIN sb, i \in Idx(h.cache) :
          sb[s].cache = h.cache /\ p = ObjAddr(s, h.cache, i)
    BY <1>2 DEF IsObj
  <2>2. h.cache \in Caches /\ HdrSize + h.size <= ObjSize(h.cache)
    BY <1>2 DEF IsObj
  <2>. QED
    BY <2>1, <2>2, ObjHome
<1>. QED
  BY <1>1, <1>2

\* The bytes of two runs lie apart.
LEMMA BytesApart ==
  ASSUME NEW bm, NEW pc, PagesOk(bm, pc), NEW s \in Page, NEW t \in Page,
         pc[s] > 0, pc[t] > 0, s < t
  PROVE  (s + pc[s]) * PageSize <= t * PageSize
<1>1. pc \in [Page -> Nat] /\ s + pc[s] <= t
  BY Zenon DEF PagesOk
<1> DEFINE e == s + pc[s]
<1>2. e \in Nat /\ t \in Nat /\ e <= t
  BY <1>1, Consts DEF Page
<1> HIDE DEF e
<1>3. e * PageSize <= t * PageSize
  BY <1>2, Mono, Consts
<1>. QED
  BY <1>3 DEF e

\* What lies in different runs lies apart.
LEMMA HomesApart ==
  ASSUME NEW bm, NEW pc, PagesOk(bm, pc), NEW s \in Page, NEW t \in Page, s # t,
         pc[s] > 0, pc[t] > 0, NEW p \in Nat, NEW q \in Nat, NEW y \in Nat, NEW z \in Nat,
         s * PageSize <= p, p + y <= (s + pc[s]) * PageSize,
         t * PageSize <= q, q + z <= (t + pc[t]) * PageSize
  PROVE  p + y <= q \/ q + z <= p
<1> DEFINE a == s * PageSize
           b == (s + pc[s]) * PageSize
           c == t * PageSize
           d == (t + pc[t]) * PageSize
<1>1. s \in Nat /\ t \in Nat
  BY Consts DEF Page
<1>2. pc[s] \in Nat /\ pc[t] \in Nat
  BY Zenon DEF PagesOk
<1>3. a \in Nat /\ b \in Nat /\ c \in Nat /\ d \in Nat
  BY <1>1, <1>2, Consts
<1>4. s < t => b <= c
  BY BytesApart, Zenon
<1>5. t < s => d <= a
  BY BytesApart, Zenon
<1>6. s < t \/ t < s
  BY <1>1
<1>7. a <= p /\ p + y <= b /\ c <= q /\ q + z <= d
  OBVIOUS
<1> HIDE DEF a, b, c, d
<1>. QED
  BY <1>3, <1>4, <1>5, <1>6, <1>7

\* The address of an object tells its slab and its index.
LEMMA SameObj ==
  ASSUME SetFacts, NEW bm, NEW pc, NEW sb, PagesOk(bm, pc), SlabsOk(pc, sb),
         NEW s \in DOMAIN sb, NEW i \in Idx(sb[s].cache),
         NEW t \in DOMAIN sb, NEW j \in Idx(sb[t].cache),
         ObjAddr(s, sb[s].cache, i) = ObjAddr(t, sb[t].cache, j)
  PROVE  s = t /\ i = j
<1> DEFINE p == ObjAddr(s, sb[s].cache, i)
           q == ObjAddr(t, sb[t].cache, j)
           y == ObjSize(sb[s].cache)
           z == ObjSize(sb[t].cache)
<1>1. /\ s \in Page /\ s \in Nat /\ sb[s].cache \in Caches /\ pc[s] > 0 /\ p \in Nat
      /\ s * PageSize <= p /\ p + y <= (s + pc[s]) * PageSize
  BY SlabSpan, Zenon
<1>2. /\ t \in Page /\ sb[t].cache \in Caches /\ pc[t] > 0 /\ q \in Nat
      /\ t * PageSize <= q /\ q + z <= (t + pc[t]) * PageSize
  BY SlabSpan, Zenon
<1>3. y \in Nat \ {0} /\ z \in Nat \ {0}
  BY <1>1, <1>2, ObjSizes
<1>4. p = q
  OBVIOUS
<1>5. s # t => p + y <= q \/ q + z <= p
  <2>1. y \in Nat /\ z \in Nat
    BY <1>3
  <2> HIDE DEF p, q, y, z
  <2>. QED
    BY <1>1, <1>2, <2>1, HomesApart, Zenon
<1>6. s = t
  <2> HIDE DEF p, q, y, z
  <2>. QED
    BY <1>1, <1>2, <1>3, <1>4, <1>5
<1>7. i \in 0 .. ObjsPerSlab(sb[s].cache) - 1 /\ j \in 0 .. ObjsPerSlab(sb[s].cache) - 1
  BY <1>6 DEF Idx
<1>8. i < j => p + y <= ObjAddr(s, sb[s].cache, j)
  BY <1>1, <1>7, ObjApart, Zenon
<1>9. j < i => ObjAddr(s, sb[s].cache, j) + y <= p
  BY <1>1, <1>7, ObjApart, Zenon
<1>10. ObjAddr(s, sb[s].cache, j) = p
  BY <1>4, <1>6, Zenon
<1>11. i \in Int /\ j \in Int
  BY <1>7
<1> HIDE DEF p, q, y, z
<1>12. ~(i < j) /\ ~(j < i)
  BY <1>1, <1>3, <1>8, <1>9, <1>10
<1>. QED
  BY <1>6, <1>11, <1>12

\* A block of whole pages is no object.
LEMMA RawNoObj ==
  ASSUME SetFacts, NEW bm, NEW pc, NEW sb, PagesOk(bm, pc), SlabsOk(pc, sb), NEW p, NEW h,
         IsRaw(pc, sb, p, h), h.size \in Nat \ {0},
         NEW t \in DOMAIN sb, NEW i \in Idx(sb[t].cache)
  PROVE  ObjAddr(t, sb[t].cache, i) # p
<1> DEFINE c == sb[t].cache
           q == ObjAddr(t, c, i)
           s == h.raw_base
           z == HdrSize + h.size
<1>1. /\ t \in Page /\ c \in Caches /\ pc[t] > 0 /\ q \in Nat /\ t * PageSize <= q
      /\ q + ObjSize(c) <= (t + pc[t]) * PageSize
  BY SlabSpan
<1>2. /\ s \in Page /\ pc[s] > 0 /\ p \in Nat /\ s * PageSize <= p
      /\ p + HdrSize + h.size <= (s + pc[s]) * PageSize
  BY RawSpan
<1>3. s # t
  BY Zenon DEF IsRaw
<1>4. ObjSize(c) \in Nat /\ ObjSize(c) > 0
  BY <1>1, ObjSizes
<1>5. z \in Nat /\ z > 0 /\ p + HdrSize + h.size = p + z
  <2>1. h.size \in Nat /\ h.size > 0
    OBVIOUS
  <2>. QED
    BY <1>2, <2>1, Consts
<1> HIDE DEF q, c, s, z
<1>6. p + z <= (s + pc[s]) * PageSize
  BY <1>2, <1>5, Zenon
<1>7. q + ObjSize(c) <= p \/ p + z <= q
  BY <1>1, <1>2, <1>3, <1>4, <1>5, <1>6, HomesApart, Zenon
<1>8. q # p
  BY <1>1, <1>2, <1>4, <1>5, <1>7
<1>. QED
  BY <1>8, Zenon DEF q, c

\* Two blocks in use lie apart, headers included.
LEMMA LiveApart ==
  ASSUME SetFacts, NEW bm, NEW pc, NEW sb, NEW lv, PagesOk(bm, pc), SlabsOk(pc, sb),
         LivesOk(pc, sb, lv), NEW p \in DOMAIN lv, NEW q \in DOMAIN lv, p # q
  PROVE  p + (HdrSize + lv[p].size) <= q \/ q + (HdrSize + lv[q].size) <= p
<1> USE Zenon
<1> DEFINE g == lv[p]
           h == lv[q]
           y == HdrSize + g.size
           z == HdrSize + h.size
<1>1. /\ g.size \in Nat \ {0} /\ (IsRaw(pc, sb, p, g) \/ IsObj(sb, p, g))
      /\ h.size \in Nat \ {0} /\ (IsRaw(pc, sb, q, h) \/ IsObj(sb, q, h))
  BY DEF LivesOk
<1>2. PICK s \in Page : Home(pc, sb, p, g, s)
  BY <1>1, LiveHome
<1>3. PICK t \in Page : Home(pc, sb, q, h, t)
  BY <1>1, LiveHome
<1>4. y \in Nat /\ z \in Nat
  BY <1>1, Consts, SMT
<1>5. /\ pc[s] > 0 /\ p \in Nat /\ s * PageSize <= p /\ p + HdrSize + g.size <= (s + pc[s]) * PageSize
      /\ pc[t] > 0 /\ q \in Nat /\ t * PageSize <= q /\ q + HdrSize + h.size <= (t + pc[t]) * PageSize
  BY <1>2, <1>3 DEF Home
<1>6. p + HdrSize + g.size = p + y /\ q + HdrSize + h.size = q + z
  <2> DEFINE gs == g.size
             hs == h.size
  <2>1. gs \in Nat /\ hs \in Nat
    BY <1>1, SMT
  <2> HIDE DEF gs, hs
  <2>2. p + HdrSize + gs = p + (HdrSize + gs) /\ q + HdrSize + hs = q + (HdrSize + hs)
    BY <1>5, <2>1, Consts, SMT
  <2>. QED
    BY <2>2, SMT DEF gs, hs
<1>7. CASE s # t
  <2> HIDE DEF y, z, g, h
  <2>1. p + y <= (s + pc[s]) * PageSize /\ q + z <= (t + pc[t]) * PageSize
    BY <1>5, <1>6
  <2>2. p + y <= q \/ q + z <= p
    BY <1>4, <1>5, <1>7, <2>1, HomesApart
  <2>. QED
    BY <2>2 DEF y, z, g, h
<1>8. CASE s = t
  <2>1. ASSUME g.cache = None, h.cache = None PROVE FALSE
    <3>1. IsRaw(pc, sb, p, g) /\ IsRaw(pc, sb, q, h)
      BY <1>1, <2>1, NoneIs DEF IsObj
    <3>2. g.raw_base = s /\ h.raw_base = s
      BY <1>2, <1>3, <1>8, <2>1 DEF Home
    <3>. QED
      BY <3>1, <3>2 DEF IsRaw
  <2>2. ASSUME g.cache = None, h.cache # None PROVE FALSE
    <3>1. IsRaw(pc, sb, p, g)
      BY <1>1, <2>2, NoneIs DEF IsObj
    <3>2. g.raw_base = s /\ s \in DOMAIN sb
      BY <1>2, <1>3, <1>8, <2>2 DEF Home
    <3>. QED
      BY <3>1, <3>2 DEF IsRaw
  <2>3. ASSUME g.cache # None, h.cache = None PROVE FALSE
    <3>1. IsRaw(pc, sb, q, h)
      BY <1>1, <2>3, NoneIs DEF IsObj
    <3>2. h.raw_base = s /\ s \in DOMAIN sb
      BY <1>2, <1>3, <1>8, <2>3 DEF Home
    <3>. QED
      BY <3>1, <3>2 DEF IsRaw
  <2>4. CASE g.cache # None /\ h.cache # None
    <3>1. IsObj(sb, p, g) /\ IsObj(sb, q, h)
      BY <1>1, <2>4 DEF IsRaw
    <3>2. PICK u \in DOMAIN sb, i \in Idx(g.cache) :
            sb[u].cache = g.cache /\ p = ObjAddr(u, g.cache, i)
      BY <3>1 DEF IsObj
    <3>3. PICK v \in DOMAIN sb, j \in Idx(h.cache) :
            sb[v].cache = h.cache /\ q = ObjAddr(v, h.cache, j)
      BY <3>1 DEF IsObj
    <3>4. /\ g.cache \in Caches /\ HdrSize + g.size <= ObjSize(g.cache)
          /\ h.cache \in Caches /\ HdrSize + h.size <= ObjSize(h.cache)
      BY <3>1 DEF IsObj
    <3>5. ObjSize(g.cache) \in Nat /\ ObjSize(h.cache) \in Nat
      BY <3>4, ObjSizes, SMT
    <3>6. u \in Page /\ Home(pc, sb, p, g, u) /\ v \in Page /\ Home(pc, sb, q, h, v)
      BY <1>1, <3>2, <3>3, <3>4, ObjHome
    <3>7. /\ pc[u] > 0 /\ u * PageSize <= p /\ p + ObjSize(g.cache) <= (u + pc[u]) * PageSize
          /\ pc[v] > 0 /\ v * PageSize <= q /\ q + ObjSize(h.cache) <= (v + pc[v]) * PageSize
      BY <3>2, <3>3, SlabSpan
    <3>8. CASE u # v
      <4>1. p + ObjSize(g.cache) <= q \/ q + ObjSize(h.cache) <= p
        BY <1>5, <3>5, <3>6, <3>7, <3>8, HomesApart
      <4> DEFINE gs == ObjSize(g.cache)
                 hs == ObjSize(h.cache)
      <4>2. gs \in Nat /\ hs \in Nat /\ y <= gs /\ z <= hs /\ (p + gs <= q \/ q + hs <= p)
        BY <3>4, <3>5, <4>1
      <4> HIDE DEF gs, hs, y, z
      <4>3. p + y <= q \/ q + z <= p
        BY <1>4, <1>5, <4>2, SMT
      <4>. QED
        BY <4>3 DEF y, z
    <3>9. CASE u = v
      <4> DEFINE c == g.cache
                 cs == ObjSize(c)
      <4>1. /\ h.cache = c /\ p = ObjAddr(u, c, i) /\ q = ObjAddr(u, c, j)
            /\ i \in 0 .. ObjsPerSlab(c) - 1 /\ j \in 0 .. ObjsPerSlab(c) - 1
        BY <3>2, <3>3, <3>9 DEF Idx
      <4>2. u \in Nat /\ c \in Caches /\ cs \in Nat /\ y <= cs /\ z <= cs
        <5>1. u \in Nat
          BY <3>6, Consts, SMT DEF Page
        <5>. QED
          BY <3>4, <3>5, <4>1, <5>1
      <4>3. i # j
        BY <4>1
      <4>4. i < j \/ j < i
        <5>1. ObjsPerSlab(c) \in Nat
          BY <4>2, ObjSizes, SMT
        <5>. QED
          BY <4>1, <4>3, <5>1, SMTT(20)
      <4>5. p + cs <= q \/ q + cs <= p
        BY <4>1, <4>2, <4>4, ObjApart
      <4> HIDE DEF c, cs, y, z
      <4>6. p + y <= q \/ q + z <= p
        BY <1>4, <1>5, <4>2, <4>5, SMT
      <4>. QED
        BY <4>6 DEF y, z
    <3>. QED
      BY <3>8, <3>9
  <2>. QED
    BY <2>1, <2>2, <2>3, <2>4
<1>. QED
  BY <1>7, <1>8

-----------------------------------------------------------------------------
(* What the invariant gives                                                *)

\* Every run of pages has one user.
LEMMA Accounted == IInv => PagesAccounted
<1> USE Zenon
<1> SUFFICES ASSUME IInv PROVE PagesAccounted
  BY SMT
<1> DEFINE A == {s \in Page : page_counts[s] > 0}
           R == {live[p].raw_base : p \in {q \in DOMAIN live : live[q].cache = None}}
           B == Fixed \cup DOMAIN slab \cup R
<1>1. /\ Fixed \subseteq Page /\ \A s \in Page : page_counts[s] > 0 <=> Uses(s, slab, live)
      /\ SlabsOk(page_counts, slab) /\ LivesOk(page_counts, slab, live)
  BY DEF IInv, Inv, Owned
<1>2. DOMAIN slab \subseteq Page
  BY <1>1 DEF SlabsOk
<1>3. ASSUME NEW p \in DOMAIN live, live[p].cache = None PROVE live[p].raw_base \in Page
  BY <1>1, <1>3, NoneIs DEF LivesOk, IsRaw, IsObj
<1>4. \A s : s \in B <=> Uses(s, slab, live)
  BY DEF Uses
<1>5. B \subseteq Page
  BY <1>1, <1>2, <1>3
<1>6. A = B
  <2> HIDE DEF B
  <2>. QED
    BY <1>1, <1>4, <1>5
<1>. QED
  BY <1>6 DEF PagesAccounted, Fixed, PagesOf, Slabs, Page, P!Page

\* Every block lies in its pages.
LEMMA Placed ==
  ASSUME SetFacts
  PROVE  IInv => BlocksInTheirPages
<1> USE Zenon
<1> SUFFICES ASSUME IInv, NEW p \in DOMAIN live
             PROVE  \E s \in P!Page :
                      /\ Extent(p) \subseteq s * PageSize .. (s + page_counts[s]) * PageSize - 1
                      /\ IF live[p].cache = None THEN s = live[p].raw_base
                         ELSE /\ s \in Slabs /\ slab[s].cache = live[p].cache
                              /\ p >= s * PageSize + SlabHdr
                                        + ObjsPerSlab(slab[s].cache) * CtlSize
  BY DEF BlocksInTheirPages
<1> DEFINE h == live[p]
<1>1. /\ PagesOk(bitmap, page_counts) /\ SlabsOk(page_counts, slab)
      /\ LivesOk(page_counts, slab, live)
  BY DEF IInv, Inv
<1>2. h.size \in Nat \ {0} /\ (IsRaw(page_counts, slab, p, h) \/ IsObj(slab, p, h))
  BY <1>1 DEF LivesOk
<1>3. PICK s \in Page : Home(page_counts, slab, p, h, s)
  BY <1>1, <1>2, LiveHome
<1>4. p \in Nat /\ s * PageSize <= p
      /\ p + HdrSize + h.size <= (s + page_counts[s]) * PageSize
  BY <1>3 DEF Home
<1> DEFINE a == s * PageSize
           e == (s + page_counts[s]) * PageSize
<1>5. a \in Nat /\ e \in Nat
  <2>1. page_counts[s] \in Nat
    BY <1>1 DEF PagesOk
  <2>2. s \in Nat
    BY SMT DEF Page
  <2>. QED
    BY <2>1, <2>2, Consts, SMT
<1>6. Extent(p) \subseteq a .. e - 1
  <2>1. Extent(p) = p .. p + HdrSize + h.size - 1
    BY DEF Extent
  <2>2. a <= p /\ p + HdrSize + h.size <= e /\ p \in Nat
    BY <1>4
  <2>3. h.size \in Nat
    BY <1>2, SMT
  <2> HIDE DEF a, e, h
  <2>. QED
    BY <1>5, <2>1, <2>2, <2>3, Consts, SMT
<1>7. IF h.cache = None THEN s = h.raw_base
      ELSE /\ s \in Slabs /\ slab[s].cache = h.cache
           /\ s * PageSize + SlabHdr + ObjsPerSlab(slab[s].cache) * CtlSize <= p
  BY <1>3 DEF Home, Slabs
<1>8. ASSUME h.cache # None
      PROVE  p >= s * PageSize + SlabHdr + ObjsPerSlab(slab[s].cache) * CtlSize
  <2> DEFINE w == s * PageSize + SlabHdr + ObjsPerSlab(slab[s].cache) * CtlSize
  <2>1. w <= p
    BY <1>7, <1>8
  <2> HIDE DEF w
  <2>2. p >= w
    BY <2>1, SMT
  <2>. QED
    BY <2>2 DEF w
<1>9. s \in P!Page
  BY DEF Page, P!Page
<1>. QED
  BY <1>6, <1>7, <1>8, <1>9

Bytes(lv, p) == p .. p + HdrSize + lv[p].size - 1
Blocks(lv) == {Bytes(lv, p) : p \in DOMAIN lv}

\* The bytes of a block in use: some, inside the memory, and no other block's.
LEMMA BytesAre ==
  ASSUME SetFacts, NEW bm, NEW pc, NEW ca, NEW sb, NEW lv, Inv(bm, pc, ca, sb, lv),
         NEW p \in DOMAIN lv
  PROVE  /\ Bytes(lv, p) \in Mem!Blk
         /\ \A q \in DOMAIN lv : q # p => Bytes(lv, p) \cap Bytes(lv, q) = {}
<1> USE Zenon
<1> DEFINE h == lv[p]
           U == 0 .. NPages * PageSize - 1
<1>1. /\ PagesOk(bm, pc) /\ SlabsOk(pc, sb) /\ LivesOk(pc, sb, lv)
  BY DEF Inv
<1>2. ASSUME NEW q \in DOMAIN lv
      PROVE  q \in Nat /\ lv[q].size \in Nat /\ lv[q].size > 0
             /\ q + HdrSize + lv[q].size <= NPages * PageSize
  <2>1. lv[q].size \in Nat \ {0} /\ (IsRaw(pc, sb, q, lv[q]) \/ IsObj(sb, q, lv[q]))
    BY <1>1 DEF LivesOk
  <2>2. PICK s \in Page : Home(pc, sb, q, lv[q], s)
    BY <1>1, <2>1, LiveHome
  <2> DEFINE z == s + pc[s]
             e == z * PageSize
             m == NPages * PageSize
  <2>3. q \in Nat /\ q + HdrSize + lv[q].size <= e
    BY <2>2 DEF Home
  <2>4. z \in Nat /\ z <= NPages
    <3>1. pc[s] \in Nat /\ s + pc[s] <= NPages
      BY <1>1 DEF PagesOk
    <3>2. s \in Nat
      BY SMT DEF Page
    <3>. QED
      BY <3>1, <3>2, SMT
  <2> HIDE DEF z
  <2>5. e \in Nat /\ m \in Nat /\ e <= m
    BY <2>4, Consts, Mono, SMT
  <2> HIDE DEF e, m
  <2>6. q + HdrSize + lv[q].size <= m
    BY <2>1, <2>3, <2>5, Consts, SMTT(20)
  <2>7. lv[q].size \in Nat /\ lv[q].size > 0
    BY <2>1, SMT
  <2>. QED
    BY <2>3, <2>6, <2>7 DEF m
<1>3. Bytes(lv, p) \in Mem!Blk
  <2> DEFINE y == lv[p].size
             m == NPages * PageSize
  <2>1. p \in Nat /\ y \in Nat /\ y > 0 /\ p + HdrSize + y <= m
    BY <1>2
  <2>2. m \in Nat
    BY Consts, SMT
  <2> HIDE DEF y, m
  <2>3. p .. p + HdrSize + y - 1 \subseteq 0 .. m - 1 /\ p \in p .. p + HdrSize + y - 1
    BY <2>1, <2>2, Consts, SMT
  <2>4. Bytes(lv, p) \subseteq 0 .. m - 1 /\ p \in Bytes(lv, p)
    BY <2>3 DEF Bytes, y
  <2>. QED
    BY <2>4 DEF Mem!Blk, m
<1>4. ASSUME NEW q \in DOMAIN lv, q # p PROVE Bytes(lv, p) \cap Bytes(lv, q) = {}
  <2> DEFINE y == lv[p].size
             z == lv[q].size
  <2>1. p \in Nat /\ y \in Nat /\ q \in Nat /\ z \in Nat
    BY <1>2
  <2>2. p + (HdrSize + y) <= q \/ q + (HdrSize + z) <= p
    BY <1>1, <1>4, LiveApart
  <2> HIDE DEF y, z
  <2>3. (p .. p + HdrSize + y - 1) \cap (q .. q + HdrSize + z - 1) = {}
    BY <2>1, <2>2, Consts, SMT
  <2>. QED
    BY <2>3 DEF Bytes, y, z
<1>. QED
  BY <1>3, <1>4

\* One list behind the other.
LEMMA ListCat ==
  ASSUME NEW A, NEW B, A \cap B = {}, NEW a, NEW b, Lists(a, A), Lists(b, B)
  PROVE  Lists(a \o b, A \cup B)
<1> DEFINE m == a \o b
<1>1. /\ a \in Seq(A) /\ \A t \in A : \E i \in 1 .. Len(a) : a[i] = t
      /\ \A i, j \in 1 .. Len(a) : a[i] = a[j] => i = j
      /\ b \in Seq(B) /\ \A t \in B : \E i \in 1 .. Len(b) : b[i] = t
      /\ \A i, j \in 1 .. Len(b) : b[i] = b[j] => i = j
  BY Zenon DEF Lists
<1>2. /\ Len(a) \in Nat /\ \A i \in 1 .. Len(a) : a[i] \in A
      /\ Len(b) \in Nat /\ \A i \in 1 .. Len(b) : b[i] \in B
  BY <1>1
<1>3. /\ m \in Seq(A \cup B) /\ Len(m) = Len(a) + Len(b)
      /\ \A i \in 1 .. Len(a) : m[i] = a[i]
      /\ \A i \in 1 .. Len(b) : m[Len(a) + i] = b[i]
  <2>1. a \in Seq(A \cup B) /\ b \in Seq(A \cup B)
    BY <1>1
  <2>2. m \in Seq(A \cup B) /\ Len(m) = Len(a) + Len(b)
    BY <2>1
  <2>3. \A i \in 1 .. Len(a) : m[i] = a[i]
    BY <1>2, <2>1
  <2>4. \A i \in 1 .. Len(b) : m[Len(a) + i] = b[i]
    BY <1>2, <2>1
  <2>. QED
    BY <2>2, <2>3, <2>4, Zenon
<1> HIDE DEF m
<1>4. ASSUME NEW i \in 1 .. Len(m), i \notin 1 .. Len(a)
      PROVE  i - Len(a) \in 1 .. Len(b) /\ m[i] = b[i - Len(a)] /\ i = Len(a) + (i - Len(a))
  <2>1. i - Len(a) \in 1 .. Len(b) /\ i = Len(a) + (i - Len(a))
    BY <1>2, <1>3, <1>4
  <2>. QED
    BY <1>3, <2>1
<1>5. ASSUME NEW t \in A \cup B PROVE \E i \in 1 .. Len(m) : m[i] = t
  <2>1. CASE t \in A
    <3>1. PICK i \in 1 .. Len(a) : a[i] = t
      BY <1>1, <2>1, Zenon
    <3>2. i \in 1 .. Len(m)
      BY <1>2, <1>3
    <3>. QED
      BY <1>3, <3>1, <3>2, Zenon
  <2>2. CASE t \in B
    <3>1. PICK i \in 1 .. Len(b) : b[i] = t
      BY <1>1, <2>2, Zenon
    <3>2. Len(a) + i \in 1 .. Len(m)
      BY <1>2, <1>3
    <3>. QED
      BY <1>3, <3>1, <3>2, Zenon
  <2>. QED
    BY <2>1, <2>2, Zenon
<1>6. ASSUME NEW i \in 1 .. Len(m), NEW j \in 1 .. Len(m), m[i] = m[j] PROVE i = j
  <2>1. CASE i \in 1 .. Len(a) /\ j \in 1 .. Len(a)
    BY <1>1, <1>3, <1>6, <2>1, ZenonT(40)
  <2>2. CASE i \notin 1 .. Len(a) /\ j \notin 1 .. Len(a)
    <3> DEFINE x == i - Len(a)
               y == j - Len(a)
    <3>0. x \in 1 .. Len(b) /\ y \in 1 .. Len(b) /\ b[x] = b[y]
      BY <1>4, <1>6, <2>2
    <3> HIDE DEF x, y
    <3>2. x = y
      BY <1>1, <3>0, Zenon
    <3>1. i - Len(a) = j - Len(a)
      BY <3>2 DEF x, y
    <3>. QED
      BY <1>4, <2>2, <3>1, Zenon
  <2>3. CASE i \in 1 .. Len(a) /\ j \notin 1 .. Len(a)
    <3>1. m[i] \in A /\ m[j] \in B
      BY <1>2, <1>3, <1>4, <2>3, Zenon
    <3>. QED
      BY <1>6, <3>1
  <2>4. CASE i \notin 1 .. Len(a) /\ j \in 1 .. Len(a)
    <3>1. m[j] \in A /\ m[i] \in B
      BY <1>2, <1>3, <1>4, <2>4, Zenon
    <3>. QED
      BY <1>6, <3>1
  <2>. QED
    BY <2>1, <2>2, <2>3, <2>4, Zenon
<1>7. Lists(m, A \cup B)
  BY <1>3, <1>5, <1>6, Zenon DEF Lists
<1>. QED
  BY <1>7, Zenon DEF m

\* What is on a list.
LEMMA ListRange ==
  ASSUME NEW T, NEW l, Lists(l, T)
  PROVE  Range(l) = T /\ DOMAIN l = 1 .. Len(l) /\ Len(l) \in Nat
<1>1. /\ l \in Seq(T) /\ \A t \in T : \E i \in 1 .. Len(l) : l[i] = t
  BY Zenon DEF Lists
<1>2. Len(l) \in Nat /\ (\A i \in 1 .. Len(l) : l[i] \in T) /\ DOMAIN l = 1 .. Len(l)
  BY <1>1
<1>3. Range(l) \subseteq T
  BY <1>2, Zenon DEF Range
<1>4. T \subseteq Range(l)
  BY <1>1, <1>2, Zenon DEF Range
<1>. QED
  BY <1>2, <1>3, <1>4, Zenon

\* The three lists of a cache, one behind the other, list its slabs.
LEMMA AllListed ==
  ASSUME SetFacts, NEW pc, NEW ca, NEW sb, SlabsOk(pc, sb), ListsOk(ca, sb),
         NEW c \in Caches
  PROVE  Lists((ca[c].full \o ca[c].partial) \o ca[c].free, SlabsOf(sb, c))
<1> DEFINE F == FullOf(sb, c)
           Q == PartialOf(sb, c)
           Z == EmptyOf(sb, c)
           n == ObjsPerSlab(c)
<1>1. n \in Nat \ {0}
  BY ObjSizes
<1>2. ASSUME NEW s \in SlabsOf(sb, c) PROVE sb[s].free \in 0 .. n
  BY Zenon DEF SlabsOk, IsSlab, SlabsOf
<1>3. F \cap Q = {} /\ (F \cup Q) \cap Z = {}
  BY <1>1 DEF FullOf, PartialOf, EmptyOf
<1>4. (F \cup Q) \cup Z = SlabsOf(sb, c)
  BY <1>1, <1>2 DEF FullOf, PartialOf, EmptyOf
<1>5. Lists(ca[c].full, F) /\ Lists(ca[c].partial, Q) /\ Lists(ca[c].free, Z)
  BY Zenon DEF ListsOk, Listed
<1> HIDE DEF F, Q, Z
<1>6. Lists(ca[c].full \o ca[c].partial, F \cup Q)
  BY <1>3, <1>5, ListCat, Zenon
<1>7. Lists((ca[c].full \o ca[c].partial) \o ca[c].free, (F \cup Q) \cup Z)
  BY <1>3, <1>5, <1>6, ListCat, Zenon
<1>. QED
  BY <1>4, <1>7, Zenon

\* cache_dealloc finds the slab of an object in use.
LEMMA SlabFound ==
  ASSUME SetFacts, NEW bm, NEW pc, NEW ca, NEW sb, PagesOk(bm, pc), SlabsOk(pc, sb),
         ListsOk(ca, sb),
         NEW c \in Caches, NEW s \in DOMAIN sb, sb[s].cache = c, sb[s].free # 0,
         NEW i \in Idx(c), NEW p, p = ObjAddr(s, c, i)
  PROVE  SlabOf(ca[c], c, p) = s /\ s # 0
<1> USE Zenon
<1> DEFINE k == ca[c]
           on == k.full \o k.partial
           T == FullOf(sb, c) \cup PartialOf(sb, c)
           n == ObjsPerSlab(c)
           Has(t) == ObjBase(t, c) <= p /\ p < ObjBase(t, c) + ObjSize(c) * n
           hits == {j \in DOMAIN on : Has(on[j])}
<1>1. n \in Nat \ {0} /\ ObjSize(c) \in Nat /\ ObjSize(c) > 0
  BY ObjSizes, SMT
<1>2. Lists(on, T)
  <2>1. FullOf(sb, c) \cap PartialOf(sb, c) = {}
    BY <1>1, SMT DEF FullOf, PartialOf
  <2>2. Lists(k.full, FullOf(sb, c)) /\ Lists(k.partial, PartialOf(sb, c))
    BY DEF ListsOk, Listed
  <2>. QED
    BY <2>1, <2>2, ListCat
<1>3. DOMAIN on = 1 .. Len(on) /\ Len(on) \in Nat
  BY <1>2, ListRange
<1>4. s \in T
  <2>1. IsSlab(sb[s])
    BY DEF SlabsOk
  <2>2. sb[s].free \in 0 .. n
    BY <2>1 DEF IsSlab
  <2>. QED
    BY <1>1, <2>2, SMT DEF FullOf, PartialOf, SlabsOf
<1>5. /\ s \in Page /\ s \in Nat /\ pc[s] > 0 /\ p \in Nat /\ s * PageSize <= p
      /\ p + ObjSize(c) <= (s + pc[s]) * PageSize
  <2>1. i \in Idx(sb[s].cache)
    OBVIOUS
  <2>. QED
    BY <2>1, SlabSpan, SMT
<1>6. Has(s)
  <2> DEFINE e == ObjBase(s, c) + ObjSize(c) * n
  <2>1. i \in 0 .. ObjsPerSlab(c) - 1
    BY DEF Idx
  <2>2. ObjBase(s, c) <= p /\ p + ObjSize(c) <= e /\ ObjBase(s, c) \in Nat
    BY <1>5, <2>1, ObjInside
  <2>3. e \in Int
    BY <1>1, <2>2, SMT
  <2> HIDE DEF e
  <2>4. p < e
    BY <1>1, <1>5, <2>2, <2>3, SMTT(20)
  <2>. QED
    BY <2>2, <2>4 DEF e
<1>7. ASSUME NEW t \in T, Has(t) PROVE t = s
  <2> SUFFICES ASSUME t # s PROVE FALSE
    BY SMT
  <2>1. t \in DOMAIN sb /\ sb[t].cache = c
    BY DEF FullOf, PartialOf, SlabsOf
  <2>2. 0 \in Idx(c) /\ n - 1 \in Idx(c)
    BY <1>1, SMTT(20) DEF Idx
  <2> DEFINE e == (t + pc[t]) * PageSize
             z == ObjBase(t, c) + ObjSize(c) * n
  <2>3. t \in Page /\ t \in Nat /\ pc[t] > 0 /\ t * PageSize <= ObjAddr(t, c, 0)
    BY <2>1, <2>2, SlabSpan, SMT
  <2>4. ObjBase(t, c) \in Nat
    BY <2>2, <2>3, ObjInside DEF Idx
  <2>5. ObjAddr(t, c, n - 1) + ObjSize(c) <= e
    BY <2>1, <2>2, SlabSpan, SMTT(20)
  <2>6. ObjAddr(t, c, 0) = ObjBase(t, c) /\ ObjAddr(t, c, n - 1) + ObjSize(c) = z
    <3> DEFINE b == ObjBase(t, c)
               o == ObjSize(c)
    <3>1. o \in Nat /\ b \in Nat /\ n \in Nat
      BY <1>1, <2>4, SMTT(20)
    <3> HIDE DEF b, o, n
    <3>2. b + o * 0 = b /\ (b + o * (n - 1)) + o = b + o * n
      BY <3>1, SMT
    <3>. QED
      BY <3>2 DEF ObjAddr, b, o
  <2>7. p + 1 <= e /\ t * PageSize <= p
    <3>1. z \in Int /\ e \in Int /\ t * PageSize \in Int
      <4>1. pc[t] \in Nat
        BY <2>3 DEF PagesOk
      <4>. QED
        BY <1>1, <2>3, <2>4, <4>1, Consts, SMT
    <3>2. p < z /\ z <= e
      BY <1>7, <2>5, <2>6
    <3>3. t * PageSize <= ObjBase(t, c) /\ ObjBase(t, c) <= p
      BY <1>7, <2>3, <2>6
    <3> HIDE DEF z, e
    <3>. QED
      BY <1>5, <2>4, <3>1, <3>2, <3>3, SMTT(20)
  <2>8. p + ObjSize(c) <= p \/ p + 1 <= p
    <3>1. 1 \in Nat /\ ObjSize(c) \in Nat
      BY <1>1, SMT
    <3>2. p + 1 <= (t + pc[t]) * PageSize
      BY <2>7
    <3>. QED
      BY <1>5, <2>3, <2>7, <3>1, <3>2, HomesApart
  <2>. QED
    BY <1>1, <1>5, <2>8, SMT
<1> HIDE DEF Has
<1>8. PICK j \in 1 .. Len(on) : on[j] = s
  BY <1>2, <1>4 DEF Lists
<1>9. \A x \in 1 .. Len(on) : on[x] \in T /\ (on[x] = s => x = j)
  <2>1. Range(on) = T
    BY <1>2, ListRange
  <2>2. \A x, y \in 1 .. Len(on) : on[x] = on[y] => x = y
    BY <1>2 DEF Lists
  <2> HIDE DEF on, T
  <2>3. \A x \in 1 .. Len(on) : on[x] \in T
    BY <1>3, <2>1 DEF Range
  <2>. QED
    BY <1>8, <2>2, <2>3
<1>10. hits = {j}
  BY <1>3, <1>6, <1>7, <1>8, <1>9
<1>11. Min({j}) = j
  BY <1>3, <1>8, SMT DEF Min
<1>12. SlabOf(k, c, p) = IF hits = {} THEN 0 ELSE on[Min(hits)]
  BY DEF SlabOf, Has
<1> HIDE DEF on, hits
<1>13. SlabOf(k, c, p) = s
  BY <1>8, <1>10, <1>11, <1>12
<1>14. s # 0
  BY <1>5, SMT DEF PagesOk
<1>. QED
  BY <1>13, <1>14

\* The list a slab is on tells how full it is.
LEMMA Filling ==
  ASSUME SetFacts
  PROVE  IInv => ListsTellFill
<1> USE Zenon
<1> SUFFICES ASSUME IInv, NEW c \in Caches
             PROVE  LET on == cache[c].full \o cache[c].partial \o cache[c].free
                        n == ObjsPerSlab(c)
                    IN  /\ \A i, j \in DOMAIN on : i # j => on[i] # on[j]
                        /\ Range(on) = {s \in Slabs : slab[s].cache = c}
                        /\ \A s \in Range(cache[c].full) : slab[s].free = n
                        /\ \A s \in Range(cache[c].partial) : slab[s].free \in 1 .. n - 1
                        /\ \A s \in Range(cache[c].free) : slab[s].free = 0
  BY DEF ListsTellFill
<1> DEFINE on == (cache[c].full \o cache[c].partial) \o cache[c].free
           n == ObjsPerSlab(c)
<1>1. SlabsOk(page_counts, slab) /\ ListsOk(cache, slab)
  BY DEF IInv, Inv
<1>2. Lists(on, SlabsOf(slab, c))
  BY <1>1, AllListed
<1>3. Range(on) = SlabsOf(slab, c) /\ DOMAIN on = 1 .. Len(on)
  BY <1>2, ListRange
<1>4. \A i, j \in DOMAIN on : i # j => on[i] # on[j]
  <2> HIDE DEF on
  <2>. QED
    BY <1>2, <1>3 DEF Lists
<1>5. Range(on) = {s \in Slabs : slab[s].cache = c}
  BY <1>3 DEF SlabsOf, Slabs
<1>6. /\ Lists(cache[c].full, FullOf(slab, c)) /\ Lists(cache[c].partial, PartialOf(slab, c))
      /\ Lists(cache[c].free, EmptyOf(slab, c))
  BY <1>1 DEF ListsOk, Listed
<1>7. /\ Range(cache[c].full) = FullOf(slab, c) /\ Range(cache[c].partial) = PartialOf(slab, c)
      /\ Range(cache[c].free) = EmptyOf(slab, c)
  BY <1>6, ListRange
<1>8. /\ \A s \in FullOf(slab, c) : slab[s].free = n
      /\ \A s \in EmptyOf(slab, c) : slab[s].free = 0
  BY DEF FullOf, EmptyOf
<1>9. ASSUME NEW s \in PartialOf(slab, c) PROVE slab[s].free \in 1 .. n - 1
  <2>1. slab[s].free \in 0 .. n /\ 0 < slab[s].free /\ slab[s].free < n
    BY <1>1 DEF PartialOf, SlabsOf, SlabsOk, IsSlab
  <2>2. n \in Nat
    BY ObjSizes, SMT
  <2>. QED
    BY <2>1, <2>2, SMT
<1> HIDE DEF on, n
<1>10. /\ \A s \in Range(cache[c].full) : slab[s].free = n
       /\ \A s \in Range(cache[c].partial) : slab[s].free \in 1 .. n - 1
       /\ \A s \in Range(cache[c].free) : slab[s].free = 0
  BY <1>7, <1>8, <1>9
<1>. QED
  BY <1>4, <1>5, <1>10 DEF on, n

\* The stack of a slab holds what is not in use.
LEMMA Stacked ==
  ASSUME SetFacts
  PROVE  IInv => FreeStackExact
<1> USE Zenon
<1> SUFFICES ASSUME IInv, NEW s \in Slabs
             PROVE  LET c == slab[s].cache
                        n == ObjsPerSlab(c)
                        stack == slab[s].free .. n - 1
                    IN  /\ \A i, j \in stack : i # j => slab[s].bufctl[i] # slab[s].bufctl[j]
                        /\ {ObjAddr(s, c, slab[s].bufctl[i]) : i \in stack} =
                             {ObjAddr(s, c, i) : i \in 0 .. n - 1} \ LiveIn(s)
  BY DEF FreeStackExact
<1> DEFINE c == slab[s].cache
           n == ObjsPerSlab(c)
           b == slab[s].bufctl
           S == Stack(slab[s])
<1>1. s \in DOMAIN slab /\ StackOk(s, slab[s], live) /\ IsSlab(slab[s]) /\ s \in Page
  BY DEF IInv, Inv, StacksOk, SlabsOk, Slabs
<1>2. c \in Caches /\ b \in [Idx(c) -> Idx(c)] /\ slab[s].free \in 0 .. n
  BY <1>1 DEF IsSlab
<1>3. n \in Nat \ {0} /\ ObjSize(c) \in Nat /\ ObjSize(c) > 0 /\ s \in Nat
  BY <1>1, <1>2, ObjSizes, SMT DEF Page
<1>4. S = slab[s].free .. n - 1 /\ Idx(c) = 0 .. n - 1
  BY DEF Stack, Idx
<1>5. S \subseteq Idx(c)
  BY <1>2, <1>3, <1>4, SMT
<1>6. /\ \A i, j \in S : b[i] = b[j] => i = j
      /\ \A i \in Idx(c) : ObjAddr(s, c, i) \in DOMAIN live <=> \A j \in S : b[j] # i
  BY <1>1 DEF StackOk
<1>7. ASSUME NEW i \in Idx(c) PROVE ObjAddr(s, c, i) \in LiveIn(s) <=> ObjAddr(s, c, i) \in DOMAIN live
  <2> DEFINE p == ObjAddr(s, c, i)
             z == ObjBase(s, c)
             e == z + ObjSize(c) * n
  <2>1. p \in Nat /\ z \in Nat /\ z <= p /\ p + ObjSize(c) <= e
    BY <1>2, <1>3, <1>4, ObjInside
  <2>2. ObjAddr(s, c, n) = e /\ ObjAddr(s, c, 0) = z
    <3>1. z + ObjSize(c) * 0 = z
      <4> HIDE DEF z
      <4>. QED
        BY <1>3, <2>1, SMT
    <3>. QED
      BY <3>1 DEF ObjAddr
  <2>3. e \in Int
    BY <1>3, <2>1, SMT
  <2> HIDE DEF p, z, e
  <2>4. p \in z .. e - 1
    BY <1>3, <2>1, <2>3, SMT
  <2>5. LiveIn(s) = {q \in DOMAIN live : q \in ObjAddr(s, c, 0) .. ObjAddr(s, c, n) - 1}
    BY DEF LiveIn
  <2>6. LiveIn(s) = {q \in DOMAIN live : q \in z .. e - 1}
    BY <2>2, <2>5
  <2>7. p \in LiveIn(s) <=> p \in DOMAIN live
    BY <2>4, <2>6
  <2>. QED
    BY <2>7 DEF p
<1> HIDE DEF c, n, b, S
<1>8. \A i, j \in S : i # j => b[i] # b[j]
  BY <1>6
<1>9. {ObjAddr(s, c, b[i]) : i \in S} = {ObjAddr(s, c, i) : i \in Idx(c)} \ LiveIn(s)
  <2>1. ASSUME NEW i \in S
        PROVE  ObjAddr(s, c, b[i]) \in {ObjAddr(s, c, j) : j \in Idx(c)} \ LiveIn(s)
    <3>1. b[i] \in Idx(c)
      BY <1>2, <1>5
    <3>2. ObjAddr(s, c, b[i]) \notin DOMAIN live
      BY <1>6, <3>1
    <3>. QED
      BY <1>7, <3>1, <3>2
  <2>2. ASSUME NEW i \in Idx(c), ObjAddr(s, c, i) \notin LiveIn(s)
        PROVE  ObjAddr(s, c, i) \in {ObjAddr(s, c, b[j]) : j \in S}
    <3>1. ObjAddr(s, c, i) \notin DOMAIN live
      BY <1>7, <2>2
    <3>2. PICK j \in S : b[j] = i
      BY <1>6, <3>1
    <3>. QED
      BY <3>2
  <2>. QED
    BY <2>1, <2>2
<1>. QED
  BY <1>4, <1>8, <1>9 DEF c, n, b

\* The counters count.
LEMMA Counting == IInv => CountersExact
BY Zenon DEF IInv, Inv, CountsOk, CountersExact, LiveOf, SlabsOf, Slabs

\* The slabs of a cache are pages.
LEMMA OnPages ==
  ASSUME NEW pc, NEW sb, SlabsOk(pc, sb), NEW c
  PROVE  /\ FullOf(sb, c) \in SUBSET Page /\ PartialOf(sb, c) \in SUBSET Page
         /\ EmptyOf(sb, c) \in SUBSET Page /\ SlabsOf(sb, c) \in SUBSET Page
<1>1. SlabsOf(sb, c) \in SUBSET Page
  BY Zenon DEF SlabsOf, SlabsOk
<1>. QED
  BY <1>1, Zenon DEF FullOf, PartialOf, EmptyOf

\* Of finitely many blocks in use a cache has finitely many.
LEMMA LiveFinite ==
  ASSUME SetFacts, NEW lv, IsFiniteSet(DOMAIN lv), NEW c
  PROVE  IsFiniteSet(LiveOf(lv, c)) /\ Cardinality(LiveOf(lv, c)) \in Nat
<1>1. LiveOf(lv, c) \subseteq DOMAIN lv
  BY Zenon DEF LiveOf
<1>2. IsFiniteSet(LiveOf(lv, c))
  BY <1>1, CardSubset, Zenon
<1>. QED
  BY <1>2, CardNat, Zenon

\* The counters are naturals.
LEMMA CountsNat ==
  ASSUME SetFacts, NEW pc, NEW ca, NEW sb, NEW lv, SlabsOk(pc, sb), CountsOk(ca, sb, lv),
         NEW c \in Caches
  PROVE  ca[c].inuse \in Nat /\ ca[c].totalobjs \in Nat
<1> DEFINE m == Cardinality(SlabsOf(sb, c))
           n == ObjsPerSlab(c)
<1>1. ca[c].inuse = Cardinality(LiveOf(lv, c)) /\ ca[c].totalobjs = n * m
      /\ IsFiniteSet(DOMAIN lv)
  BY Zenon DEF CountsOk
<1>2. Cardinality(LiveOf(lv, c)) \in Nat
  BY <1>1, LiveFinite, Zenon
<1>3. m \in Nat
  <2>1. SlabsOf(sb, c) \subseteq Page
    BY OnPages, Zenon
  <2>2. 0 \in Int /\ NPages - 1 \in Int
    BY Consts
  <2>3. IsFiniteSet(Page)
    BY <2>2, CardInterval, Zenon DEF Page
  <2>. QED
    BY <2>1, <2>3, CardSubset, CardNat, Zenon
<1>4. n \in Nat
  BY ObjSizes
<1>5. n * m \in Nat
  <2> HIDE DEF n, m
  <2>. QED
    BY <1>3, <1>4
<1>. QED
  BY <1>1, <1>2, <1>5, Zenon

\* Type correctness.
LEMMA Typing ==
  ASSUME SetFacts
  PROVE  IInv => TypeOK
<1> USE Zenon
<1> SUFFICES ASSUME IInv PROVE TypeOK
  BY SMT
<1>1. /\ PagesOk(bitmap, page_counts) /\ SlabsOk(page_counts, slab)
      /\ LivesOk(page_counts, slab, live) /\ ListsOk(cache, slab)
      /\ CountsOk(cache, slab, live) /\ held \in [Page -> Nat]
  BY DEF IInv, Inv
<1>2. P!Page = Page
  BY DEF Page, P!Page
<1>3. P!TypeOK
  <2>1. bitmap \in SUBSET Page /\ page_counts \in [Page -> Nat]
        /\ \A s \in Page : s + page_counts[s] <= NPages
    BY <1>1 DEF PagesOk
  <2>2. ASSUME NEW s \in Page PROVE page_counts[s] \in 0 .. CountMod - 1
    BY <2>1, Consts, SMT DEF Page
  <2>3. page_counts \in [Page -> 0 .. CountMod - 1]
    BY <2>1, <2>2
  <2>. QED
    BY <1>1, <1>2, <2>1, <2>3 DEF P!TypeOK
<1>4. \A s \in Slabs : s \in P!Page /\ slab[s] \in SlabRec
  BY <1>1, <1>2, SlabTyped DEF SlabsOk, Slabs
<1>5. ASSUME NEW c \in Caches
      PROVE  /\ cache[c].inuse \in Nat /\ cache[c].totalobjs \in Nat
             /\ Range(cache[c].full \o cache[c].partial \o cache[c].free) \subseteq Slabs
  <2>1. Range((cache[c].full \o cache[c].partial) \o cache[c].free) = SlabsOf(slab, c)
    BY <1>1, AllListed, ListRange
  <2>2. SlabsOf(slab, c) \subseteq Slabs
    BY DEF SlabsOf, Slabs
  <2>. QED
    BY <1>1, <2>1, <2>2, CountsNat
<1>6. \A p \in DOMAIN live : live[p].cache \in Caches \cup {None}
  BY <1>1 DEF LivesOk, IsRaw, IsObj
<1>. QED
  BY <1>3, <1>4, <1>5, <1>6 DEF TypeOK

\* A cache without room has every object of every slab in use.
LEMMA FullCache ==
  ASSUME SetFacts, IInv, NEW c \in Caches, ~HasRoom(c)
  PROVE  cache[c].inuse = cache[c].totalobjs
<1> USE Zenon
<1> DEFINE S == SlabsOf(slab, c)
           I == Idx(c)
           L == LiveOf(live, c)
           n == ObjsPerSlab(c)
           f == [x \in S \X I |-> ObjAddr(x[1], c, x[2])]
<1>1. /\ PagesOk(bitmap, page_counts) /\ SlabsOk(page_counts, slab)
      /\ LivesOk(page_counts, slab, live) /\ StacksOk(slab, live) /\ ListsOk(cache, slab)
      /\ CountsOk(cache, slab, live)
  BY DEF IInv, Inv
<1>2. n \in Nat \ {0}
  BY ObjSizes, SMT
<1>3. ASSUME NEW s \in S PROVE slab[s].free = n /\ s \in DOMAIN slab /\ slab[s].cache = c
  <2>1. s \in DOMAIN slab /\ slab[s].cache = c
    BY DEF SlabsOf
  <2>2. slab[s].free \in 0 .. n
    BY <1>1, <2>1 DEF SlabsOk, IsSlab
  <2>3. cache[c].partial = <<>> /\ cache[c].free = <<>>
    BY DEF HasRoom
  <2>4. Lists(<<>>, PartialOf(slab, c)) /\ Lists(<<>>, EmptyOf(slab, c))
    BY <1>1, <2>3 DEF ListsOk, Listed
  <2>5. ASSUME NEW T, Lists(<<>>, T) PROVE T = {}
    BY <2>5, SMT DEF Lists
  <2>6. PartialOf(slab, c) = {} /\ EmptyOf(slab, c) = {}
    BY <2>4, <2>5
  <2>7. ~(0 < slab[s].free /\ slab[s].free < n) /\ slab[s].free # 0
    BY <2>6 DEF PartialOf, EmptyOf
  <2>. QED
    BY <1>2, <2>1, <2>2, <2>7, SMT
<1>4. ASSUME NEW s \in S, NEW i \in I PROVE ObjAddr(s, c, i) \in L
  <2> DEFINE q == ObjAddr(s, c, i)
  <2>1. StackOk(s, slab[s], live) /\ i \in Idx(slab[s].cache)
    BY <1>1, <1>3 DEF StacksOk
  <2>2. Stack(slab[s]) = {}
    <3>1. Stack(slab[s]) = n .. n - 1
      BY <1>3 DEF Stack
    <3> HIDE DEF n
    <3>. QED
      BY <1>2, <3>1, SMT
  <2>3. q \in DOMAIN live
    BY <1>3, <2>1, <2>2 DEF StackOk
  <2>4. live[q].size \in Nat \ {0}
        /\ (IsRaw(page_counts, slab, q, live[q]) \/ IsObj(slab, q, live[q]))
    BY <1>1, <2>3 DEF LivesOk
  <2>5. ~IsRaw(page_counts, slab, q, live[q])
    <3>1. q = ObjAddr(s, slab[s].cache, i)
      BY <1>3
    <3> DEFINE h == live[q]
    <3>2. h.size \in Nat \ {0} /\ s \in DOMAIN slab /\ PagesOk(bitmap, page_counts)
          /\ SlabsOk(page_counts, slab)
      BY <1>1, <1>3, <2>4
    <3> HIDE DEF q, h
    <3>3. IsRaw(page_counts, slab, q, h) => ObjAddr(s, slab[s].cache, i) # q
      BY <2>1, <3>2, RawNoObj, SMT
    <3>. QED
      BY <3>1, <3>3 DEF h
  <2>6. PICK t \in DOMAIN slab, j \in Idx(live[q].cache) :
          slab[t].cache = live[q].cache /\ q = ObjAddr(t, live[q].cache, j)
    BY <2>4, <2>5 DEF IsObj
  <2>7. t = s
    <3>1. j \in Idx(slab[t].cache) /\ ObjAddr(s, slab[s].cache, i) = ObjAddr(t, slab[t].cache, j)
      BY <1>3, <2>6
    <3>. QED
      BY <1>1, <1>3, <2>1, <3>1, SameObj, SMTT(30)
  <2>8. live[q].cache = c
    BY <1>3, <2>6, <2>7
  <2>. QED
    BY <2>3, <2>8 DEF LiveOf
<1>5. ASSUME NEW p \in L PROVE \E s \in S, i \in I : p = ObjAddr(s, c, i)
  <2>1. p \in DOMAIN live /\ live[p].cache = c
    BY DEF LiveOf
  <2>2. IsObj(slab, p, live[p])
    BY <1>1, <2>1, NoneIs DEF LivesOk, IsRaw
  <2>3. PICK s \in DOMAIN slab, i \in Idx(c) : slab[s].cache = c /\ p = ObjAddr(s, c, i)
    BY <2>1, <2>2 DEF IsObj
  <2>. QED
    BY <2>3 DEF SlabsOf
<1>6. ASSUME NEW s \in S, NEW i \in I, NEW t \in S, NEW j \in I,
             ObjAddr(s, c, i) = ObjAddr(t, c, j)
      PROVE  s = t /\ i = j
  <2>1. /\ s \in DOMAIN slab /\ t \in DOMAIN slab
        /\ i \in Idx(slab[s].cache) /\ j \in Idx(slab[t].cache)
        /\ ObjAddr(s, slab[s].cache, i) = ObjAddr(t, slab[t].cache, j)
    BY <1>3, <1>6
  <2>. QED
    BY <1>1, <2>1, SameObj, SMT
<1>7. IsFiniteSet(S) /\ IsFiniteSet(I) /\ Cardinality(I) = n
  <2>1. S \subseteq Page
    BY <1>1, OnPages
  <2>2. 0 \in Int /\ NPages - 1 \in Int /\ n - 1 \in Int
    BY <1>2, Consts, SMT
  <2>3. IsFiniteSet(Page)
    BY <2>2, CardInterval DEF Page
  <2>4. IsFiniteSet(I) /\ Cardinality(I) = IF 0 > n - 1 THEN 0 ELSE (n - 1) - 0 + 1
    BY <2>2, CardInterval DEF Idx
  <2>5. Cardinality(I) = n
    <3> HIDE DEF I, n
    <3>. QED
      BY <1>2, <2>4, SMT
  <2>. QED
    BY <2>1, <2>3, <2>4, <2>5, CardSubset
<1> HIDE DEF S, I, L
<1>8. f \in Bijection(S \X I, L)
  <2>1. \A x \in S \X I : x[1] \in S /\ x[2] \in I /\ x = <<x[1], x[2]>>
    BY SMT
  <2>2. f \in [S \X I -> L]
    BY <1>4, <2>1
  <2>3. ASSUME NEW x \in S \X I, NEW y \in S \X I, f[x] = f[y] PROVE x = y
    <3>0. /\ f[x] = ObjAddr(x[1], c, x[2]) /\ f[y] = ObjAddr(y[1], c, y[2])
          /\ x[1] \in S /\ y[1] \in S /\ x[2] \in I /\ y[2] \in I
      BY <2>1
    <3>1. x[1] = y[1] /\ x[2] = y[2]
      <4> HIDE DEF f
      <4>1. ObjAddr(x[1], c, x[2]) = ObjAddr(y[1], c, y[2])
        BY <2>3, <3>0
      <4>. QED
        BY <1>6, <3>0, <4>1, SMT
    <3> HIDE DEF f
    <3>. QED
      BY <2>1, <3>1, SMT
  <2>4. ASSUME NEW p \in L PROVE \E x \in S \X I : f[x] = p
    <3>1. PICK s \in S, i \in I : p = ObjAddr(s, c, i)
      BY <1>5
    <3>2. <<s, i>> \in S \X I /\ <<s, i>>[1] = s /\ <<s, i>>[2] = i
      BY SMT
    <3>3. f[<<s, i>>] = p
      BY <3>1, <3>2
    <3>. QED
      BY <3>2, <3>3
  <2> HIDE DEF f
  <2>5. f \in Injection(S \X I, L)
    BY <2>2, <2>3 DEF Injection, IsInjective
  <2>6. f \in Surjection(S \X I, L)
    BY <2>2, <2>4 DEF Surjection
  <2>. QED
    BY <2>5, <2>6 DEF Bijection
<1>9. IsFiniteSet(S \X I) /\ Cardinality(S \X I) = Cardinality(S) * n
  BY <1>7, CardProduct
<1>10. Cardinality(L) = Cardinality(S) * n
  <2>1. ExistsBijection(S \X I, L)
    BY <1>8 DEF ExistsBijection
  <2>. QED
    BY <1>9, <2>1, CardBijection
<1>11. Cardinality(S) * n = n * Cardinality(S)
  <2>1. Cardinality(S) \in Nat
    BY <1>7, CardNat
  <2> HIDE DEF n
  <2>. QED
    BY <1>2, <2>1, SMT
<1>. QED
  BY <1>1, <1>10, <1>11 DEF CountsOk, S, L

\* The same slabs, of the same caches.
SameSlabs(sb, sb2) ==
  DOMAIN sb2 = DOMAIN sb /\ \A s \in DOMAIN sb : sb2[s].cache = sb[s].cache

\* The same slabs, the same number of objects.
LEMMA SameTotals ==
  ASSUME IInv, IInv', SameSlabs(slab, slab'), NEW c \in Caches
  PROVE  cache'[c].totalobjs = cache[c].totalobjs
<1>1. CountsOk(cache, slab, live) /\ CountsOk(cache', slab', live')
  BY Zenon DEF IInv, Inv
<1>2. SlabsOf(slab', c) = SlabsOf(slab, c)
  BY Zenon DEF SlabsOf, SameSlabs
<1>. QED
  BY <1>1, <1>2, Zenon DEF CountsOk

-----------------------------------------------------------------------------
(* Pages                                                                   *)

\* kalloc's search finds free pages.
LEMMA FitIs ==
  ASSUME SetFacts, NEW n \in Nat \ {0}, P!CanFit(n)
  PROVE  /\ P!FirstFit(n) \in Page /\ P!FirstFit(n) + n <= NPages
         /\ \A x \in P!FirstFit(n) .. P!FirstFit(n) + n - 1 : x \notin bitmap
<1> DEFINE T == {s \in P!Page : P!FitsAt(s, n)}
<1>1. T \in SUBSET Nat /\ T # {}
  BY Consts DEF P!CanFit, P!Page
<1>2. \E s \in T : \A t \in T : s <= t
  <2> HIDE DEF T
  <2>. QED
    BY <1>1, LeastNat, Zenon
<1>3. P!FirstFit(n) \in P!Page /\ P!FitsAt(P!FirstFit(n), n)
  <2>1. \E s \in P!Page : P!FitsAt(s, n) /\ \A t \in P!Page : P!FitsAt(t, n) => s <= t
    BY <1>2, Zenon
  <2>. QED
    BY <2>1, Zenon DEF P!FirstFit
<1>. QED
  BY <1>3, Zenon DEF P!FitsAt, P!Run, P!Page, Page

\* Recording a run on free pages.
LEMMA AddPages ==
  ASSUME NEW bm, NEW pc, PagesOk(bm, pc), NEW s \in Page, NEW n \in Nat \ {0},
         s + n <= NPages, \A x \in s .. s + n - 1 : x \notin bm
  PROVE  /\ PagesOk(bm \cup (s .. s + n - 1), [pc EXCEPT ![s] = n])
         /\ pc[s] = 0 /\ s # 0
<1> DEFINE bm2 == bm \cup (s .. s + n - 1)
           pc2 == [pc EXCEPT ![s] = n]
<1> USE Consts DEF Page
<1>1. /\ bm \subseteq Page /\ pc \in [Page -> Nat] /\ 0 \in bm /\ pc[0] = 0
      /\ \A t \in Page : t + pc[t] <= NPages
      /\ \A t, x \in Page : t <= x /\ x < t + pc[t] => x \in bm
      /\ \A t, u \in Page : pc[t] > 0 /\ pc[u] > 0 /\ t < u => t + pc[t] <= u
  BY Zenon DEF PagesOk
<1>2. \A x \in Page : s <= x /\ x < s + n => x \notin bm
  OBVIOUS
<1>3. pc[s] = 0
  BY <1>1, <1>2
<1>4. s # 0
  BY <1>1, <1>2
<1>5. pc2 \in [Page -> Nat] /\ pc2[s] = n /\ \A t \in Page : t # s => pc2[t] = pc[t]
  BY <1>1
<1>6. bm2 \subseteq Page /\ 0 \in bm2 /\ pc2[0] = 0
  <2>1. s .. s + n - 1 \subseteq Page
    OBVIOUS
  <2>2. pc2[0] = 0
    BY <1>1, <1>4, <1>5
  <2>. QED
    BY <1>1, <2>1, <2>2, Zenon
<1>7. ASSUME NEW t \in Page, t # s, pc[t] > 0
      PROVE  t + pc[t] <= s \/ s + n <= t
  <2>1. t \in Nat /\ s \in Nat /\ pc[t] \in Nat /\ t \in bm
    BY <1>1, <1>7
  <2>2. t < s \/ s + n <= t
    BY <1>2, <1>7, <2>1
  <2>3. t < s => t + pc[t] <= s
    BY <1>1, <1>2, <2>1
  <2>. QED
    BY <2>2, <2>3
<1>8. \A t \in Page : t + pc2[t] <= NPages
  BY <1>1, <1>5
<1>9. ASSUME NEW t \in Page, NEW x \in Page, t <= x, x < t + pc2[t] PROVE x \in bm2
  <2>1. CASE t = s
    BY <1>5, <1>9, <2>1
  <2>2. CASE t # s
    <3>1. x \in bm
      BY <1>1, <1>5, <1>9, <2>2
    <3>. QED
      BY <3>1, Zenon
  <2>. QED
    BY <2>1, <2>2
<1>10. ASSUME NEW t \in Page, NEW u \in Page, pc2[t] > 0, pc2[u] > 0, t < u
       PROVE  t + pc2[t] <= u
  <2>1. CASE t = s
    <3>1. u # s /\ pc[u] > 0
      BY <1>5, <1>10, <2>1
    <3>2. u + pc[u] <= s \/ s + n <= u
      BY <1>7, <3>1
    <3>. QED
      BY <1>1, <1>5, <1>10, <2>1, <3>1, <3>2
  <2>2. CASE u = s
    <3>1. t # s /\ pc[t] > 0
      BY <1>5, <1>10, <2>2, SMTT(20)
    <3>2. t + pc[t] <= s \/ s + n <= t
      BY <1>7, <3>1
    <3>. QED
      BY <1>1, <1>5, <1>10, <2>2, <3>1, <3>2, SMTT(20)
  <2>3. CASE t # s /\ u # s
    BY <1>1, <1>5, <1>10, <2>3, SMTT(20)
  <2>. QED
    BY <2>1, <2>2, <2>3, Zenon
<1> HIDE DEF bm2, pc2
<1>11. PagesOk(bm2, pc2)
  BY <1>5, <1>6, <1>8, <1>9, <1>10, Zenon DEF PagesOk
<1>. QED
  BY <1>3, <1>4, <1>11, Zenon DEF bm2, pc2

\* Giving a run back.
LEMMA FreePages ==
  ASSUME NEW bm, NEW pc, PagesOk(bm, pc), NEW s \in Page
  PROVE  PagesOk(bm \ (s .. s + pc[s] - 1), [pc EXCEPT ![s] = 0])
<1> DEFINE run == s .. s + pc[s] - 1
           bm2 == bm \ run
           pc2 == [pc EXCEPT ![s] = 0]
<1> USE Consts DEF Page
<1>1. /\ bm \subseteq Page /\ pc \in [Page -> Nat] /\ 0 \in bm /\ pc[0] = 0
      /\ \A t \in Page : t + pc[t] <= NPages
      /\ \A t, x \in Page : t <= x /\ x < t + pc[t] => x \in bm
      /\ \A t, u \in Page : pc[t] > 0 /\ pc[u] > 0 /\ t < u => t + pc[t] <= u
  BY Zenon DEF PagesOk
<1>2. pc2 \in [Page -> Nat] /\ pc2[s] = 0 /\ \A t \in Page : t # s => pc2[t] = pc[t]
  BY <1>1
<1>3. 0 \notin run
  BY <1>1
<1>4. bm2 \subseteq Page /\ 0 \in bm2 /\ pc2[0] = 0
  BY <1>1, <1>2, <1>3
<1>5. \A t \in Page : t + pc2[t] <= NPages
  BY <1>1, <1>2
<1>6. ASSUME NEW t \in Page, NEW x \in Page, t <= x, x < t + pc2[t] PROVE x \in bm2
  <2>1. t # s
    BY <1>2, <1>6
  <2>2. x \in bm /\ x < t + pc[t] /\ pc2[t] = pc[t]
    <3>1. pc2[t] = pc[t]
      BY <1>2, <2>1
    <3>2. x < t + pc[t]
      BY <1>6, <3>1
    <3>. QED
      BY <1>1, <1>6, <3>1, <3>2, Zenon
  <2>3. t \in Nat /\ s \in Nat /\ pc[t] \in Nat /\ pc[s] \in Nat /\ x \in Nat
    <3>1. pc[t] \in Nat /\ pc[s] \in Nat
      BY <1>1, Zenon
    <3>. QED
      BY <3>1
  <2>4. t < s /\ pc[s] > 0 => t + pc[t] <= s
    BY <1>1, <1>6, <2>2, <2>3
  <2>5. s < t /\ pc[s] > 0 => s + pc[s] <= t
    BY <1>1, <1>6, <2>2, <2>3, SMTT(20)
  <2>6. x \notin run
    BY <1>6, <2>1, <2>2, <2>3, <2>4, <2>5
  <2>. QED
    BY <2>2, <2>6, Zenon
<1>7. \A t, u \in Page : pc2[t] > 0 /\ pc2[u] > 0 /\ t < u => t + pc2[t] <= u
  BY <1>1, <1>2
<1> HIDE DEF bm2, pc2
<1>8. PagesOk(bm2, pc2)
  BY <1>2, <1>4, <1>5, <1>6, <1>7, Zenon DEF PagesOk
<1>. QED
  BY <1>8, Zenon DEF bm2, pc2, run

-----------------------------------------------------------------------------
(* Slabs                                                                   *)

\* The cache picked for a block is large enough for it.
LEMMA PickIs ==
  ASSUME SetFacts, NEW t \in Nat, PickCache(t) # None
  PROVE  PickCache(t) \in Caches /\ t <= CacheBytes[PickCache(t)]
<1> DEFINE fits == {c \in Caches : t <= CacheBytes[c]}
<1>1. fits # {} /\ PickCache(t) = CHOOSE c \in fits : \A d \in fits : c <= d
  BY Zenon DEF PickCache
<1>2. \E c \in fits : \A d \in fits : c <= d
  <2>1. fits \in SUBSET Nat
    BY Consts DEF Caches
  <2> HIDE DEF fits
  <2>. QED
    BY <1>1, <2>1, LeastNat, Zenon
<1>3. PickCache(t) \in fits
  <2> HIDE DEF fits
  <2>. QED
    BY <1>1, <1>2, Zenon
<1>. QED
  BY <1>3, Zenon

\* slab_ptr_to_index.
LEMMA ObjIndex ==
  ASSUME SetFacts, NEW s \in Nat, NEW c \in Caches, NEW i \in 0 .. ObjsPerSlab(c) - 1
  PROVE  (ObjAddr(s, c, i) - ObjBase(s, c)) \div ObjSize(c) = i
<1> DEFINE z == ObjSize(c)
           b == ObjBase(s, c)
<1>1. z \in Nat \ {0} /\ ObjsPerSlab(c) \in Nat \ {0} /\ b \in Nat
  BY ObjSizes, ObjInside
<1>2. ObjAddr(s, c, i) = b + z * i
  BY Zenon DEF ObjAddr
<1> HIDE DEF z, b
<1>3. i \in Nat /\ 0 \in Nat /\ 0 < z
  BY <1>1
<1>4. (i * z + 0) \div z = i
  BY <1>1, <1>3, DivExact
<1>5. (b + z * i) - b = i * z + 0
  BY <1>1, <1>3
<1>. QED
  BY <1>2, <1>4, <1>5, Zenon DEF z, b

\* The record of a slab with one more object in use.
LEMMA SlabUp ==
  ASSUME SetFacts, NEW sl, IsSlab(sl), sl.free < ObjsPerSlab(sl.cache)
  PROVE  LET r == [sl EXCEPT !.free = @ + 1]
         IN  IsSlab(r) /\ r.cache = sl.cache /\ r.free = sl.free + 1 /\ r.bufctl = sl.bufctl
<1> DEFINE c == sl.cache
           f == sl.free
           b == sl.bufctl
           r == [sl EXCEPT !.free = @ + 1]
<1>1. /\ c \in Caches /\ f \in 0 .. ObjsPerSlab(c) /\ b \in [Idx(c) -> Idx(c)]
      /\ sl = [cache |-> c, free |-> f, bufctl |-> b]
  BY Zenon DEF IsSlab
<1> HIDE DEF c, f, b
<1>2. r = [cache |-> c, free |-> f + 1, bufctl |-> b]
  BY <1>1
<1> HIDE DEF r
<1>3. r.cache = c /\ r.free = f + 1 /\ r.bufctl = b
  BY <1>2
<1>4. f + 1 \in 0 .. ObjsPerSlab(c)
  BY <1>1, ObjSizes DEF c, f
<1>5. IsSlab(r)
  BY <1>1, <1>2, <1>3, <1>4 DEF IsSlab
<1>. QED
  BY <1>3, <1>5 DEF r, c, f, b

\* The record of a new slab.
LEMMA NewIs ==
  ASSUME SetFacts, NEW c \in Caches
  PROVE  /\ IsSlab(NewSlab(c)) /\ NewSlab(c).cache = c /\ NewSlab(c).free = 0
         /\ NewSlab(c).bufctl = [i \in Idx(c) |-> i]
<1> DEFINE b == [i \in Idx(c) |-> i]
<1>1. NewSlab(c) = [cache |-> c, free |-> 0, bufctl |-> b]
  BY DEF NewSlab, Idx
<1>2. b \in [Idx(c) -> Idx(c)]
  BY Zenon
<1> HIDE DEF b
<1>3. NewSlab(c).cache = c /\ NewSlab(c).free = 0 /\ NewSlab(c).bufctl = b
  BY <1>1
<1>4. 0 \in 0 .. ObjsPerSlab(c)
  BY ObjSizes
<1>. QED
  BY <1>1, <1>2, <1>3, <1>4 DEF IsSlab, b

\* What is on a slab's stack once object i is pushed on it.
Pushed(r, sl, i) ==
  /\ IsSlab(r) /\ r.cache = sl.cache /\ r.free = sl.free - 1
  /\ r.bufctl = [sl.bufctl EXCEPT ![sl.free - 1] = i]

\* The record of a slab with one object given back.
LEMMA PushIs ==
  ASSUME SetFacts, NEW sl, IsSlab(sl), sl.free # 0, NEW s \in Nat, NEW i \in Idx(sl.cache),
         NEW r, r = PushFree(sl, s, ObjAddr(s, sl.cache, i))
  PROVE  Pushed(r, sl, i)
<1> DEFINE c == sl.cache
           f == sl.free
           b == sl.bufctl
           b2 == [b EXCEPT ![f - 1] = i]
<1>1. /\ c \in Caches /\ f \in 0 .. ObjsPerSlab(c) /\ b \in [Idx(c) -> Idx(c)]
      /\ sl = [cache |-> c, free |-> f, bufctl |-> b]
  BY Zenon DEF IsSlab
<1>2. (ObjAddr(s, c, i) - ObjBase(s, c)) \div ObjSize(c) = i
  BY <1>1, ObjIndex, Zenon DEF Idx
<1>3. r = [sl EXCEPT !.free = @ - 1, !.bufctl[f - 1] = i]
  BY <1>2, Zenon DEF PushFree
<1>4. i \in Idx(c) /\ f # 0
  OBVIOUS
<1> HIDE DEF c, f, b
<1>5. r = [cache |-> c, free |-> f - 1, bufctl |-> b2]
  BY <1>1, <1>3
<1>6. b2 \in [Idx(c) -> Idx(c)]
  BY <1>1, <1>4, Zenon
<1> HIDE DEF b2
<1>7. r.cache = c /\ r.free = f - 1 /\ r.bufctl = b2
  BY <1>5
<1>8. f - 1 \in 0 .. ObjsPerSlab(c)
  BY <1>1, <1>4, ObjSizes
<1>9. IsSlab(r)
  BY <1>1, <1>5, <1>6, <1>7, <1>8 DEF IsSlab
<1>. QED
  BY <1>7, <1>9 DEF c, f, b, b2, Pushed

\* The top of the stack is not in use, and handing it out leaves the rest.
LEMMA TakeStacks ==
  ASSUME SetFacts, NEW bm, NEW pc, NEW sb, NEW lv, PagesOk(bm, pc), SlabsOk(pc, sb),
         StacksOk(sb, lv),
         NEW s \in DOMAIN sb, sb[s].free < ObjsPerSlab(sb[s].cache),
         NEW r, r.cache = sb[s].cache, r.free = sb[s].free + 1, r.bufctl = sb[s].bufctl,
         NEW p, p = ObjAddr(s, sb[s].cache, sb[s].bufctl[sb[s].free]), NEW h
  PROVE  /\ sb[s].bufctl[sb[s].free] \in Idx(sb[s].cache) /\ p \notin DOMAIN lv
         /\ StacksOk(With(sb, s, r), With(lv, p, h))
<1> USE Zenon
<1> DEFINE c == sb[s].cache
           f == sb[s].free
           n == ObjsPerSlab(c)
           b == sb[s].bufctl
           sb2 == With(sb, s, r)
           lv2 == With(lv, p, h)
<1>1. c \in Caches /\ f \in 0 .. n /\ b \in [Idx(c) -> Idx(c)]
  BY DEF SlabsOk, IsSlab
<1>2. n \in Nat
  BY <1>1, ObjSizes, SMTT(20)
<1>3. f \in Idx(c) /\ f \in Stack(sb[s]) /\ \A j \in Idx(c) : j \in Stack(sb[s]) <=> f <= j
  BY <1>1, <1>2, SMT DEF Idx, Stack
<1>4. b[f] \in Idx(c)
  BY <1>1, <1>3
<1>5. /\ \A i, j \in Stack(sb[s]) : b[i] = b[j] => i = j
      /\ \A i \in Idx(c) : ObjAddr(s, c, i) \in DOMAIN lv <=> \A j \in Stack(sb[s]) : b[j] # i
  BY DEF StacksOk, StackOk
<1>6. p \notin DOMAIN lv
  BY <1>3, <1>4, <1>5
<1>7. /\ DOMAIN sb2 = DOMAIN sb /\ sb2[s] = r
      /\ \A t \in DOMAIN sb : t # s => sb2[t] = sb[t]
  BY DEF With
<1>8. DOMAIN lv2 = DOMAIN lv \cup {p}
  BY DEF With
<1>9. ASSUME NEW t \in DOMAIN sb, NEW i \in Idx(sb[t].cache), ObjAddr(t, sb[t].cache, i) = p
      PROVE  t = s /\ i = b[f]
  <2>1. ObjAddr(s, sb[s].cache, b[f]) = ObjAddr(t, sb[t].cache, i)
    BY <1>9
  <2>2. b[f] \in Idx(sb[s].cache)
    BY <1>4
  <2> HIDE DEF b, f
  <2>. QED
    BY <2>1, <2>2, SameObj, SMTT(20)
<1>10. StackOk(s, r, lv2)
  <2>1. Stack(sb[s]) = Stack(r) \cup {f}
    <3>1. Stack(sb[s]) = f .. n - 1 /\ Stack(r) = f + 1 .. n - 1
      BY DEF Stack
    <3>2. f \in Nat /\ f < n
      BY <1>1, SMTT(20)
    <3> HIDE DEF f, n
    <3>. QED
      BY <1>2, <3>1, <3>2, SMT
  <2>2. f \notin Stack(r)
    <3>1. Stack(r) = f + 1 .. n - 1
      BY DEF Stack
    <3>2. f \in Nat
      BY <1>1, SMT
    <3> HIDE DEF f, n
    <3>. QED
      BY <1>2, <3>1, <3>2, SMT
  <2>3. \A i, j \in Stack(r) : r.bufctl[i] = r.bufctl[j] => i = j
    BY <1>5, <2>1
  <2>4. ASSUME NEW i \in Idx(c)
        PROVE  ObjAddr(s, c, i) \in DOMAIN lv2 <=> \A j \in Stack(r) : b[j] # i
    <3>1. ObjAddr(s, c, i) \in DOMAIN lv2 <=> ObjAddr(s, c, i) \in DOMAIN lv \/ i = b[f]
      BY <1>8, <1>9
    <3>2. ObjAddr(s, c, i) \in DOMAIN lv <=> \A j \in Stack(sb[s]) : b[j] # i
      BY <1>5
    <3>3. (i = b[f]) => \A j \in Stack(r) : b[j] # i
      BY <1>3, <1>5, <2>1, <2>2, ZenonT(40)
    <3> HIDE DEF b, f, c
    <3>. QED
      BY <2>1, <3>1, <3>2, <3>3
  <2>. QED
    BY <2>3, <2>4 DEF StackOk
<1>11. ASSUME NEW t \in DOMAIN sb, t # s PROVE StackOk(t, sb[t], lv2)
  <2>1. StackOk(t, sb[t], lv)
    BY DEF StacksOk
  <2>2. \A i \in Idx(sb[t].cache) : ObjAddr(t, sb[t].cache, i) # p
    BY <1>9, <1>11
  <2>3. \A i \in Idx(sb[t].cache) :
          ObjAddr(t, sb[t].cache, i) \in DOMAIN lv2 <=> ObjAddr(t, sb[t].cache, i) \in DOMAIN lv
    BY <1>8, <2>2
  <2>. QED
    BY <2>1, <2>3 DEF StackOk
<1>12. StacksOk(sb2, lv2)
  <2> SUFFICES ASSUME NEW t \in DOMAIN sb PROVE StackOk(t, sb2[t], lv2)
    BY <1>7 DEF StacksOk
  <2> HIDE DEF sb2, lv2
  <2>1. CASE t = s
    BY <1>7, <1>10, <2>1
  <2>2. CASE t # s
    BY <1>7, <1>11, <2>2
  <2>. QED
    BY <2>1, <2>2
<1>. QED
  BY <1>4, <1>6, <1>12

\* A slab with an object in use has a positive count: with none, its stack would
\* hold every index.
LEMMA InUse ==
  ASSUME SetFacts, NEW s, NEW sl, IsSlab(sl), NEW lv, StackOk(s, sl, lv),
         NEW i \in Idx(sl.cache),
         ObjAddr(s, sl.cache, i) \in DOMAIN lv
  PROVE  sl.free # 0
<1> USE Zenon
<1> SUFFICES ASSUME sl.free = 0 PROVE FALSE
  BY SMT
<1> DEFINE I == Idx(sl.cache)
           b == sl.bufctl
<1>1. Stack(sl) = I
  BY DEF Stack, Idx
<1>2. b \in [I -> I]
  BY DEF IsSlab
<1>3. /\ \A x, y \in I : b[x] = b[y] => x = y
      /\ \A j \in I : b[j] # i
  BY <1>1 DEF StackOk
<1>4. IsFiniteSet(I)
  <2>1. sl.cache \in Caches
    BY DEF IsSlab
  <2>2. ObjsPerSlab(sl.cache) - 1 \in Int
    BY <2>1, ObjSizes, SMT
  <2>3. 0 \in Int
    BY SMT
  <2>. QED
    BY <2>2, <2>3, CardInterval DEF Idx
<1> HIDE DEF I, b
<1>5. b \in Injection(I, I)
  BY <1>2, <1>3 DEF Injection, IsInjective
<1>6. b \in Surjection(I, I)
  BY <1>4, <1>5, CardInjection, SMT
<1>7. \E j \in I : b[j] = i
  BY <1>6 DEF Surjection, I
<1>. QED
  BY <1>3, <1>7

\* live without block p.
Drop(lv, p) == [q \in DOMAIN lv \ {p} |-> lv[q]]

\* An object given back goes on top of the stack.
LEMMA GiveStacks ==
  ASSUME SetFacts, NEW bm, NEW pc, NEW sb, NEW lv, PagesOk(bm, pc), SlabsOk(pc, sb),
         StacksOk(sb, lv),
         NEW s \in DOMAIN sb, NEW i \in Idx(sb[s].cache),
         NEW p, p = ObjAddr(s, sb[s].cache, i), p \in DOMAIN lv, sb[s].free # 0,
         NEW r, r.cache = sb[s].cache, r.free = sb[s].free - 1,
         r.bufctl = [sb[s].bufctl EXCEPT ![sb[s].free - 1] = i]
  PROVE  StacksOk(With(sb, s, r), Drop(lv, p))
<1> USE Zenon
<1> DEFINE c == sb[s].cache
           f == sb[s].free
           n == ObjsPerSlab(c)
           b == sb[s].bufctl
           sb2 == With(sb, s, r)
           lv2 == Drop(lv, p)
<1>1. c \in Caches /\ f \in 0 .. n /\ b \in [Idx(c) -> Idx(c)]
  BY DEF SlabsOk, IsSlab
<1>2. n \in Nat
  BY <1>1, ObjSizes, SMTT(20)
<1>3. f - 1 \in Idx(c) /\ \A j \in Stack(sb[s]) : j \in Idx(c) /\ j # f - 1
  BY <1>1, <1>2, SMT DEF Idx, Stack
<1>4. r.bufctl[f - 1] = i /\ \A j \in Stack(sb[s]) : r.bufctl[j] = b[j]
  BY <1>1, <1>3
<1>5. Stack(r) = Stack(sb[s]) \cup {f - 1}
  <2>1. Stack(sb[s]) = f .. n - 1 /\ Stack(r) = f - 1 .. n - 1
    BY DEF Stack
  <2>2. f \in Nat /\ f > 0 /\ f <= n
    BY <1>1, SMT
  <2> HIDE DEF f, n
  <2>. QED
    BY <1>2, <2>1, <2>2, SMT
<1>6. /\ \A x, y \in Stack(sb[s]) : b[x] = b[y] => x = y
      /\ \A x \in Idx(c) : ObjAddr(s, c, x) \in DOMAIN lv <=> \A j \in Stack(sb[s]) : b[j] # x
  BY DEF StacksOk, StackOk
<1>7. \A j \in Stack(sb[s]) : b[j] # i
  BY <1>6
<1>8. /\ DOMAIN sb2 = DOMAIN sb /\ sb2[s] = r
      /\ \A t \in DOMAIN sb : t # s => sb2[t] = sb[t]
  BY DEF With
<1>9. DOMAIN lv2 = DOMAIN lv \ {p}
  BY DEF Drop
<1>10. ASSUME NEW t \in DOMAIN sb, NEW j \in Idx(sb[t].cache), ObjAddr(t, sb[t].cache, j) = p
       PROVE  t = s /\ j = i
  <2>1. ObjAddr(s, sb[s].cache, i) = ObjAddr(t, sb[t].cache, j)
    BY <1>10
  <2>. QED
    BY <2>1, SameObj, SMT
<1> HIDE DEF b, f, c, sb2, lv2
<1>11. StackOk(s, r, lv2)
  <2>1. \A x, y \in Stack(r) : r.bufctl[x] = r.bufctl[y] => x = y
    <3>1. \A x, y \in Stack(sb[s]) : r.bufctl[x] = r.bufctl[y] => x = y
      BY <1>4, <1>6
    <3>2. \A x \in Stack(sb[s]) : r.bufctl[x] # r.bufctl[f - 1]
      BY <1>4, <1>7
    <3>. QED
      BY <1>5, <3>1, <3>2
  <2>2. ASSUME NEW x \in Idx(c)
        PROVE  ObjAddr(s, c, x) \in DOMAIN lv2 <=> \A j \in Stack(r) : r.bufctl[j] # x
    <3>1. ObjAddr(s, c, x) \in DOMAIN lv2 <=> ObjAddr(s, c, x) \in DOMAIN lv /\ x # i
      BY <1>9, <1>10 DEF c
    <3>2. ObjAddr(s, c, x) \in DOMAIN lv <=> \A j \in Stack(sb[s]) : b[j] # x
      BY <1>6
    <3>. QED
      BY <1>4, <1>5, <3>1, <3>2
  <2>. QED
    BY <2>1, <2>2 DEF StackOk, c
<1>12. ASSUME NEW t \in DOMAIN sb, t # s PROVE StackOk(t, sb[t], lv2)
  <2>1. StackOk(t, sb[t], lv)
    BY DEF StacksOk
  <2>2. \A j \in Idx(sb[t].cache) : ObjAddr(t, sb[t].cache, j) # p
    BY <1>10, <1>12
  <2>3. \A j \in Idx(sb[t].cache) :
          ObjAddr(t, sb[t].cache, j) \in DOMAIN lv2 <=> ObjAddr(t, sb[t].cache, j) \in DOMAIN lv
    BY <1>9, <2>2
  <2>. QED
    BY <2>1, <2>3 DEF StackOk
<1>13. StacksOk(sb2, lv2)
  <2> SUFFICES ASSUME NEW t \in DOMAIN sb PROVE StackOk(t, sb2[t], lv2)
    BY <1>8 DEF StacksOk
  <2>1. CASE t = s
    BY <1>8, <1>11, <2>1
  <2>2. CASE t # s
    BY <1>8, <1>12, <2>2
  <2>. QED
    BY <2>1, <2>2
<1>. QED
  BY <1>13 DEF sb2, lv2

-----------------------------------------------------------------------------
(* What the parts of the invariant depend on                               *)

\* A slab that changes and keeps its cache and its pages.
LEMMA SlabsWith ==
  ASSUME NEW pc, NEW sb, SlabsOk(pc, sb), NEW s \in Page \ Fixed, NEW r, IsSlab(r),
         pc[s] = SlabPages(r.cache)
  PROVE  SlabsOk(pc, With(sb, s, r))
<1> USE Zenon
<1> DEFINE sb2 == With(sb, s, r)
<1>1. /\ DOMAIN sb2 = DOMAIN sb \cup {s} /\ sb2[s] = r
      /\ \A y \in DOMAIN sb : y # s => sb2[y] = sb[y]
  BY DEF With
<1> HIDE DEF sb2
<1> SUFFICES ASSUME NEW t \in DOMAIN sb2
             PROVE  t \in Page \ Fixed /\ IsSlab(sb2[t]) /\ pc[t] = SlabPages(sb2[t].cache)
  BY DEF SlabsOk, sb2
<1>2. CASE t = s
  BY <1>1, <1>2
<1>3. CASE t # s
  BY <1>1, <1>3 DEF SlabsOk
<1>. QED
  BY <1>2, <1>3

\* Another count, at a page where no slab starts.
LEMMA SlabsCounts ==
  ASSUME NEW pc, NEW sb, SlabsOk(pc, sb), pc \in [Page -> Nat], NEW s \in Page,
         s \notin DOMAIN sb, NEW n
  PROVE  SlabsOk([pc EXCEPT ![s] = n], sb)
<1>1. \A t \in Page : t # s => [pc EXCEPT ![s] = n][t] = pc[t]
  BY Zenon
<1>. QED
  BY <1>1, Zenon DEF SlabsOk

\* The blocks do not notice a slab that changes and keeps its cache.
LEMMA LivesSame ==
  ASSUME NEW pc, NEW sb, NEW sb2, NEW lv, LivesOk(pc, sb, lv), SameSlabs(sb, sb2)
  PROVE  LivesOk(pc, sb2, lv)
<1> USE Zenon
<1> SUFFICES ASSUME NEW p \in DOMAIN lv
             PROVE  lv[p].size \in Nat \ {0} /\ (IsRaw(pc, sb2, p, lv[p]) \/ IsObj(sb2, p, lv[p]))
  BY DEF LivesOk
<1>1. lv[p].size \in Nat \ {0} /\ (IsRaw(pc, sb, p, lv[p]) \/ IsObj(sb, p, lv[p]))
  BY DEF LivesOk
<1>2. IsRaw(pc, sb, p, lv[p]) => IsRaw(pc, sb2, p, lv[p])
  BY DEF IsRaw, SameSlabs
<1>3. IsObj(sb, p, lv[p]) => IsObj(sb2, p, lv[p])
  BY DEF IsObj, SameSlabs
<1>. QED
  BY <1>1, <1>2, <1>3

\* One block more.
LEMMA LivesWith ==
  ASSUME NEW pc, NEW sb, NEW lv, LivesOk(pc, sb, lv), NEW p, NEW h, h.size \in Nat \ {0},
         IsRaw(pc, sb, p, h) \/ IsObj(sb, p, h)
  PROVE  LivesOk(pc, sb, With(lv, p, h))
<1> USE Zenon
<1> DEFINE lv2 == With(lv, p, h)
<1>1. /\ DOMAIN lv2 = DOMAIN lv \cup {p} /\ lv2[p] = h
      /\ \A y \in DOMAIN lv : y # p => lv2[y] = lv[y]
  BY DEF With
<1> HIDE DEF lv2
<1> SUFFICES ASSUME NEW q \in DOMAIN lv2
             PROVE  /\ lv2[q].size \in Nat \ {0}
                    /\ IsRaw(pc, sb, q, lv2[q]) \/ IsObj(sb, q, lv2[q])
  BY DEF LivesOk, lv2
<1>2. CASE q = p
  BY <1>1, <1>2
<1>3. CASE q # p
  BY <1>1, <1>3 DEF LivesOk
<1>. QED
  BY <1>2, <1>3

\* One block less.
LEMMA LivesDrop ==
  ASSUME NEW pc, NEW sb, NEW lv, LivesOk(pc, sb, lv), NEW p
  PROVE  LivesOk(pc, sb, Drop(lv, p))
BY Zenon DEF LivesOk, Drop

\* A new run: no block in use has it.
LEMMA LivesCounts ==
  ASSUME NEW pc, NEW sb, NEW lv, LivesOk(pc, sb, lv), pc \in [Page -> Nat], NEW s \in Page,
         pc[s] = 0, NEW n
  PROVE  LivesOk([pc EXCEPT ![s] = n], sb, lv)
<1> USE Zenon
<1> DEFINE pc2 == [pc EXCEPT ![s] = n]
<1>1. \A t \in Page : t # s => pc2[t] = pc[t]
  OBVIOUS
<1> HIDE DEF pc2
<1> SUFFICES ASSUME NEW p \in DOMAIN lv
             PROVE  lv[p].size \in Nat \ {0} /\ (IsRaw(pc2, sb, p, lv[p]) \/ IsObj(sb, p, lv[p]))
  BY DEF LivesOk, pc2
<1>2. lv[p].size \in Nat \ {0} /\ (IsRaw(pc, sb, p, lv[p]) \/ IsObj(sb, p, lv[p]))
  BY DEF LivesOk
<1>3. CASE IsRaw(pc, sb, p, lv[p])
  <2>1. lv[p].raw_base \in Page /\ pc[lv[p].raw_base] > 0
    BY <1>2, <1>3, RawSpan
  <2>2. lv[p].raw_base # s
    <3>1. ~(0 > 0)
      BY SMT
    <3>. QED
      BY <2>1, <3>1
  <2>3. IsRaw(pc2, sb, p, lv[p])
    BY <1>1, <1>3, <2>1, <2>2 DEF IsRaw
  <2>. QED
    BY <1>2, <2>3
<1>. QED
  BY <1>2, <1>3

\* A new slab on a run that no block has.
LEMMA LivesSlab ==
  ASSUME NEW pc, NEW sb, NEW lv, LivesOk(pc, sb, lv), NEW s, s \notin DOMAIN sb, NEW r,
         \A p \in DOMAIN lv : lv[p].cache = None => lv[p].raw_base # s
  PROVE  LivesOk(pc, With(sb, s, r), lv)
<1> USE Zenon
<1> DEFINE sb2 == With(sb, s, r)
<1>1. /\ DOMAIN sb2 = DOMAIN sb \cup {s}
      /\ \A y \in DOMAIN sb : sb2[y] = sb[y]
  BY DEF With
<1> HIDE DEF sb2
<1> SUFFICES ASSUME NEW p \in DOMAIN lv
             PROVE  lv[p].size \in Nat \ {0} /\ (IsRaw(pc, sb2, p, lv[p]) \/ IsObj(sb2, p, lv[p]))
  BY DEF LivesOk, sb2
<1>2. lv[p].size \in Nat \ {0} /\ (IsRaw(pc, sb, p, lv[p]) \/ IsObj(sb, p, lv[p]))
  BY DEF LivesOk
<1>3. IsRaw(pc, sb, p, lv[p]) => IsRaw(pc, sb2, p, lv[p])
  BY <1>1 DEF IsRaw
<1>4. IsObj(sb, p, lv[p]) => IsObj(sb2, p, lv[p])
  BY <1>1 DEF IsObj
<1>. QED
  BY <1>2, <1>3, <1>4

\* The slabs of a cache, by how full they are, when slab s of cache c gets record r.
PutIf(T, s, b) == IF b THEN (T \ {s}) \cup {s} ELSE T \ {s}

OfPut(sb, sb2, c, s, f) ==
  /\ FullOf(sb2, c) = PutIf(FullOf(sb, c), s, f = ObjsPerSlab(c))
  /\ PartialOf(sb2, c) = PutIf(PartialOf(sb, c), s, 0 < f /\ f < ObjsPerSlab(c))
  /\ EmptyOf(sb2, c) = PutIf(EmptyOf(sb, c), s, f = 0)
  /\ SlabsOf(sb2, c) = SlabsOf(sb, c) \cup {s}
  /\ \A d : d # c => /\ FullOf(sb2, d) = FullOf(sb, d)
                     /\ PartialOf(sb2, d) = PartialOf(sb, d)
                     /\ EmptyOf(sb2, d) = EmptyOf(sb, d)
                     /\ SlabsOf(sb2, d) = SlabsOf(sb, d)

\* Only s changes its place.
LEMMA OfWith ==
  ASSUME NEW sb, NEW s, NEW r, NEW c, r.cache = c, s \in DOMAIN sb => sb[s].cache = c
  PROVE  OfPut(sb, With(sb, s, r), c, s, r.free)
<1> USE Zenon
<1> DEFINE sb2 == With(sb, s, r)
           n == ObjsPerSlab(c)
<1>1. /\ DOMAIN sb2 = DOMAIN sb \cup {s} /\ sb2[s] = r
      /\ \A y \in DOMAIN sb : y # s => sb2[y] = sb[y]
  BY DEF With
<1> HIDE DEF sb2, n
<1>2. FullOf(sb2, c) = PutIf(FullOf(sb, c), s, r.free = n)
  BY <1>1 DEF FullOf, SlabsOf, PutIf, n
<1>3. PartialOf(sb2, c) = PutIf(PartialOf(sb, c), s, 0 < r.free /\ r.free < n)
  BY <1>1 DEF PartialOf, SlabsOf, PutIf, n
<1>4. EmptyOf(sb2, c) = PutIf(EmptyOf(sb, c), s, r.free = 0)
  BY <1>1 DEF EmptyOf, SlabsOf, PutIf
<1>5. SlabsOf(sb2, c) = SlabsOf(sb, c) \cup {s}
  BY <1>1 DEF SlabsOf
<1>6. ASSUME NEW d, d # c
      PROVE  /\ FullOf(sb2, d) = FullOf(sb, d)
             /\ PartialOf(sb2, d) = PartialOf(sb, d)
             /\ EmptyOf(sb2, d) = EmptyOf(sb, d)
             /\ SlabsOf(sb2, d) = SlabsOf(sb, d)
  <2>1. SlabsOf(sb2, d) = SlabsOf(sb, d) /\ s \notin SlabsOf(sb, d)
    BY <1>1, <1>6 DEF SlabsOf
  <2>2. \A t \in SlabsOf(sb, d) : sb2[t] = sb[t]
    BY <1>1, <2>1 DEF SlabsOf
  <2>3. FullOf(sb2, d) = FullOf(sb, d)
    BY <2>1, <2>2 DEF FullOf
  <2>4. PartialOf(sb2, d) = PartialOf(sb, d)
    BY <2>1, <2>2 DEF PartialOf
  <2>5. EmptyOf(sb2, d) = EmptyOf(sb, d)
    BY <2>1, <2>2 DEF EmptyOf
  <2>. QED
    BY <2>1, <2>3, <2>4, <2>5
<1>. QED
  BY <1>2, <1>3, <1>4, <1>5, <1>6 DEF sb2, n, OfPut

-----------------------------------------------------------------------------
(* Moving slabs between lists                                              *)

\* list_append of a slab that is not on the list.
LEMMA ListAdd ==
  ASSUME NEW T, NEW l, Lists(l, T), NEW s, s \notin T
  PROVE  Lists(Append(l, s), T \cup {s})
<1> USE Zenon
<1> DEFINE m == Append(l, s)
<1>1. /\ l \in Seq(T) /\ \A t \in T : \E i \in 1 .. Len(l) : l[i] = t
      /\ \A i, j \in 1 .. Len(l) : l[i] = l[j] => i = j
  BY DEF Lists
<1>2. Len(l) \in Nat /\ \A i \in 1 .. Len(l) : l[i] \in T
  BY <1>1, SMT
<1>3. /\ m \in Seq(T \cup {s}) /\ Len(m) = Len(l) + 1 /\ m[Len(l) + 1] = s
      /\ \A i \in 1 .. Len(l) : m[i] = l[i]
  BY <1>1, SMT
<1> HIDE DEF m
<1>4. ASSUME NEW t \in T \cup {s} PROVE \E i \in 1 .. Len(m) : m[i] = t
  <2>1. CASE t = s
    <3>1. Len(l) + 1 \in 1 .. Len(m)
      BY <1>2, <1>3, SMT
    <3>. QED
      BY <1>3, <2>1, <3>1
  <2>2. CASE t # s
    <3>1. PICK i \in 1 .. Len(l) : l[i] = t
      BY <1>1, <2>2
    <3>2. i \in 1 .. Len(m)
      BY <1>2, <1>3, SMT
    <3>. QED
      BY <1>3, <3>1, <3>2
  <2>. QED
    BY <2>1, <2>2
<1>5. ASSUME NEW i \in 1 .. Len(m), NEW j \in 1 .. Len(m), m[i] = m[j] PROVE i = j
  <2>1. \A x \in 1 .. Len(m) : x \in 1 .. Len(l) \/ x = Len(l) + 1
    BY <1>2, <1>3, SMT
  <2>2. CASE i \in 1 .. Len(l) /\ j \in 1 .. Len(l)
    BY <1>1, <1>3, <1>5, <2>2
  <2>3. CASE i \in 1 .. Len(l) /\ j = Len(l) + 1
    BY <1>2, <1>3, <1>5, <2>3
  <2>4. CASE i = Len(l) + 1 /\ j \in 1 .. Len(l)
    BY <1>2, <1>3, <1>5, <2>4
  <2>. QED
    BY <2>1, <2>2, <2>3, <2>4
<1>6. Lists(m, T \cup {s})
  BY <1>3, <1>4, <1>5 DEF Lists
<1>. QED
  BY <1>6 DEF m

\* list_remove.
LEMMA ListDrop ==
  ASSUME NEW T, NEW l, Lists(l, T), NEW s
  PROVE  Lists(ListRemove(l, s), T \ {s})
\* Two sequences, one behind the other.
<1> USE Zenon
<1>Joined.
      ASSUME NEW T0, NEW a \in Seq(T0), NEW b \in Seq(T0)
      PROVE  /\ a \o b \in Seq(T0) /\ Len(a \o b) = Len(a) + Len(b)
             /\ \A j \in 1 .. Len(a) : (a \o b)[j] = a[j]
             /\ \A j \in 1 .. Len(b) : (a \o b)[Len(a) + j] = b[j]
  BY <1>Joined, SMT
\* A function on the numbers up to n is a sequence.
<1>AsSeq.
      ASSUME NEW T0, NEW n \in Nat, NEW f \in [1 .. n -> T0]
      PROVE  f \in Seq(T0) /\ Len(f) = n
  BY <1>AsSeq, SMT
\* The two parts of a list around one place.
<1>Parts.
      ASSUME NEW T0, NEW l0 \in Seq(T0), NEW i \in 1 .. Len(l0)
      PROVE  /\ SubSeq(l0, 1, i - 1) \in Seq(T0) /\ Len(SubSeq(l0, 1, i - 1)) = i - 1
             /\ \A j \in 1 .. i - 1 : SubSeq(l0, 1, i - 1)[j] = l0[j]
             /\ SubSeq(l0, i + 1, Len(l0)) \in Seq(T0) /\ Len(SubSeq(l0, i + 1, Len(l0))) = Len(l0) - i
             /\ \A j \in 1 .. Len(l0) - i : SubSeq(l0, i + 1, Len(l0))[j] = l0[i + j]
  <2> USE <1>Parts
  <2> DEFINE a == [j \in 1 .. i - 1 |-> l0[j]]
             b == [j \in 1 .. Len(l0) - i |-> l0[i + j]]
  <2>1. SubSeq(l0, 1, i - 1) = a
    BY SMT
  <2>2. SubSeq(l0, i + 1, Len(l0)) = b
    BY SMT
  <2>3. /\ i - 1 \in Nat /\ a \in [1 .. i - 1 -> T0]
        /\ Len(l0) - i \in Nat /\ b \in [1 .. Len(l0) - i -> T0]
    BY SMT
  <2>4. (\A j \in 1 .. i - 1 : a[j] = l0[j]) /\ \A j \in 1 .. Len(l0) - i : b[j] = l0[i + j]
    OBVIOUS
  <2> HIDE DEF a, b
  <2>5. a \in Seq(T0) /\ Len(a) = i - 1
    BY <2>3, <1>AsSeq
  <2>6. b \in Seq(T0) /\ Len(b) = Len(l0) - i
    BY <2>3, <1>AsSeq
  <2>. QED
    BY <2>1, <2>2, <2>4, <2>5, <2>6
<1>1. /\ l \in Seq(T) /\ \A t \in T : \E i \in 1 .. Len(l) : l[i] = t
      /\ \A i, j \in 1 .. Len(l) : l[i] = l[j] => i = j
  BY DEF Lists
<1>2. Len(l) \in Nat /\ (\A i \in 1 .. Len(l) : l[i] \in T) /\ DOMAIN l = 1 .. Len(l)
  BY <1>1, SMT
<1>3. CASE s \notin Range(l)
  <2>1. s \notin T
    BY <1>1, <1>2, <1>3 DEF Range
  <2>2. T \ {s} = T /\ ListRemove(l, s) = l
    BY <1>3, <2>1, SMT DEF ListRemove
  <2>. QED
    BY <2>2
<1>4. CASE s \in Range(l)
  <2> DEFINE i == CHOOSE j \in DOMAIN l : l[j] = s
             m == SubSeq(l, 1, i - 1) \o SubSeq(l, i + 1, Len(l))
  <2>1. i \in 1 .. Len(l) /\ l[i] = s
    BY <1>2, <1>4 DEF Range
  <2>2. ListRemove(l, s) = m
    BY <1>4 DEF ListRemove
  <2> HIDE DEF i
  <2>3. /\ m \in Seq(T) /\ Len(m) = Len(l) - 1
        /\ \A j \in 1 .. Len(l) - 1 : m[j] = IF j < i THEN l[j] ELSE l[j + 1]
    <3> DEFINE a == SubSeq(l, 1, i - 1)
               b == SubSeq(l, i + 1, Len(l))
    <3>1. /\ a \in Seq(T) /\ Len(a) = i - 1 /\ \A j \in 1 .. i - 1 : a[j] = l[j]
          /\ b \in Seq(T) /\ Len(b) = Len(l) - i /\ \A j \in 1 .. Len(l) - i : b[j] = l[i + j]
      <4>1. l \in Seq(T) /\ i \in 1 .. Len(l)
        BY <1>1, <2>1
      <4>. QED
        BY <4>1, <1>Parts, SMT
    <3>2. m = a \o b
      BY SMT
    <3> HIDE DEF a, b, m
    <3>3. /\ m \in Seq(T) /\ Len(m) = Len(a) + Len(b)
          /\ \A j \in 1 .. Len(a) : m[j] = a[j]
          /\ \A j \in 1 .. Len(b) : m[Len(a) + j] = b[j]
      <4>1. a \in Seq(T) /\ b \in Seq(T)
        BY <3>1
      <4>. QED
        BY <3>2, <4>1, <1>Joined, SMT
    <3>4. Len(m) = Len(l) - 1
      BY <1>2, <2>1, <3>1, <3>3, SMT
    <3>5. ASSUME NEW j \in 1 .. Len(l) - 1
          PROVE  m[j] = IF j < i THEN l[j] ELSE l[j + 1]
      <4>1. CASE j < i
        <5>1. j \in 1 .. i - 1
          BY <1>2, <2>1, <4>1, SMT
        <5>. QED
          BY <3>1, <3>3, <4>1, <5>1
      <4>2. CASE ~(j < i)
        <5> DEFINE x == j - Len(a)
        <5>1. x \in 1 .. Len(l) - i /\ i + x = j + 1 /\ Len(a) + x = j
          BY <1>2, <2>1, <3>1, <4>2, SMT
        <5> HIDE DEF x
        <5>2. b[x] = l[i + x] /\ m[Len(a) + x] = b[x]
          BY <3>1, <3>3, <5>1
        <5>. QED
          BY <4>2, <5>1, <5>2
      <4>. QED
        BY <4>1, <4>2
    <3>. QED
      BY <3>3, <3>4, <3>5
  <2> HIDE DEF m
  <2> DEFINE at(j) == IF j < i THEN j ELSE j + 1
  <2>4. \A j \in 1 .. Len(m) : at(j) \in 1 .. Len(l) /\ at(j) # i /\ m[j] = l[at(j)]
    BY <1>2, <2>1, <2>3, SMTT(20)
  <2>5. \A j, k \in 1 .. Len(m) : at(j) = at(k) => j = k
    BY <1>2, <2>1, <2>3, SMT
  <2>6. \A k \in 1 .. Len(l) : k # i => \E j \in 1 .. Len(m) : at(j) = k
    <3> SUFFICES ASSUME NEW k \in 1 .. Len(l), k # i
                 PROVE  \E j \in 1 .. Len(m) : at(j) = k
      OBVIOUS
    <3> DEFINE w == IF k < i THEN k ELSE k - 1
    <3>1. w \in 1 .. Len(m) /\ at(w) = k
      BY <1>2, <2>1, <2>3, SMTT(20)
    <3>. QED
      BY <3>1
  <2> HIDE DEF at
  <2>7. \A j \in 1 .. Len(m) : m[j] \in T \ {s}
    BY <1>1, <1>2, <2>1, <2>4, SMTT(20)
  <2>8. m \in Seq(T \ {s})
    BY <2>3, <2>7, SMT
  <2>9. ASSUME NEW t \in T \ {s} PROVE \E j \in 1 .. Len(m) : m[j] = t
    <3>1. PICK k \in 1 .. Len(l) : l[k] = t
      BY <1>1
    <3>2. k # i
      BY <2>1, <3>1, SMT
    <3>3. PICK j \in 1 .. Len(m) : at(j) = k
      BY <2>6, <3>2
    <3>. QED
      BY <2>4, <3>1, <3>3
  <2>10. ASSUME NEW j \in 1 .. Len(m), NEW k \in 1 .. Len(m), m[j] = m[k] PROVE j = k
    <3>0. at(j) \in 1 .. Len(l) /\ at(k) \in 1 .. Len(l) /\ l[at(j)] = l[at(k)]
      BY <2>4, <2>10
    <3>1. at(j) = at(k)
      BY <1>1, <3>0
    <3>. QED
      BY <2>5, <3>1
  <2>. QED
    BY <2>2, <2>8, <2>9, <2>10 DEF Lists
<1>. QED
  BY <1>3, <1>4

\* A cache record has the fields of a cache.
LEMMA KFields ==
  ASSUME NEW k \in KRec
  PROVE  /\ k = [full |-> k.full, partial |-> k.partial, free |-> k.free,
                 inuse |-> k.inuse, totalobjs |-> k.totalobjs]
         /\ k.full \in Seq(Page) /\ k.partial \in Seq(Page) /\ k.free \in Seq(Page)
         /\ k.inuse \in Int /\ k.totalobjs \in Int
BY DEF KRec

\* A list of some pages is a sequence of pages.
LEMMA InSeq ==
  ASSUME NEW T \in SUBSET Page, NEW l, Lists(l, T)
  PROVE  l \in Seq(Page)
<1>1. l \in Seq(T)
  BY Zenon DEF Lists
<1>. QED
  BY <1>1

OnLists(k, F, Q, Z) == k \in KRec /\ Listed(k, F, Q, Z)

\* list_remove, from whichever list it is on.
LEMMA EmptiedIs ==
  ASSUME NEW k, NEW F \in SUBSET Page, NEW Q \in SUBSET Page, NEW Z \in SUBSET Page,
         OnLists(k, F, Q, Z), NEW s \in Page
  PROVE  /\ OnLists(Emptied(k, s), F \ {s}, Q \ {s}, Z \ {s})
         /\ Emptied(k, s).inuse = k.inuse /\ Emptied(k, s).totalobjs = k.totalobjs
<1> USE Zenon
<1> DEFINE a == k.full
           b == k.partial
           z == k.free
           u == k.inuse
           t == k.totalobjs
           e == Emptied(k, s)
           a2 == ListRemove(a, s)
           b2 == ListRemove(b, s)
           z2 == ListRemove(z, s)
<1>1. k \in KRec /\ Lists(a, F) /\ Lists(b, Q) /\ Lists(z, Z)
  BY DEF OnLists, Listed
<1>2. /\ k = [full |-> a, partial |-> b, free |-> z, inuse |-> u, totalobjs |-> t]
      /\ u \in Int /\ t \in Int
  BY <1>1, KFields
<1>3. Lists(a2, F \ {s}) /\ Lists(b2, Q \ {s}) /\ Lists(z2, Z \ {s})
  BY <1>1, ListDrop
<1>4. a2 \in Seq(Page) /\ b2 \in Seq(Page) /\ z2 \in Seq(Page)
  <2>1. F \ {s} \in SUBSET Page /\ Q \ {s} \in SUBSET Page /\ Z \ {s} \in SUBSET Page
    OBVIOUS
  <2> HIDE DEF a2, b2, z2
  <2>. QED
    BY <1>3, <2>1, InSeq
<1>5. e = [k EXCEPT !.full = ListRemove(a, s), !.partial = ListRemove(b, s),
                    !.free = ListRemove(z, s)]
  BY DEF Emptied
<1> HIDE DEF a, b, z, u, t, e
<1>6. e = [full |-> a2, partial |-> b2, free |-> z2, inuse |-> u, totalobjs |-> t]
  BY <1>2, <1>5
<1> HIDE DEF a2, b2, z2
<1>7. /\ e \in KRec /\ e.full = a2 /\ e.partial = b2 /\ e.free = z2 /\ e.inuse = u
      /\ e.totalobjs = t
  BY <1>2, <1>4, <1>6, SMT DEF KRec
<1>. QED
  BY <1>3, <1>7 DEF OnLists, Listed, e, u, t

\* list_append to one of the lists, and a new counter.
AddFull(k, s) == [k EXCEPT !.full = Append(@, s)]
AddPartial(k, s) == [k EXCEPT !.partial = Append(@, s)]
AddFree(k, s) == [k EXCEPT !.free = Append(@, s)]
SetInuse(k, v) == [k EXCEPT !.inuse = v]

\* A slab joins the full list.
LEMMA AppendFull ==
  ASSUME NEW F \in SUBSET Page, NEW Q, NEW Z, NEW k, OnLists(k, F, Q, Z), NEW s \in Page \ F
  PROVE  LET m == AddFull(k, s)
         IN  OnLists(m, F \cup {s}, Q, Z) /\ m.inuse = k.inuse /\ m.totalobjs = k.totalobjs
<1> DEFINE a == k.full
           b == k.partial
           z == k.free
           u == k.inuse
           t == k.totalobjs
           a2 == Append(a, s)
           m == AddFull(k, s)
<1>1. k \in KRec /\ Lists(a, F) /\ Lists(b, Q) /\ Lists(z, Z)
  BY Zenon DEF OnLists, Listed
<1>2. /\ k = [full |-> a, partial |-> b, free |-> z, inuse |-> u, totalobjs |-> t]
      /\ u \in Int /\ t \in Int /\ a \in Seq(Page) /\ b \in Seq(Page) /\ z \in Seq(Page)
  BY <1>1, KFields, Zenon
<1>3. Lists(a2, F \cup {s})
  BY <1>1, ListAdd, Zenon
<1>4. m = [k EXCEPT !.full = a2]
  BY Zenon DEF AddFull
<1> HIDE DEF a, b, z, u, t, m
<1>5. m = [full |-> a2, partial |-> b, free |-> z, inuse |-> u, totalobjs |-> t]
  BY <1>2, <1>4
<1>6. a2 \in Seq(Page)
  BY <1>2
<1> HIDE DEF a2
<1>7. /\ m \in KRec /\ m.full = a2 /\ m.partial = b /\ m.free = z /\ m.inuse = u
      /\ m.totalobjs = t
  BY <1>2, <1>5, <1>6 DEF KRec
<1>. QED
  BY <1>1, <1>3, <1>7, Zenon DEF OnLists, Listed, b, z, u, t, m

\* A slab joins the partial list.
LEMMA AppendPartial ==
  ASSUME NEW Q \in SUBSET Page, NEW F, NEW Z, NEW k, OnLists(k, F, Q, Z), NEW s \in Page \ Q
  PROVE  LET m == AddPartial(k, s)
         IN  OnLists(m, F, Q \cup {s}, Z) /\ m.inuse = k.inuse /\ m.totalobjs = k.totalobjs
<1> USE Zenon
<1> DEFINE a == k.full
           b == k.partial
           z == k.free
           u == k.inuse
           t == k.totalobjs
           b2 == Append(b, s)
           m == AddPartial(k, s)
<1>1. k \in KRec /\ Lists(a, F) /\ Lists(b, Q) /\ Lists(z, Z)
  BY DEF OnLists, Listed
<1>2. /\ k = [full |-> a, partial |-> b, free |-> z, inuse |-> u, totalobjs |-> t]
      /\ u \in Int /\ t \in Int /\ a \in Seq(Page) /\ b \in Seq(Page) /\ z \in Seq(Page)
  BY <1>1, KFields
<1>3. Lists(b2, Q \cup {s})
  BY <1>1, ListAdd
<1>4. m = [k EXCEPT !.partial = b2]
  BY DEF AddPartial
<1> HIDE DEF a, b, z, u, t, m
<1>5. m = [full |-> a, partial |-> b2, free |-> z, inuse |-> u, totalobjs |-> t]
  BY <1>2, <1>4
<1>6. b2 \in Seq(Page)
  BY <1>2, SMTT(20)
<1> HIDE DEF b2
<1>7. /\ m \in KRec /\ m.full = a /\ m.partial = b2 /\ m.free = z /\ m.inuse = u
      /\ m.totalobjs = t
  BY <1>2, <1>5, <1>6, SMT DEF KRec
<1>. QED
  BY <1>1, <1>3, <1>7 DEF OnLists, Listed, a, z, u, t, m

\* A slab joins the free list.
LEMMA AppendFree ==
  ASSUME NEW Z \in SUBSET Page, NEW F, NEW Q, NEW k, OnLists(k, F, Q, Z), NEW s \in Page \ Z
  PROVE  LET m == AddFree(k, s)
         IN  OnLists(m, F, Q, Z \cup {s}) /\ m.inuse = k.inuse /\ m.totalobjs = k.totalobjs
<1> USE Zenon
<1> DEFINE a == k.full
           b == k.partial
           z == k.free
           u == k.inuse
           t == k.totalobjs
           z2 == Append(z, s)
           m == AddFree(k, s)
<1>1. k \in KRec /\ Lists(a, F) /\ Lists(b, Q) /\ Lists(z, Z)
  BY DEF OnLists, Listed
<1>2. /\ k = [full |-> a, partial |-> b, free |-> z, inuse |-> u, totalobjs |-> t]
      /\ u \in Int /\ t \in Int /\ a \in Seq(Page) /\ b \in Seq(Page) /\ z \in Seq(Page)
  BY <1>1, KFields
<1>3. Lists(z2, Z \cup {s})
  BY <1>1, ListAdd
<1>4. m = [k EXCEPT !.free = z2]
  BY DEF AddFree
<1> HIDE DEF a, b, z, u, t, m
<1>5. m = [full |-> a, partial |-> b, free |-> z2, inuse |-> u, totalobjs |-> t]
  BY <1>2, <1>4
<1>6. z2 \in Seq(Page)
  BY <1>2, SMTT(20)
<1> HIDE DEF z2
<1>7. /\ m \in KRec /\ m.full = a /\ m.partial = b /\ m.free = z2 /\ m.inuse = u
      /\ m.totalobjs = t
  BY <1>2, <1>5, <1>6, SMT DEF KRec
<1>. QED
  BY <1>1, <1>3, <1>7 DEF OnLists, Listed, a, b, u, t, m

\* From one list to another.
LEMMA Moved ==
  ASSUME NEW k, NEW F \in SUBSET Page, NEW Q \in SUBSET Page, NEW Z \in SUBSET Page,
         OnLists(k, F, Q, Z), NEW s \in Page
  PROVE  /\ OnLists(ToFull(k, s), (F \ {s}) \cup {s}, Q \ {s}, Z \ {s})
         /\ ToFull(k, s).inuse = k.inuse /\ ToFull(k, s).totalobjs = k.totalobjs
         /\ OnLists(ToPartial(k, s), F \ {s}, (Q \ {s}) \cup {s}, Z \ {s})
         /\ ToPartial(k, s).inuse = k.inuse /\ ToPartial(k, s).totalobjs = k.totalobjs
         /\ OnLists(ToFree(k, s), F \ {s}, Q \ {s}, (Z \ {s}) \cup {s})
         /\ ToFree(k, s).inuse = k.inuse /\ ToFree(k, s).totalobjs = k.totalobjs
<1> USE Zenon
<1> DEFINE e == Emptied(k, s)
           F1 == F \ {s}
           Q1 == Q \ {s}
           Z1 == Z \ {s}
<1>1. OnLists(e, F1, Q1, Z1) /\ e.inuse = k.inuse /\ e.totalobjs = k.totalobjs
  BY EmptiedIs
<1>2. /\ F1 \in SUBSET Page /\ Q1 \in SUBSET Page /\ Z1 \in SUBSET Page
      /\ s \in Page \ F1 /\ s \in Page \ Q1 /\ s \in Page \ Z1
  OBVIOUS
<1>3. /\ ToFull(k, s) = AddFull(e, s)
      /\ ToPartial(k, s) = AddPartial(e, s)
      /\ ToFree(k, s) = AddFree(e, s)
  BY DEF ToFull, ToPartial, ToFree, AddFull, AddPartial, AddFree
<1> HIDE DEF e, F1, Q1, Z1
<1>4. /\ OnLists(AddFull(e, s), F1 \cup {s}, Q1, Z1)
      /\ AddFull(e, s).inuse = e.inuse /\ AddFull(e, s).totalobjs = e.totalobjs
  <2>1. OnLists(e, F1, Q1, Z1)
    BY <1>1
  <2>2. F1 \in SUBSET Page /\ s \in Page \ F1
    BY <1>2
  <2>. QED
    BY <2>1, <2>2, AppendFull, SMT
<1>5. /\ OnLists(AddPartial(e, s), F1, Q1 \cup {s}, Z1)
      /\ AddPartial(e, s).inuse = e.inuse /\ AddPartial(e, s).totalobjs = e.totalobjs
  <2>1. OnLists(e, F1, Q1, Z1)
    BY <1>1
  <2>2. Q1 \in SUBSET Page /\ s \in Page \ Q1
    BY <1>2
  <2>. QED
    BY <2>1, <2>2, AppendPartial, SMT
<1>6. /\ OnLists(AddFree(e, s), F1, Q1, Z1 \cup {s})
      /\ AddFree(e, s).inuse = e.inuse /\ AddFree(e, s).totalobjs = e.totalobjs
  <2>1. OnLists(e, F1, Q1, Z1)
    BY <1>1
  <2>2. Z1 \in SUBSET Page /\ s \in Page \ Z1
    BY <1>2
  <2>. QED
    BY <2>1, <2>2, AppendFree, SMT
<1>. QED
  BY <1>1, <1>3, <1>4, <1>5, <1>6 DEF F1, Q1, Z1

\* The counter of objects in use.
LEMMA Counted ==
  ASSUME NEW k, NEW F, NEW Q, NEW Z, OnLists(k, F, Q, Z), NEW v \in Int
  PROVE  LET m == SetInuse(k, v)
         IN  OnLists(m, F, Q, Z) /\ m.inuse = v /\ m.totalobjs = k.totalobjs
<1> DEFINE a == k.full
           b == k.partial
           z == k.free
           t == k.totalobjs
           m == SetInuse(k, v)
<1>1. k \in KRec /\ Lists(a, F) /\ Lists(b, Q) /\ Lists(z, Z)
  BY Zenon DEF OnLists, Listed
<1>2. /\ k = [full |-> a, partial |-> b, free |-> z, inuse |-> k.inuse, totalobjs |-> t]
      /\ t \in Int /\ a \in Seq(Page) /\ b \in Seq(Page) /\ z \in Seq(Page)
  BY <1>1, KFields, Zenon
<1>5. m = [k EXCEPT !.inuse = v]
  BY Zenon DEF SetInuse
<1> HIDE DEF a, b, z, t, m
<1>3. m = [full |-> a, partial |-> b, free |-> z, inuse |-> v, totalobjs |-> t]
  BY <1>2, <1>5
<1>4. /\ m \in KRec /\ m.full = a /\ m.partial = b /\ m.free = z /\ m.inuse = v
      /\ m.totalobjs = t
  BY <1>2, <1>3 DEF KRec
<1>. QED
  BY <1>1, <1>4, Zenon DEF OnLists, Listed, a, b, z, t, m

\* The slab sl at s has f of its n objects in use, and is on the lists of its cache
\* k accordingly, unless it is full or empty.
Filled(k, F, Q, Z, s, sl, f, n) ==
  /\ F \in SUBSET Page /\ Q \in SUBSET Page /\ Z \in SUBSET Page /\ OnLists(k, F, Q, Z)
  /\ s \in Page /\ n \in Nat /\ f \in Nat /\ sl.free = f /\ ObjsPerSlab(sl.cache) = n
  /\ (0 < f /\ f < n) => s \in Q /\ s \notin F /\ s \notin Z

\* The lists once f of the objects of the slab at s are in use.
Refilled(m, F, Q, Z, s, f, n) ==
  OnLists(m, PutIf(F, s, f = n), PutIf(Q, s, 0 < f /\ f < n), PutIf(Z, s, f = 0))

\* cache_alloc's moves leave the slab on the list for its new count.
LEMMA TakeLists ==
  ASSUME NEW k, NEW F, NEW Q, NEW Z, NEW s, NEW sl, NEW f, NEW n,
         Filled(k, F, Q, Z, s, sl, f, n), f < n
  PROVE  /\ Refilled(TakeFrom(k, s, sl), F, Q, Z, s, f + 1, n)
         /\ TakeFrom(k, s, sl).inuse = k.inuse + 1
         /\ TakeFrom(k, s, sl).totalobjs = k.totalobjs
<1> USE Zenon
<1> SUFFICES ASSUME F \in SUBSET Page, Q \in SUBSET Page, Z \in SUBSET Page, OnLists(k, F, Q, Z),
                    s \in Page, n \in Nat, f \in Nat, sl.free = f, ObjsPerSlab(sl.cache) = n,
                    f > 0 => s \in Q /\ s \notin F /\ s \notin Z
             PROVE  /\ Refilled(TakeFrom(k, s, sl), F, Q, Z, s, f + 1, n)
                    /\ TakeFrom(k, s, sl).inuse = k.inuse + 1
                    /\ TakeFrom(k, s, sl).totalobjs = k.totalobjs
  BY DEF Filled
<1> DEFINE k1 == IF sl.free = 0 THEN ToPartial(k, s) ELSE k
           k2 == IF sl.free + 1 = ObjsPerSlab(sl.cache) THEN ToFull(k1, s) ELSE k1
           Q1 == (Q \ {s}) \cup {s}
           F1 == F \ {s}
           Z1 == Z \ {s}
<1>1. /\ TakeFrom(k, s, sl) = [k2 EXCEPT !.inuse = @ + 1]
      /\ k1 = IF f = 0 THEN ToPartial(k, s) ELSE k
      /\ k2 = IF f + 1 = n THEN ToFull(k1, s) ELSE k1
  BY DEF TakeFrom
<1> HIDE DEF k1, k2
<1>2. OnLists(k1, F1, Q1, Z1) /\ k1.inuse = k.inuse /\ k1.totalobjs = k.totalobjs
  <2>1. CASE f = 0
    BY <1>1, <2>1, Moved
  <2>2. CASE f # 0
    <3>1. f > 0
      BY <2>2, SMT
    <3>2. F1 = F /\ Q1 = Q /\ Z1 = Z
      BY <3>1
    <3>. QED
      BY <1>1, <2>2, <3>2
  <2>. QED
    BY <2>1, <2>2
<1>3. F1 \in SUBSET Page /\ Q1 \in SUBSET Page /\ Z1 \in SUBSET Page
  OBVIOUS
<1>4. /\ OnLists(k2, PutIf(F, s, f + 1 = n), PutIf(Q, s, 0 < f + 1 /\ f + 1 < n),
                 PutIf(Z, s, f + 1 = 0))
      /\ k2.inuse = k.inuse /\ k2.totalobjs = k.totalobjs
  <2>0. f + 1 # 0 /\ 0 < f + 1 /\ (f + 1 # n => f + 1 < n) /\ (f + 1 = n => ~(f + 1 < n))
    BY SMT
  <2>1. CASE f + 1 = n
    <3>1. /\ PutIf(F, s, f + 1 = n) = (F1 \ {s}) \cup {s}
          /\ PutIf(Q, s, 0 < f + 1 /\ f + 1 < n) = Q1 \ {s}
          /\ PutIf(Z, s, f + 1 = 0) = Z1 \ {s}
      BY <2>0, <2>1 DEF PutIf
    <3> HIDE DEF F1, Q1, Z1
    <3>2. k2 = ToFull(k1, s)
      BY <1>1, <2>1
    <3>3. /\ OnLists(ToFull(k1, s), (F1 \ {s}) \cup {s}, Q1 \ {s}, Z1 \ {s})
          /\ ToFull(k1, s).inuse = k1.inuse /\ ToFull(k1, s).totalobjs = k1.totalobjs
      <4>1. OnLists(k1, F1, Q1, Z1)
        BY <1>2
      <4>. QED
        BY <1>3, <4>1, Moved, ZenonT(40)
    <3>. QED
      BY <1>2, <3>1, <3>2, <3>3
  <2>2. CASE f + 1 # n
    <3>1. /\ PutIf(F, s, f + 1 = n) = F1
          /\ PutIf(Q, s, 0 < f + 1 /\ f + 1 < n) = Q1
          /\ PutIf(Z, s, f + 1 = 0) = Z1
      BY <2>0, <2>2 DEF PutIf
    <3>2. k2 = k1
      BY <1>1, <2>2
    <3>. QED
      BY <1>2, <3>1, <3>2
  <2>. QED
    BY <2>1, <2>2
<1>5. k2.inuse \in Int
  BY <1>4, KFields DEF OnLists
<1>6. k2.inuse + 1 \in Int
  BY <1>5, SMT
<1>7. TakeFrom(k, s, sl) = [k2 EXCEPT !.inuse = k2.inuse + 1]
  BY <1>1
<1>. QED
  <2> DEFINE m == TakeFrom(k, s, sl)
             A == PutIf(F, s, f + 1 = n)
             B == PutIf(Q, s, 0 < f + 1 /\ f + 1 < n)
             C == PutIf(Z, s, f + 1 = 0)
  <2>1. OnLists(k2, A, B, C) /\ m = SetInuse(k2, k2.inuse + 1)
    BY <1>4, <1>7 DEF SetInuse
  <2> HIDE DEF m, A, B, C
  <2>2. OnLists(m, A, B, C) /\ m.inuse = k2.inuse + 1 /\ m.totalobjs = k2.totalobjs
    BY <1>6, <2>1, Counted
  <2>. QED
    BY <1>4, <2>2 DEF m, A, B, C, Refilled

\* So do cache_dealloc_within's.
LEMMA GiveLists ==
  ASSUME NEW k, NEW F, NEW Q, NEW Z, NEW s, NEW sl, NEW f, NEW n,
         Filled(k, F, Q, Z, s, sl, f, n), 0 < f, f <= n
  PROVE  /\ Refilled(GiveTo(k, s, sl), F, Q, Z, s, f - 1, n)
         /\ GiveTo(k, s, sl).inuse = k.inuse - 1
         /\ GiveTo(k, s, sl).totalobjs = k.totalobjs
<1> USE Zenon
<1> SUFFICES ASSUME F \in SUBSET Page, Q \in SUBSET Page, Z \in SUBSET Page, OnLists(k, F, Q, Z),
                    s \in Page, n \in Nat, f \in Nat, sl.free = f, ObjsPerSlab(sl.cache) = n,
                    f < n => s \in Q /\ s \notin F /\ s \notin Z
             PROVE  /\ Refilled(GiveTo(k, s, sl), F, Q, Z, s, f - 1, n)
                    /\ GiveTo(k, s, sl).inuse = k.inuse - 1
                    /\ GiveTo(k, s, sl).totalobjs = k.totalobjs
  BY DEF Filled
<1> DEFINE k1 == IF sl.free = ObjsPerSlab(sl.cache) THEN ToPartial(k, s) ELSE k
           k2 == IF sl.free = 1 THEN ToFree(k1, s) ELSE k1
           Q1 == (Q \ {s}) \cup {s}
           F1 == F \ {s}
           Z1 == Z \ {s}
<1>1. /\ GiveTo(k, s, sl) = [k2 EXCEPT !.inuse = @ - 1]
      /\ k1 = IF f = n THEN ToPartial(k, s) ELSE k
      /\ k2 = IF f = 1 THEN ToFree(k1, s) ELSE k1
  BY DEF GiveTo
<1> HIDE DEF k1, k2
<1>2. OnLists(k1, F1, Q1, Z1) /\ k1.inuse = k.inuse /\ k1.totalobjs = k.totalobjs
  <2>1. CASE f = n
    BY <1>1, <2>1, Moved
  <2>2. CASE f # n
    <3>1. f < n
      BY <2>2, SMT
    <3>2. F1 = F /\ Q1 = Q /\ Z1 = Z
      BY <3>1
    <3>. QED
      BY <1>1, <2>2, <3>2
  <2>. QED
    BY <2>1, <2>2
<1>3. F1 \in SUBSET Page /\ Q1 \in SUBSET Page /\ Z1 \in SUBSET Page
  OBVIOUS
<1>4. /\ OnLists(k2, PutIf(F, s, f - 1 = n), PutIf(Q, s, 0 < f - 1 /\ f - 1 < n),
                 PutIf(Z, s, f - 1 = 0))
      /\ k2.inuse = k.inuse /\ k2.totalobjs = k.totalobjs
  <2>0. /\ f - 1 # n /\ f - 1 < n /\ (f = 1 => f - 1 = 0 /\ ~(0 < f - 1))
        /\ (f # 1 => f - 1 # 0 /\ 0 < f - 1)
    BY SMT
  <2>1. CASE f = 1
    <3>1. /\ PutIf(F, s, f - 1 = n) = F1 \ {s}
          /\ PutIf(Q, s, 0 < f - 1 /\ f - 1 < n) = Q1 \ {s}
          /\ PutIf(Z, s, f - 1 = 0) = (Z1 \ {s}) \cup {s}
      BY <2>0, <2>1 DEF PutIf
    <3> HIDE DEF F1, Q1, Z1
    <3>2. k2 = ToFree(k1, s)
      BY <1>1, <2>1
    <3>3. /\ OnLists(ToFree(k1, s), F1 \ {s}, Q1 \ {s}, (Z1 \ {s}) \cup {s})
          /\ ToFree(k1, s).inuse = k1.inuse /\ ToFree(k1, s).totalobjs = k1.totalobjs
      BY <1>2, <1>3, Moved, ZenonT(40)
    <3>. QED
      BY <1>2, <3>1, <3>2, <3>3
  <2>2. CASE f # 1
    <3>1. /\ PutIf(F, s, f - 1 = n) = F1
          /\ PutIf(Q, s, 0 < f - 1 /\ f - 1 < n) = Q1
          /\ PutIf(Z, s, f - 1 = 0) = Z1
      BY <2>0, <2>2 DEF PutIf
    <3>2. k2 = k1
      BY <1>1, <2>2
    <3>. QED
      BY <1>2, <3>1, <3>2
  <2>. QED
    BY <2>1, <2>2
<1>5. k2.inuse \in Int
  BY <1>4, KFields DEF OnLists
<1>6. k2.inuse - 1 \in Int
  BY <1>5, SMT
<1>7. GiveTo(k, s, sl) = [k2 EXCEPT !.inuse = k2.inuse - 1]
  BY <1>1
<1>. QED
  <2> DEFINE m == GiveTo(k, s, sl)
             A == PutIf(F, s, f - 1 = n)
             B == PutIf(Q, s, 0 < f - 1 /\ f - 1 < n)
             C == PutIf(Z, s, f - 1 = 0)
  <2>1. OnLists(k2, A, B, C) /\ m = SetInuse(k2, k2.inuse - 1)
    BY <1>4, <1>7 DEF SetInuse
  <2> HIDE DEF m, A, B, C
  <2>2. OnLists(m, A, B, C) /\ m.inuse = k2.inuse - 1 /\ m.totalobjs = k2.totalobjs
    BY <1>6, <2>1, Counted
  <2>. QED
    BY <1>4, <2>2 DEF m, A, B, C, Refilled

\* cache_grow puts the new slab on the free list and counts its objects.
LEMMA GrowLists ==
  ASSUME SetFacts, NEW k, NEW F, NEW Q, NEW Z \in SUBSET Page, OnLists(k, F, Q, Z),
         NEW c \in Caches,
         NEW s \in Page \ Z
  PROVE  LET m == CacheGrow(k, c, s)
         IN  /\ OnLists(m, F, Q, Z \cup {s}) /\ m.inuse = k.inuse
             /\ m.totalobjs = k.totalobjs + ObjsPerSlab(c)
<1> DEFINE e == AddFree(k, s)
           m == CacheGrow(k, c, s)
           a == e.full
           b == e.partial
           z == e.free
           t == e.totalobjs
           u == e.inuse
           t2 == t + ObjsPerSlab(c)
<1>1. OnLists(e, F, Q, Z \cup {s}) /\ u = k.inuse /\ t = k.totalobjs
  BY AppendFree
<1>2. e \in KRec /\ Lists(a, F) /\ Lists(b, Q) /\ Lists(z, Z \cup {s})
  BY <1>1, Zenon DEF OnLists, Listed
<1>3. m = [e EXCEPT !.totalobjs = t2]
  <2>1. k \in KRec
    BY Zenon DEF OnLists
  <2>2. m = [[k EXCEPT !.free = Append(k.free, s)] EXCEPT !.totalobjs = k.totalobjs + ObjsPerSlab(c)]
    BY <2>1 DEF CacheGrow, KRec
  <2>. QED
    BY <1>1, <2>2, Zenon DEF AddFree
<1> HIDE DEF e, m
<1>4. /\ e = [full |-> a, partial |-> b, free |-> z, inuse |-> u, totalobjs |-> t]
      /\ t \in Int /\ u \in Int /\ a \in Seq(Page) /\ b \in Seq(Page) /\ z \in Seq(Page)
  BY <1>2, KFields, Zenon
<1>5. t2 \in Int
  BY <1>4, ObjSizes
<1> HIDE DEF a, b, z, u, t, t2
<1>6. m = [full |-> a, partial |-> b, free |-> z, inuse |-> u, totalobjs |-> t2]
  BY <1>3, <1>4
<1>7. /\ m \in KRec /\ m.full = a /\ m.partial = b /\ m.free = z /\ m.inuse = u
      /\ m.totalobjs = t2
  BY <1>4, <1>5, <1>6 DEF KRec
<1>. QED
  BY <1>1, <1>2, <1>7, Zenon DEF OnLists, Listed, m, t2

=============================================================================
