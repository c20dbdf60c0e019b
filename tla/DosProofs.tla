----------------------------- MODULE DosProofs ------------------------------
(***************************************************************************)
(* Proofs about the DOS layer's programs and memory (modules Mcb and Dos), *)
(* for memory of any size, any programs, any nesting and any request       *)
(* sizes.  The first part is about the operators on a chain: one that      *)
(* tiles memory still does after mcb_alloc, mcb_free and mcb_resize.  The  *)
(* second is about the programs.                                           *)
(***************************************************************************)
EXTENDS Dos, WellFoundedInduction, SequenceTheorems, TLAPS

\* A chain with its type: owners and sizes are numbers.
Chain(c) == c \in [DOMAIN c -> [own : Nat, sz : Nat]] /\ Tiled(c)

-----------------------------------------------------------------------------
(***************************************************************************)
(* Least and greatest elements, for the choices mcb_alloc and mcb_coalesce *)
(* make.                                                                   *)
(***************************************************************************)
LEMMA LeastElement ==
  ASSUME NEW T \in SUBSET Nat, T # {}
  PROVE  \E x \in T : \A y \in T : x <= y
<1>1. PICK x \in T : \A y \in T : ~ (<<y, x>> \in OpToRel(<, Nat))
  BY NatLessThanWellFounded, WFMin
<1>2. \A y \in T : ~ (y < x)
  BY <1>1 DEF OpToRel
<1> QED
  BY <1>2

\* A non-empty set of numbers up to N has a greatest one.
LEMMA GreatestElement ==
  ASSUME NEW N \in Nat, NEW T \in SUBSET (0 .. N), T # {}
  PROVE  \E x \in T : \A y \in T : x >= y
<1> DEFINE U == {N - t : t \in T}
<1>1. U \in SUBSET Nat /\ U # {}
  <2>1. PICK t \in T : TRUE
    OBVIOUS
  <2>2. N - t \in U
    OBVIOUS
  <2>3. ASSUME NEW u \in U PROVE u \in Nat
    BY DEF U
  <2> QED
    BY <2>2, <2>3
<1>2. PICK u \in U : \A v \in U : u <= v
  BY <1>1, LeastElement
<1>3. PICK x \in T : u = N - x
  BY <1>2
<1>4. \A y \in T : N - x <= N - y
  BY <1>2, <1>3
<1> QED
  BY <1>4

-----------------------------------------------------------------------------
(***************************************************************************)
(* The first chain, and the steps the calls are made of.                   *)
(***************************************************************************)
LEMMA InitTiles == Chain(mcb_init)
  BY MemoryAssumption DEF MemoryAssumption, Chain, Tiled, mcb_init, NextHeader, NoOwner

\* Changing the owner of a block keeps the tiling.
LEMMA OwnedTiles ==
  ASSUME NEW c, Chain(c), NEW h \in DOMAIN c, NEW owner \in Nat
  PROVE  Chain(Owned(c, h, owner))
<1> DEFINE d == Owned(c, h, owner)
<1>1. DOMAIN d = DOMAIN c
  BY DEF Owned
<1>2. \A g \in DOMAIN c : d[g] = [own |-> IF g = h THEN owner ELSE c[g].own, sz |-> c[g].sz]
  BY DEF Owned, Chain
<1>3. d \in [DOMAIN c -> [own : Nat, sz : Nat]]
  BY <1>2 DEF Owned, Chain
<1>4. \A g \in DOMAIN c : NextHeader(d, g) = NextHeader(c, g) /\ d[g].sz = c[g].sz
  <2>1. \A g \in DOMAIN c : d[g].sz = c[g].sz
    BY DEF Owned
  <2> QED
    BY <2>1 DEF NextHeader
<1> HIDE DEF d
<1>5. Tiled(d)
  BY <1>1, <1>4 DEF Chain, Tiled
<1> QED
  BY <1>1, <1>3, <1>5 DEF Chain, d

\* A block cut in two inside its own paragraphs.
LEMMA SplitTiles ==
  ASSUME NEW c, Chain(c), NEW h \in DOMAIN c, NEW at \in h + 1 .. NextHeader(c, h) - 1,
         NEW low \in Nat, NEW high \in Nat
  PROVE  Chain(Split(c, h, at, low, high))
<1> DEFINE d == Split(c, h, at, low, high)
           D == DOMAIN c \cup {at}
<1>1. /\ h \in MEM_FIRST .. MEM_LAST - 1 /\ at \in Nat /\ h \in Nat
      /\ MEM_FIRST \in Nat /\ MEM_LAST \in Nat
      /\ NextHeader(c, h) \in Nat /\ NextHeader(c, h) <= MEM_LAST
      /\ c[h].sz \in Nat /\ NextHeader(c, h) = h + c[h].sz + 1
  BY MemoryAssumption DEF MemoryAssumption, Chain, Tiled, NextHeader
<1>2. DOMAIN d = D
  BY DEF Split
<1>3. /\ d[h] = [own |-> low, sz |-> at - h - 1]
      /\ d[at] = [own |-> high, sz |-> NextHeader(c, h) - at - 1]
      /\ \A g \in D : g # h /\ g # at => d[g] = c[g]
  BY <1>1 DEF Split
<1>4. at \notin DOMAIN c
  BY <1>1 DEF Chain, Tiled
<1>5. \A g \in D : d[g] \in [own : Nat, sz : Nat]
  BY <1>1, <1>3 DEF Chain
<1>6. d = [g \in D |-> d[g]]
  BY DEF Split
<1>7. /\ NextHeader(d, h) = at /\ NextHeader(d, at) = NextHeader(c, h)
      /\ \A g \in D : g # h /\ g # at => NextHeader(d, g) = NextHeader(c, g)
  BY <1>1, <1>3 DEF NextHeader
<1> HIDE DEF d
<1>8. MEM_FIRST \in D /\ D \subseteq MEM_FIRST .. MEM_LAST - 1
  BY <1>1 DEF Chain, Tiled
<1>9. ASSUME NEW g \in D
      PROVE  /\ d[g].sz \in 0 .. MEM_LAST - MEM_FIRST - 1
             /\ NextHeader(d, g) \in D \cup {MEM_LAST}
  <2>1. CASE g = h
    BY <1>1, <1>3, <1>7, <2>1
  <2>2. CASE g = at
    BY <1>1, <1>3, <1>7, <2>2 DEF Chain, Tiled
  <2>3. CASE g # h /\ g # at
    BY <1>3, <1>7, <2>3 DEF Chain, Tiled
  <2> QED
    BY <2>1, <2>2, <2>3
<1>10. ASSUME NEW g \in D, NEW k \in D, g < k
       PROVE  NextHeader(d, g) <= k
  <2>1. CASE g = h
    <3>1. k = at \/ (k \in DOMAIN c /\ NextHeader(c, h) <= k)
      BY <1>10, <2>1 DEF Chain, Tiled
    <3> QED
      BY <1>1, <1>7, <1>8, <2>1, <3>1
  <2>2. CASE g = at
    <3>1. k \in DOMAIN c /\ h < k
      BY <1>1, <1>8, <1>10, <2>2
    <3> QED
      BY <1>7, <2>2, <3>1 DEF Chain, Tiled
  <2>3. CASE g # h /\ g # at
    <3>1. g \in DOMAIN c /\ NextHeader(d, g) = NextHeader(c, g)
      BY <1>7, <2>3
    <3>2. CASE k # at
      BY <1>10, <3>1, <3>2 DEF Chain, Tiled
    <3>3. CASE k = at
      <4>1. g < h
        <5>1. SUFFICES ASSUME h < g PROVE FALSE
          BY <1>1, <1>8, <2>3
        <5>2. NextHeader(c, h) <= g
          BY <3>1, <5>1 DEF Chain, Tiled
        <5> QED
          BY <1>1, <1>8, <1>10, <3>3, <5>2
      <4>2. NextHeader(c, g) <= h
        BY <3>1, <4>1 DEF Chain, Tiled
      <4>3. NextHeader(c, g) \in Int
        BY <3>1, <1>8 DEF Chain, NextHeader
      <4> QED
        BY <1>1, <3>1, <3>3, <4>2, <4>3
    <3> QED
      BY <3>2, <3>3
  <2> QED
    BY <2>1, <2>2, <2>3
<1>11. Tiled(d)
  BY <1>2, <1>8, <1>9, <1>10 DEF Tiled
<1>12. d \in [D -> [own : Nat, sz : Nat]]
  BY <1>5, <1>6
<1> QED
  BY <1>2, <1>11, <1>12 DEF Chain, d

-----------------------------------------------------------------------------
(***************************************************************************)
(* mcb_coalesce: the headers that stay, and where each block then ends.    *)
(***************************************************************************)
LEMMA FollowingIsNext ==
  ASSUME NEW H \in SUBSET (MEM_FIRST .. MEM_LAST - 1), NEW h \in H
  PROVE  /\ Following(H, h) \in H \cup {MEM_LAST}
         /\ Following(H, h) > h
         /\ \A g \in H : g > h => Following(H, h) <= g
<1> DEFINE T == {e \in H \cup {MEM_LAST} : e > h}
<1>1. H \subseteq Nat /\ MEM_LAST \in Nat /\ \A g \in H : g < MEM_LAST
  BY MemoryAssumption DEF MemoryAssumption
<1>2. T \in SUBSET Nat /\ MEM_LAST \in T
  BY <1>1
<1>3. PICK e \in T : \A y \in T : e <= y
  BY <1>2, LeastElement
<1>4. e \in H \cup {MEM_LAST} /\ e > h /\ \A g \in H : g > h => e <= g
  BY <1>3
<1> QED
  BY <1>4 DEF Following

\* mcb_coalesce keeps the tiling: each block that stays ends at the next
\* header that stays.
LEMMA CoalesceTiles ==
  ASSUME NEW c, Chain(c)
  PROVE  Chain(mcb_coalesce(c))
<1> DEFINE K == Kept(c)
           d == mcb_coalesce(c)
<1>1. K \subseteq DOMAIN c /\ DOMAIN c \in SUBSET (MEM_FIRST .. MEM_LAST - 1)
  BY DEF Kept, Chain, Tiled
<1>2. MEM_FIRST \in K
  <2>1. \A f \in DOMAIN c : NextHeader(c, f) # MEM_FIRST
    BY <1>1, MemoryAssumption DEF MemoryAssumption, NextHeader, Chain
  <2> QED
    BY <2>1 DEF Kept, Free, Chain, Tiled
<1>3. \A h \in K : /\ Following(K, h) \in K \cup {MEM_LAST}
                   /\ Following(K, h) > h
                   /\ \A g \in K : g > h => Following(K, h) <= g
  BY <1>1, FollowingIsNext
<1>4. DOMAIN d = K /\ d = [h \in K |-> d[h]]
  BY DEF mcb_coalesce
<1>5. \A h \in K : /\ d[h] = [own |-> c[h].own, sz |-> Following(K, h) - h - 1]
                   /\ d[h].own = c[h].own /\ d[h].sz = Following(K, h) - h - 1
  BY DEF mcb_coalesce
<1> HIDE DEF d, K
<1>6. ASSUME NEW h \in K
      PROVE  /\ d[h] \in [own : Nat, sz : Nat]
             /\ d[h].sz \in 0 .. MEM_LAST - MEM_FIRST - 1
             /\ NextHeader(d, h) = Following(K, h)
  <2>1. h \in MEM_FIRST .. MEM_LAST - 1 /\ MEM_FIRST \in Nat /\ MEM_LAST \in Nat
    BY <1>1, MemoryAssumption DEF MemoryAssumption
  <2>2. Following(K, h) \in h + 1 .. MEM_LAST
    BY <1>1, <1>3, <2>1
  <2>3. c[h].own \in Nat
    BY <1>1 DEF Chain
  <2>4. d[h].own = c[h].own /\ d[h].sz = Following(K, h) - h - 1
    BY <1>5
  <2>5. d[h].sz \in 0 .. MEM_LAST - MEM_FIRST - 1
    BY <2>1, <2>2, <2>4
  <2>6. NextHeader(d, h) = Following(K, h)
    BY <2>1, <2>2, <2>4 DEF NextHeader
  <2>7. Following(K, h) - h - 1 \in Nat
    BY <2>1, <2>2
  <2>8. d[h] \in [own : Nat, sz : Nat]
    BY <2>3, <2>7 DEF d, mcb_coalesce, K
  <2> QED
    BY <2>5, <2>6, <2>8
<1>7. Tiled(d)
  BY <1>1, <1>2, <1>3, <1>4, <1>6 DEF Tiled
<1>8. d \in [K -> [own : Nat, sz : Nat]]
  BY <1>4, <1>6
<1> QED
  BY <1>4, <1>7, <1>8 DEF Chain, d

-----------------------------------------------------------------------------
(***************************************************************************)
(* Blocks in use: the calls a program makes for one block leave the        *)
(* headers, owners and sizes of the other blocks in use as they were.      *)
(***************************************************************************)
Held(c) == DOMAIN c \ Free(c)

\* The blocks in use of c other than h are blocks of d, the same.
OthersStay(c, d, h) == \A g \in Held(c) : g # h => g \in DOMAIN d /\ d[g] = c[g]

\* What Chain says of two blocks, in the form the proofs use.
LEMMA ChainFacts ==
  ASSUME NEW c, Chain(c)
  PROVE  /\ MEM_FIRST \in Nat /\ MEM_LAST \in Nat
         /\ DOMAIN c \subseteq MEM_FIRST .. MEM_LAST - 1
         /\ \A h \in DOMAIN c : /\ h \in Nat /\ c[h].sz \in Nat /\ c[h].own \in Nat
                                /\ c[h] \in [own : Nat, sz : Nat]
                                /\ NextHeader(c, h) = h + c[h].sz + 1
                                /\ NextHeader(c, h) \in DOMAIN c \cup {MEM_LAST}
                                /\ \A g \in DOMAIN c : h < g => NextHeader(c, h) <= g
  BY MemoryAssumption DEF MemoryAssumption, Chain, Tiled, NextHeader

\* mcb_coalesce leaves every block in use alone.
LEMMA CoalesceKeepsHeld ==
  ASSUME NEW c, Chain(c), NEW g \in Held(c)
  PROVE  g \in DOMAIN mcb_coalesce(c) /\ mcb_coalesce(c)[g] = c[g]
<1> DEFINE K == Kept(c)
           n == NextHeader(c, g)
<1>1. g \in K /\ K \subseteq DOMAIN c /\ g \in DOMAIN c /\ g \notin Free(c)
  BY DEF Held, Kept
<1>2. n \in K \cup {MEM_LAST}
  <2>1. SUFFICES ASSUME n \in DOMAIN c, NEW f \in Free(c), NextHeader(c, f) = n
                 PROVE  FALSE
    BY <1>1, ChainFacts DEF Kept
  <2>2. f \in DOMAIN c /\ f # g
    BY <1>1 DEF Free
  <2>3. CASE f < g
    <3>1. n <= g
      BY <1>1, <2>1, <2>2, <2>3, ChainFacts
    <3> QED
      BY <1>1, <3>1, ChainFacts
  <2>4. CASE g < f
    <3>1. n <= f
      BY <1>1, <2>2, <2>4, ChainFacts
    <3>2. NextHeader(c, f) > f
      BY <2>2, ChainFacts
    <3> QED
      BY <1>1, <2>1, <2>2, <3>1, <3>2, ChainFacts
  <2> QED
    BY <1>1, <2>2, <2>3, <2>4, ChainFacts
<1>3. K \in SUBSET (MEM_FIRST .. MEM_LAST - 1)
  BY <1>1, ChainFacts
<1>4. /\ Following(K, g) \in K \cup {MEM_LAST}
      /\ Following(K, g) > g
      /\ \A k \in K : k > g => Following(K, g) <= k
  BY <1>1, <1>3, FollowingIsNext
<1>5. n > g /\ n <= MEM_LAST /\ n \in Nat
  BY <1>1, ChainFacts
<1>6. Following(K, g) <= n
  BY <1>2, <1>3, <1>4, <1>5, ChainFacts
<1>7. n <= Following(K, g)
  BY <1>1, <1>3, <1>4, <1>5, ChainFacts
<1>8. Following(K, g) = n
  BY <1>3, <1>4, <1>5, <1>6, <1>7, ChainFacts
<1>9. n - g - 1 = c[g].sz
  BY <1>1, ChainFacts
<1>10. c[g] = [own |-> c[g].own, sz |-> c[g].sz]
  BY <1>1, ChainFacts
<1> QED
  BY <1>1, <1>8, <1>9, <1>10 DEF mcb_coalesce

-----------------------------------------------------------------------------
(***************************************************************************)
(* mcb_alloc.                                                              *)
(***************************************************************************)

\* Each fit chooses a free block that is large enough, if there is one.
LEMMA ChosenFits ==
  ASSUME NEW c, Chain(c), NEW paras \in Nat, NEW fit \in 0 .. 2,
         Fitting(c, paras) # {}
  PROVE  Chosen(c, paras, fit) \in Fitting(c, paras)
<1> DEFINE T == Fitting(c, paras)
<1>1. T \subseteq DOMAIN c /\ T \in SUBSET Nat /\ T \in SUBSET (0 .. MEM_LAST)
  BY ChainFacts DEF Fitting, Free
<1>2. CASE fit = 0
  <2>1. \E h \in T : \A g \in T : h <= g
    BY <1>1, LeastElement
  <2> HIDE DEF T
  <2> QED
    BY <1>2, <2>1 DEF Chosen, T
<1>3. CASE fit = 1
  <2> DEFINE S == {c[h].sz : h \in T}
  <2>1. S \in SUBSET Nat /\ S # {}
    BY <1>1, ChainFacts
  <2>2. PICK m \in S : \A n \in S : m <= n
    BY <2>1, LeastElement
  <2> DEFINE U == {h \in T : c[h].sz = m}
  <2>3. U \in SUBSET Nat /\ U # {}
    BY <1>1, <2>2
  <2>4. PICK h \in U : \A g \in U : h <= g
    BY <2>3, LeastElement
  <2>5. \A g \in T : c[h].sz < c[g].sz \/ (c[h].sz = c[g].sz /\ h <= g)
    BY <1>1, <2>1, <2>2, <2>4
  <2>6. \E k \in T : \A g \in T : c[k].sz < c[g].sz \/ (c[k].sz = c[g].sz /\ k <= g)
    BY <2>4, <2>5
  <2> HIDE DEF T
  <2> QED
    BY <1>3, <2>6 DEF Chosen, T
<1>4. CASE fit = 2
  <2>1. \E h \in T : \A g \in T : h >= g
    BY <1>1, ChainFacts, GreatestElement
  <2> HIDE DEF T
  <2> QED
    BY <1>4, <2>1 DEF Chosen, T
<1> QED
  BY <1>2, <1>3, <1>4

\* mcb_alloc that finds a block: the chain still tiles memory, the granted
\* block was free, is at least as large as asked for and has the caller as
\* its owner, and no other block in use is touched.
THEOREM AllocTiles ==
  ASSUME NEW c, Chain(c), NEW paras \in Nat, NEW owner \in Nat \ {NoOwner},
         NEW fit \in 0 .. 2, Fitting(c, paras) # {}
  PROVE  LET d == AfterAlloc(c, paras, owner, fit)
             h == AllocHeader(c, paras, fit)
         IN  /\ Chain(d)
             /\ h \in DOMAIN d /\ h \notin Held(c)
             /\ d[h].own = owner /\ d[h].sz >= paras
             /\ OthersStay(c, d, h)
<1> DEFINE h == Chosen(c, paras, fit)
           low == h + paras + 1
           high == h + c[h].sz - paras
<1>1. h \in DOMAIN c /\ h \in Free(c) /\ c[h].sz >= paras /\ h \notin Held(c)
  BY ChosenFits DEF Fitting, Free, Held
<1>2. h \in Nat /\ c[h].sz \in Nat /\ NextHeader(c, h) = h + c[h].sz + 1
  BY <1>1, ChainFacts
<1> HIDE DEF h
<1>3. CASE ~ Cuts(c, h, paras)
  <2> DEFINE d == Owned(c, h, owner)
  <2>1. AfterAlloc(c, paras, owner, fit) = d /\ AllocHeader(c, paras, fit) = h
    BY <1>3 DEF AfterAlloc, AllocHeader, h
  <2>2. Chain(d)
    BY <1>1, OwnedTiles
  <2>3. d[h].own = owner /\ d[h].sz = c[h].sz /\ h \in DOMAIN d
    BY <1>1, ChainFacts DEF Owned
  <2>4. OthersStay(c, d, h)
    BY DEF OthersStay, Owned, Held
  <2> QED
    BY <1>1, <2>1, <2>2, <2>3, <2>4
<1>4. CASE Cuts(c, h, paras) /\ fit = 2
  <2> DEFINE d == Split(c, h, high, NoOwner, owner)
  <2>1. AfterAlloc(c, paras, owner, fit) = d /\ AllocHeader(c, paras, fit) = high
    BY <1>4 DEF AfterAlloc, AllocHeader, h
  <2>2. high \in h + 1 .. NextHeader(c, h) - 1 /\ high \in Nat /\ high > h
    BY <1>1, <1>2, <1>4 DEF Cuts
  <2>3. Chain(d)
    BY <1>1, <2>2, SplitTiles DEF NoOwner
  <2>4. high \notin DOMAIN c
    BY <1>1, <1>2, <2>2, ChainFacts
  <2>5. d[high].own = owner /\ d[high].sz = NextHeader(c, h) - high - 1 /\ high \in DOMAIN d
    BY <1>2, <2>2 DEF Split
  <2>6. d[high].sz >= paras
    BY <1>1, <1>2, <2>5
  <2>7. OthersStay(c, d, high)
    BY <1>1, <2>4 DEF OthersStay, Split, Held
  <2> QED
    BY <2>1, <2>3, <2>4, <2>5, <2>6, <2>7 DEF Held
<1>5. CASE Cuts(c, h, paras) /\ fit # 2
  <2> DEFINE d == Split(c, h, low, owner, NoOwner)
  <2>1. AfterAlloc(c, paras, owner, fit) = d /\ AllocHeader(c, paras, fit) = h
    BY <1>5 DEF AfterAlloc, AllocHeader, h
  <2>2. low \in h + 1 .. NextHeader(c, h) - 1 /\ low \in Nat /\ low > h
    BY <1>1, <1>2, <1>5 DEF Cuts
  <2>3. Chain(d)
    BY <1>1, <2>2, SplitTiles DEF NoOwner
  <2>4. low \notin DOMAIN c
    BY <1>1, <1>2, <2>2, ChainFacts
  <2>5. d[h].own = owner /\ d[h].sz = low - h - 1 /\ h \in DOMAIN d
    BY <1>1, <1>2, <2>2 DEF Split
  <2>6. d[h].sz >= paras
    BY <1>2, <2>5
  <2>7. OthersStay(c, d, h)
    BY <1>1, <2>4 DEF OthersStay, Split, Held
  <2> QED
    BY <1>1, <2>1, <2>3, <2>5, <2>6, <2>7
<1> QED
  BY <1>3, <1>4, <1>5

-----------------------------------------------------------------------------
(***************************************************************************)
(* mcb_free and mcb_resize.                                                *)
(***************************************************************************)

\* What coalescing leaves alone after a step that left it alone.
LEMMA CoalesceOthersStay ==
  ASSUME NEW c, NEW d, Chain(d), NEW h, OthersStay(c, d, h)
  PROVE  OthersStay(c, mcb_coalesce(d), h)
<1> SUFFICES ASSUME NEW g \in Held(c), g # h
             PROVE  g \in DOMAIN mcb_coalesce(d) /\ mcb_coalesce(d)[g] = c[g]
  BY DEF OthersStay
<1>1. g \in DOMAIN d /\ d[g] = c[g]
  BY DEF OthersStay
<1>2. g \in Held(d)
  BY <1>1 DEF Held, Free
<1> QED
  BY <1>1, <1>2, CoalesceKeepsHeld

\* mcb_free, of any segment: the chain still tiles memory and no block in
\* use but the one freed is touched.
THEOREM FreeTiles ==
  ASSUME NEW c, Chain(c), NEW seg \in Nat
  PROVE  /\ Chain(mcb_free(c, seg))
         /\ OthersStay(c, mcb_free(c, seg), seg - 1)
<1> DEFINE d == Owned(c, seg - 1, NoOwner)
<1>1. CASE seg - 1 \in DOMAIN c
  <2>1. Chain(d)
    BY <1>1, OwnedTiles DEF NoOwner
  <2>2. OthersStay(c, d, seg - 1)
    BY DEF OthersStay, Owned, Held
  <2> HIDE DEF d
  <2> QED
    BY <1>1, <2>1, <2>2, CoalesceTiles, CoalesceOthersStay DEF mcb_free, d
<1>2. CASE seg - 1 \notin DOMAIN c
  BY <1>2 DEF mcb_free, OthersStay, Held
<1> QED
  BY <1>1, <1>2

\* Shrinking a block in place.  A block that is one paragraph larger than
\* asked for is cut too: the rest is a header with nothing behind it.
LEMMA ShrunkTiles ==
  ASSUME NEW c, Chain(c), NEW h \in Held(c), NEW paras \in Nat, paras <= c[h].sz
  PROVE  LET d == Shrunk(c, h, paras)
         IN  /\ Chain(d)
             /\ OthersStay(c, d, h)
             /\ h \in DOMAIN d /\ d[h].own = c[h].own /\ d[h].sz = paras
<1>1. h \in DOMAIN c /\ c[h].own # NoOwner
  BY DEF Held, Free
<1>2. CASE paras = c[h].sz
  BY <1>1, <1>2 DEF Shrunk, OthersStay, Held
<1>3. CASE paras # c[h].sz
  <2> DEFINE at == h + paras + 1
             d == Split(c, h, at, c[h].own, NoOwner)
  <2>1. at \in h + 1 .. NextHeader(c, h) - 1 /\ at \in Nat /\ at > h
    BY <1>1, <1>3, ChainFacts
  <2>2. at \notin DOMAIN c
    BY <1>1, <2>1, ChainFacts
  <2>3. Chain(d)
    BY <1>1, <2>1, SplitTiles, ChainFacts DEF NoOwner
  <2>4. OthersStay(c, d, h)
    BY <2>2 DEF OthersStay, Split, Held
  <2>5. h \in DOMAIN d /\ d[h].own = c[h].own /\ d[h].sz = at - h - 1
    BY <1>1, <2>1 DEF Split
  <2>6. d[h].sz = paras
    BY <1>1, <2>5, ChainFacts
  <2>7. Shrunk(c, h, paras) = mcb_coalesce(d)
    BY <1>3 DEF Shrunk
  <2>8. h \in Held(d)
    BY <1>1, <2>5 DEF Held, Free
  <2> HIDE DEF d
  <2>9. h \in DOMAIN mcb_coalesce(d) /\ mcb_coalesce(d)[h] = d[h]
    BY <2>3, <2>8, CoalesceKeepsHeld
  <2> QED
    BY <2>3, <2>4, <2>5, <2>6, <2>7, <2>9, CoalesceTiles, CoalesceOthersStay
<1> QED
  BY <1>2, <1>3

\* A block that takes over the free block behind it.
LEMMA AbsorbedTiles ==
  ASSUME NEW c, Chain(c), NEW h \in Held(c), NextHeader(c, h) \in Free(c)
  PROVE  LET d == Absorbed(c, h)
         IN  /\ Chain(d)
             /\ OthersStay(c, d, h)
             /\ h \in DOMAIN d /\ d[h].own = c[h].own /\ d[h].sz = Room(c, h)
<1> DEFINE n == NextHeader(c, h)
           d == Absorbed(c, h)
           D == DOMAIN c \ {n}
<1>1. /\ h \in DOMAIN c /\ h \in Nat /\ c[h].own # NoOwner
      /\ n \in DOMAIN c /\ n \in Nat /\ c[n].own = NoOwner
      /\ n = h + c[h].sz + 1 /\ NextHeader(c, n) = n + c[n].sz + 1
      /\ c[h].sz \in Nat /\ c[n].sz \in Nat
  BY ChainFacts DEF Held, Free
<1>2. h \in D /\ h < n
  BY <1>1
<1>3. Room(c, h) = c[h].sz + c[n].sz + 1 /\ Room(c, h) \in Nat
  BY <1>1 DEF Room
<1>4. DOMAIN d = D /\ d = [g \in D |-> d[g]]
  BY DEF Absorbed
<1>5. /\ d[h].own = c[h].own /\ d[h].sz = Room(c, h)
      /\ d[h] = [own |-> c[h].own, sz |-> Room(c, h)]
      /\ \A g \in D : g # h => d[g] = c[g]
  BY <1>2 DEF Absorbed
<1>6. OthersStay(c, d, h)
  BY <1>1 DEF OthersStay, Held, Free, Absorbed
<1>7. d[h] \in [own : Nat, sz : Nat]
  BY <1>1, <1>3, <1>5, ChainFacts
<1> HIDE DEF d, n
<1>8. NextHeader(d, h) = NextHeader(c, n)
  BY <1>1, <1>3, <1>5 DEF NextHeader
<1>9. \A g \in D : g # h => NextHeader(d, g) = NextHeader(c, g)
  BY <1>5 DEF NextHeader
<1>10. MEM_FIRST \in D /\ D \subseteq MEM_FIRST .. MEM_LAST - 1
  <2>1. MEM_FIRST # n
    BY <1>1, ChainFacts
  <2> QED
    BY <2>1 DEF Chain, Tiled
<1>11. \A g \in DOMAIN c : g > h => g >= n
  BY <1>1, ChainFacts DEF n
<1>12. ASSUME NEW g \in D
       PROVE  /\ d[g].sz \in 0 .. MEM_LAST - MEM_FIRST - 1
              /\ NextHeader(d, g) \in D \cup {MEM_LAST}
              /\ \A k \in D : g < k => NextHeader(d, g) <= k
  <2>1. CASE g = h
    <3>1. NextHeader(c, n) \in D \cup {MEM_LAST}
      BY <1>1, ChainFacts
    <3>2. NextHeader(c, n) <= MEM_LAST /\ h >= MEM_FIRST
      BY <1>1, <3>1, ChainFacts
    <3>3. Room(c, h) \in 0 .. MEM_LAST - MEM_FIRST - 1
      BY <1>1, <1>3, <3>2, ChainFacts
    <3>4. ASSUME NEW k \in D, h < k PROVE NextHeader(c, n) <= k
      <4>1. k \in DOMAIN c /\ k > n
        BY <1>1, <1>11, <3>4, ChainFacts
      <4> QED
        BY <1>1, <4>1, ChainFacts
    <3> QED
      BY <1>5, <1>8, <2>1, <3>1, <3>3, <3>4
  <2>2. CASE g # h
    <3>1. NextHeader(c, g) # n
      <4>1. CASE g < h
        BY <1>1, <4>1, ChainFacts
      <4>2. CASE h < g
        <5>1. g >= n
          BY <1>11, <4>2
        <5> QED
          BY <1>1, <5>1, ChainFacts
      <4> QED
        BY <1>1, <2>2, <4>1, <4>2, ChainFacts
    <3>2. d[g] = c[g] /\ NextHeader(d, g) = NextHeader(c, g) /\ g \in DOMAIN c
      BY <1>5, <1>9, <2>2
    <3> QED
      BY <3>1, <3>2 DEF Chain, Tiled
  <2> QED
    BY <2>1, <2>2
<1>13. Tiled(d)
  BY <1>4, <1>10, <1>12 DEF Tiled
<1>14. \A g \in D : d[g] \in [own : Nat, sz : Nat]
  BY <1>5, <1>7, ChainFacts
<1>15. d \in [D -> [own : Nat, sz : Nat]]
  BY <1>4, <1>14
<1>16. Chain(d)
  BY <1>4, <1>13, <1>15 DEF Chain
<1> QED
  BY <1>2, <1>4, <1>5, <1>6, <1>16 DEF d

\* mcb_resize of a block in use, of any size: the chain still tiles memory,
\* no other block in use is touched, the block keeps its place and its
\* owner, and it has the size asked for when there was room for it and its
\* old size when there was not.
THEOREM ResizeTiles ==
  ASSUME NEW c, Chain(c), NEW h \in Held(c), NEW paras \in Nat
  PROVE  LET d == mcb_resize(c, h, paras)
         IN  /\ Chain(d)
             /\ OthersStay(c, d, h)
             /\ h \in DOMAIN d /\ d[h].own = c[h].own
             /\ d[h].sz = IF Resizable(c, h, paras) THEN paras ELSE c[h].sz
<1>1. h \in DOMAIN c /\ c[h].own # NoOwner /\ c[h].sz \in Nat
  BY ChainFacts DEF Held, Free
<1>2. CASE ~ Resizable(c, h, paras)
  BY <1>1, <1>2 DEF mcb_resize, OthersStay, Held
<1>3. CASE Resizable(c, h, paras) /\ paras <= c[h].sz
  <2>1. mcb_resize(c, h, paras) = Shrunk(c, h, paras)
    BY <1>3 DEF mcb_resize
  <2> QED
    BY <1>3, <2>1, ShrunkTiles
<1>4. CASE Resizable(c, h, paras) /\ ~ (paras <= c[h].sz)
  <2> DEFINE a == Absorbed(c, h)
  <2>1. mcb_resize(c, h, paras) = Shrunk(a, h, paras)
    BY <1>4 DEF mcb_resize
  <2>2. NextHeader(c, h) \in Free(c)
    BY <1>1, <1>4 DEF Resizable, Room
  <2>3. /\ Chain(a) /\ OthersStay(c, a, h)
        /\ h \in DOMAIN a /\ a[h].own = c[h].own /\ a[h].sz = Room(c, h)
    BY <2>2, AbsorbedTiles
  <2> HIDE DEF a
  <2>4. h \in Held(a) /\ paras <= a[h].sz
    BY <1>1, <1>4, <2>3 DEF Held, Free, Resizable
  <2> DEFINE d == Shrunk(a, h, paras)
  <2>5. /\ Chain(d) /\ OthersStay(a, d, h)
        /\ h \in DOMAIN d /\ d[h].own = a[h].own /\ d[h].sz = paras
    BY <2>3, <2>4, ShrunkTiles
  <2>6. OthersStay(c, d, h)
    BY <2>3, <2>5 DEF OthersStay, Held, Free
  <2> QED
    BY <1>4, <2>1, <2>3, <2>5, <2>6
<1> QED
  BY <1>2, <1>3, <1>4

-----------------------------------------------------------------------------
(***************************************************************************)
(* No free block lies behind another.                                      *)
(***************************************************************************)
Merged(c) == \A h \in Free(c) : NextHeader(c, h) \notin Free(c)

\* mcb_coalesce leaves no free block behind another, whatever it finds: the
\* block before a header that stays is in use, or it is the one that
\* swallowed everything in between.
LEMMA CoalesceMerges ==
  ASSUME NEW c, Chain(c)
  PROVE  Merged(mcb_coalesce(c))
<1> DEFINE K == Kept(c)
           d == mcb_coalesce(c)
<1>1. SUFFICES ASSUME NEW h \in Free(d), NextHeader(d, h) \in Free(d)
               PROVE  FALSE
  BY DEF Merged
<1> DEFINE n == NextHeader(d, h)
<1>2. DOMAIN d = K /\ \A k \in K : d[k].own = c[k].own /\ d[k].sz = Following(K, k) - k - 1
  BY DEF mcb_coalesce
<1>3. K \subseteq DOMAIN c
  BY DEF Kept
<1>4. h \in K /\ n \in K /\ h \in Free(c) /\ n \in Free(c)
  BY <1>1, <1>2, <1>3 DEF Free
<1>5. /\ Following(K, h) \in K \cup {MEM_LAST} /\ Following(K, h) > h
      /\ \A k \in K : k > h => Following(K, h) <= k
  BY <1>3, <1>4, ChainFacts, FollowingIsNext
<1>6. n = Following(K, h)
  BY <1>2, <1>3, <1>4, <1>5, ChainFacts DEF NextHeader
<1> HIDE DEF d, n
<1> DEFINE B == {f \in DOMAIN c : f < n}
<1>7. h \in B /\ B \in SUBSET (0 .. MEM_LAST)
  BY <1>3, <1>4, <1>5, <1>6, ChainFacts
<1>8. PICK f \in B : \A g \in B : f >= g
  BY <1>7, GreatestElement, ChainFacts
<1>9. NextHeader(c, f) = n
  <2>1. NextHeader(c, f) <= n /\ NextHeader(c, f) > f /\ NextHeader(c, f) \in DOMAIN c \cup {MEM_LAST}
    BY <1>3, <1>4, <1>8, ChainFacts
  <2>2. n \in DOMAIN c /\ n < MEM_LAST
    BY <1>3, <1>4, ChainFacts
  <2>3. SUFFICES ASSUME NextHeader(c, f) < n PROVE FALSE
    BY <2>1, <2>2, <2>3, ChainFacts
  <2>4. NextHeader(c, f) \in B
    BY <2>1, <2>2, <2>3, ChainFacts
  <2> QED
    BY <1>7, <1>8, <2>1, <2>4, ChainFacts
<1>10. f \in Free(c)
  <2>1. CASE f = h
    BY <1>4, <2>1
  <2>2. CASE f # h
    <3>1. f > h
      BY <1>7, <1>8, <2>2
    <3>2. f \notin K
      <4>1. f < n /\ f \in Nat /\ n \in Nat
        BY <1>3, <1>4, <1>8, ChainFacts
      <4> QED
        BY <1>5, <1>6, <3>1, <4>1
    <3> QED
      BY <1>8, <3>2 DEF Kept
  <2> QED
    BY <2>1, <2>2
<1> QED
  BY <1>4, <1>9, <1>10 DEF Kept

\* An allocation cuts a free block whose neighbours are in use.
LEMMA AllocMerged ==
  ASSUME NEW c, Chain(c), Merged(c), NEW paras \in Nat, NEW owner \in Nat \ {NoOwner},
         NEW fit \in 0 .. 2, Fitting(c, paras) # {}
  PROVE  Merged(AfterAlloc(c, paras, owner, fit))
<1> DEFINE h == Chosen(c, paras, fit)
           low == h + paras + 1
           high == h + c[h].sz - paras
<1>1. h \in DOMAIN c /\ h \in Free(c) /\ c[h].sz >= paras
  BY ChosenFits DEF Fitting, Free
<1>2. h \in Nat /\ c[h].sz \in Nat /\ NextHeader(c, h) = h + c[h].sz + 1
  BY <1>1, ChainFacts
<1>3. NextHeader(c, h) \notin Free(c)
  BY <1>1 DEF Merged
<1> HIDE DEF h
<1>4. CASE ~ Cuts(c, h, paras)
  <2>1. AfterAlloc(c, paras, owner, fit) = Owned(c, h, owner)
    BY <1>4 DEF AfterAlloc, h
  <2> DEFINE d == Owned(c, h, owner)
  <2>2. \A g \in DOMAIN c : d[g].sz = c[g].sz /\ (g # h => d[g] = c[g])
    BY <1>1 DEF Owned
  <2>3. DOMAIN d = DOMAIN c /\ d[h].own = owner
    BY <1>1, ChainFacts DEF Owned
  <2>4. \A g \in DOMAIN c : NextHeader(d, g) = NextHeader(c, g)
    BY <2>2 DEF NextHeader
  <2> HIDE DEF d
  <2>5. Free(d) \subseteq Free(c)
    BY <2>2, <2>3 DEF Free
  <2>6. Merged(d)
    BY <2>4, <2>5 DEF Merged, Free
  <2> QED
    BY <2>1, <2>6 DEF d
<1>5. ASSUME NEW at \in h + 1 .. NextHeader(c, h) - 1, NEW lowOwner \in Nat, NEW highOwner \in Nat,
             ~ (lowOwner = NoOwner /\ highOwner = NoOwner)
      PROVE  Merged(Split(c, h, at, lowOwner, highOwner))
  <2> DEFINE d == Split(c, h, at, lowOwner, highOwner)
  <2>1. at \notin DOMAIN c /\ at # MEM_LAST /\ at \in Nat
    BY <1>1, <1>2, ChainFacts
  <2>2. /\ DOMAIN d = DOMAIN c \cup {at}
        /\ d[h].own = lowOwner /\ d[h].sz = at - h - 1
        /\ d[at].own = highOwner /\ d[at].sz = NextHeader(c, h) - at - 1
        /\ \A g \in DOMAIN c : g # h => d[g] = c[g]
    BY <1>1, <1>2, <2>1 DEF Split
  <2> HIDE DEF d
  <2>3. /\ NextHeader(d, h) = at /\ NextHeader(d, at) = NextHeader(c, h)
        /\ \A g \in DOMAIN c : g # h => NextHeader(d, g) = NextHeader(c, g)
    BY <1>2, <2>1, <2>2 DEF NextHeader
  <2>4. SUFFICES ASSUME NEW g \in Free(d), NextHeader(d, g) \in Free(d)
                 PROVE  FALSE
    BY DEF Merged, d
  <2>5. CASE g = h
    BY <1>5, <2>2, <2>3, <2>4, <2>5 DEF Free
  <2>6. CASE g = at
    <3>1. NextHeader(c, h) \in DOMAIN c /\ NextHeader(c, h) # h
      BY <1>1, <1>2, <2>1, <2>2, <2>3, <2>4, <2>6, ChainFacts DEF Free
    <3>2. NextHeader(c, h) \in Free(c)
      BY <2>2, <2>3, <2>4, <2>6, <3>1 DEF Free
    <3> QED
      BY <1>3, <3>2
  <2>7. CASE g # h /\ g # at
    <3>1. g \in Free(c) /\ NextHeader(d, g) = NextHeader(c, g)
      BY <2>2, <2>3, <2>7 DEF Free
    <3>2. NextHeader(c, g) \in DOMAIN c
      BY <2>1, <2>2, <2>4, <3>1, ChainFacts DEF Free
    <3>3. NextHeader(c, g) \notin Free(c)
      BY <3>1 DEF Merged
    <3>4. NextHeader(c, g) # h
      BY <1>1, <3>3
    <3> QED
      BY <2>2, <2>4, <3>1, <3>2, <3>3, <3>4 DEF Free
  <2> QED
    BY <2>5, <2>6, <2>7
<1>6. CASE Cuts(c, h, paras) /\ fit = 2
  <2>1. high \in h + 1 .. NextHeader(c, h) - 1
    BY <1>1, <1>2, <1>6 DEF Cuts
  <2> QED
    BY <1>5, <1>6, <2>1 DEF AfterAlloc, h, NoOwner
<1>7. CASE Cuts(c, h, paras) /\ fit # 2
  <2>1. low \in h + 1 .. NextHeader(c, h) - 1
    BY <1>1, <1>2, <1>7 DEF Cuts
  <2> QED
    BY <1>5, <1>7, <2>1 DEF AfterAlloc, h, NoOwner
<1> QED
  BY <1>4, <1>6, <1>7

\* mcb_free coalesces, or leaves the chain alone.
LEMMA FreeMerged ==
  ASSUME NEW c, Chain(c), Merged(c), NEW seg \in Nat
  PROVE  Merged(mcb_free(c, seg))
<1>1. CASE seg - 1 \in DOMAIN c
  <2>1. Chain(Owned(c, seg - 1, NoOwner))
    BY <1>1, OwnedTiles DEF NoOwner
  <2> QED
    BY <1>1, <2>1, CoalesceMerges DEF mcb_free
<1> QED
  BY <1>1 DEF mcb_free

\* A block that grows takes all of the free block behind it, or what is
\* left of that is coalesced.
LEMMA ResizeMerged ==
  ASSUME NEW c, Chain(c), Merged(c), NEW h \in Held(c), NEW paras \in Nat
  PROVE  Merged(mcb_resize(c, h, paras))
<1>1. h \in DOMAIN c /\ c[h].own # NoOwner /\ c[h].sz \in Nat
  BY ChainFacts DEF Held, Free
<1>2. ASSUME NEW a, Chain(a), Merged(a), h \in Held(a), paras <= a[h].sz
      PROVE  Merged(Shrunk(a, h, paras))
  <2>1. CASE paras = a[h].sz
    BY <1>2, <2>1 DEF Shrunk
  <2>2. CASE paras # a[h].sz
    <3> DEFINE at == h + paras + 1
    <3>1. h \in DOMAIN a
      BY <1>2 DEF Held
    <3>2. at \in h + 1 .. NextHeader(a, h) - 1
      BY <1>2, <2>2, <3>1, ChainFacts
    <3>3. Chain(Split(a, h, at, a[h].own, NoOwner))
      BY <1>2, <3>1, <3>2, SplitTiles, ChainFacts DEF NoOwner
    <3> QED
      BY <2>2, <3>3, CoalesceMerges DEF Shrunk
  <2> QED
    BY <2>1, <2>2
<1>3. CASE ~ Resizable(c, h, paras)
  BY <1>3 DEF mcb_resize
<1>4. CASE Resizable(c, h, paras) /\ paras <= c[h].sz
  BY <1>2, <1>4 DEF mcb_resize
<1>5. CASE Resizable(c, h, paras) /\ ~ (paras <= c[h].sz)
  <2> DEFINE n == NextHeader(c, h)
             a == Absorbed(c, h)
  <2>1. n \in Free(c)
    BY <1>1, <1>5 DEF Resizable, Room
  <2>2. /\ Chain(a) /\ h \in DOMAIN a /\ a[h].own = c[h].own /\ a[h].sz = Room(c, h)
    BY <2>1, AbsorbedTiles
  <2>3. DOMAIN a = DOMAIN c \ {n} /\ \A g \in DOMAIN a : g # h => a[g] = c[g]
    BY DEF Absorbed
  <2> HIDE DEF a
  <2>4. \A g \in DOMAIN a : g # h => NextHeader(a, g) = NextHeader(c, g)
    BY <2>3 DEF NextHeader
  <2>5. Free(a) \subseteq Free(c) /\ h \notin Free(a)
    BY <1>1, <2>2, <2>3 DEF Free
  <2>6. Merged(a)
    BY <2>4, <2>5 DEF Merged, Free
  <2>7. h \in Held(a) /\ paras <= a[h].sz
    BY <1>5, <2>2, <2>5 DEF Held, Resizable
  <2> QED
    BY <1>2, <1>5, <2>2, <2>6, <2>7 DEF mcb_resize, a
<1> QED
  BY <1>3, <1>4, <1>5

-----------------------------------------------------------------------------
(***************************************************************************)
(* What is in use after a call, and the one chain there is for it.         *)
(***************************************************************************)
\* mcb_coalesce marks nothing as used.
LEMMA CoalesceHolds ==
  ASSUME NEW c
  PROVE  Held(mcb_coalesce(c)) \subseteq Held(c)
  BY DEF Held, Free, Kept, mcb_coalesce

\* Cutting a block whose rest is free uses no other block.
LEMMA SplitHolds ==
  ASSUME NEW c, Chain(c), NEW h \in DOMAIN c, NEW at \in Nat, at # h, at \notin DOMAIN c,
         NEW low \in Nat, NEW high \in Nat
  PROVE  /\ high = NoOwner => Held(Split(c, h, at, low, high)) \subseteq Held(c) \cup {h}
         /\ low = NoOwner => Held(Split(c, h, at, low, high)) \subseteq Held(c) \cup {at}
<1> DEFINE d == Split(c, h, at, low, high)
<1>1. /\ DOMAIN d = DOMAIN c \cup {at}
      /\ d[h].own = low /\ d[at].own = high
      /\ \A g \in DOMAIN c : g # h => d[g] = c[g]
  BY DEF Split
<1> HIDE DEF d
<1>2. /\ high = NoOwner => Held(d) \subseteq Held(c) \cup {h}
      /\ low = NoOwner => Held(d) \subseteq Held(c) \cup {at}
  BY <1>1 DEF Held, Free
<1> QED
  BY <1>2 DEF d

\* mcb_alloc takes one block and no other.
LEMMA AllocHolds ==
  ASSUME NEW c, Chain(c), NEW paras \in Nat, NEW owner \in Nat \ {NoOwner},
         NEW fit \in 0 .. 2, Fitting(c, paras) # {}
  PROVE  Held(AfterAlloc(c, paras, owner, fit))
           \subseteq Held(c) \cup {AllocHeader(c, paras, fit)}
<1> DEFINE h == Chosen(c, paras, fit)
           low == h + paras + 1
           high == h + c[h].sz - paras
<1>1. h \in DOMAIN c /\ c[h].sz >= paras
  BY ChosenFits DEF Fitting, Free
<1>2. h \in Nat /\ c[h].sz \in Nat /\ NextHeader(c, h) = h + c[h].sz + 1
      /\ \A g \in DOMAIN c : g \in Nat /\ (h < g => NextHeader(c, h) <= g)
  BY <1>1, ChainFacts
<1> HIDE DEF h
<1>3. CASE ~ Cuts(c, h, paras)
  <2>1. AfterAlloc(c, paras, owner, fit) = Owned(c, h, owner)
        /\ AllocHeader(c, paras, fit) = h
    BY <1>3 DEF AfterAlloc, AllocHeader, h
  <2>2. Held(Owned(c, h, owner)) \subseteq Held(c) \cup {h}
    BY <1>1 DEF Held, Free, Owned
  <2> QED
    BY <2>1, <2>2
<1>4. CASE Cuts(c, h, paras) /\ fit = 2
  <2>1. AfterAlloc(c, paras, owner, fit) = Split(c, h, high, NoOwner, owner)
        /\ AllocHeader(c, paras, fit) = high
    BY <1>4 DEF AfterAlloc, AllocHeader, h
  <2>2. high \in Nat /\ high > h /\ high < NextHeader(c, h)
    BY <1>1, <1>2, <1>4 DEF Cuts
  <2>3. high \notin DOMAIN c
    BY <1>2, <2>2
  <2> HIDE DEF high
  <2> QED
    BY <1>1, <1>2, <2>1, <2>2, <2>3, SplitHolds DEF NoOwner
<1>5. CASE Cuts(c, h, paras) /\ fit # 2
  <2>1. AfterAlloc(c, paras, owner, fit) = Split(c, h, low, owner, NoOwner)
        /\ AllocHeader(c, paras, fit) = h
    BY <1>5 DEF AfterAlloc, AllocHeader, h
  <2>2. low \in Nat /\ low > h /\ low < NextHeader(c, h)
    BY <1>1, <1>2, <1>5 DEF Cuts
  <2>3. low \notin DOMAIN c
    BY <1>2, <2>2
  <2> HIDE DEF low
  <2> QED
    BY <1>1, <1>2, <2>1, <2>2, <2>3, SplitHolds DEF NoOwner
<1> QED
  BY <1>3, <1>4, <1>5

\* mcb_free leaves the block free.
LEMMA FreeHolds ==
  ASSUME NEW c, Chain(c), NEW seg
  PROVE  Held(mcb_free(c, seg)) \subseteq Held(c) \ {seg - 1}
<1> DEFINE d == Owned(c, seg - 1, NoOwner)
<1>1. CASE seg - 1 \in DOMAIN c
  <2>1. Held(d) \subseteq Held(c) \ {seg - 1}
    BY <1>1, ChainFacts DEF Held, Free, Owned, NoOwner
  <2>2. mcb_free(c, seg) = mcb_coalesce(d)
    BY <1>1 DEF mcb_free
  <2> HIDE DEF d
  <2> QED
    BY <2>1, <2>2, CoalesceHolds
<1>2. CASE seg - 1 \notin DOMAIN c
  BY <1>2 DEF mcb_free, Held
<1> QED
  BY <1>1, <1>2

\* mcb_resize takes no block but its own.
LEMMA ResizeHolds ==
  ASSUME NEW c, Chain(c), NEW h \in Held(c), NEW paras \in Nat
  PROVE  Held(mcb_resize(c, h, paras)) \subseteq Held(c)
<1>1. h \in DOMAIN c /\ c[h].own # NoOwner /\ c[h].sz \in Nat
  BY ChainFacts DEF Held, Free
<1>2. ASSUME NEW a, Chain(a), h \in Held(a), paras <= a[h].sz
      PROVE  Held(Shrunk(a, h, paras)) \subseteq Held(a)
  <2>1. CASE paras = a[h].sz
    BY <2>1 DEF Shrunk
  <2>2. CASE paras # a[h].sz
    <3> DEFINE at == h + paras + 1
               s == Split(a, h, at, a[h].own, NoOwner)
    <3>1. /\ h \in DOMAIN a /\ h \in Nat /\ a[h].sz \in Nat /\ a[h].own \in Nat
          /\ NextHeader(a, h) = h + a[h].sz + 1
          /\ \A g \in DOMAIN a : g \in Nat /\ (h < g => NextHeader(a, h) <= g)
      BY <1>2, ChainFacts DEF Held
    <3>2. at \in Nat /\ at # h /\ at \notin DOMAIN a
      BY <1>2, <2>2, <3>1
    <3> HIDE DEF at
    <3>3. Held(s) \subseteq Held(a)
      BY <1>2, <3>1, <3>2, SplitHolds DEF NoOwner
    <3>4. Shrunk(a, h, paras) = mcb_coalesce(s)
      BY <2>2 DEF Shrunk, at
    <3> HIDE DEF s
    <3> QED
      BY <3>3, <3>4, CoalesceHolds
  <2> QED
    BY <2>1, <2>2
<1>3. CASE ~ Resizable(c, h, paras)
  BY <1>3 DEF mcb_resize
<1>4. CASE Resizable(c, h, paras) /\ paras <= c[h].sz
  BY <1>2, <1>4 DEF mcb_resize
<1>5. CASE Resizable(c, h, paras) /\ ~ (paras <= c[h].sz)
  <2> DEFINE d == Absorbed(c, h)
  <2>1. NextHeader(c, h) \in Free(c)
    BY <1>5 DEF Resizable, Room
  <2>2. Chain(d) /\ h \in Held(d) /\ paras <= d[h].sz
    BY <1>1, <1>5, <2>1, AbsorbedTiles DEF Resizable, Held, Free
  <2>3. /\ DOMAIN d \subseteq DOMAIN c
        /\ \A g \in DOMAIN d : g # h => d[g] = c[g]
    BY DEF Absorbed
  <2>4. mcb_resize(c, h, paras) = Shrunk(d, h, paras)
    BY <1>5 DEF mcb_resize
  <2> HIDE DEF d
  <2>5. Held(d) \subseteq Held(c)
    BY <2>3 DEF Held, Free
  <2> QED
    BY <1>2, <2>2, <2>4, <2>5
<1> QED
  BY <1>3, <1>4, <1>5

\* Every header but the first has a block that ends at it.
LEMMA Predecessor ==
  ASSUME NEW c, Chain(c), NEW x \in DOMAIN c, x # MEM_FIRST
  PROVE  \E p \in DOMAIN c : NextHeader(c, p) = x
<1> DEFINE T == {g \in DOMAIN c : g < x}
<1>1. MEM_FIRST \in DOMAIN c /\ DOMAIN c \subseteq MEM_FIRST .. MEM_LAST - 1
      /\ MEM_FIRST \in Nat /\ MEM_LAST \in Nat
  BY ChainFacts DEF Chain, Tiled
<1>2. \A g \in DOMAIN c : g \in 0 .. MEM_LAST /\ g >= MEM_FIRST /\ g # MEM_LAST
  BY <1>1
<1>3. T \in SUBSET (0 .. MEM_LAST) /\ T # {}
  BY <1>1, <1>2
<1>4. PICK p \in T : \A g \in T : p >= g
  BY <1>1, <1>3, GreatestElement
<1>5. /\ p \in DOMAIN c /\ p < x /\ p \in Nat /\ c[p].sz \in Nat
      /\ NextHeader(c, p) = p + c[p].sz + 1 /\ NextHeader(c, p) <= x
      /\ NextHeader(c, p) \in DOMAIN c \cup {MEM_LAST}
  BY ChainFacts
<1>6. NextHeader(c, p) \in DOMAIN c
  BY <1>1, <1>5
<1>7. ~ (NextHeader(c, p) < x)
  BY <1>4, <1>5, <1>6
<1> QED
  BY <1>1, <1>5, <1>6, <1>7

\* Two merged chains with the same blocks in use have the same headers: a
\* free block is the first of all, or a block in use ends at it.
LEMMA SameHeaders ==
  ASSUME NEW c, Chain(c), Merged(c), NEW d, Chain(d),
         Held(c) \subseteq Held(d), \A h \in Held(c) : c[h] = d[h]
  PROVE  DOMAIN c \subseteq DOMAIN d
<1> SUFFICES ASSUME NEW x \in DOMAIN c PROVE x \in DOMAIN d
  OBVIOUS
<1>1. CASE x \in Held(c)
  BY <1>1 DEF Held
<1>2. CASE x = MEM_FIRST
  BY <1>2 DEF Chain, Tiled
<1>3. CASE x \in Free(c) /\ x # MEM_FIRST
  <2>1. PICK p \in DOMAIN c : NextHeader(c, p) = x
    BY <1>3, Predecessor
  <2>2. p \in Held(c) /\ p \in DOMAIN d
    BY <1>3, <2>1 DEF Merged, Held
  <2>3. NextHeader(d, p) = x
    BY <2>1, <2>2 DEF NextHeader
  <2>4. x # MEM_LAST
    BY ChainFacts
  <2> QED
    BY <2>2, <2>3, <2>4, ChainFacts
<1> QED
  BY <1>1, <1>2, <1>3 DEF Held

\* Memory whose free blocks are merged is determined by the blocks in use.
THEOREM OneChain ==
  ASSUME NEW c, Chain(c), Merged(c), NEW d, Chain(d), Merged(d),
         Held(c) = Held(d), \A h \in Held(c) : c[h] = d[h]
  PROVE  c = d
<1>1. DOMAIN c = DOMAIN d
  BY SameHeaders
<1>2. ASSUME NEW x \in DOMAIN c
      PROVE  c[x] = d[x]
  <2>1. CASE x \in Held(c)
    BY <2>1
  <2>2. CASE x \in Free(c)
    <3>1. x \in DOMAIN d /\ c[x].own = NoOwner /\ d[x].own = NoOwner
      BY <1>1, <2>2 DEF Held, Free
    <3> DEFINE a == NextHeader(c, x)
               b == NextHeader(d, x)
    <3>2. /\ x \in Nat /\ c[x].sz \in Nat /\ d[x].sz \in Nat
          /\ c[x] \in [own : Nat, sz : Nat] /\ d[x] \in [own : Nat, sz : Nat]
          /\ a = x + c[x].sz + 1 /\ b = x + d[x].sz + 1
      BY <3>1, ChainFacts
    <3>3. /\ a \in DOMAIN c \cup {MEM_LAST} /\ \A g \in DOMAIN c : x < g => a <= g
          /\ b \in DOMAIN c \cup {MEM_LAST} /\ \A g \in DOMAIN c : x < g => b <= g
          /\ MEM_LAST \in Nat /\ \A g \in DOMAIN c : g \in Nat /\ g < MEM_LAST
      <4>1. /\ a \in DOMAIN c \cup {MEM_LAST} /\ \A g \in DOMAIN c : x < g => a <= g
            /\ MEM_LAST \in Nat /\ \A g \in DOMAIN c : g \in Nat /\ g < MEM_LAST
        BY ChainFacts
      <4>2. b \in DOMAIN c \cup {MEM_LAST} /\ \A g \in DOMAIN c : x < g => b <= g
        BY <1>1, <3>1, ChainFacts
      <4> QED
        BY <4>1, <4>2
    <3>4. a = b
      BY <3>2, <3>3
    <3>5. c[x].sz = d[x].sz
      BY <3>2, <3>4
    <3> QED
      BY <3>1, <3>2, <3>5
  <2> QED
    BY <2>1, <2>2 DEF Held
<1> QED
  BY <1>1, <1>2 DEF Chain

-----------------------------------------------------------------------------
(***************************************************************************)
(* The programs: types and the inductive invariant.                        *)
(***************************************************************************)
\* An entry of the EXEC stack, and a block from 48h.
Program == [psp : Segments, parent : Segments \cup {0}, env : Segments \cup {0},
            found : [Vectors -> Segments \cup {Bios}], hooks : SUBSET Vectors]

Block == [seg : Segments, psp : Segments]

\* All that a chain can be.
Chains == UNION {[D -> [own : Nat, sz : Nat]] : D \in SUBSET Nat}

\* The types of the variables the step lemmas are about; the histories have
\* their own.
Typed ==
  /\ Chain(chain) /\ strategy \in 0 .. 2
  /\ procs \in Seq(Program) /\ Len(procs) <= MaxProcs
  /\ given \subseteq Block
  /\ psp_parent \in [Segments -> Segments \cup {0}]
  /\ ivt \in [Vectors -> Segments \cup {Bios}]
  /\ ivt_snap \in [Vectors -> Segments \cup {Bios}]

\* The running program is the innermost, every program but the first was
\* started by the one below it, memory says so too, and no two programs
\* share a PSP or an environment.
Stack ==
  /\ cur_psp = IF procs = <<>> THEN 0 ELSE procs[Len(procs)].psp
  /\ \A n \in 1 .. Len(procs) :
       /\ procs[n].parent = IF n = 1 THEN 0 ELSE procs[n - 1].psp
       /\ psp_parent[procs[n].psp] = IF n = 1 THEN procs[n].psp ELSE procs[n - 1].psp
  /\ \A m, n \in 1 .. Len(procs) : m # n =>
       /\ procs[m].psp # procs[n].psp
       /\ procs[n].env # 0 => procs[m].env # procs[n].env

\* No block from 48h is a PSP's own.
GivenApart == \A block \in given : block.seg # block.psp

\* The histories have one element for each program of the stack.
Histories ==
  /\ before \in Seq(Chains) /\ Len(before) = Len(procs)
  /\ leaky \in Seq(BOOLEAN) /\ Len(leaky) = Len(procs)

\* The inductive invariant.  HeldMemoryStands is not inductive alone: an exit
\* spares the programs below only because memory still names their parents
\* and no two share a PSP (Stack), freeing a block spares the programs only
\* because no block from 48h is a PSP's (GivenApart), and every call relies on
\* a chain that tiles memory (Typed).
MInv == Typed /\ Merged(chain) /\ Stack /\ HeldMemoryStands /\ GivenApart

-----------------------------------------------------------------------------
(***************************************************************************)
(* Sequences: appending to a stack, and taking its last element off.       *)
(***************************************************************************)
LEMMA AppendFacts ==
  ASSUME NEW S, NEW s \in Seq(S), NEW x \in S
  PROVE  /\ Append(s, x) \in Seq(S) /\ Len(Append(s, x)) = Len(s) + 1
         /\ \A n \in 1 .. Len(s) : Append(s, x)[n] = s[n]
         /\ Append(s, x)[Len(s) + 1] = x
  OBVIOUS

\* The first l elements of a sequence.
LEMMA PrefixFacts ==
  ASSUME NEW S, NEW s \in Seq(S), NEW l \in Nat, l <= Len(s)
  PROVE  /\ SubSeq(s, 1, l) \in Seq(S) /\ Len(SubSeq(s, 1, l)) = l
         /\ \A n \in 1 .. l : SubSeq(s, 1, l)[n] = s[n]
  OBVIOUS

\* All but the last element of a sequence, and the last.
LEMMA FrontFacts ==
  ASSUME NEW S, NEW s \in Seq(S), s # <<>>
  PROVE  /\ Front(s) \in Seq(S) /\ Len(Front(s)) = Len(s) - 1
         /\ Len(s) \in Nat \ {0} /\ Len(Front(s)) \in Nat
         /\ \A n \in 1 .. Len(s) - 1 : Front(s)[n] = s[n]
         /\ Last(s) = s[Len(s)] /\ Last(s) \in S
<1>1. Len(s) \in Nat \ {0} /\ Len(s) - 1 \in Nat /\ Len(s) - 1 <= Len(s)
  OBVIOUS
<1>2. Last(s) = s[Len(s)] /\ Last(s) \in S
  BY <1>1 DEF Last
<1> DEFINE l == Len(s) - 1
<1>3. Front(s) = SubSeq(s, 1, l) /\ l \in Nat /\ l <= Len(s)
  BY <1>1 DEF Front
<1> HIDE DEF l
<1>4. /\ Front(s) \in Seq(S) /\ Len(Front(s)) = l
      /\ \A n \in 1 .. l : Front(s)[n] = s[n]
  BY <1>3, PrefixFacts
<1> QED
  BY <1>1, <1>2, <1>4 DEF l

-----------------------------------------------------------------------------
(***************************************************************************)
(* What stands in a chain: a program's PSP and environment, a block from   *)
(* 48h.                                                                    *)
(***************************************************************************)
ProcStands(p, c) ==
  /\ p.psp - 1 \in DOMAIN c /\ c[p.psp - 1].own = p.psp /\ c[p.psp - 1].sz >= PspSize
  /\ p.env # 0 => p.env - 1 \in DOMAIN c /\ c[p.env - 1].own = EnvOwner

BlockStands(b, c) == b.seg - 1 \in DOMAIN c /\ c[b.seg - 1].own = b.psp

\* HeldMemoryStands says that every program and every block from 48h stands.
LEMMA StandsIsBoth ==
  ASSUME procs \in Seq(Program)
  PROVE  HeldMemoryStands <=> /\ \A n \in 1 .. Len(procs) : ProcStands(procs[n], chain)
                              /\ \A b \in given : BlockStands(b, chain)
  BY DEF HeldMemoryStands, ProcStands, BlockStands

\* Segments are numbers above the two special owners, and the paragraph
\* behind a header is one.
LEMMA SegmentFacts ==
  /\ MEM_FIRST \in Nat /\ MEM_LAST \in Nat /\ MEM_FIRST >= 8
  /\ PspSize \in Nat \ {0} /\ EnvSize \in Nat /\ Sizes \subseteq Nat
  /\ \A s \in Segments : s \in Nat /\ s > 8 /\ s # NoOwner /\ s # EnvOwner /\ s # 0
  /\ \A h \in MEM_FIRST .. MEM_LAST - 1 : h + 1 \in Segments /\ h + 1 - 1 = h
  BY MemoryAssumption, DosAssumption DEF MemoryAssumption, DosAssumption, Segments, NoOwner, EnvOwner

\* A program's blocks are in use, and distinct from one another.
LEMMA ProcHeld ==
  ASSUME NEW p \in Program, NEW c, ProcStands(p, c)
  PROVE  /\ p.psp \in Segments /\ p.psp - 1 \in Held(c)
         /\ p.env # 0 => p.env \in Segments /\ p.env - 1 \in Held(c) /\ p.env # p.psp
  BY SegmentFacts DEF Program, ProcStands, Held, Free, NoOwner, EnvOwner

\* A block from 48h that stands is in use.
LEMMA BlockHeld ==
  ASSUME NEW b \in Block, NEW c, BlockStands(b, c)
  PROVE  b.seg \in Segments /\ b.psp \in Segments /\ b.seg - 1 \in Held(c)
  BY SegmentFacts DEF Block, BlockStands, Held, Free

\* What stands keeps standing when the step is about another block.
LEMMA ProcStays ==
  ASSUME NEW p \in Program, NEW c, NEW d, NEW h, ProcStands(p, c), OthersStay(c, d, h),
         p.psp - 1 # h, p.env # 0 => p.env - 1 # h
  PROVE  ProcStands(p, d)
<1>1. p.psp - 1 \in Held(c) /\ (p.env # 0 => p.env - 1 \in Held(c))
  BY ProcHeld
<1> QED
  BY <1>1 DEF OthersStay, ProcStands

\* The same for a block from 48h.
LEMMA BlockStays ==
  ASSUME NEW b \in Block, NEW c, NEW d, NEW h, BlockStands(b, c), OthersStay(c, d, h), b.seg - 1 # h
  PROVE  BlockStands(b, d)
  BY BlockHeld DEF OthersStay, BlockStands

\* Two things that stand under different owners are different blocks.
LEMMA StandApart ==
  ASSUME NEW c, NEW p \in Program, ProcStands(p, c), NEW q \in Program, ProcStands(q, c),
         NEW b \in Block, BlockStands(b, c), b.seg # b.psp
  PROVE  /\ b.seg # p.psp /\ b.seg # p.env
         /\ p.env # 0 => p.env # q.psp
<1>1. p.psp \in Segments /\ q.psp \in Segments /\ b.seg \in Segments /\ b.psp \in Segments
  BY ProcHeld, BlockHeld
<1>2. b.seg # p.psp
  BY <1>1, SegmentFacts DEF ProcStands, BlockStands
<1>3. b.seg # p.env
  BY <1>1, SegmentFacts DEF ProcStands, BlockStands
<1>4. p.env # 0 => p.env # q.psp
  BY <1>1, SegmentFacts DEF ProcStands
<1> QED
  BY <1>2, <1>3, <1>4

\* No program's environment is another program's PSP.
LEMMA EnvApart ==
  ASSUME NEW c, NEW p \in Program, ProcStands(p, c), NEW q \in Program, ProcStands(q, c)
  PROVE  p.env # 0 => p.env # q.psp
  BY ProcHeld, SegmentFacts DEF ProcStands

\* The running program.
LEMMA TopFacts ==
  ASSUME Typed, Stack, HeldMemoryStands, Running
  PROVE  /\ procs # <<>> /\ Len(procs) \in 1 .. Len(procs)
         /\ Top = procs[Len(procs)] /\ Top \in Program /\ ProcStands(Top, chain)
         /\ cur_psp = Top.psp /\ cur_psp \in Segments
         /\ \A n \in 1 .. Len(procs) : procs[n] \in Program /\ ProcStands(procs[n], chain)
         /\ \A b \in given : b \in Block /\ BlockStands(b, chain)
<1>1. procs # <<>> /\ procs \in Seq(Program)
  BY DEF Running, Stack, Typed
<1>2. Len(procs) \in 1 .. Len(procs) /\ Top = procs[Len(procs)] /\ Top \in Program
  BY <1>1, FrontFacts DEF Top
<1>3. \A n \in 1 .. Len(procs) : procs[n] \in Program /\ ProcStands(procs[n], chain)
  BY <1>1, StandsIsBoth
<1>4. \A b \in given : b \in Block /\ BlockStands(b, chain)
  BY <1>1, StandsIsBoth DEF Typed
<1>5. cur_psp = Top.psp
  BY <1>1, <1>2 DEF Stack
<1> QED
  BY <1>1, <1>2, <1>3, <1>4, <1>5 DEF Program

-----------------------------------------------------------------------------
(***************************************************************************)
(* The memory calls.                                                       *)
(***************************************************************************)
\* A step that changes memory under an unchanged stack of programs.
LEMMA SameStack ==
  ASSUME Typed, Stack, UNCHANGED <<procs, psp_parent, cur_psp, ivt, ivt_snap>>,
         Chain(chain'), strategy' \in 0 .. 2, given' \subseteq Block
  PROVE  Typed' /\ Stack'
  BY DEF Typed, Stack

\* The invariant holds when DOS starts.
LEMMA InitInv == Init => MInv
<1> SUFFICES ASSUME Init PROVE MInv
  OBVIOUS
<1>1. Chain(chain)
  BY InitTiles DEF Init
<1>2. Merged(chain)
  BY MemoryAssumption DEF MemoryAssumption, Init, mcb_init, Merged, Free, NextHeader, NoOwner
<1>3. Len(procs) = 0 /\ procs \in Seq(Program) /\ DOMAIN procs = {} /\ 0 <= MaxProcs
  BY DosAssumption DEF DosAssumption, Init
<1>4. Typed
  BY <1>1, <1>3 DEF Init, Typed, Bios
<1>5. Stack /\ HeldMemoryStands /\ GivenApart
  BY <1>3 DEF Init, Stack, HeldMemoryStands, GivenApart
<1> QED
  BY <1>2, <1>4, <1>5 DEF MInv

\* 48h grants a block that was free, so nothing that stands is touched.
LEMMA AllocInv ==
  ASSUME MInv, NEW paras \in Nat, Alloc(paras)
  PROVE  MInv'
<1> USE DEF MInv
<1>1. CASE Fitting(chain, paras) = {}
  <2>1. UNCHANGED <<chain, given, procs>>
    BY <1>1 DEF Alloc
  <2> QED
    BY <2>1, SameStack DEF Alloc, Typed, HeldMemoryStands, GivenApart
<1>2. CASE Fitting(chain, paras) # {}
  <2> DEFINE h == AllocHeader(chain, paras, strategy)
             b == [seg |-> h + 1, psp |-> cur_psp]
  <2>1. /\ cur_psp \in Segments /\ cur_psp \in Nat \ {NoOwner} /\ strategy \in 0 .. 2
        /\ Chain(chain) /\ Merged(chain)
    BY TopFacts, SegmentFacts DEF Alloc, Typed
  <2>2. chain' = AfterAlloc(chain, paras, cur_psp, strategy) /\ given' = given \cup {b}
    BY <1>2 DEF Alloc
  <2>3. /\ Chain(chain') /\ h \in DOMAIN chain' /\ h \notin Held(chain)
        /\ chain'[h].own = cur_psp /\ OthersStay(chain, chain', h)
    BY <1>2, <2>1, <2>2, AllocTiles
  <2>4. Merged(chain')
    BY <1>2, <2>1, <2>2, AllocMerged
  <2> HIDE DEF h
  <2>5. h + 1 \in Segments /\ h \in Nat
    BY <2>3, SegmentFacts DEF Chain, Tiled
  <2>6. b \in Block /\ BlockStands(b, chain')
    <3>1. b.seg - 1 = h /\ b.psp = cur_psp
      BY <2>5
    <3> QED
      BY <2>1, <2>3, <2>5, <3>1 DEF Block, BlockStands
  <2>7. /\ \A n \in 1 .. Len(procs) : ProcStands(procs[n], chain')
        /\ \A g \in given : BlockStands(g, chain')
    BY <2>3, TopFacts, ProcHeld, BlockHeld, ProcStays, BlockStays DEF Alloc
  <2>8. h + 1 # cur_psp
    <3>1. cur_psp - 1 \in Held(chain)
      BY TopFacts, ProcHeld DEF Alloc
    <3> QED
      BY <2>3, <2>5, <3>1
  <2>9. Typed' /\ Stack'
    <3>1. UNCHANGED <<procs, psp_parent, cur_psp, ivt, ivt_snap, strategy>>
      BY DEF Alloc
    <3>2. given' \subseteq Block
      BY <2>2, <2>6 DEF Typed
    <3> QED
      BY <2>1, <2>3, <3>1, <3>2, SameStack
  <2> HIDE DEF b
  <2>10. procs' = procs /\ \A g \in given' : BlockStands(g, chain')
    BY <2>2, <2>6, <2>7 DEF Alloc
  <2>11. HeldMemoryStands'
    BY <2>7, <2>9, <2>10, StandsIsBoth DEF Typed, HeldMemoryStands, ProcStands, BlockStands
  <2>12. GivenApart'
    BY <2>2, <2>8 DEF GivenApart, b
  <2> QED
    BY <2>4, <2>9, <2>11, <2>12
<1> QED
  BY <1>1, <1>2

\* 49h frees the block named and no other: what else stands has another
\* owner or another header.
LEMMA FreeBlockInv ==
  ASSUME MInv, NEW b \in given, FreeBlock(b)
  PROVE  MInv'
<1> USE DEF MInv
<1>1. /\ chain' = mcb_free(chain, b.seg) /\ given' = given \ {b} /\ b.psp = cur_psp /\ Running
      /\ UNCHANGED <<procs, psp_parent, cur_psp, ivt, ivt_snap, strategy>>
  BY DEF FreeBlock
<1>2. b \in Block /\ BlockStands(b, chain) /\ b.seg # b.psp
  BY <1>1, TopFacts DEF GivenApart
<1>3. b.seg \in Nat /\ b.seg \in Segments
  BY <1>2, BlockHeld, SegmentFacts
<1>4. Chain(chain') /\ OthersStay(chain, chain', b.seg - 1) /\ Merged(chain')
  BY <1>1, <1>3, FreeTiles, FreeMerged DEF Typed
<1>5. \A n \in 1 .. Len(procs) : ProcStands(procs[n], chain')
  <2>1. SUFFICES ASSUME NEW n \in 1 .. Len(procs) PROVE ProcStands(procs[n], chain')
    OBVIOUS
  <2> DEFINE p == procs[n]
  <2>2. p \in Program /\ ProcStands(p, chain)
    BY <1>1, TopFacts
  <2> HIDE DEF p
  <2>3. p.psp - 1 # b.seg - 1 /\ (p.env # 0 => p.env - 1 # b.seg - 1)
    BY <1>2, <1>3, <2>2, StandApart, ProcHeld, SegmentFacts
  <2> QED
    BY <1>4, <2>2, <2>3, ProcStays DEF p
<1>6. \A g \in given' : BlockStands(g, chain')
  <2>1. SUFFICES ASSUME NEW g \in given, g # b PROVE BlockStands(g, chain')
    BY <1>1
  <2>2. g \in Block /\ BlockStands(g, chain)
    BY <1>1, TopFacts
  <2>3. g.seg \in Nat
    BY <2>2, BlockHeld, SegmentFacts
  <2>4. g.seg # b.seg
    BY <1>2, <2>1, <2>2 DEF Block, BlockStands
  <2> QED
    BY <1>3, <1>4, <2>2, <2>3, <2>4, BlockStays
<1>7. Typed' /\ Stack'
  BY <1>1, <1>4, SameStack DEF Typed
<1>8. HeldMemoryStands'
  BY <1>1, <1>5, <1>6, <1>7 DEF Typed, HeldMemoryStands, ProcStands, BlockStands
<1>9. GivenApart'
  BY <1>1 DEF GivenApart
<1> QED
  BY <1>4, <1>7, <1>8, <1>9

\* What mcb_resize does to what stands: the block keeps its owner, and a
\* program's own block keeps room for its PSP.
LEMMA ResizeStands ==
  ASSUME NEW c, Chain(c), NEW h \in Held(c), NEW paras \in Nat
  PROVE  LET d == mcb_resize(c, h, paras)
         IN  /\ \A b \in Block : BlockStands(b, c) => BlockStands(b, d)
             /\ \A p \in Program : ProcStands(p, c) /\ (p.psp - 1 = h => paras >= PspSize)
                                     => ProcStands(p, d)
<1> DEFINE d == mcb_resize(c, h, paras)
<1>1. /\ OthersStay(c, d, h) /\ h \in DOMAIN d /\ d[h].own = c[h].own
      /\ d[h].sz = IF Resizable(c, h, paras) THEN paras ELSE c[h].sz
  BY ResizeTiles
<1> HIDE DEF d
<1>2. ASSUME NEW b \in Block, BlockStands(b, c)
      PROVE  BlockStands(b, d)
  <2>1. CASE b.seg - 1 = h
    BY <1>1, <1>2, <2>1 DEF BlockStands
  <2>2. CASE b.seg - 1 # h
    BY <1>1, <1>2, <2>2, BlockStays
  <2> QED
    BY <2>1, <2>2
<1>3. ASSUME NEW p \in Program, ProcStands(p, c), p.psp - 1 = h => paras >= PspSize
      PROVE  ProcStands(p, d)
  <2>1. p.psp - 1 \in Held(c) /\ (p.env # 0 => p.env - 1 \in Held(c))
    BY <1>3, ProcHeld
  <2>2. d[p.psp - 1].own = p.psp /\ p.psp - 1 \in DOMAIN d
    BY <1>1, <1>3, <2>1 DEF OthersStay, ProcStands
  <2>3. d[p.psp - 1].sz >= PspSize
    BY <1>1, <1>3, <2>1 DEF OthersStay, ProcStands
  <2>4. p.env # 0 => p.env - 1 \in DOMAIN d /\ d[p.env - 1].own = EnvOwner
    BY <1>1, <1>3, <2>1 DEF OthersStay, ProcStands
  <2> QED
    BY <2>2, <2>3, <2>4 DEF ProcStands
<1> QED
  BY <1>2, <1>3 DEF d

\* 4Ah on the program's own block or on one it was given.
LEMMA ResizeInv ==
  ASSUME MInv, NEW seg, NEW paras \in Nat, Resize(seg, paras)
  PROVE  MInv'
<1> USE DEF MInv
<1>1. /\ chain' = mcb_resize(chain, seg - 1, paras) /\ Running
      /\ UNCHANGED <<procs, psp_parent, cur_psp, ivt, ivt_snap, strategy, given>>
  BY DEF Resize
<1>2. /\ seg - 1 \in Held(chain)
      /\ \A n \in 1 .. Len(procs) : procs[n].psp - 1 = seg - 1 => paras >= PspSize
  <2>1. CASE seg = cur_psp /\ paras >= PspSize
    BY <1>1, <2>1, TopFacts, ProcHeld
  <2>2. CASE [seg |-> seg, psp |-> cur_psp] \in given
    <3> DEFINE b == [seg |-> seg, psp |-> cur_psp]
    <3>1. b \in Block /\ BlockStands(b, chain) /\ b.seg # b.psp /\ b.seg = seg
      BY <1>1, <2>2, TopFacts DEF GivenApart
    <3> HIDE DEF b
    <3>2. seg - 1 \in Held(chain) /\ seg \in Nat
      BY <3>1, BlockHeld, SegmentFacts
    <3>3. ASSUME NEW n \in 1 .. Len(procs) PROVE procs[n].psp - 1 # seg - 1
      <4> DEFINE p == procs[n]
      <4>1. p \in Program /\ ProcStands(p, chain)
        BY <1>1, TopFacts
      <4> HIDE DEF p
      <4>2. p.psp # seg /\ p.psp \in Nat
        BY <3>1, <4>1, StandApart, ProcHeld, SegmentFacts
      <4> QED
        BY <3>2, <4>2 DEF p
    <3> QED
      BY <3>2, <3>3
  <2> QED
    BY <2>1, <2>2 DEF Resize
<1>3. Chain(chain') /\ Merged(chain')
  BY <1>1, <1>2, ResizeTiles, ResizeMerged DEF Typed
<1>4. /\ \A n \in 1 .. Len(procs) : ProcStands(procs[n], chain')
      /\ \A b \in given : BlockStands(b, chain')
  BY <1>1, <1>2, TopFacts, ResizeStands DEF Typed
<1>5. Typed' /\ Stack'
  BY <1>1, <1>3, SameStack DEF Typed
<1>6. HeldMemoryStands'
  BY <1>1, <1>4, <1>5 DEF Typed, HeldMemoryStands, ProcStands, BlockStands
<1>7. GivenApart'
  BY <1>1 DEF GivenApart
<1> QED
  BY <1>3, <1>5, <1>6, <1>7

\* 58h changes no block.
LEMMA SetStrategyInv ==
  ASSUME MInv, NEW s \in Strategies, SetStrategy(s)
  PROVE  MInv'
<1>1. UNCHANGED <<chain, procs, psp_parent, cur_psp, ivt, ivt_snap, given>> /\ strategy' \in 0 .. 2
  BY DosAssumption DEF SetStrategy, DosAssumption
<1>2. Typed' /\ Stack'
  BY <1>1, SameStack DEF MInv, Typed
<1> QED
  BY <1>1, <1>2 DEF MInv, HeldMemoryStands, GivenApart

-----------------------------------------------------------------------------
(***************************************************************************)
(* Vectors: the programs keep their places.                                *)
(***************************************************************************)
LEMMA HooksInv ==
  ASSUME MInv, Running, NEW hooks \in SUBSET Vectors,
         procs' = [procs EXCEPT ![Len(procs)].hooks = hooks],
         ivt' \in [Vectors -> Segments \cup {Bios}],
         UNCHANGED <<memory, cur_psp, psp_parent, ivt_snap, given>>
  PROVE  MInv'
<1> USE DEF MInv
<1>1. Len(procs) \in 1 .. Len(procs) /\ procs \in Seq(Program)
  BY TopFacts DEF Typed
<1>2. /\ Len(procs') = Len(procs) /\ procs' # <<>> /\ procs # <<>>
      /\ \A n \in 1 .. Len(procs) : /\ procs'[n].psp = procs[n].psp
                                    /\ procs'[n].parent = procs[n].parent
                                    /\ procs'[n].env = procs[n].env
  BY <1>1 DEF Program
<1>3. procs' \in Seq(Program)
  <2> DEFINE q == [procs[Len(procs)] EXCEPT !.hooks = hooks]
  <2>1. procs' = [procs EXCEPT ![Len(procs)] = q]
    OBVIOUS
  <2>2. procs[Len(procs)] \in Program
    BY <1>1
  <2>3. q \in Program
    BY <2>2 DEF Program
  <2> HIDE DEF q
  <2> QED
    BY <1>1, <2>1, <2>3
<1>4. Typed'
  BY <1>2, <1>3 DEF Typed, memory
<1>5. Stack'
  BY <1>1, <1>2 DEF Stack
<1>6. HeldMemoryStands'
  BY <1>1, <1>2, <1>3 DEF HeldMemoryStands, memory
<1> QED
  BY <1>4, <1>5, <1>6 DEF GivenApart, memory

\* A hooked vector points at the running program.
LEMMA HookInv ==
  ASSUME MInv, NEW v \in Vectors, Hook(v)
  PROVE  MInv'
<1>1. Top \in Program /\ Top = procs[Len(procs)] /\ cur_psp \in Segments /\ Running
  BY TopFacts DEF MInv, Hook
<1>2. Top.hooks \cup {v} \in SUBSET Vectors
  BY <1>1 DEF Program
<1>3. ivt' \in [Vectors -> Segments \cup {Bios}]
  BY <1>1 DEF Hook, MInv, Typed
<1>4. procs' = [procs EXCEPT ![Len(procs)].hooks = Top.hooks \cup {v}]
  BY <1>1 DEF Hook
<1> QED
  BY <1>1, <1>2, <1>3, <1>4, HooksInv DEF Hook

\* A vector taken back is what the program found there.
LEMMA UnhookInv ==
  ASSUME MInv, NEW v \in Vectors, Unhook(v)
  PROVE  MInv'
<1>1. Top \in Program /\ Top = procs[Len(procs)] /\ cur_psp \in Segments /\ Running
  BY TopFacts DEF MInv, Unhook
<1>2. Top.hooks \ {v} \in SUBSET Vectors
  BY <1>1 DEF Program
<1>3. ivt' \in [Vectors -> Segments \cup {Bios}]
  BY <1>1 DEF Unhook, MInv, Typed, Program
<1>4. procs' = [procs EXCEPT ![Len(procs)].hooks = Top.hooks \ {v}]
  BY <1>1 DEF Unhook
<1> QED
  BY <1>1, <1>2, <1>3, <1>4, HooksInv DEF Unhook

-----------------------------------------------------------------------------
(***************************************************************************)
(* The end of a program.                                                   *)
(***************************************************************************)
LEMMA PopStack ==
  ASSUME Typed, Stack, HeldMemoryStands, Running,
         procs' = Below, cur_psp' = Top.parent, psp_parent' = psp_parent
  PROVE  /\ procs' \in Seq(Program) /\ Len(procs') <= MaxProcs
         /\ Len(procs') \in Nat /\ Len(procs') = Len(procs) - 1
         /\ \A n \in 1 .. Len(procs') : n \in 1 .. Len(procs) /\ n # Len(procs) /\ procs'[n] = procs[n]
         /\ Stack'
<1>1. /\ procs # <<>> /\ procs \in Seq(Program) /\ Top = procs[Len(procs)]
      /\ Len(procs) \in Nat \ {0} /\ Len(procs) <= MaxProcs /\ MaxProcs \in Nat
  BY TopFacts, FrontFacts, DosAssumption DEF DosAssumption, Typed
<1>2. /\ procs' \in Seq(Program) /\ Len(procs') = Len(procs) - 1
      /\ \A n \in 1 .. Len(procs) - 1 : procs'[n] = procs[n]
  BY <1>1, FrontFacts DEF Below
<1>3. \A n \in 1 .. Len(procs') : n \in 1 .. Len(procs) /\ n # Len(procs) /\ procs'[n] = procs[n]
  BY <1>1, <1>2
<1>4. cur_psp' = IF procs' = <<>> THEN 0 ELSE procs'[Len(procs')].psp
  <2>1. Top.parent = IF Len(procs) = 1 THEN 0 ELSE procs[Len(procs) - 1].psp
    <3> DEFINE l == Len(procs)
    <3>1. l \in 1 .. Len(procs)
      BY <1>1
    <3> HIDE DEF l
    <3>2. procs[l].parent = IF l = 1 THEN 0 ELSE procs[l - 1].psp
      BY <3>1 DEF Stack
    <3> QED
      BY <1>1, <3>2 DEF l
  <2>2. CASE Len(procs) = 1
    <3>1. procs' = <<>>
      BY <1>2, <2>2
    <3> QED
      BY <2>1, <2>2, <3>1
  <2>3. CASE Len(procs) # 1
    <3>1. Len(procs') \in 1 .. Len(procs) - 1 /\ Len(procs') = Len(procs) - 1
      BY <1>1, <1>2, <2>3
    <3>2. procs' # <<>>
      BY <1>2, <3>1
    <3>3. procs'[Len(procs')] = procs[Len(procs) - 1]
      BY <1>2, <3>1
    <3> QED
      BY <2>1, <2>3, <3>2, <3>3
  <2> QED
    BY <2>2, <2>3
<1>5. ASSUME NEW n \in 1 .. Len(procs')
      PROVE  /\ procs'[n].parent = IF n = 1 THEN 0 ELSE procs'[n - 1].psp
             /\ psp_parent'[procs'[n].psp] = IF n = 1 THEN procs'[n].psp ELSE procs'[n - 1].psp
  <2>1. n = 1 \/ n - 1 \in 1 .. Len(procs')
    BY <1>1, <1>2
  <2> QED
    BY <1>3, <2>1 DEF Stack
<1>6. Stack'
  BY <1>3, <1>4, <1>5 DEF Stack
<1> QED
  BY <1>1, <1>2, <1>3, <1>6

\* Freeing the environment of the program that ends touches nobody else's.
LEMMA EnvFreedStands ==
  ASSUME NEW c, Chain(c), Merged(c), Top \in Program, ProcStands(Top, c)
  PROVE  LET d == EnvFreed(c)
         IN  /\ Chain(d) /\ Merged(d)
             /\ \A p \in Program : ProcStands(p, c) /\ (p.env # 0 => p.env # Top.env) => ProcStands(p, d)
             /\ \A b \in Block : BlockStands(b, c) /\ b.seg # b.psp => BlockStands(b, d)
<1>1. CASE Top.env = 0
  BY <1>1 DEF EnvFreed
<1>2. CASE Top.env # 0
  <2> DEFINE d == mcb_free(c, Top.env)
  <2>1. EnvFreed(c) = d
    BY <1>2 DEF EnvFreed
  <2>2. Top.env \in Segments /\ Top.env \in Nat
    BY <1>2, ProcHeld, SegmentFacts
  <2>3. Chain(d) /\ Merged(d) /\ OthersStay(c, d, Top.env - 1)
    BY <2>2, FreeTiles, FreeMerged
  <2> HIDE DEF d
  <2>4. ASSUME NEW p \in Program, ProcStands(p, c), p.env # 0 => p.env # Top.env
        PROVE  ProcStands(p, d)
    <3>1. p.psp # Top.env /\ p.psp \in Nat /\ (p.env # 0 => p.env \in Nat)
      BY <1>2, <2>4, EnvApart, ProcHeld, SegmentFacts
    <3>2. p.psp - 1 # Top.env - 1 /\ (p.env # 0 => p.env - 1 # Top.env - 1)
      BY <2>2, <2>4, <3>1
    <3> QED
      BY <2>3, <2>4, <3>2, ProcStays
  <2>5. ASSUME NEW b \in Block, BlockStands(b, c), b.seg # b.psp
        PROVE  BlockStands(b, d)
    <3>1. b.seg # Top.env /\ b.seg \in Nat
      BY <2>5, StandApart, BlockHeld, SegmentFacts
    <3> QED
      BY <2>2, <2>3, <2>5, <3>1, BlockStays
  <2> QED
    BY <2>1, <2>3, <2>4, <2>5
<1> QED
  BY <1>1, <1>2

\* Going resident resizes the program's own block and frees its environment;
\* the programs below keep theirs.
LEMMA StayResidentInv ==
  ASSUME MInv, NEW keep \in Nat, StayResident(keep)
  PROVE  MInv'
<1> USE DEF MInv
<1> DEFINE paras == IF keep < PspSize THEN PspSize ELSE keep
           c == mcb_resize(chain, Top.psp - 1, paras)
<1>1. /\ Running /\ chain' = EnvFreed(c) /\ cur_psp' = Top.parent /\ procs' = Below
      /\ UNCHANGED <<strategy, psp_parent, ivt, ivt_snap, given>>
  BY DEF StayResident
<1>2. paras \in Nat /\ paras >= PspSize
  BY SegmentFacts
<1>3. Top \in Program /\ ProcStands(Top, chain) /\ Top.psp - 1 \in Held(chain)
  BY <1>1, TopFacts, ProcHeld
<1>4. Chain(c) /\ Merged(c)
  BY <1>2, <1>3, ResizeTiles, ResizeMerged DEF Typed
<1>5. /\ \A p \in Program : ProcStands(p, chain) => ProcStands(p, c)
      /\ \A b \in Block : BlockStands(b, chain) => BlockStands(b, c)
  BY <1>2, <1>3, ResizeStands DEF Typed
<1> HIDE DEF c, paras
<1>6. /\ Chain(chain') /\ Merged(chain')
      /\ \A p \in Program : ProcStands(p, c) /\ (p.env # 0 => p.env # Top.env) => ProcStands(p, chain')
      /\ \A b \in Block : BlockStands(b, c) /\ b.seg # b.psp => BlockStands(b, chain')
  BY <1>1, <1>3, <1>4, <1>5, EnvFreedStands
<1>7. /\ procs' \in Seq(Program) /\ Len(procs') <= MaxProcs /\ Len(procs') \in Nat
      /\ \A n \in 1 .. Len(procs') : n \in 1 .. Len(procs) /\ n # Len(procs) /\ procs'[n] = procs[n]
      /\ Stack'
  BY <1>1, PopStack
<1>8. \A n \in 1 .. Len(procs') : ProcStands(procs'[n], chain')
  <2>1. SUFFICES ASSUME NEW n \in 1 .. Len(procs') PROVE ProcStands(procs'[n], chain')
    OBVIOUS
  <2>2. /\ procs[n] \in Program /\ ProcStands(procs[n], chain) /\ procs'[n] = procs[n]
        /\ Top = procs[Len(procs)] /\ Len(procs) \in 1 .. Len(procs) /\ n # Len(procs)
    BY <1>1, <1>7, TopFacts
  <2>3. procs[n].env # 0 => procs[n].env # Top.env
    BY <1>7, <2>2 DEF Stack
  <2> QED
    BY <1>5, <1>6, <2>2, <2>3
<1>9. \A b \in given : BlockStands(b, chain')
  BY <1>1, <1>5, <1>6, TopFacts DEF GivenApart
<1>10. Typed'
  BY <1>1, <1>6, <1>7 DEF Typed
<1>11. HeldMemoryStands'
  BY <1>1, <1>7, <1>8, <1>9 DEF HeldMemoryStands, ProcStands, BlockStands
<1> QED
  BY <1>1, <1>6, <1>7, <1>10, <1>11 DEF GivenApart

\* mcb_free_children: marking any blocks free, then coalescing.
LEMMA ReleasedTiles ==
  ASSUME NEW c, Chain(c), NEW headers \in SUBSET DOMAIN c
  PROVE  LET d == Released(c, headers)
         IN  /\ Chain(d) /\ Merged(d)
             /\ \A g \in Held(c) \ headers : g \in DOMAIN d /\ d[g] = c[g]
<1> DEFINE e == [h \in DOMAIN c |-> IF h \in headers THEN [c[h] EXCEPT !.own = NoOwner] ELSE c[h]]
<1>1. /\ DOMAIN e = DOMAIN c
      /\ \A h \in DOMAIN c : e[h] \in [own : Nat, sz : Nat] /\ e[h].sz = c[h].sz
      /\ \A h \in DOMAIN c \ headers : e[h] = c[h]
      /\ e = [h \in DOMAIN c |-> e[h]]
  BY ChainFacts DEF NoOwner
<1>2. Released(c, headers) = mcb_coalesce(e)
  BY DEF Released
<1> HIDE DEF e
<1>3. \A h \in DOMAIN c : NextHeader(e, h) = NextHeader(c, h)
  BY <1>1 DEF NextHeader
<1>4. Tiled(e)
  BY <1>1, <1>3 DEF Chain, Tiled
<1>5. e \in [DOMAIN c -> [own : Nat, sz : Nat]]
  BY <1>1
<1>6. Chain(e)
  BY <1>1, <1>4, <1>5 DEF Chain
<1>7. \A g \in Held(c) \ headers : g \in Held(e) /\ e[g] = c[g]
  BY <1>1 DEF Held, Free
<1> QED
  BY <1>2, <1>6, <1>7, CoalesceTiles, CoalesceMerges, CoalesceKeepsHeld

\* Exit frees the environment, the PSP's block and the blocks of resident
\* children.  No program below is a child of the one that ends: memory names
\* another parent for each, and the PSPs are distinct.
LEMMA ExitInv ==
  ASSUME MInv, Exit
  PROVE  MInv'
<1> USE DEF MInv
<1> DEFINE e == EnvFreed(chain)
           c == mcb_free(e, Top.psp)
           children == ChildBlocks(c, Top.psp)
<1>1. /\ Running /\ chain' = Released(c, children) /\ cur_psp' = Top.parent /\ procs' = Below
      /\ ivt' = Unhooked(c, children)
      /\ given' = {b \in given : b.psp # Top.psp /\ b.seg - 1 \notin children}
      /\ UNCHANGED <<strategy, psp_parent, ivt_snap>>
  BY DEF Exit
<1>2. /\ Top \in Program /\ ProcStands(Top, chain) /\ Top.psp \in Nat /\ Top.psp \in Segments
      /\ Top = procs[Len(procs)] /\ Len(procs) \in 1 .. Len(procs)
  BY <1>1, TopFacts, ProcHeld, SegmentFacts
<1>3. /\ Chain(e) /\ Merged(e)
      /\ \A p \in Program : ProcStands(p, chain) /\ (p.env # 0 => p.env # Top.env) => ProcStands(p, e)
      /\ \A b \in Block : BlockStands(b, chain) /\ b.seg # b.psp => BlockStands(b, e)
  BY <1>2, EnvFreedStands DEF Typed
<1> HIDE DEF e
<1>4. Chain(c) /\ OthersStay(e, c, Top.psp - 1)
  BY <1>2, <1>3, FreeTiles
<1> HIDE DEF c
<1>5. children \in SUBSET DOMAIN c
  BY DEF ChildBlocks
<1>6. /\ Chain(chain') /\ Merged(chain')
      /\ \A g \in Held(c) \ children : g \in DOMAIN chain' /\ chain'[g] = c[g]
  BY <1>1, <1>4, <1>5, ReleasedTiles
<1>7. /\ procs' \in Seq(Program) /\ Len(procs') <= MaxProcs /\ Len(procs') \in Nat
      /\ \A n \in 1 .. Len(procs') : n \in 1 .. Len(procs) /\ n # Len(procs) /\ procs'[n] = procs[n]
      /\ Stack'
  BY <1>1, PopStack
<1>8. ASSUME NEW n \in 1 .. Len(procs')
      PROVE  ProcStands(procs'[n], chain')
  <2> DEFINE p == procs[n]
  <2>1. p \in Program /\ ProcStands(p, chain) /\ procs'[n] = p /\ n \in 1 .. Len(procs) /\ n # Len(procs)
    BY <1>1, <1>7, TopFacts
  <2>2. p.psp # Top.psp /\ (p.env # 0 => p.env # Top.env)
    BY <1>2, <2>1 DEF Stack
  <2>3. psp_parent[p.psp] # Top.psp
    <3>1. CASE n = 1
      BY <2>1, <2>2, <3>1 DEF Stack
    <3>2. CASE n # 1
      <4>1. n - 1 \in 1 .. Len(procs) /\ n - 1 # Len(procs)
        BY <1>2, <2>1, <3>2
      <4>2. procs[n - 1].psp # Top.psp
        BY <1>2, <4>1 DEF Stack
      <4> QED
        BY <2>1, <3>2, <4>2 DEF Stack
    <3> QED
      BY <3>1, <3>2
  <2> HIDE DEF p
  <2>4. ProcStands(p, e)
    BY <1>3, <2>1, <2>2
  <2>5. p.psp \in Nat /\ (p.env # 0 => p.env \in Nat /\ p.env # Top.psp)
    BY <1>2, <2>1, EnvApart, ProcHeld, SegmentFacts
  <2>6. p.psp - 1 # Top.psp - 1 /\ (p.env # 0 => p.env - 1 # Top.psp - 1)
    BY <1>2, <2>2, <2>5
  <2>7. ProcStands(p, c)
    BY <1>4, <2>1, <2>4, <2>6, ProcStays
  <2>8. p.psp - 1 \in Held(c) /\ (p.env # 0 => p.env - 1 \in Held(c))
    BY <2>1, <2>7, ProcHeld
  <2>9. p.psp - 1 \notin children /\ (p.env # 0 => p.env - 1 \notin children)
    BY <2>3, <2>7 DEF ChildBlocks, ProcStands
  <2> HIDE DEF children
  <2> QED
    BY <1>6, <2>1, <2>7, <2>8, <2>9 DEF ProcStands
<1>9. ASSUME NEW b \in given'
      PROVE  BlockStands(b, chain')
  <2>1. b \in given /\ b.psp # Top.psp /\ b.seg - 1 \notin children
    BY <1>1
  <2>2. b \in Block /\ BlockStands(b, chain) /\ b.seg # b.psp
    BY <1>1, <2>1, TopFacts DEF GivenApart
  <2>3. BlockStands(b, e)
    BY <1>3, <2>2
  <2>4. b.seg \in Nat /\ b.seg # Top.psp
    BY <1>2, <2>2, StandApart, BlockHeld, SegmentFacts
  <2>5. b.seg - 1 # Top.psp - 1
    BY <1>2, <2>4
  <2>6. BlockStands(b, c) /\ b.seg - 1 \in Held(c)
    BY <1>4, <2>2, <2>3, <2>5, BlockStays, BlockHeld
  <2> HIDE DEF children
  <2> QED
    BY <1>6, <2>1, <2>6 DEF BlockStands
<1>10. ivt' \in [Vectors -> Segments \cup {Bios}]
  BY <1>1 DEF Unhooked, Typed
<1>11. given' \subseteq given
  BY <1>1
<1>12. Typed'
  BY <1>1, <1>6, <1>7, <1>10, <1>11 DEF Typed
<1>13. HeldMemoryStands'
  BY <1>7, <1>8, <1>9 DEF HeldMemoryStands, ProcStands, BlockStands
<1> QED
  BY <1>6, <1>7, <1>11, <1>12, <1>13 DEF GivenApart

-----------------------------------------------------------------------------
(***************************************************************************)
(* EXEC.                                                                   *)
(***************************************************************************)
\* A step whose new block was free.
LEMMA GrownStands ==
  ASSUME NEW c, NEW d, NEW h, h \notin Held(c), OthersStay(c, d, h)
  PROVE  /\ \A p \in Program : ProcStands(p, c) => ProcStands(p, d)
         /\ \A b \in Block : BlockStands(b, c) => BlockStands(b, d)
  BY ProcHeld, BlockHeld, ProcStays, BlockStays

\* make_env takes a block that was free, or none.
LEMMA WithEnvStands ==
  ASSUME Typed, Merged(chain)
  PROVE  /\ Chain(WithEnv) /\ Merged(WithEnv)
         /\ \A p \in Program : ProcStands(p, chain) => ProcStands(p, WithEnv)
         /\ \A b \in Block : BlockStands(b, chain) => BlockStands(b, WithEnv)
         /\ EnvSeg \in Segments \cup {0}
         /\ EnvSeg # 0 => /\ EnvSeg - 1 \notin Held(chain) /\ EnvSeg - 1 \in DOMAIN WithEnv
                          /\ WithEnv[EnvSeg - 1].own = EnvOwner
<1>1. CASE ~ EnvFits
  BY <1>1 DEF WithEnv, EnvSeg, Typed
<1>2. CASE EnvFits
  <2> DEFINE h == AllocHeader(chain, EnvSize, strategy)
             d == AfterAlloc(chain, EnvSize, EnvOwner, strategy)
  <2>1. EnvSize \in Nat /\ EnvOwner \in Nat \ {NoOwner} /\ strategy \in 0 .. 2 /\ Chain(chain)
    BY SegmentFacts DEF EnvOwner, NoOwner, Typed
  <2>2. Chain(d) /\ h \in DOMAIN d /\ h \notin Held(chain) /\ d[h].own = EnvOwner /\ OthersStay(chain, d, h)
    BY <1>2, <2>1, AllocTiles DEF EnvFits
  <2>3. Merged(d)
    BY <1>2, <2>1, AllocMerged DEF EnvFits
  <2>4. WithEnv = d /\ EnvSeg = h + 1
    BY <1>2 DEF WithEnv, EnvSeg
  <2> HIDE DEF h, d
  <2>5. h + 1 \in Segments /\ h \in Nat
    BY <2>2, SegmentFacts DEF Chain, Tiled
  <2>6. EnvSeg - 1 = h
    BY <2>4, <2>5
  <2> QED
    BY <2>2, <2>3, <2>4, <2>5, <2>6, GrownStands
<1> QED
  BY <1>1, <1>2

\* A failed EXEC leaves its environment behind and touches nothing else.
LEMMA ExecFailsInv ==
  ASSUME MInv, NEW image \in Images, ExecFails(image)
  PROVE  MInv'
<1> USE DEF MInv
<1>1. Running /\ chain' = WithEnv
      /\ UNCHANGED <<procs, psp_parent, cur_psp, ivt, ivt_snap, strategy, given>>
  BY DEF ExecFails
<1>2. /\ Chain(chain') /\ Merged(chain')
      /\ \A n \in 1 .. Len(procs) : ProcStands(procs[n], chain')
      /\ \A b \in given : BlockStands(b, chain')
  BY <1>1, TopFacts, WithEnvStands
<1>3. Typed' /\ Stack'
  BY <1>1, <1>2, SameStack DEF Typed
<1>4. HeldMemoryStands'
  BY <1>1, <1>2, <1>3 DEF Typed, HeldMemoryStands, ProcStands, BlockStands
<1> QED
  BY <1>1, <1>2, <1>3, <1>4 DEF GivenApart

\* The largest free block's size is a number, 0 when there is none.
LEMMA LargestNat ==
  ASSUME NEW c, Chain(c)
  PROVE  Largest(c) \in Nat
<1>1. CASE Free(c) = {}
  BY <1>1 DEF Largest
<1>2. CASE Free(c) # {}
  <2> DEFINE S == {c[h].sz : h \in Free(c)}
  <2>1. S \in SUBSET (0 .. MEM_LAST) /\ S # {}
    BY <1>2, MemoryAssumption DEF MemoryAssumption, Chain, Tiled, Free
  <2>2. PICK m \in S : \A n \in S : m >= n
    BY <2>1, GreatestElement, MemoryAssumption DEF MemoryAssumption
  <2>3. \E h \in Free(c) : \A g \in Free(c) : c[h].sz >= c[g].sz
    BY <2>2
  <2>4. \A h \in Free(c) : c[h].sz \in Nat
    BY ChainFacts DEF Free
  <2> QED
    BY <1>2, <2>3, <2>4 DEF Largest
<1> QED
  BY <1>1, <1>2

\* load_mz asks for at least a PSP, and only when that fits.
LEMMA GrantedFacts ==
  ASSUME Typed, Merged(chain), NEW image \in Images, Loads(image)
  PROVE  Granted(image) \in Nat /\ Granted(image) >= PspSize /\ Fitting(WithEnv, Granted(image)) # {}
<1>1. image.need \in Nat /\ image.min \in Nat /\ PspSize <= image.min
  BY DosAssumption DEF DosAssumption
<1>2. Largest(WithEnv) \in Nat
  BY LargestNat, WithEnvStands
<1>3. Granted(image) \in Nat
  BY <1>1, <1>2 DEF Granted
<1> QED
  BY <1>1, <1>3, SegmentFacts DEF Loads

\* A program loaded into one block does not write over another program's PSP.
LEMMA LoadedElsewhere ==
  ASSUME NEW d, Chain(d), NEW h \in DOMAIN d, NEW size \in Nat, size <= d[h].sz,
         NEW p \in Program, ProcStands(p, d), p.psp # h + 1
  PROVE  p.psp \notin h + 1 .. h + 1 + size - 1
<1> DEFINE g == p.psp - 1
<1>1. g \in DOMAIN d /\ d[g].sz >= 1 /\ p.psp \in Nat
  <2>1. p.psp \in Nat
    BY ProcHeld, SegmentFacts
  <2>2. g \in DOMAIN d /\ d[g].sz >= PspSize
    BY DEF ProcStands
  <2>3. d[g].sz \in Nat
    BY <2>2, ChainFacts
  <2> QED
    BY <2>1, <2>2, <2>3, SegmentFacts
<1>2. g \in Nat /\ h \in Nat /\ d[h].sz \in Nat /\ d[g].sz \in Nat
      /\ NextHeader(d, h) = h + d[h].sz + 1 /\ NextHeader(d, g) = g + d[g].sz + 1
  BY <1>1, ChainFacts
<1>3. CASE h < g
  <2>1. NextHeader(d, h) <= g
    BY <1>1, <1>3, ChainFacts
  <2> QED
    BY <1>1, <1>2, <2>1
<1>4. CASE g < h
  <2>1. NextHeader(d, g) <= h
    BY <1>1, <1>4, ChainFacts
  <2> QED
    BY <1>1, <1>2, <2>1
<1> QED
  BY <1>1, <1>2, <1>3, <1>4

\* EXEC takes two blocks that were free; the image written into the second
\* overwrites no PSP, so memory still names every program's parent.
LEMMA ExecInv ==
  ASSUME MInv, NEW image \in Images, Exec(image)
  PROVE  MInv'
<1> USE DEF MInv
<1> DEFINE size == Granted(image)
           h == AllocHeader(WithEnv, size, strategy)
           psp == h + 1
           parent == IF cur_psp = 0 THEN psp ELSE cur_psp
           q == [psp |-> psp, parent |-> cur_psp, env |-> EnvSeg, found |-> ivt, hooks |-> {}]
           l == Len(procs)
<1>1. /\ Len(procs) < MaxProcs /\ Loads(image)
      /\ chain' = AfterAlloc(WithEnv, size, psp, strategy)
      /\ psp_parent' = LoadedOver(psp, size, parent)
      /\ procs' = Append(procs, q) /\ cur_psp' = psp /\ ivt_snap' = ivt
      /\ UNCHANGED <<strategy, ivt, given>>
  BY DEF Exec, LoadedPsp
<1>2. size \in Nat /\ size >= PspSize /\ Fitting(WithEnv, size) # {}
  BY <1>1, GrantedFacts
<1>3. /\ Chain(WithEnv) /\ Merged(WithEnv)
      /\ \A p \in Program : ProcStands(p, chain) => ProcStands(p, WithEnv)
      /\ \A b \in Block : BlockStands(b, chain) => BlockStands(b, WithEnv)
      /\ EnvSeg \in Segments \cup {0}
      /\ EnvSeg # 0 => /\ EnvSeg - 1 \notin Held(chain) /\ EnvSeg - 1 \in DOMAIN WithEnv
                       /\ WithEnv[EnvSeg - 1].own = EnvOwner
  BY WithEnvStands
<1>4. h \in MEM_FIRST .. MEM_LAST - 1
  <2>1. h \in DOMAIN AfterAlloc(WithEnv, size, EnvOwner, strategy)
        /\ Chain(AfterAlloc(WithEnv, size, EnvOwner, strategy))
    BY <1>2, <1>3, AllocTiles DEF Typed, EnvOwner, NoOwner
  <2> QED
    BY <2>1, ChainFacts
<1> HIDE DEF h, size
<1>5. h \in Nat /\ psp \in Segments /\ psp \in Nat \ {NoOwner} /\ psp # EnvOwner /\ psp - 1 = h /\ psp # 0
  BY <1>4, SegmentFacts
<1>6. /\ Chain(chain') /\ h \in DOMAIN chain' /\ h \notin Held(WithEnv)
      /\ chain'[h].own = psp /\ chain'[h].sz >= size /\ OthersStay(WithEnv, chain', h)
  BY <1>1, <1>2, <1>3, <1>5, AllocTiles DEF Typed, h
<1>7. Merged(chain')
  BY <1>1, <1>2, <1>3, <1>5, AllocMerged DEF Typed
<1>8. procs \in Seq(Program) /\ l \in Nat
      /\ \A n \in 1 .. l : procs[n] \in Program /\ ProcStands(procs[n], chain)
      /\ \A b \in given : b \in Block /\ BlockStands(b, chain)
  BY StandsIsBoth DEF Typed
<1>9. cur_psp \in Segments \cup {0}
  <2>1. CASE procs = <<>>
    BY <2>1 DEF Stack
  <2>2. CASE procs # <<>>
    <3>1. l \in 1 .. l
      BY <1>8, <2>2
    <3> QED
      BY <1>8, <2>2, <3>1 DEF Stack, Program
  <2> QED
    BY <2>1, <2>2
<1>10. q \in Program
  BY <1>3, <1>5, <1>9 DEF Program, Typed
<1>11. /\ q.psp = psp /\ q.parent = cur_psp /\ q.env = EnvSeg
  OBVIOUS
<1> HIDE DEF q
<1>12. /\ procs' \in Seq(Program) /\ Len(procs') = l + 1 /\ procs' # <<>>
       /\ \A n \in 1 .. l : procs'[n] = procs[n]
       /\ procs'[l + 1] = q
  BY <1>1, <1>8, <1>10, AppendFacts
<1>13. \A n \in 1 .. Len(procs') : n \in 1 .. l \/ n = l + 1
  BY <1>8, <1>12
<1>14. ASSUME NEW n \in 1 .. l
       PROVE  /\ procs[n].psp # psp /\ ProcStands(procs[n], chain')
              /\ EnvSeg # 0 => procs[n].env # EnvSeg
              /\ psp_parent'[procs[n].psp] = psp_parent[procs[n].psp]
  <2> DEFINE p == procs[n]
  <2>1. p \in Program /\ ProcStands(p, chain) /\ ProcStands(p, WithEnv)
    BY <1>3, <1>8
  <2> HIDE DEF p
  <2>2. /\ p.psp - 1 \in Held(WithEnv) /\ p.psp \in Segments /\ p.psp \in Nat
        /\ p.env # 0 => p.env - 1 \in Held(chain)
    BY <2>1, ProcHeld, SegmentFacts
  <2>3. p.psp # psp
    BY <1>5, <1>6, <2>2
  <2>4. ProcStands(p, chain')
    BY <1>6, <2>1, GrownStands
  <2>5. EnvSeg # 0 => p.env # EnvSeg
    BY <1>3, <2>2
  <2>6. size <= chain'[h].sz
    BY <1>2, <1>6, ChainFacts
  <2>7. p.psp \notin psp .. psp + size - 1
    BY <1>2, <1>6, <2>1, <2>3, <2>4, <2>6, LoadedElsewhere
  <2>8. psp_parent'[p.psp] = psp_parent[p.psp]
    BY <1>1, <2>2, <2>3, <2>7 DEF LoadedOver
  <2> QED
    BY <2>3, <2>4, <2>5, <2>8 DEF p
<1>15. ProcStands(q, chain')
  <2>1. chain'[h].sz >= PspSize
    BY <1>2, <1>6, SegmentFacts, ChainFacts
  <2>2. EnvSeg # 0 => EnvSeg - 1 \in DOMAIN chain' /\ chain'[EnvSeg - 1].own = EnvOwner
    <3>1. SUFFICES ASSUME EnvSeg # 0
                   PROVE  EnvSeg - 1 \in DOMAIN chain' /\ chain'[EnvSeg - 1].own = EnvOwner
      OBVIOUS
    <3>2. EnvSeg - 1 \in Held(WithEnv)
      BY <1>3, <3>1 DEF Held, Free, EnvOwner, NoOwner
    <3> QED
      BY <1>3, <1>6, <3>1, <3>2 DEF OthersStay
  <2> QED
    BY <1>5, <1>6, <1>11, <2>1, <2>2 DEF ProcStands
<1>16. psp_parent' \in [Segments -> Segments \cup {0}] /\ psp_parent'[psp] = parent
  BY <1>1, <1>5, <1>9 DEF LoadedOver, Typed
<1>17. Typed'
  <2>1. Len(procs') <= MaxProcs
    BY <1>1, <1>8, <1>12, DosAssumption DEF DosAssumption
  <2> QED
    BY <1>1, <1>6, <1>12, <1>16, <2>1 DEF Typed
<1>18. Stack'
  <2>1. cur_psp' = procs'[Len(procs')].psp
    BY <1>1, <1>11, <1>12
  <2>2. ASSUME NEW n \in 1 .. l
        PROVE  /\ procs'[n].parent = IF n = 1 THEN 0 ELSE procs'[n - 1].psp
               /\ psp_parent'[procs'[n].psp] = IF n = 1 THEN procs'[n].psp ELSE procs'[n - 1].psp
    <3>1. n = 1 \/ n - 1 \in 1 .. l
      BY <1>8
    <3> QED
      BY <1>12, <1>14, <3>1 DEF Stack
  <2>3. /\ q.parent = IF l + 1 = 1 THEN 0 ELSE procs'[l].psp
        /\ psp_parent'[q.psp] = IF l + 1 = 1 THEN q.psp ELSE procs'[l].psp
    <3>1. CASE l = 0
      <4>1. procs = <<>>
        BY <1>8, <3>1
      <4>2. cur_psp = 0
        BY <4>1 DEF Stack
      <4> QED
        BY <1>11, <1>16, <3>1, <4>2
    <3>2. CASE l # 0
      <4>1. l \in 1 .. l /\ procs # <<>> /\ l + 1 # 1
        BY <1>8, <3>2
      <4>2. cur_psp = procs[l].psp /\ cur_psp # 0
        BY <1>8, <4>1, SegmentFacts DEF Stack, Program
      <4> QED
        BY <1>11, <1>12, <1>16, <4>1, <4>2
    <3> QED
      BY <3>1, <3>2
  <2>4. ASSUME NEW n \in 1 .. Len(procs')
        PROVE  /\ procs'[n].parent = IF n = 1 THEN 0 ELSE procs'[n - 1].psp
               /\ psp_parent'[procs'[n].psp] = IF n = 1 THEN procs'[n].psp ELSE procs'[n - 1].psp
    <3>1. CASE n \in 1 .. l
      BY <2>2, <3>1
    <3>2. CASE n = l + 1
      <4>1. n - 1 = l
        BY <1>8, <3>2
      <4> QED
        BY <1>12, <2>3, <3>2, <4>1
    <3> QED
      BY <1>13, <3>1, <3>2
  <2>5. ASSUME NEW m \in 1 .. Len(procs'), NEW n \in 1 .. Len(procs'), m # n
        PROVE  /\ procs'[m].psp # procs'[n].psp
               /\ procs'[n].env # 0 => procs'[m].env # procs'[n].env
    <3>1. CASE m \in 1 .. l /\ n \in 1 .. l
      BY <1>12, <2>5, <3>1 DEF Stack
    <3>2. CASE m \in 1 .. l /\ n = l + 1
      BY <1>11, <1>12, <1>14, <3>2
    <3>3. CASE m = l + 1 /\ n \in 1 .. l
      <4>1. procs'[m].psp = psp /\ procs'[m].env = EnvSeg /\ procs'[n] = procs[n]
        BY <1>11, <1>12, <3>3
      <4>2. procs[n].psp # psp /\ (EnvSeg # 0 => procs[n].env # EnvSeg)
        BY <1>14, <3>3
      <4> QED
        BY <4>1, <4>2
    <3> QED
      BY <1>13, <2>5, <3>1, <3>2, <3>3
  <2> QED
    BY <1>12, <2>1, <2>4, <2>5 DEF Stack
<1>19. HeldMemoryStands'
  <2>1. \A n \in 1 .. Len(procs') : ProcStands(procs'[n], chain')
    BY <1>12, <1>13, <1>14, <1>15
  <2>2. ASSUME NEW b \in given PROVE BlockStands(b, chain')
    <3>1. b \in Block /\ BlockStands(b, chain)
      BY StandsIsBoth DEF Typed
    <3>2. BlockStands(b, WithEnv)
      BY <3>1, WithEnvStands
    <3> QED
      BY <1>6, <3>1, <3>2, GrownStands
  <2> QED
    BY <1>1, <1>12, <2>1, <2>2 DEF HeldMemoryStands, ProcStands, BlockStands
<1>20. GivenApart'
  BY <1>1 DEF GivenApart
<1> QED
  BY <1>7, <1>17, <1>18, <1>19, <1>20

-----------------------------------------------------------------------------
(***************************************************************************)
(* The theorems.                                                           *)
(***************************************************************************)
LEMMA StepInv == MInv /\ [Next]_vars => MInv'
<1> SUFFICES ASSUME MInv, [Next]_vars PROVE MInv'
  OBVIOUS
<1>1. CASE Exit
  BY <1>1, ExitInv
<1>2. CASE Done \/ UNCHANGED vars
  BY <1>2 DEF Done, vars, memory, MInv, Typed, Merged, Stack, HeldMemoryStands, GivenApart
<1>3. ASSUME NEW paras \in Sizes, Alloc(paras) PROVE MInv'
  BY <1>3, AllocInv, SegmentFacts
<1>4. ASSUME NEW paras \in Sizes, StayResident(paras) PROVE MInv'
  BY <1>4, StayResidentInv, SegmentFacts
<1>5. ASSUME NEW b \in given, FreeBlock(b) PROVE MInv'
  BY <1>5, FreeBlockInv
<1>6. ASSUME NEW seg, NEW paras \in Sizes, Resize(seg, paras) PROVE MInv'
  BY <1>6, ResizeInv, SegmentFacts
<1>7. ASSUME NEW s \in Strategies, SetStrategy(s) PROVE MInv'
  BY <1>7, SetStrategyInv
<1>8. ASSUME NEW v \in Vectors, Hook(v) PROVE MInv'
  BY <1>8, HookInv
<1>9. ASSUME NEW v \in Vectors, Unhook(v) PROVE MInv'
  BY <1>9, UnhookInv
<1>10. ASSUME NEW image \in Images, Exec(image) PROVE MInv'
  BY <1>10, ExecInv
<1>11. ASSUME NEW image \in Images, ExecFails(image) PROVE MInv'
  BY <1>11, ExecFailsInv
<1> QED
  BY <1>1, <1>2, <1>3, <1>4, <1>5, <1>6, <1>7, <1>8, <1>9, <1>10, <1>11 DEF Next

\* The invariant holds in every reachable state.
LEMMA MInvAlways == Spec => []MInv
  BY InitInv, StepInv, PTL DEF Spec

\* What a program was given stays its own - its PSP, its environment and its
\* blocks from 48h - until it exits, however its children run and end.
THEOREM HeldStands == Spec => []HeldMemoryStands
<1>1. MInv => HeldMemoryStands
  BY DEF MInv
<1> QED
  BY <1>1, MInvAlways, PTL

\* No free block ever lies behind another: free memory is never split
\* without need.
THEOREM FreeMemoryIsMerged == Spec => []NoFreeNeighbours
<1>1. MInv => NoFreeNeighbours
  BY DEF MInv, Merged, NoFreeNeighbours
<1> QED
  BY <1>1, MInvAlways, PTL

\* Both at once: what programs hold stands, and what nobody holds is merged.
THEOREM HeapKept == Spec => []HeapStands
<1>1. HeldMemoryStands /\ NoFreeNeighbours => HeapStands
  BY DEF HeapStands
<1> QED
  BY <1>1, HeldStands, FreeMemoryIsMerged, PTL

\* The histories grow and shrink with the stack of programs.
LEMMA HistoriesAlways == Spec => []Histories
<1>1. Init => Histories
  BY DEF Init, Histories
<1>2. MInv /\ Histories /\ [Next]_vars => Histories'
  <2> SUFFICES ASSUME MInv, Histories, [Next]_vars PROVE Histories'
    OBVIOUS
  <2>1. CASE Len(procs') = Len(procs) /\ UNCHANGED <<before, leaky>>
    BY <2>1 DEF Histories
  <2>2. ASSUME Running, procs' = Below, before' = Front(before),
               NEW mark, leaky' = [n \in DOMAIN Below |-> leaky[n] \/ mark], mark \in BOOLEAN
        PROVE  Histories'
    <3>1. procs # <<>> /\ procs \in Seq(Program)
      BY <2>2, TopFacts DEF MInv, Typed
    <3>2. before # <<>> /\ before \in Seq(Chains) /\ Len(before) = Len(procs)
      BY <3>1 DEF Histories
    <3>3. Len(before') = Len(procs') /\ before' \in Seq(Chains)
      BY <2>2, <3>1, <3>2, FrontFacts DEF Below
    <3>4. procs' \in Seq(Program) /\ DOMAIN Below = 1 .. Len(procs')
          /\ Len(procs') = Len(procs) - 1 /\ Len(procs') \in Nat
      BY <2>2, <3>1, FrontFacts DEF Below
    <3>5. leaky' \in Seq(BOOLEAN) /\ Len(leaky') = Len(procs')
      BY <2>2, <3>4 DEF Histories
    <3> QED
      BY <3>3, <3>5 DEF Histories
  <2>3. CASE Exit
    BY <2>2, <2>3 DEF Exit
  <2>4. ASSUME NEW paras, StayResident(paras) PROVE Histories'
    BY <2>2, <2>4 DEF StayResident
  <2>5. ASSUME NEW image \in Images, Exec(image) PROVE Histories'
    <3>1. chain \in Chains
      BY MemoryAssumption DEF MemoryAssumption, MInv, Typed, Chain, Tiled, Chains
    <3> DEFINE mark == Mistaken(LoadedPsp(image))
               marked == [n \in DOMAIN leaky |-> leaky[n] \/ mark]
    <3>2. /\ Len(procs') = Len(procs) + 1 /\ before' = Append(before, chain)
          /\ leaky' = Append(marked, mark)
      BY <2>5, AppendFacts DEF Exec, MInv, Typed
    <3>3. mark \in BOOLEAN
      BY DEF Mistaken
    <3> HIDE DEF mark
    <3>4. marked \in Seq(BOOLEAN) /\ Len(marked) = Len(leaky)
      <4>1. DOMAIN leaky = 1 .. Len(leaky) /\ Len(leaky) \in Nat
        BY DEF Histories
      <4>2. \A n \in 1 .. Len(leaky) : (leaky[n] \/ mark) \in BOOLEAN
        BY <3>3 DEF Histories
      <4> QED
        BY <4>1, <4>2
    <3> HIDE DEF marked
    <3> QED
      BY <3>1, <3>2, <3>3, <3>4, AppendFacts DEF Histories
  <2>6. ASSUME NEW image \in Images, ExecFails(image) PROVE Histories'
    <3>1. DOMAIN leaky = 1 .. Len(leaky) /\ Len(leaky) \in Nat
      BY DEF Histories
    <3>2. \A n \in 1 .. Len(leaky) : (leaky[n] \/ EnvFits) \in BOOLEAN
      BY DEF Histories
    <3>3. leaky' = [n \in 1 .. Len(leaky) |-> leaky[n] \/ EnvFits]
      BY <2>6, <3>1 DEF ExecFails
    <3>4. leaky' \in Seq(BOOLEAN) /\ Len(leaky') = Len(leaky)
      BY <3>1, <3>2, <3>3
    <3> QED
      BY <2>6, <3>4 DEF ExecFails, Histories
  <2>7. ASSUME NEW v, Hook(v) \/ Unhook(v) PROVE Histories'
    <3>1. Len(procs') = Len(procs) /\ UNCHANGED <<before, leaky>>
      BY <2>7 DEF Hook, Unhook, MInv, Typed
    <3> QED
      BY <2>1, <3>1
  <2>8. ASSUME NEW x, NEW y, Alloc(x) \/ FreeBlock(x) \/ Resize(x, y) \/ SetStrategy(x)
        PROVE  Histories'
    BY <2>1, <2>8 DEF Alloc, FreeBlock, Resize, SetStrategy
  <2>9. CASE Done \/ UNCHANGED vars
    BY <2>1, <2>9 DEF Done, vars
  <2> QED
    BY <2>3, <2>4, <2>5, <2>6, <2>7, <2>8, <2>9 DEF Next
<1> QED
  BY <1>1, <1>2, MInvAlways, PTL DEF Spec

\* The chain always tiles memory, and every other variable keeps its type.
THEOREM TypeCorrect == Spec => []TypeOK
<1>1. MInv /\ Histories => TypeOK
  <2> SUFFICES ASSUME MInv, Histories PROVE TypeOK
    OBVIOUS
  <2>1. cur_psp \in Segments \cup {0}
    <3>1. CASE procs = <<>>
      BY <3>1 DEF MInv, Stack
    <3>2. CASE procs # <<>>
      <4>1. Len(procs) \in 1 .. Len(procs) /\ procs[Len(procs)] \in Program
        BY <3>2, FrontFacts DEF MInv, Typed
      <4>2. procs[Len(procs)].psp \in Segments
        BY <4>1 DEF Program
      <4> QED
        BY <3>2, <4>2 DEF MInv, Stack
    <3> QED
      BY <3>1, <3>2
  <2> QED
    BY <2>1 DEF MInv, Typed, Chain, Histories, TypeOK
<1> QED
  BY <1>1, MInvAlways, HistoriesAlways, PTL

-----------------------------------------------------------------------------
(***************************************************************************)
(* Vectors.                                                                *)
(***************************************************************************)
\* A program, running or resident, has its PSP's block, which holds a PSP.
IsLoaded(x, c) == x - 1 \in DOMAIN c /\ c[x - 1].own = x /\ c[x - 1].sz >= PspSize

LEMMA LoadedIs ==
  ASSUME Typed, NEW x \in Segments, IsLoaded(x, chain)
  PROVE  x \in Loaded
<1>1. \A h \in DOMAIN chain : h \in Nat
  BY ChainFacts DEF Typed
<1>2. x \in Nat
  BY SegmentFacts
<1> QED
  BY <1>1, <1>2 DEF Loaded, IsLoaded

\* A program stays in memory when the step is about another block, and its
\* own block is in use.
LEMMA LoadedHeld ==
  ASSUME NEW x \in Segments, NEW c, IsLoaded(x, c)
  PROVE  /\ x - 1 \in Held(c)
         /\ \A d, h : OthersStay(c, d, h) /\ x - 1 # h => IsLoaded(x, d)
  BY SegmentFacts DEF IsLoaded, Held, Free, OthersStay

\* make_env takes a block that was free, or none.
LEMMA WithEnvLoaded ==
  ASSUME Typed, NEW x \in Segments, IsLoaded(x, chain)
  PROVE  IsLoaded(x, WithEnv)
<1>1. CASE ~ EnvFits
  BY <1>1 DEF WithEnv
<1>2. CASE EnvFits
  <2> DEFINE h == AllocHeader(chain, EnvSize, strategy)
             d == AfterAlloc(chain, EnvSize, EnvOwner, strategy)
  <2>1. EnvSize \in Nat /\ EnvOwner \in Nat \ {NoOwner} /\ strategy \in 0 .. 2 /\ Chain(chain)
    BY SegmentFacts DEF EnvOwner, NoOwner, Typed
  <2>2. h \notin Held(chain) /\ OthersStay(chain, d, h)
    BY <1>2, <2>1, AllocTiles DEF EnvFits
  <2>3. WithEnv = d
    BY <1>2 DEF WithEnv
  <2> HIDE DEF h, d
  <2> QED
    BY <2>2, <2>3, LoadedHeld
<1> QED
  BY <1>1, <1>2

\* What a running program, or one below it, has hooked; or the BIOS.
HookedIn(ps, x, v, n) == x = Bios \/ \E j \in 1 .. n : ps[j].psp = x /\ v \in ps[j].hooks

Resident(x) == x # Bios /\ \A n \in 1 .. Len(procs) : procs[n].psp # x

(***************************************************************************)
(* What NoDanglingVector rests on.  A running program that holds a vector  *)
(* knows it; what it found there is the BIOS's or belongs to a program     *)
(* below it; and a vector that a resident program holds, which the program *)
(* that started it takes back by its end, is in the snapshot as the BIOS's *)
(* or that of a program that runs and has it hooked still.                 *)
(***************************************************************************)
VectorsKept ==
  /\ \A v \in Vectors : ivt[v] = Bios \/ IsLoaded(ivt[v], chain)
  /\ \A v \in Vectors, n \in 1 .. Len(procs) : ivt[v] = procs[n].psp => v \in procs[n].hooks
  /\ \A v \in Vectors, n \in 1 .. Len(procs) : HookedIn(procs, procs[n].found[v], v, n - 1)
  /\ \A v \in Vectors, n \in 1 .. Len(procs) :
       Resident(ivt[v]) /\ psp_parent[ivt[v]] = procs[n].psp => HookedIn(procs, ivt_snap[v], v, n)

VInv == ~ stale /\ ~ dos_done => VectorsKept

\* Programs stay in memory through a step.
LoadedKept == \A x \in Segments : IsLoaded(x, chain) => IsLoaded(x, chain')

\* The memory calls and a failed EXEC take no program's own block away: 49h is
\* never asked to free one (GivenApart), the others take free blocks or keep
\* a block's owner.
LEMMA CallsKeepLoaded ==
  ASSUME MInv,
         \/ \E paras \in Nat : Alloc(paras)
         \/ \E b \in given : FreeBlock(b)
         \/ \E seg, paras : paras \in Nat /\ Resize(seg, paras)
         \/ \E image \in Images : ExecFails(image)
  PROVE  LoadedKept
<1> SUFFICES ASSUME NEW x \in Segments, IsLoaded(x, chain) PROVE IsLoaded(x, chain')
  BY DEF LoadedKept
<1> USE DEF MInv
<1>1. ASSUME NEW paras \in Nat, Alloc(paras) PROVE IsLoaded(x, chain')
  <2>1. CASE Fitting(chain, paras) = {}
    BY <1>1, <2>1 DEF Alloc
  <2>2. CASE Fitting(chain, paras) # {}
    <3> DEFINE h == AllocHeader(chain, paras, strategy)
    <3>1. /\ cur_psp \in Nat \ {NoOwner} /\ strategy \in 0 .. 2 /\ Chain(chain)
          /\ chain' = AfterAlloc(chain, paras, cur_psp, strategy)
      BY <1>1, <2>2, TopFacts, SegmentFacts DEF Alloc, Typed
    <3>2. h \notin Held(chain) /\ OthersStay(chain, chain', h)
      BY <2>2, <3>1, AllocTiles
    <3> QED
      BY <3>2, LoadedHeld
  <2> QED
    BY <2>1, <2>2
<1>2. ASSUME NEW b \in given, FreeBlock(b) PROVE IsLoaded(x, chain')
  <2>1. Running /\ chain' = mcb_free(chain, b.seg)
    BY <1>2 DEF FreeBlock
  <2>2. b \in Block /\ BlockStands(b, chain) /\ b.seg # b.psp
    BY <2>1, TopFacts DEF GivenApart
  <2>3. b.seg \in Nat /\ x \in Nat
    BY <2>2, BlockHeld, SegmentFacts
  <2>4. OthersStay(chain, chain', b.seg - 1)
    BY <2>1, <2>3, FreeTiles DEF Typed
  <2>5. x # b.seg
    BY <2>2 DEF IsLoaded, BlockStands
  <2> QED
    BY <2>3, <2>4, <2>5, LoadedHeld
<1>3. ASSUME NEW seg, NEW paras \in Nat, Resize(seg, paras) PROVE IsLoaded(x, chain')
  <2> DEFINE h == seg - 1
  <2>1. Running /\ chain' = mcb_resize(chain, h, paras)
    BY <1>3 DEF Resize
  <2>2. h \in Held(chain)
    <3>1. CASE seg = cur_psp
      BY <2>1, <3>1, TopFacts, ProcHeld
    <3>2. CASE [seg |-> seg, psp |-> cur_psp] \in given
      <4> DEFINE b == [seg |-> seg, psp |-> cur_psp]
      <4>1. b \in Block /\ BlockStands(b, chain)
        BY <2>1, <3>2, TopFacts
      <4>2. b.seg = seg
        OBVIOUS
      <4> HIDE DEF b
      <4> QED
        BY <4>1, <4>2, BlockHeld
    <3> QED
      BY <1>3, <3>1, <3>2 DEF Resize
  <2>3. Chain(chain)
    BY DEF Typed
  <2> HIDE DEF h
  <2>4. /\ OthersStay(chain, chain', h) /\ h \in DOMAIN chain' /\ chain'[h].own = chain[h].own
        /\ chain'[h].sz = paras \/ chain'[h].sz = chain[h].sz
    BY <2>1, <2>2, <2>3, ResizeTiles
  <2>5. x - 1 = h => paras >= PspSize
    <3>1. SUFFICES ASSUME x - 1 = h, [seg |-> seg, psp |-> cur_psp] \in given PROVE FALSE
      BY <1>3 DEF Resize
    <3> DEFINE b == [seg |-> seg, psp |-> cur_psp]
    <3>2. b \in Block /\ BlockStands(b, chain) /\ b.seg # b.psp /\ b.seg = seg
      BY <2>1, <3>1, TopFacts DEF GivenApart
    <3> HIDE DEF b
    <3>3. seg \in Nat /\ x \in Nat
      BY <3>2, BlockHeld, SegmentFacts
    <3> QED
      BY <3>1, <3>2, <3>3 DEF h, IsLoaded, BlockStands
  <2> QED
    BY <2>4, <2>5, LoadedHeld DEF IsLoaded
<1>4. ASSUME NEW image \in Images, ExecFails(image) PROVE IsLoaded(x, chain')
  <2>1. IsLoaded(x, WithEnv)
    BY WithEnvLoaded
  <2> QED
    BY <1>4, <2>1 DEF ExecFails
<1> QED
  BY <1>1, <1>2, <1>3, <1>4

\* EXEC loads the program into a block that was free, so every other program
\* stays, and memory still names its parent.
LEMMA ExecLoads ==
  ASSUME MInv, NEW image \in Images, Exec(image)
  PROVE  /\ cur_psp' \in Segments /\ IsLoaded(cur_psp', chain')
         /\ cur_psp' = LoadedPsp(image)
         /\ \A x \in Segments : IsLoaded(x, chain) =>
              x # cur_psp' /\ IsLoaded(x, chain') /\ psp_parent'[x] = psp_parent[x]
<1> USE DEF MInv
<1> DEFINE size == Granted(image)
           h == AllocHeader(WithEnv, size, strategy)
           psp == h + 1
           parent == IF cur_psp = 0 THEN psp ELSE cur_psp
<1>1. /\ Loads(image)
      /\ chain' = AfterAlloc(WithEnv, size, psp, strategy)
      /\ psp_parent' = LoadedOver(psp, size, parent)
      /\ cur_psp' = psp /\ cur_psp' = LoadedPsp(image)
  BY DEF Exec, LoadedPsp
<1>2. size \in Nat /\ size >= PspSize /\ Fitting(WithEnv, size) # {}
  BY <1>1, GrantedFacts
<1>3. Chain(WithEnv) /\ Merged(WithEnv)
  BY WithEnvStands
<1>4. h \in MEM_FIRST .. MEM_LAST - 1
  <2>1. h \in DOMAIN AfterAlloc(WithEnv, size, EnvOwner, strategy)
        /\ Chain(AfterAlloc(WithEnv, size, EnvOwner, strategy))
    BY <1>2, <1>3, AllocTiles DEF Typed, EnvOwner, NoOwner
  <2> QED
    BY <2>1, ChainFacts
<1> HIDE DEF h, size
<1>5. h \in Nat /\ psp \in Segments /\ psp \in Nat \ {NoOwner} /\ psp - 1 = h
  BY <1>4, SegmentFacts
<1>6. /\ Chain(chain') /\ h \in DOMAIN chain' /\ h \notin Held(WithEnv)
      /\ chain'[h].own = psp /\ chain'[h].sz >= size /\ OthersStay(WithEnv, chain', h)
  BY <1>1, <1>2, <1>3, <1>5, AllocTiles DEF Typed, h
<1>7. IsLoaded(psp, chain')
  BY <1>2, <1>5, <1>6, ChainFacts, SegmentFacts DEF IsLoaded
<1>8. ASSUME NEW x \in Segments, IsLoaded(x, chain)
      PROVE  x # psp /\ IsLoaded(x, chain') /\ psp_parent'[x] = psp_parent[x]
  <2>1. IsLoaded(x, WithEnv)
    BY <1>8, WithEnvLoaded
  <2>2. x - 1 \in Held(WithEnv) /\ x \in Nat
    BY <2>1, LoadedHeld, SegmentFacts
  <2>3. x # psp /\ x - 1 # h
    BY <1>5, <1>6, <2>2
  <2>4. IsLoaded(x, chain')
    BY <1>6, <2>1, <2>3, LoadedHeld
  <2>5. x \notin psp .. psp + size - 1
    <3>1. /\ x - 1 \in DOMAIN chain' /\ x - 1 \in Nat
          /\ NextHeader(chain', h) = h + chain'[h].sz + 1 /\ chain'[h].sz \in Nat
      BY <1>6, <2>4, ChainFacts DEF IsLoaded
    <3>2. h < x - 1 => NextHeader(chain', h) <= x - 1
      BY <1>6, <3>1, ChainFacts
    <3> QED
      BY <1>2, <1>5, <1>6, <2>2, <2>3, <3>1, <3>2
  <2>6. psp_parent'[x] = psp_parent[x]
    BY <1>1, <2>3, <2>5 DEF LoadedOver
  <2> QED
    BY <2>3, <2>4, <2>6
<1> QED
  BY <1>1, <1>5, <1>7, <1>8

\* The two ends of a program, as far as they are the same.
LEMMA EnvFreedLoaded ==
  ASSUME NEW c, Chain(c), Top \in Program, ProcStands(Top, c), NEW x \in Segments, IsLoaded(x, c)
  PROVE  IsLoaded(x, EnvFreed(c))
<1>1. CASE Top.env = 0
  BY <1>1 DEF EnvFreed
<1>2. CASE Top.env # 0
  <2>1. Top.env \in Segments /\ Top.env \in Nat /\ x \in Nat /\ x # EnvOwner
    BY <1>2, ProcHeld, SegmentFacts
  <2>2. OthersStay(c, mcb_free(c, Top.env), Top.env - 1)
    BY <2>1, FreeTiles
  <2>3. x # Top.env
    BY <1>2, <2>1 DEF ProcStands, IsLoaded
  <2>4. IsLoaded(x, mcb_free(c, Top.env))
    BY <2>1, <2>2, <2>3, LoadedHeld
  <2> QED
    BY <1>2, <2>4 DEF EnvFreed
<1> QED
  BY <1>1, <1>2

\* A program that goes resident keeps its own block.
LEMMA StayKeepsLoaded ==
  ASSUME MInv, NEW keep \in Nat, StayResident(keep)
  PROVE  LoadedKept
<1> SUFFICES ASSUME NEW x \in Segments, IsLoaded(x, chain) PROVE IsLoaded(x, chain')
  BY DEF LoadedKept
<1> USE DEF MInv
<1> DEFINE paras == IF keep < PspSize THEN PspSize ELSE keep
           h == Top.psp - 1
           c == mcb_resize(chain, h, paras)
<1>1. Running /\ chain' = EnvFreed(c)
  BY DEF StayResident
<1>2. paras \in Nat /\ paras >= PspSize
  BY SegmentFacts
<1>3. Top \in Program /\ ProcStands(Top, chain) /\ h \in Held(chain)
  BY <1>1, TopFacts, ProcHeld
<1>4. /\ Chain(c) /\ OthersStay(chain, c, h) /\ h \in DOMAIN c /\ c[h].own = chain[h].own
      /\ c[h].sz = paras \/ c[h].sz = chain[h].sz
  BY <1>2, <1>3, ResizeTiles DEF Typed
<1>5. ProcStands(Top, c)
  BY <1>2, <1>3, ResizeStands DEF Typed
<1> HIDE DEF c, h
<1>6. IsLoaded(x, c)
  BY <1>2, <1>4, LoadedHeld DEF IsLoaded
<1> QED
  BY <1>1, <1>3, <1>4, <1>5, <1>6, EnvFreedLoaded

\* An exit takes away its own program and the programs whose parent it is.
LEMMA ExitKeepsLoaded ==
  ASSUME MInv, Exit, NEW x \in Segments, IsLoaded(x, chain), x # Top.psp, psp_parent[x] # Top.psp
  PROVE  IsLoaded(x, chain')
<1> USE DEF MInv
<1> DEFINE e == EnvFreed(chain)
           c == mcb_free(e, Top.psp)
           children == ChildBlocks(c, Top.psp)
<1>1. Running /\ chain' = Released(c, children)
  BY DEF Exit
<1>2. Top \in Program /\ ProcStands(Top, chain) /\ Top.psp \in Nat /\ x \in Nat
  BY <1>1, TopFacts, ProcHeld, SegmentFacts
<1>3. Chain(e) /\ Merged(e) /\ IsLoaded(x, e)
  BY <1>2, EnvFreedStands, EnvFreedLoaded DEF Typed
<1> HIDE DEF e
<1>4. Chain(c) /\ OthersStay(e, c, Top.psp - 1)
  BY <1>2, <1>3, FreeTiles
<1> HIDE DEF c
<1>5. IsLoaded(x, c)
  BY <1>2, <1>3, <1>4, LoadedHeld
<1>6. x - 1 \in Held(c) \ children
  BY <1>5, LoadedHeld DEF ChildBlocks, IsLoaded
<1>7. children \in SUBSET DOMAIN c
  BY DEF ChildBlocks
<1> HIDE DEF children
<1> QED
  BY <1>1, <1>4, <1>5, <1>6, <1>7, ReleasedTiles DEF IsLoaded

\* A step that keeps programs in memory and leaves vectors and programs alone.
LEMMA SameVectors ==
  ASSUME MInv, VInv, LoadedKept,
         UNCHANGED <<procs, psp_parent, ivt, ivt_snap, stale, dos_done>>
  PROVE  VInv'
<1>1. ASSUME VectorsKept PROVE VectorsKept'
  <2>1. \A v \in Vectors : ivt[v] = Bios \/ IsLoaded(ivt[v], chain')
    BY <1>1 DEF VectorsKept, LoadedKept, MInv, Typed
  <2> QED
    BY <1>1, <2>1 DEF VectorsKept, HookedIn, Resident
<1> QED
  BY <1>1 DEF VInv

\* The running program points a vector at itself, which it then knows, or
\* puts back what it found there, which is not its own.
LEMMA HooksKept ==
  ASSUME MInv, VInv, NEW v \in Vectors, Hook(v) \/ Unhook(v)
  PROVE  VInv'
<1> SUFFICES ASSUME ~ stale, ~ dos_done, VectorsKept PROVE VectorsKept'
  BY DEF VInv, Hook, Unhook
<1> USE DEF MInv
<1> DEFINE top == Len(procs)
<1>1. Running /\ UNCHANGED <<chain, psp_parent, ivt_snap>>
  BY DEF Hook, Unhook, memory
<1>2. /\ top \in 1 .. top /\ top \in Nat /\ procs \in Seq(Program) /\ Top = procs[top] /\ ProcStands(Top, chain)
      /\ cur_psp = Top.psp /\ cur_psp \in Segments /\ cur_psp # Bios
      /\ \A n \in 1 .. top : procs[n] \in Program /\ ProcStands(procs[n], chain)
  BY <1>1, TopFacts, SegmentFacts DEF Typed, Bios
<1>3. /\ Len(procs') = top
      /\ \A n \in 1 .. top : procs'[n].psp = procs[n].psp /\ procs'[n].found = procs[n].found
      /\ \A n \in 1 .. top : n # top => procs'[n] = procs[n]
      /\ \A w \in Vectors : w # v => (w \in procs'[top].hooks <=> w \in procs[top].hooks)
      /\ Hook(v) => v \in procs'[top].hooks
  BY <1>2 DEF Hook, Unhook, Program
<1>4. \A w \in Vectors : w # v => ivt'[w] = ivt[w]
  BY DEF Hook, Unhook, Typed
<1>5. \/ ivt'[v] = cur_psp /\ Hook(v)
      \/ ivt'[v] = Top.found[v] /\ Unhook(v)
  BY DEF Hook, Unhook, Typed
<1> HIDE DEF top
<1>6. \A n \in 1 .. top - 1 : n \in 1 .. top /\ n # top
  BY <1>2
<1>7. ASSUME NEW x, NEW w \in Vectors, NEW n \in 0 .. top, w # v \/ n < top \/ Hook(v)
      PROVE  HookedIn(procs, x, w, n) => HookedIn(procs', x, w, n)
  <2> SUFFICES ASSUME NEW j \in 1 .. n, procs[j].psp = x, w \in procs[j].hooks
               PROVE  \E i \in 1 .. n : procs'[i].psp = x /\ w \in procs'[i].hooks
    BY DEF HookedIn
  <2>1. j \in 1 .. top /\ (n < top => j # top)
    BY <1>2
  <2>2. procs'[j].psp = x
    BY <1>3, <2>1
  <2>3. w \in procs'[j].hooks
    BY <1>3, <1>7, <2>1
  <2> QED
    BY <2>2, <2>3
<1>8. HookedIn(procs, Top.found[v], v, top - 1)
  BY <1>2 DEF VectorsKept, top
<1>9. ivt'[v] = Bios \/ \E j \in 1 .. top : ivt'[v] = procs[j].psp /\ v \in procs'[j].hooks
  <2>1. CASE ivt'[v] = cur_psp /\ Hook(v)
    BY <1>2, <1>3, <2>1
  <2>2. CASE ivt'[v] = Top.found[v] /\ Unhook(v)
    BY <1>3, <1>6, <1>8, <2>2 DEF HookedIn
  <2> QED
    BY <1>5, <2>1, <2>2
<1>10. \A w \in Vectors : ivt'[w] = Bios \/ IsLoaded(ivt'[w], chain')
  <2>1. \A j \in 1 .. top : IsLoaded(procs[j].psp, chain)
    BY <1>2 DEF ProcStands, IsLoaded
  <2> QED
    BY <1>1, <1>4, <1>9, <2>1 DEF VectorsKept
<1>11. ASSUME NEW w \in Vectors, NEW n \in 1 .. Len(procs'), ivt'[w] = procs'[n].psp
       PROVE  w \in procs'[n].hooks
  <2>1. n \in 1 .. top /\ procs'[n].psp = procs[n].psp
    BY <1>3
  <2>2. CASE w # v
    <3>1. w \in procs[n].hooks
      BY <1>4, <1>11, <2>1, <2>2 DEF VectorsKept, top
    <3> QED
      BY <1>3, <2>1, <2>2, <3>1
  <2>3. CASE w = v
    <3>1. procs[n].psp # Bios
      BY <1>2, <2>1, SegmentFacts DEF Program, Bios
    <3>2. PICK j \in 1 .. top : ivt'[v] = procs[j].psp /\ v \in procs'[j].hooks
      BY <1>9, <1>11, <2>1, <2>3, <3>1
    <3>3. j = n
      BY <1>11, <2>1, <2>3, <3>2 DEF Stack, top
    <3> QED
      BY <2>3, <3>2, <3>3
  <2> QED
    BY <2>2, <2>3
<1>12. ASSUME NEW w \in Vectors, NEW n \in 1 .. Len(procs')
       PROVE  HookedIn(procs', procs'[n].found[w], w, n - 1)
  <2>1. n \in 1 .. top /\ n - 1 \in 0 .. top /\ n - 1 < top
    BY <1>2, <1>3
  <2>2. HookedIn(procs, procs[n].found[w], w, n - 1)
    BY <2>1 DEF VectorsKept, top
  <2>3. procs'[n].found[w] = procs[n].found[w]
    BY <1>3, <2>1
  <2> QED
    BY <1>7, <2>1, <2>2, <2>3
<1>13. ASSUME NEW w \in Vectors, NEW n \in 1 .. Len(procs'),
              Resident(ivt[w])', psp_parent'[ivt'[w]] = procs'[n].psp
       PROVE  HookedIn(procs', ivt_snap'[w], w, n)
  <2>1. w # v
    BY <1>3, <1>9, <1>13 DEF Resident
  <2>2. n \in 1 .. top /\ Resident(ivt[w]) /\ psp_parent[ivt[w]] = procs[n].psp
    BY <1>1, <1>3, <1>4, <1>13, <2>1 DEF Resident, top
  <2>3. HookedIn(procs, ivt_snap[w], w, n)
    BY <2>2 DEF VectorsKept, top
  <2>4. n \in 0 .. top /\ ivt_snap' = ivt_snap
    BY <1>1, <1>2, <2>2
  <2> QED
    BY <1>7, <2>1, <2>3, <2>4
<1> QED
  BY <1>10, <1>11, <1>12, <1>13 DEF VectorsKept

\* EXEC takes a snapshot of vectors that running programs hold or nobody does,
\* and the new program finds those.
LEMMA ExecVectors ==
  ASSUME MInv, VInv, NEW image \in Images, Exec(image)
  PROVE  VInv'
<1> SUFFICES ASSUME ~ stale', ~ dos_done, VectorsKept PROVE VectorsKept'
  BY DEF VInv, Exec
<1> USE DEF MInv
<1> DEFINE l == Len(procs)
<1>1. /\ cur_psp' \in Segments /\ IsLoaded(cur_psp', chain')
      /\ \A x \in Segments : IsLoaded(x, chain) =>
           x # cur_psp' /\ IsLoaded(x, chain') /\ psp_parent'[x] = psp_parent[x]
  BY ExecLoads
<1>2. /\ procs \in Seq(Program) /\ l \in Nat /\ DOMAIN procs = 1 .. l
      /\ \A n \in 1 .. l : procs[n] \in Program /\ ProcStands(procs[n], chain)
  BY StandsIsBoth DEF Typed
<1>3. \A v \in Vectors : ivt[v] = Bios \/ \E n \in 1 .. l : procs[n].psp = ivt[v]
  BY <1>2 DEF Exec
<1> DEFINE q == [psp |-> cur_psp', parent |-> cur_psp, env |-> EnvSeg, found |-> ivt, hooks |-> {}]
<1>4. procs' = Append(procs, q) /\ ivt' = ivt
  BY DEF Exec
<1>5. q.psp = cur_psp' /\ q.found = ivt /\ q.hooks = {}
  OBVIOUS
<1> HIDE DEF q
<1>6. /\ Len(procs') = l + 1
      /\ \A n \in 1 .. l : procs'[n] = procs[n]
      /\ procs'[l + 1] = q
  BY <1>2, <1>4
<1>7. \A n \in 1 .. Len(procs') : n \in 1 .. l \/ n = l + 1
  BY <1>2, <1>6
<1> HIDE DEF l
<1>8. \A n \in 1 .. l : IsLoaded(procs[n].psp, chain) /\ procs[n].psp \in Segments
  BY <1>2, ProcHeld DEF ProcStands, IsLoaded
<1>9. ASSUME NEW x, NEW v \in Vectors, NEW n \in 0 .. l
      PROVE  HookedIn(procs, x, v, n) => HookedIn(procs', x, v, n)
  <2>1. \A j \in 1 .. n : procs'[j] = procs[j]
    BY <1>2, <1>6
  <2> QED
    BY <2>1 DEF HookedIn
<1>10. ASSUME NEW v \in Vectors
       PROVE  HookedIn(procs', ivt[v], v, l)
  <2>1. ivt[v] = Bios \/ \E n \in 1 .. l : ivt[v] = procs[n].psp /\ v \in procs[n].hooks
    BY <1>3 DEF VectorsKept, l
  <2>2. HookedIn(procs, ivt[v], v, l)
    BY <2>1 DEF HookedIn
  <2> QED
    BY <1>2, <1>9, <2>2
<1>11. \A v \in Vectors : ivt'[v] = Bios \/ IsLoaded(ivt'[v], chain')
  BY <1>1, <1>3, <1>4, <1>8
<1>12. ASSUME NEW v \in Vectors, NEW n \in 1 .. Len(procs'), ivt'[v] = procs'[n].psp
       PROVE  v \in procs'[n].hooks
  <2>1. CASE n \in 1 .. l
    BY <1>4, <1>6, <1>12, <2>1 DEF VectorsKept, l
  <2>2. CASE n = l + 1
    <3>1. ivt[v] = cur_psp'
      BY <1>4, <1>5, <1>6, <1>12, <2>2
    <3> QED
      BY <1>1, <1>3, <1>8, <3>1, SegmentFacts DEF Bios
  <2> QED
    BY <1>7, <2>1, <2>2
<1>13. ASSUME NEW v \in Vectors, NEW n \in 1 .. Len(procs')
       PROVE  HookedIn(procs', procs'[n].found[v], v, n - 1)
  <2>1. CASE n \in 1 .. l
    <3>1. HookedIn(procs, procs[n].found[v], v, n - 1) /\ n - 1 \in 0 .. l
      BY <1>2, <2>1 DEF VectorsKept, l
    <3> QED
      BY <1>6, <1>9, <2>1, <3>1
  <2>2. CASE n = l + 1
    BY <1>2, <1>5, <1>6, <1>10, <2>2
  <2> QED
    BY <1>7, <2>1, <2>2
<1>14. ASSUME NEW v \in Vectors, Resident(ivt[v])'
       PROVE  FALSE
  <2>1. ivt[v] # Bios /\ \A n \in 1 .. Len(procs') : procs'[n].psp # ivt[v]
    BY <1>4, <1>14 DEF Resident
  <2>2. PICK n \in 1 .. l : procs[n].psp = ivt[v]
    BY <1>3, <2>1
  <2>3. n \in 1 .. Len(procs') /\ procs'[n] = procs[n]
    BY <1>2, <1>6
  <2> QED
    BY <2>1, <2>2, <2>3
<1> QED
  BY <1>11, <1>12, <1>13, <1>14 DEF VectorsKept

\* What is known of a vector does not depend on the program that ends, once it
\* is of programs below it.
LEMMA HookedBelowTop ==
  ASSUME MInv, Running, procs' = Below, cur_psp' = Top.parent, psp_parent' = psp_parent,
         NEW x, NEW v, NEW n \in 0 .. Len(procs), HookedIn(procs, x, v, n),
         n < Len(procs) \/ v \notin Top.hooks
  PROVE  HookedIn(procs', x, v, IF n < Len(procs) THEN n ELSE n - 1)
<1> DEFINE m == IF n < Len(procs) THEN n ELSE n - 1
<1>1. /\ Len(procs) \in Nat \ {0} /\ Top = procs[Len(procs)] /\ Len(procs') = Len(procs) - 1
      /\ \A j \in 1 .. Len(procs') : procs'[j] = procs[j]
  BY TopFacts, PopStack DEF MInv, Typed
<1>2. CASE x = Bios
  BY <1>2 DEF HookedIn
<1>3. ASSUME NEW j \in 1 .. n, procs[j].psp = x, v \in procs[j].hooks
      PROVE  HookedIn(procs', x, v, m)
  <2>1. j \in 1 .. m /\ j \in 1 .. Len(procs')
    <3>1. j # Len(procs) \/ n < Len(procs)
      BY <1>1, <1>3
    <3> QED
      BY <1>1, <3>1
  <2>2. procs'[j].psp = x /\ v \in procs'[j].hooks
    BY <1>1, <1>3, <2>1
  <2> HIDE DEF m
  <2> QED
    BY <2>1, <2>2 DEF HookedIn
<1> QED
  BY <1>2, <1>3 DEF HookedIn

\* A program that goes resident becomes a child of the one below, and what it
\* found is in the snapshot still.
LEMMA StayVectors ==
  ASSUME MInv, VInv, NEW keep \in Nat, StayResident(keep)
  PROVE  VInv'
<1> SUFFICES ASSUME ~ stale', ~ dos_done, VectorsKept PROVE VectorsKept'
  BY DEF VInv, StayResident
<1> USE DEF MInv
<1> DEFINE top == Len(procs)
<1>1. /\ Running /\ procs' = Below /\ cur_psp' = Top.parent
      /\ UNCHANGED <<psp_parent, ivt, ivt_snap>>
  BY DEF StayResident
<1>2. /\ top \in 1 .. top /\ top \in Nat /\ Top = procs[top] /\ cur_psp = Top.psp
      /\ \A n \in 1 .. top : procs[n] \in Program
  BY <1>1, TopFacts DEF Typed
<1>3. /\ Len(procs') = top - 1
      /\ \A n \in 1 .. Len(procs') : n \in 1 .. top /\ n < top /\ procs'[n] = procs[n]
  BY <1>1, <1>2, PopStack
<1>4. \A v \in Vectors : ivt[v] = cur_psp => ivt_snap[v] = Top.found[v]
  BY DEF StayResident
<1>5. \A v \in Vectors : ivt'[v] = Bios \/ IsLoaded(ivt'[v], chain')
  BY <1>1, StayKeepsLoaded DEF VectorsKept, LoadedKept, Typed
<1>6. \A x, v : \A n \in 0 .. top : HookedIn(procs, x, v, n) /\ n < top => HookedIn(procs', x, v, n)
  BY <1>1, HookedBelowTop
<1> HIDE DEF top
<1>7. \A v \in Vectors, n \in 1 .. Len(procs') : ivt'[v] = procs'[n].psp => v \in procs'[n].hooks
  BY <1>1, <1>3 DEF VectorsKept, top
<1>8. ASSUME NEW v \in Vectors, NEW n \in 1 .. Len(procs')
      PROVE  HookedIn(procs', procs'[n].found[v], v, n - 1)
  <2>1. HookedIn(procs, procs[n].found[v], v, n - 1)
    BY <1>3 DEF VectorsKept, top
  <2>2. n - 1 \in 0 .. top /\ n - 1 < top /\ procs'[n] = procs[n]
    BY <1>2, <1>3
  <2> QED
    BY <1>6, <2>1, <2>2
<1>9. ASSUME NEW v \in Vectors, NEW n \in 1 .. Len(procs'),
             Resident(ivt[v])', psp_parent'[ivt'[v]] = procs'[n].psp
      PROVE  HookedIn(procs', ivt_snap'[v], v, n)
  <2>1. /\ n \in 1 .. top /\ n < top /\ psp_parent[ivt[v]] = procs[n].psp
        /\ ivt[v] # Bios /\ \A m \in 1 .. Len(procs') : procs[m].psp # ivt[v]
    BY <1>1, <1>3, <1>9 DEF Resident
  <2>2. CASE ivt[v] = cur_psp
    <3>1. ivt_snap[v] = Top.found[v] /\ HookedIn(procs, Top.found[v], v, top - 1)
      BY <1>2, <1>4, <2>2 DEF VectorsKept, top
    <3>2. n = top - 1
      <4>1. psp_parent[procs[top].psp] = IF top = 1 THEN procs[top].psp ELSE procs[top - 1].psp
        BY <1>2 DEF Stack, top
      <4>2. top # 1 /\ top - 1 \in 1 .. top
        BY <1>2, <2>1
      <4>3. procs[top - 1].psp = procs[n].psp
        BY <1>2, <2>1, <2>2, <4>1, <4>2
      <4> QED
        BY <2>1, <4>2, <4>3 DEF Stack, top
    <3> QED
      BY <1>1, <1>2, <1>6, <2>1, <3>1, <3>2
  <2>3. CASE ivt[v] # cur_psp
    <3>1. \A m \in 1 .. top : m = top \/ m \in 1 .. Len(procs')
      BY <1>2, <1>3
    <3>2. Resident(ivt[v])
      BY <1>2, <2>1, <2>3, <3>1 DEF Resident, top
    <3>3. HookedIn(procs, ivt_snap[v], v, n)
      BY <2>1, <3>2 DEF VectorsKept, top
    <3> QED
      BY <1>1, <1>2, <1>6, <2>1, <3>3
  <2> QED
    BY <2>2, <2>3
<1> QED
  BY <1>5, <1>7, <1>8, <1>9 DEF VectorsKept

\* Of two blocks, only its own holds the segment of a program's PSP.
LEMMA InOwnBlock ==
  ASSUME NEW c, Chain(c), NEW x \in Segments, IsLoaded(x, c), NEW h \in DOMAIN c
  PROVE  x \in h + 1 .. h + c[h].sz <=> h = x - 1
<1> DEFINE g == x - 1
<1>1. /\ x \in Nat /\ g \in Nat /\ h \in Nat /\ g \in DOMAIN c
      /\ c[g].sz \in Nat /\ c[h].sz \in Nat /\ c[g].sz >= 1
      /\ NextHeader(c, h) = h + c[h].sz + 1
  BY ChainFacts, SegmentFacts DEF IsLoaded
<1>2. CASE h < g
  <2>1. NextHeader(c, h) <= g
    BY <1>1, <1>2, ChainFacts
  <2> QED
    BY <1>1, <1>2, <2>1
<1>3. CASE g < h
  BY <1>1, <1>3
<1>4. CASE g = h
  BY <1>1, <1>4
<1> QED
  BY <1>1, <1>2, <1>3, <1>4

\* Memory names no program below the one that runs as its child.
LEMMA BelowIsNoChild ==
  ASSUME MInv, Running, NEW n \in 1 .. Len(procs), n # Len(procs)
  PROVE  procs[n].psp # Top.psp /\ psp_parent[procs[n].psp] # Top.psp
<1> USE DEF MInv
<1>1. Len(procs) \in 1 .. Len(procs) /\ Top = procs[Len(procs)]
  BY TopFacts
<1>2. procs[n].psp # Top.psp
  BY <1>1 DEF Stack
<1>3. CASE n = 1
  BY <1>2, <1>3 DEF Stack
<1>4. CASE n # 1
  <2>1. n - 1 \in 1 .. Len(procs) /\ n - 1 # Len(procs)
    BY <1>4
  <2> QED
    BY <1>1, <1>2, <1>4, <2>1 DEF Stack
<1> QED
  BY <1>2, <1>3, <1>4

\* What an exit does to a vector: one that a resident child holds goes back to
\* what is in the snapshot, and any other stays with its program.
LEMMA ExitUnhooks ==
  ASSUME MInv, VectorsKept, Exit, NEW v \in Vectors
  PROVE  \/ ivt'[v] = ivt[v] /\ ivt[v] = Bios
         \/ /\ ivt'[v] = ivt[v] /\ IsLoaded(ivt[v], chain') /\ ivt[v] # Top.psp
         \/ /\ ivt'[v] = ivt_snap[v]
            /\ HookedIn(procs', ivt_snap[v], v, Len(procs) - 1)
<1> USE DEF MInv
<1> DEFINE e == EnvFreed(chain)
           c == mcb_free(e, Top.psp)
           children == ChildBlocks(c, Top.psp)
           x == ivt[v]
           top == Len(procs)
<1>1. /\ Running /\ procs' = Below /\ cur_psp' = Top.parent /\ psp_parent' = psp_parent
      /\ Top.hooks = {} /\ ivt' = Unhooked(c, children)
  BY DEF Exit
<1>2. /\ Top \in Program /\ ProcStands(Top, chain) /\ Top.psp \in Nat
      /\ Top = procs[top] /\ top \in 1 .. top
  BY <1>1, TopFacts, ProcHeld, SegmentFacts
<1>3. Chain(e)
  BY <1>2, EnvFreedStands DEF Typed
<1>4. x \in Segments => (IsLoaded(x, chain) => IsLoaded(x, e))
  BY <1>2, EnvFreedLoaded DEF Typed
<1> HIDE DEF e
<1>5. Chain(c) /\ OthersStay(e, c, Top.psp - 1)
  BY <1>2, <1>3, FreeTiles
<1>6. children \subseteq DOMAIN c
  BY DEF ChildBlocks
<1> HIDE DEF c
<1>7. ivt'[v] = IF \E h \in children : x \in h + 1 .. h + c[h].sz THEN ivt_snap[v] ELSE x
  BY <1>1 DEF Unhooked
<1>8. CASE x = Bios
  <2>1. \A h \in children : x \notin h + 1 .. h + c[h].sz
    BY <1>5, <1>6, <1>8, ChainFacts DEF Bios
  <2> QED
    BY <1>7, <1>8, <2>1
<1>9. CASE x # Bios
  <2>1. x \in Segments /\ x \in Nat /\ IsLoaded(x, chain)
    BY <1>9, SegmentFacts DEF VectorsKept, Typed
  <2>2. x # Top.psp
    BY <1>1, <1>2 DEF VectorsKept
  <2>3. IsLoaded(x, c)
    BY <1>2, <1>4, <1>5, <2>1, <2>2, LoadedHeld
  <2>4. x - 1 \in children <=> psp_parent[x] = Top.psp
    BY <2>1, <2>2, <2>3, SegmentFacts DEF ChildBlocks, IsLoaded
  <2>5. (\E h \in children : x \in h + 1 .. h + c[h].sz) <=> x - 1 \in children
    BY <1>5, <1>6, <2>1, <2>3, InOwnBlock
  <2>6. CASE psp_parent[x] # Top.psp
    <3>1. IsLoaded(x, chain')
      BY <2>1, <2>2, <2>6, ExitKeepsLoaded
    <3> QED
      BY <1>7, <2>2, <2>4, <2>5, <2>6, <3>1
  <2>7. CASE psp_parent[x] = Top.psp
    <3>1. \A n \in 1 .. top : procs[n].psp # x
      BY <1>1, <1>2, <2>2, <2>7, BelowIsNoChild
    <3>2. Resident(x)
      BY <1>9, <3>1 DEF Resident
    <3>3. HookedIn(procs, ivt_snap[v], v, top)
      BY <1>2, <2>7, <3>2 DEF VectorsKept
    <3>4. top \in 0 .. top /\ ~ (top < top) /\ v \notin Top.hooks
      BY <1>1, <1>2
    <3>5. HookedIn(procs', ivt_snap[v], v, IF top < top THEN top ELSE top - 1)
      BY <1>1, <3>3, <3>4, HookedBelowTop
    <3> QED
      BY <1>7, <2>4, <2>5, <2>7, <3>4, <3>5
  <2> QED
    BY <2>6, <2>7
<1> QED
  BY <1>8, <1>9

\* An exit takes the vectors of the programs it removes back to programs that
\* run, which keep them.
LEMMA ExitVectors ==
  ASSUME MInv, VInv, Exit
  PROVE  VInv'
<1> SUFFICES ASSUME ~ stale, VectorsKept PROVE VectorsKept'
  BY DEF VInv, Exit, Running
<1> USE DEF MInv
<1> DEFINE top == Len(procs)
<1>1. /\ Running /\ procs' = Below /\ cur_psp' = Top.parent
      /\ UNCHANGED <<psp_parent, ivt_snap>> /\ psp_parent' = psp_parent
  BY DEF Exit
<1>2. /\ top \in 1 .. top /\ top \in Nat /\ Top = procs[top]
      /\ \A n \in 1 .. top : procs[n] \in Program /\ ProcStands(procs[n], chain)
  BY <1>1, TopFacts DEF Typed
<1>3. /\ Len(procs') = top - 1
      /\ \A n \in 1 .. Len(procs') : n \in 1 .. top /\ n < top /\ procs'[n] = procs[n]
  BY <1>1, <1>2, PopStack
<1>4. \A x, v : \A n \in 0 .. top : HookedIn(procs, x, v, n) /\ n < top => HookedIn(procs', x, v, n)
  BY <1>1, HookedBelowTop
<1>5. ASSUME NEW n \in 1 .. Len(procs')
      PROVE  procs'[n].psp # Bios /\ IsLoaded(procs'[n].psp, chain')
  <2>1. /\ n \in 1 .. top /\ n # top /\ procs'[n] = procs[n]
        /\ procs[n] \in Program /\ ProcStands(procs[n], chain)
    BY <1>2, <1>3
  <2>2. procs[n].psp \in Segments /\ procs[n].psp # Bios
    BY <2>1, ProcHeld, SegmentFacts DEF Bios
  <2>3. IsLoaded(procs[n].psp, chain)
    BY <2>1 DEF ProcStands, IsLoaded
  <2>4. procs[n].psp # Top.psp /\ psp_parent[procs[n].psp] # Top.psp
    BY <1>1, <2>1, BelowIsNoChild
  <2> QED
    BY <2>1, <2>2, <2>3, <2>4, ExitKeepsLoaded
<1>6. \A v \in Vectors :
        \/ ivt'[v] = ivt[v] /\ ivt[v] = Bios
        \/ /\ ivt'[v] = ivt[v] /\ IsLoaded(ivt[v], chain') /\ ivt[v] # Top.psp
        \/ /\ ivt'[v] = ivt_snap[v]
           /\ HookedIn(procs', ivt_snap[v], v, top - 1)
  BY ExitUnhooks
<1> HIDE DEF top
<1>7. \A v \in Vectors : ivt'[v] = Bios \/ IsLoaded(ivt'[v], chain')
  <2> SUFFICES ASSUME NEW v \in Vectors, ivt'[v] # Bios, HookedIn(procs', ivt'[v], v, top - 1)
               PROVE  IsLoaded(ivt'[v], chain')
    BY <1>6
  <2>1. PICK j \in 1 .. Len(procs') : procs'[j].psp = ivt'[v]
    BY <1>3 DEF HookedIn
  <2> QED
    BY <1>5, <2>1
<1>8. ASSUME NEW v \in Vectors, NEW n \in 1 .. Len(procs'), ivt'[v] = procs'[n].psp
      PROVE  v \in procs'[n].hooks
  <2>1. n \in 1 .. top /\ procs'[n] = procs[n] /\ ivt'[v] # Bios
    BY <1>3, <1>5, <1>8
  <2>2. CASE ivt'[v] = ivt[v]
    BY <1>8, <2>1, <2>2 DEF VectorsKept, top
  <2>3. CASE HookedIn(procs', ivt'[v], v, top - 1)
    <3>1. PICK j \in 1 .. Len(procs') : procs'[j].psp = ivt'[v] /\ v \in procs'[j].hooks
      BY <1>3, <2>1, <2>3 DEF HookedIn
    <3>2. j \in 1 .. top /\ procs[j].psp = procs[n].psp
      BY <1>3, <1>8, <2>1, <3>1
    <3>3. j = n
      BY <2>1, <3>2 DEF Stack, top
    <3> QED
      BY <3>1, <3>3
  <2> QED
    BY <1>6, <2>2, <2>3
<1>9. ASSUME NEW v \in Vectors, NEW n \in 1 .. Len(procs')
      PROVE  HookedIn(procs', procs'[n].found[v], v, n - 1)
  <2>1. HookedIn(procs, procs[n].found[v], v, n - 1)
    BY <1>3 DEF VectorsKept, top
  <2>2. n - 1 \in 0 .. top /\ n - 1 < top /\ procs'[n] = procs[n]
    BY <1>2, <1>3
  <2> QED
    BY <1>4, <2>1, <2>2
<1>10. ASSUME NEW v \in Vectors, NEW n \in 1 .. Len(procs'),
              Resident(ivt[v])', psp_parent'[ivt'[v]] = procs'[n].psp
       PROVE  HookedIn(procs', ivt_snap'[v], v, n)
  <2>1. /\ n \in 1 .. top /\ n < top /\ procs'[n] = procs[n]
        /\ ivt'[v] # Bios /\ \A m \in 1 .. Len(procs') : procs'[m].psp # ivt'[v]
    BY <1>3, <1>10 DEF Resident
  <2>2. ~ HookedIn(procs', ivt'[v], v, top - 1)
    BY <1>3, <2>1 DEF HookedIn
  <2>3. ivt'[v] = ivt[v] /\ ivt[v] # Top.psp
    BY <1>6, <2>1, <2>2
  <2>4. \A m \in 1 .. top : m = top \/ m \in 1 .. Len(procs')
    BY <1>2, <1>3
  <2>5. Resident(ivt[v])
    BY <1>2, <1>3, <2>1, <2>3, <2>4 DEF Resident, top
  <2>6. HookedIn(procs, ivt_snap[v], v, n)
    BY <1>1, <1>10, <2>1, <2>3, <2>5 DEF VectorsKept, top
  <2> QED
    BY <1>1, <1>2, <1>4, <2>1, <2>6
<1> QED
  BY <1>7, <1>8, <1>9, <1>10 DEF VectorsKept

\* The invariant of the vectors holds in every reachable state.
LEMMA VInvAlways == Spec => []VInv
<1>1. Init => VInv
  <2> SUFFICES ASSUME Init PROVE VectorsKept
    BY DEF VInv
  <2>1. Len(procs) = 0 /\ \A v \in Vectors : ivt[v] = Bios
    BY DEF Init
  <2> QED
    BY <2>1 DEF VectorsKept, Resident
<1>2. MInv /\ VInv /\ [Next]_vars => VInv'
  <2> SUFFICES ASSUME MInv, VInv, [Next]_vars PROVE VInv'
    OBVIOUS
  <2>1. CASE Exit
    BY <2>1, ExitVectors
  <2>2. ASSUME UNCHANGED <<chain, procs, psp_parent, ivt, ivt_snap, stale, dos_done>>
        PROVE  VInv'
    BY <2>2, SameVectors DEF LoadedKept
  <2>3. CASE Done \/ UNCHANGED vars
    BY <2>2, <2>3 DEF Done, vars, memory
  <2>4. ASSUME NEW s, SetStrategy(s) PROVE VInv'
    BY <2>2, <2>4 DEF SetStrategy
  <2>5. ASSUME NEW paras \in Sizes, Alloc(paras) PROVE VInv'
    <3>1. LoadedKept
      BY <2>5, CallsKeepLoaded, SegmentFacts
    <3> QED
      BY <2>5, <3>1, SameVectors DEF Alloc
  <2>6. ASSUME NEW b \in given, FreeBlock(b) PROVE VInv'
    <3>1. LoadedKept
      BY <2>6, CallsKeepLoaded
    <3> QED
      BY <2>6, <3>1, SameVectors DEF FreeBlock
  <2>7. ASSUME NEW seg, NEW paras \in Sizes, Resize(seg, paras) PROVE VInv'
    <3>1. LoadedKept
      BY <2>7, CallsKeepLoaded, SegmentFacts
    <3> QED
      BY <2>7, <3>1, SameVectors DEF Resize
  <2>8. ASSUME NEW image \in Images, ExecFails(image) PROVE VInv'
    <3>1. LoadedKept
      BY <2>8, CallsKeepLoaded
    <3> QED
      BY <2>8, <3>1, SameVectors DEF ExecFails
  <2>9. ASSUME NEW paras \in Sizes, StayResident(paras) PROVE VInv'
    BY <2>9, StayVectors, SegmentFacts
  <2>10. ASSUME NEW v \in Vectors, Hook(v) \/ Unhook(v) PROVE VInv'
    BY <2>10, HooksKept
  <2>11. ASSUME NEW image \in Images, Exec(image) PROVE VInv'
    BY <2>11, ExecVectors
  <2> QED
    BY <2>1, <2>3, <2>4, <2>5, <2>6, <2>7, <2>8, <2>9, <2>10, <2>11 DEF Next
<1> QED
  BY <1>1, <1>2, MInvAlways, PTL DEF Spec

\* No vector points into memory whose program is gone, whatever is EXEC'd,
\* stays resident or is released, as long as the snapshot has what the drivers
\* that hold vectors found (ivt_unhook_range, dos_exec's snapshot).
THEOREM NoDangling == Spec => []NoDanglingVector
<1>1. MInv /\ VInv => NoDanglingVector
  BY LoadedIs DEF MInv, Typed, VInv, VectorsKept, NoDanglingVector, IsLoaded
<1> QED
  BY <1>1, MInvAlways, VInvAlways, PTL

-----------------------------------------------------------------------------
(***************************************************************************)
(* What the calls do to the blocks in use, to the last one.                *)
(***************************************************************************)
\* Every block in use belongs to a program or is an environment.
Owners == \A h \in Held(chain) : chain[h].own \in Segments \cup {EnvOwner}

\* mcb_free frees its block, if it is one, and nothing else.
LEMMA FreeExact ==
  ASSUME NEW c, Chain(c), NEW seg \in Nat
  PROVE  LET d == mcb_free(c, seg)
         IN  Held(d) = Held(c) \ {seg - 1} /\ \A h \in Held(d) : d[h] = c[h]
<1> DEFINE d == mcb_free(c, seg)
<1>1. Held(d) \subseteq Held(c) \ {seg - 1}
  BY FreeHolds
<1>2. OthersStay(c, d, seg - 1)
  BY FreeTiles
<1> HIDE DEF d
<1>3. \A h \in Held(c) \ {seg - 1} : h \in Held(d) /\ d[h] = c[h]
  BY <1>2 DEF OthersStay, Held, Free
<1> QED
  BY <1>1, <1>3 DEF d

\* mcb_free_children frees the blocks it picks, and nothing else.
LEMMA ReleasedExact ==
  ASSUME NEW c, Chain(c), NEW headers \in SUBSET DOMAIN c
  PROVE  LET d == Released(c, headers)
         IN  Held(d) = Held(c) \ headers /\ \A h \in Held(d) : d[h] = c[h]
<1> DEFINE d == Released(c, headers)
           e == [h \in DOMAIN c |-> IF h \in headers THEN [c[h] EXCEPT !.own = NoOwner] ELSE c[h]]
<1>1. Held(e) \subseteq Held(c) \ headers
  BY ChainFacts DEF Held, Free, NoOwner
<1>2. d = mcb_coalesce(e)
  BY DEF Released
<1> HIDE DEF e
<1>3. Held(d) \subseteq Held(c) \ headers
  BY <1>1, <1>2, CoalesceHolds
<1>4. \A h \in Held(c) \ headers : h \in DOMAIN d /\ d[h] = c[h]
  BY ReleasedTiles
<1> HIDE DEF d
<1>5. \A h \in Held(c) \ headers : h \in Held(d)
  BY <1>4 DEF Held, Free
<1> QED
  BY <1>3, <1>4, <1>5 DEF d

\* A program's end frees its environment, if it has one.
LEMMA EnvFreedExact ==
  ASSUME NEW c, Chain(c), Top \in Program
  PROVE  LET d == EnvFreed(c)
         IN  /\ Held(d) = {h \in Held(c) : h + 1 # Top.env}
             /\ \A h \in Held(d) : d[h] = c[h]
<1>1. \A h \in Held(c) : h \in Nat /\ h + 1 # 0
  BY ChainFacts DEF Held
<1>2. CASE Top.env = 0
  BY <1>1, <1>2 DEF EnvFreed
<1>3. CASE Top.env # 0
  <2>1. Top.env \in Nat
    BY <1>3, SegmentFacts DEF Program
  <2>2. EnvFreed(c) = mcb_free(c, Top.env)
    BY <1>3 DEF EnvFreed
  <2>3. \A h \in Held(c) : h = Top.env - 1 <=> h + 1 = Top.env
    BY <1>1, <2>1
  <2> QED
    BY <2>1, <2>2, <2>3, FreeExact
<1> QED
  BY <1>2, <1>3

\* The memory calls of the running program take or free one block, which is
\* its own before and after, and a block that it gets it is given.
LEMMA CallsTouchOne ==
  ASSUME MInv,
         \/ \E paras \in Nat : Alloc(paras)
         \/ \E b \in given : FreeBlock(b)
         \/ \E seg, paras : paras \in Nat /\ Resize(seg, paras)
  PROVE  \E g \in Nat :
           /\ g \in Held(chain) => chain[g].own = cur_psp
           /\ OthersStay(chain, chain', g)
           /\ Held(chain') \subseteq Held(chain) \cup {g}
           /\ g \in Held(chain') =>
                /\ chain'[g].own = cur_psp
                /\ g + 1 = cur_psp \/ [seg |-> g + 1, psp |-> cur_psp] \in given'
           /\ \A b \in given : b.seg # g + 1 => b \in given'
<1> USE DEF MInv
<1>1. ASSUME NEW paras \in Nat, Alloc(paras), Fitting(chain, paras) # {}
      PROVE  \E g \in Nat :
           /\ g \in Held(chain) => chain[g].own = cur_psp
           /\ OthersStay(chain, chain', g)
           /\ Held(chain') \subseteq Held(chain) \cup {g}
           /\ g \in Held(chain') =>
                /\ chain'[g].own = cur_psp
                /\ [seg |-> g + 1, psp |-> cur_psp] \in given'
           /\ given \subseteq given'
  <2> DEFINE g == AllocHeader(chain, paras, strategy)
  <2>1. /\ cur_psp \in Nat \ {NoOwner} /\ strategy \in 0 .. 2 /\ Chain(chain)
        /\ chain' = AfterAlloc(chain, paras, cur_psp, strategy)
        /\ given' = given \cup {[seg |-> g + 1, psp |-> cur_psp]}
    BY <1>1, TopFacts, SegmentFacts DEF Alloc, Typed
  <2>2. /\ g \notin Held(chain) /\ OthersStay(chain, chain', g) /\ chain'[g].own = cur_psp
        /\ Chain(chain') /\ g \in DOMAIN chain'
    BY <1>1, <2>1, AllocTiles
  <2>3. Held(chain') \subseteq Held(chain) \cup {g}
    BY <1>1, <2>1, AllocHolds
  <2> HIDE DEF g
  <2>4. g \in Nat
    BY <2>2, ChainFacts
  <2> QED
    BY <2>1, <2>2, <2>3, <2>4
<1>2. ASSUME NEW paras \in Nat, Alloc(paras), Fitting(chain, paras) = {}
      PROVE  chain' = chain /\ given' = given /\ MEM_LAST \in Nat /\ MEM_LAST \notin DOMAIN chain
  BY <1>2, ChainFacts DEF Alloc, Typed
<1>3. ASSUME NEW b \in given, FreeBlock(b)
      PROVE  LET g == b.seg - 1 IN
           /\ g \in Nat /\ chain[g].own = cur_psp
           /\ OthersStay(chain, chain', g)
           /\ Held(chain') \subseteq Held(chain) \ {g}
           /\ \A a \in given : a.seg # g + 1 => a \in given'
  <2>1. Running /\ chain' = mcb_free(chain, b.seg) /\ given' = given \ {b} /\ b.psp = cur_psp
    BY <1>3 DEF FreeBlock
  <2>2. b \in Block /\ BlockStands(b, chain)
    BY <2>1, TopFacts
  <2>3. b.seg \in Nat /\ b.seg - 1 \in Nat
    BY <2>2, BlockHeld, SegmentFacts
  <2>4. OthersStay(chain, chain', b.seg - 1) /\ Held(chain') \subseteq Held(chain) \ {b.seg - 1}
    BY <2>1, <2>3, FreeTiles, FreeHolds DEF Typed
  <2> QED
    BY <2>1, <2>2, <2>3, <2>4 DEF BlockStands
<1>4. ASSUME NEW seg, NEW paras \in Nat, Resize(seg, paras)
      PROVE  LET g == seg - 1 IN
           /\ g \in Nat /\ chain[g].own = cur_psp
           /\ OthersStay(chain, chain', g)
           /\ Held(chain') \subseteq Held(chain)
           /\ chain'[g].own = cur_psp
           /\ g + 1 = cur_psp \/ [seg |-> g + 1, psp |-> cur_psp] \in given
           /\ given' = given
  <2> DEFINE g == seg - 1
  <2>1. Running /\ chain' = mcb_resize(chain, g, paras) /\ given' = given
    BY <1>4 DEF Resize
  <2>2. g \in Held(chain) /\ chain[g].own = cur_psp /\ seg \in Nat
    <3>1. CASE seg = cur_psp
      BY <2>1, <3>1, TopFacts, ProcHeld, SegmentFacts DEF ProcStands
    <3>2. CASE [seg |-> seg, psp |-> cur_psp] \in given
      <4> DEFINE b == [seg |-> seg, psp |-> cur_psp]
      <4>1. b \in Block /\ BlockStands(b, chain)
        BY <2>1, <3>2, TopFacts
      <4>2. b.seg = seg /\ b.psp = cur_psp
        OBVIOUS
      <4> HIDE DEF b
      <4> QED
        BY <4>1, <4>2, BlockHeld, SegmentFacts DEF BlockStands
    <3> QED
      BY <1>4, <3>1, <3>2 DEF Resize
  <2>3. g + 1 = seg /\ g \in Nat
    BY <2>2, ChainFacts DEF Typed, Held
  <2>4. g + 1 = cur_psp \/ [seg |-> g + 1, psp |-> cur_psp] \in given
    BY <1>4, <2>3 DEF Resize
  <2> HIDE DEF g
  <2>5. /\ OthersStay(chain, chain', g) /\ chain'[g].own = chain[g].own
        /\ Held(chain') \subseteq Held(chain)
    BY <2>1, <2>2, ResizeTiles, ResizeHolds DEF Typed
  <2> QED
    BY <2>1, <2>2, <2>3, <2>4, <2>5 DEF g
<1> QED
  BY <1>1, <1>2, <1>3, <1>4 DEF OthersStay, Held

\* EXEC takes the environment's block and the program's, which were free.
LEMMA ExecTakesTwo ==
  ASSUME MInv, NEW image \in Images, Exec(image)
  PROVE  LET g == cur_psp' - 1 IN
         /\ g \notin Held(chain) /\ chain'[g].own = cur_psp'
         /\ \A h \in Held(chain) : h \in Held(chain') /\ chain'[h] = chain[h] /\ h + 1 # EnvSeg
         /\ \A h \in Held(chain') :
              \/ h \in Held(chain)
              \/ h = g
              \/ h + 1 = EnvSeg /\ h # g /\ chain'[h].own = EnvOwner
<1> USE DEF MInv
<1> DEFINE size == Granted(image)
           g == AllocHeader(WithEnv, size, strategy)
           psp == g + 1
           f == AllocHeader(chain, EnvSize, strategy)
<1>1. Loads(image) /\ chain' = AfterAlloc(WithEnv, size, psp, strategy) /\ cur_psp' = psp
  BY DEF Exec, LoadedPsp
<1>2. size \in Nat /\ Fitting(WithEnv, size) # {}
  BY <1>1, GrantedFacts
<1>3. Chain(WithEnv) /\ Chain(chain) /\ strategy \in 0 .. 2
  BY WithEnvStands DEF Typed
<1>4. /\ \A h \in Held(chain) : h \in Held(WithEnv) /\ WithEnv[h] = chain[h] /\ h + 1 # EnvSeg
      /\ \A h \in Held(WithEnv) : h \in Held(chain) \/ (h + 1 = EnvSeg /\ WithEnv[h].own = EnvOwner)
  <2>1. \A h \in Held(chain) : h \in Nat
    BY <1>3, ChainFacts DEF Held
  <2>2. CASE ~ EnvFits
    BY <2>1, <2>2 DEF WithEnv, EnvSeg
  <2>3. CASE EnvFits
    <3> DEFINE d == AfterAlloc(chain, EnvSize, EnvOwner, strategy)
    <3>1. EnvSize \in Nat /\ EnvOwner \in Nat \ {NoOwner}
      BY SegmentFacts DEF EnvOwner, NoOwner
    <3>2. f \in DOMAIN d /\ f \notin Held(chain) /\ d[f].own = EnvOwner /\ OthersStay(chain, d, f) /\ Chain(d)
      BY <1>3, <2>3, <3>1, AllocTiles DEF EnvFits
    <3>3. Held(d) \subseteq Held(chain) \cup {f}
      BY <1>3, <2>3, <3>1, AllocHolds DEF EnvFits
    <3>4. WithEnv = d /\ EnvSeg = f + 1
      BY <2>3 DEF WithEnv, EnvSeg
    <3>5. f \in Nat
      BY <3>2, ChainFacts
    <3> HIDE DEF d, f
    <3>6. \A h \in Held(chain) : h # f /\ h + 1 # f + 1
      BY <2>1, <3>2, <3>5
    <3> QED
      BY <3>2, <3>3, <3>4, <3>6 DEF OthersStay, Held, Free
  <2> QED
    BY <2>2, <2>3
<1>5. g \in MEM_FIRST .. MEM_LAST - 1
  <2>1. g \in DOMAIN AfterAlloc(WithEnv, size, EnvOwner, strategy)
        /\ Chain(AfterAlloc(WithEnv, size, EnvOwner, strategy))
    BY <1>2, <1>3, AllocTiles DEF EnvOwner, NoOwner
  <2> QED
    BY <2>1, ChainFacts
<1> HIDE DEF g, size
<1>6. g \in Nat /\ psp \in Nat \ {NoOwner} /\ psp - 1 = g
  BY <1>5, SegmentFacts
<1>7. g \notin Held(WithEnv) /\ chain'[g].own = psp /\ OthersStay(WithEnv, chain', g)
  BY <1>1, <1>2, <1>3, <1>6, AllocTiles DEF g
<1>8. Held(chain') \subseteq Held(WithEnv) \cup {g}
  BY <1>1, <1>2, <1>3, <1>6, AllocHolds DEF g
<1>9. \A h \in Held(WithEnv) : h \in Held(chain') /\ chain'[h] = WithEnv[h] /\ h # g
  BY <1>7 DEF OthersStay, Held, Free
<1> QED
  BY <1>1, <1>4, <1>6, <1>7, <1>8, <1>9

\* Whether a block belongs to a program whose parent is the one that runs.
ChildBlock(h) ==
  chain[h].own \notin {EnvOwner, Top.psp} /\ psp_parent[chain[h].own] = Top.psp

\* An exit frees the program's block, its environment and its resident
\* children's blocks, and nothing else.
LEMMA ExitFrees ==
  ASSUME MInv, Exit
  PROVE  /\ \A h \in Held(chain) :
              h \in Held(chain') <=> h + 1 # Top.psp /\ h + 1 # Top.env /\ ~ ChildBlock(h)
         /\ \A h \in Held(chain') : h \in Held(chain) /\ chain'[h] = chain[h]
         /\ \A b \in given : b.psp # Top.psp /\ b.seg - 1 \in Held(chain') => b \in given'
<1> USE DEF MInv
<1> DEFINE e == EnvFreed(chain)
           c == mcb_free(e, Top.psp)
           children == ChildBlocks(c, Top.psp)
<1>1. /\ Running /\ chain' = Released(c, children)
      /\ given' = {b \in given : b.psp # Top.psp /\ b.seg - 1 \notin children}
  BY DEF Exit
<1>2. Top \in Program /\ ProcStands(Top, chain) /\ Top.psp \in Nat /\ Chain(chain)
  BY <1>1, TopFacts, ProcHeld, SegmentFacts DEF Typed
<1>3. Chain(e) /\ Held(e) = {h \in Held(chain) : h + 1 # Top.env} /\ \A h \in Held(e) : e[h] = chain[h]
  BY <1>2, EnvFreedStands, EnvFreedExact
<1> HIDE DEF e
<1>4. Chain(c) /\ Held(c) = Held(e) \ {Top.psp - 1} /\ \A h \in Held(c) : c[h] = e[h]
  BY <1>2, <1>3, FreeTiles, FreeExact
<1> HIDE DEF c
<1>5. children \in SUBSET DOMAIN c
  BY DEF ChildBlocks
<1>6. \A h \in Held(c) : h \in children <=> ChildBlock(h)
  BY <1>3, <1>4 DEF ChildBlocks, ChildBlock, Held, Free
<1> HIDE DEF children
<1>7. Held(chain') = Held(c) \ children /\ \A h \in Held(chain') : chain'[h] = c[h]
  BY <1>1, <1>4, <1>5, ReleasedExact
<1>8. \A h \in Held(chain) : h = Top.psp - 1 <=> h + 1 = Top.psp
  BY <1>2, ChainFacts DEF Held
<1> QED
  BY <1>1, <1>3, <1>4, <1>6, <1>7, <1>8

\* Going resident frees the environment and nothing else; the program's block
\* stays its own.
LEMMA StayFrees ==
  ASSUME MInv, NEW keep \in Nat, StayResident(keep)
  PROVE  /\ \A h \in Held(chain) :
              h + 1 # Top.env => h \in Held(chain') /\ (h + 1 # Top.psp => chain'[h] = chain[h])
         /\ \A h \in Held(chain') :
              h \in Held(chain) /\ h + 1 # Top.env /\ chain'[h].own = chain[h].own
<1> USE DEF MInv
<1> DEFINE paras == IF keep < PspSize THEN PspSize ELSE keep
           g == Top.psp - 1
           c == mcb_resize(chain, g, paras)
<1>1. Running /\ chain' = EnvFreed(c)
  BY DEF StayResident
<1>2. paras \in Nat
  BY SegmentFacts
<1>3. Top \in Program /\ ProcStands(Top, chain) /\ g \in Held(chain) /\ Top.psp \in Nat
  BY <1>1, TopFacts, ProcHeld, SegmentFacts
<1>4. Chain(chain) /\ \A h \in Held(chain) : h \in Nat /\ (h = g <=> h + 1 = Top.psp)
  BY <1>3, ChainFacts DEF Typed, Held
<1> HIDE DEF g
<1>5. /\ Chain(c) /\ OthersStay(chain, c, g) /\ g \in DOMAIN c /\ c[g].own = chain[g].own
      /\ Held(c) \subseteq Held(chain)
  BY <1>2, <1>3, <1>4, ResizeTiles, ResizeHolds
<1> HIDE DEF c
<1>6. \A h \in Held(chain) : h \in Held(c) /\ c[h].own = chain[h].own /\ (h # g => c[h] = chain[h])
  BY <1>3, <1>5 DEF OthersStay, Held, Free
<1>7. Held(chain') = {h \in Held(c) : h + 1 # Top.env} /\ \A h \in Held(chain') : chain'[h] = c[h]
  BY <1>1, <1>3, <1>5, EnvFreedExact
<1> QED
  BY <1>4, <1>5, <1>6, <1>7

-----------------------------------------------------------------------------
(***************************************************************************)
(* A program's end gives back what its EXEC took.                          *)
(***************************************************************************)
\* A block of a program, its environment, or one of a program whose parent it
\* is: as a mark names it, and as a program still in memory owns it.
Names(p, parent, h, block) ==
  \/ block.own = p.psp
  \/ h + 1 = p.env
  \/ block.own \in Segments /\ parent[block.own] = p.psp

Takes(p, parent, h, c) ==
  \/ c[h].own = p.psp
  \/ h + 1 = p.env
  \/ c[h].own \in Segments /\ IsLoaded(c[h].own, c) /\ parent[c[h].own] = p.psp

(***************************************************************************)
(* What the n-th program's end relies on: the blocks that were in use when *)
(* it was EXEC'd are still, and nothing names it or a program it started   *)
(* as theirs; every other block belongs to it or to such a program, or is  *)
(* a resident child's of one; and its own are its PSP's and those from 48h.*)
(***************************************************************************)
Returned(n) ==
  /\ Chain(before[n]) /\ Merged(before[n])
  /\ \A h \in Held(before[n]) : h \in Held(chain) /\ chain[h] = before[n][h]
  /\ \A h \in Held(before[n]), m \in n .. Len(procs) : ~ Names(procs[m], psp_parent, h, chain[h])
  /\ \A h \in Held(chain) \ Held(before[n]) :
       \E m \in n .. Len(procs) : Takes(procs[m], psp_parent, h, chain)
  /\ \A h \in Held(chain) :
       chain[h].own = procs[n].psp =>
         h + 1 = procs[n].psp \/ [seg |-> h + 1, psp |-> procs[n].psp] \in given

\* What a program leaves behind is the trouble of every program below it too.
RInv ==
  /\ Owners
  /\ \A m, n \in 1 .. Len(procs) : n < m /\ leaky[m] => leaky[n]
  /\ \A n \in 1 .. Len(procs) : ~ leaky[n] => Returned(n)

\* A step that leaves memory alone.
LEMMA SameReturns ==
  ASSUME RInv, UNCHANGED <<chain, psp_parent, before, leaky, given>>,
         Len(procs') = Len(procs), Len(procs) \in Nat,
         \A n \in 1 .. Len(procs) : procs'[n].psp = procs[n].psp /\ procs'[n].env = procs[n].env
  PROVE  RInv'
<1>1. ASSUME NEW n \in 1 .. Len(procs), Returned(n)
      PROVE  Returned(n)'
  <2>1. \A m \in n .. Len(procs) : m \in 1 .. Len(procs)
    OBVIOUS
  <2>2. \A h, m : m \in n .. Len(procs) =>
          /\ Names(procs'[m], psp_parent, h, chain[h]) => Names(procs[m], psp_parent, h, chain[h])
          /\ Takes(procs[m], psp_parent, h, chain) => Takes(procs'[m], psp_parent, h, chain)
    BY <2>1 DEF Names, Takes
  <2> QED
    BY <1>1, <2>1, <2>2 DEF Returned
<1> QED
  BY <1>1 DEF RInv, Owners

\* A memory call is about a block of the running program, so about none that
\* was in use before it.
LEMMA CallReturns ==
  ASSUME MInv, RInv,
         \/ \E paras \in Nat : Alloc(paras)
         \/ \E b \in given : FreeBlock(b)
         \/ \E seg, paras : paras \in Nat /\ Resize(seg, paras)
  PROVE  RInv'
<1> DEFINE top == Len(procs)
<1>1. Running /\ UNCHANGED <<procs, psp_parent, before, leaky, cur_psp>>
  BY DEF Alloc, FreeBlock, Resize
<1>2. LoadedKept
  BY CallsKeepLoaded
<1>3. PICK g \in Nat :
        /\ g \in Held(chain) => chain[g].own = cur_psp
        /\ OthersStay(chain, chain', g)
        /\ Held(chain') \subseteq Held(chain) \cup {g}
        /\ g \in Held(chain') =>
             /\ chain'[g].own = cur_psp
             /\ g + 1 = cur_psp \/ [seg |-> g + 1, psp |-> cur_psp] \in given'
        /\ \A b \in given : b.seg # g + 1 => b \in given'
  BY CallsTouchOne
<1>4. /\ top \in 1 .. top /\ cur_psp = procs[top].psp /\ cur_psp \in Segments
      /\ \A n \in 1 .. top : procs[n] \in Program
  BY <1>1, TopFacts DEF MInv
<1>5. /\ \A h \in Held(chain') : h # g => h \in Held(chain) /\ chain'[h] = chain[h]
      /\ \A h \in Held(chain) : h # g => h \in Held(chain') /\ chain'[h] = chain[h]
  BY <1>3 DEF OthersStay, Held, Free
<1>6. Owners'
  BY <1>3, <1>4, <1>5 DEF RInv, Owners
<1>7. Chain(chain)
  BY DEF MInv, Typed
<1> HIDE DEF top
<1>8. ASSUME NEW n \in 1 .. Len(procs), Returned(n)
      PROVE  Returned(n)'
  <2>1. top \in n .. top /\ n \in 1 .. top
    BY <1>4 DEF top
  <2>2. ASSUME NEW h \in Held(before[n])
        PROVE  h \in Held(chain') /\ chain'[h] = chain[h] /\ chain[h] = before[n][h]
    <3>1. h \in Held(chain) /\ chain[h] = before[n][h] /\ ~ Names(procs[top], psp_parent, h, chain[h])
      BY <1>8, <2>1 DEF Returned, top
    <3>2. h # g
      BY <1>3, <1>4, <3>1 DEF Names
    <3> QED
      BY <1>5, <3>1, <3>2
  <2>3. ASSUME NEW h \in Held(chain') \ Held(before[n])
        PROVE  \E m \in n .. top : Takes(procs[m], psp_parent, h, chain')
    <3>1. CASE h = g
      BY <1>3, <1>4, <2>1, <3>1 DEF Takes
    <3>2. CASE h # g
      <4>1. h \in Held(chain) \ Held(before[n]) /\ chain'[h] = chain[h]
        BY <1>5, <3>2
      <4>2. PICK m \in n .. top : Takes(procs[m], psp_parent, h, chain)
        BY <1>8, <4>1 DEF Returned, top
      <4>3. Takes(procs[m], psp_parent, h, chain')
        BY <1>2, <4>1, <4>2 DEF Takes, LoadedKept
      <4> QED
        BY <4>3
    <3> QED
      BY <3>1, <3>2
  <2>4. ASSUME NEW h \in Held(chain'), chain'[h].own = procs[n].psp
        PROVE  h + 1 = procs[n].psp \/ [seg |-> h + 1, psp |-> procs[n].psp] \in given'
    <3>1. CASE h = g
      BY <1>3, <2>4, <3>1
    <3>2. CASE h # g
      <4>1. h \in Held(chain) /\ chain[h].own = procs[n].psp
        BY <1>5, <2>4, <3>2
      <4>2. h + 1 = procs[n].psp \/ [seg |-> h + 1, psp |-> procs[n].psp] \in given
        BY <1>8, <4>1 DEF Returned
      <4>3. h + 1 # g + 1
        BY <1>7, <3>2, <4>1, ChainFacts DEF Held
      <4> QED
        BY <1>3, <4>2, <4>3
    <3> QED
      BY <3>1, <3>2
  <2> QED
    BY <1>1, <1>8, <2>2, <2>3, <2>4 DEF Returned, top
<1> QED
  BY <1>1, <1>6, <1>8 DEF RInv

\* EXEC's two blocks are the new program's; what was in use before is not, as
\* long as no block left behind is mistaken for its.
LEMMA ExecReturns ==
  ASSUME MInv, RInv, Histories, NEW image \in Images, Exec(image)
  PROVE  RInv'
<1> DEFINE l == Len(procs)
           psp == cur_psp'
           g == psp - 1
           q == [psp |-> psp, parent |-> cur_psp, env |-> EnvSeg, found |-> ivt, hooks |-> {}]
<1>1. /\ l \in Nat /\ procs \in Seq(Program) /\ Chain(chain) /\ Merged(chain)
      /\ \A n \in 1 .. l : procs[n] \in Program /\ ProcStands(procs[n], chain)
  BY StandsIsBoth DEF MInv, Typed
<1>2. /\ Len(procs') = l + 1 /\ procs'[l + 1].psp = psp /\ procs'[l + 1].env = EnvSeg
      /\ \A n \in 1 .. l : procs'[n] = procs[n]
  <2>1. procs' = Append(procs, q)
    BY DEF Exec
  <2>2. q.psp = psp /\ q.env = EnvSeg
    OBVIOUS
  <2> HIDE DEF q
  <2> QED
    BY <1>1, <2>1, <2>2
<1>3. /\ before'[l + 1] = chain /\ \A n \in 1 .. l : before'[n] = before[n]
      /\ leaky'[l + 1] = Mistaken(psp)
      /\ \A n \in 1 .. l : leaky'[n] = (leaky[n] \/ Mistaken(psp))
  <2>1. before' = Append(before, chain) /\ psp = LoadedPsp(image)
        /\ leaky' = Append([n \in DOMAIN leaky |-> leaky[n] \/ Mistaken(psp)], Mistaken(psp))
    BY ExecLoads DEF Exec
  <2>2. /\ before \in Seq(Chains) /\ Len(before) = l
        /\ leaky \in Seq(BOOLEAN) /\ Len(leaky) = l
    BY DEF Histories
  <2>3. chain \in Chains
    BY <1>1, ChainFacts DEF Chain, Chains
  <2> DEFINE mark == Mistaken(psp)
             marked == [n \in DOMAIN leaky |-> leaky[n] \/ mark]
  <2>4. mark \in BOOLEAN
    BY DEF Mistaken
  <2>5. leaky' = Append(marked, mark)
    BY <2>1
  <2>6. before'[l + 1] = chain /\ \A n \in 1 .. l : before'[n] = before[n]
    BY <2>1, <2>2, <2>3, AppendFacts
  <2> HIDE DEF mark
  <2>7. DOMAIN leaky = 1 .. l /\ \A n \in 1 .. l : (leaky[n] \/ mark) \in BOOLEAN
    BY <1>1, <2>2
  <2>8. /\ marked \in Seq(BOOLEAN) /\ Len(marked) = l
        /\ \A n \in 1 .. l : marked[n] = (leaky[n] \/ mark)
    BY <1>1, <2>7
  <2> HIDE DEF marked
  <2>9. leaky'[l + 1] = mark /\ \A n \in 1 .. l : leaky'[n] = (leaky[n] \/ mark)
    BY <2>4, <2>5, <2>8, AppendFacts
  <2> QED
    BY <2>6, <2>9 DEF mark
<1>4. /\ psp \in Segments /\ psp \in Nat /\ psp # 0 /\ psp # EnvOwner
      /\ \A x \in Segments : IsLoaded(x, chain) =>
           x # psp /\ IsLoaded(x, chain') /\ psp_parent'[x] = psp_parent[x]
  BY ExecLoads, SegmentFacts
<1>5. /\ g \notin Held(chain) /\ chain'[g].own = psp
      /\ \A h \in Held(chain) : h \in Held(chain') /\ chain'[h] = chain[h] /\ h + 1 # EnvSeg
      /\ \A h \in Held(chain') : \/ h \in Held(chain)
                                 \/ h = g
                                 \/ h + 1 = EnvSeg /\ h # g /\ chain'[h].own = EnvOwner
  BY ExecTakesTwo
<1>6. \A s \in Segments : s # psp => psp_parent'[s] = psp_parent[s] \/ psp_parent'[s] = 0
  BY ExecLoads DEF Exec, LoadedOver
<1>7. given' = given
  BY DEF Exec
<1>8. g + 1 = psp
  <2>1. \A x \in Nat : x - 1 + 1 = x
    OBVIOUS
  <2> QED
    BY <1>4, <2>1
<1>9. Owners'
  BY <1>4, <1>5 DEF RInv, Owners
<1> HIDE DEF l, psp, g, q
<1>10. \A n \in 1 .. l : procs[n].psp # psp /\ procs[n].psp # 0 /\ procs[n].psp # EnvOwner
  <2> TAKE n \in 1 .. l
  <2>1. procs[n] \in Program /\ ProcStands(procs[n], chain)
    BY <1>1
  <2> QED
    BY <1>4, <2>1, ProcHeld, SegmentFacts DEF ProcStands, IsLoaded
<1>11. ~ Mistaken(psp) =>
         \A h \in Held(chain) : ~ Names(procs'[l + 1], psp_parent', h, chain[h])
  <2> SUFFICES ASSUME ~ Mistaken(psp), NEW h \in Held(chain)
               PROVE  ~ Names(procs'[l + 1], psp_parent', h, chain[h])
    OBVIOUS
  <2> DEFINE own == chain[h].own
  <2>1. own \in Segments \cup {EnvOwner} /\ h \in DOMAIN chain
    BY DEF RInv, Owners, Held
  <2>2. own \in Segments => own # psp /\ psp_parent[own] # psp
    BY <2>1 DEF Mistaken
  <2>3. own # psp
    BY <1>4, <2>1, <2>2
  <2> HIDE DEF own
  <2>4. own \in Segments => psp_parent'[own] # psp
    BY <1>4, <1>6, <2>2, <2>3
  <2> QED
    BY <1>2, <1>5, <2>3, <2>4 DEF Names, own
<1>12. ASSUME NEW n \in 1 .. l, Returned(n), ~ Mistaken(psp)
       PROVE  Returned(n)'
  <2>1. \A m \in n .. l + 1 : m = l + 1 \/ (m \in n .. l /\ procs'[m] = procs[m])
    BY <1>1, <1>2
  <2>2. l + 1 \in n .. l + 1 /\ n .. l \subseteq n .. l + 1
    BY <1>1
  <2>3. \A h \in Held(before[n]) : h \in Held(chain) /\ chain[h] = before[n][h]
    BY <1>12 DEF Returned
  <2>4. ASSUME NEW h \in Held(before[n]), NEW m \in n .. l + 1
        PROVE  ~ Names(procs'[m], psp_parent', h, chain[h])
    <3>1. h \in Held(chain)
      BY <2>3
    <3>2. CASE m = l + 1
      BY <1>11, <1>12, <3>1, <3>2
    <3>3. CASE m \in n .. l /\ procs'[m] = procs[m]
      <4>1. ~ Names(procs[m], psp_parent, h, chain[h])
        BY <1>12, <3>3 DEF Returned, l
      <4>2. chain[h].own # psp
        BY <1>2, <1>11, <1>12, <3>1 DEF Names
      <4>3. procs[m].psp # 0
        BY <1>1, <1>10, <3>3
      <4> QED
        BY <1>6, <3>3, <4>1, <4>2, <4>3 DEF Names
    <3> QED
      BY <2>1, <3>2, <3>3
  <2>5. ASSUME NEW h \in Held(chain') \ Held(before[n])
        PROVE  \E m \in n .. l + 1 : Takes(procs'[m], psp_parent', h, chain')
    <3>1. CASE h \in Held(chain)
      <4>1. PICK m \in n .. l : Takes(procs[m], psp_parent, h, chain)
        BY <1>12, <2>5, <3>1 DEF Returned, l
      <4>2. procs'[m] = procs[m] /\ chain'[h] = chain[h]
        BY <1>2, <1>5, <3>1, <4>1
      <4>3. Takes(procs'[m], psp_parent', h, chain')
        BY <1>4, <4>1, <4>2 DEF Takes
      <4> QED
        BY <2>2, <4>3
    <3>2. CASE h = g
      BY <1>2, <1>5, <2>2, <3>2 DEF Takes
    <3>3. CASE h + 1 = EnvSeg
      BY <1>2, <2>2, <3>3 DEF Takes
    <3> QED
      BY <1>5, <2>5, <3>1, <3>2, <3>3
  <2>6. ASSUME NEW h \in Held(chain'), chain'[h].own = procs'[n].psp
        PROVE  h + 1 = procs'[n].psp \/ [seg |-> h + 1, psp |-> procs'[n].psp] \in given'
    <3>1. procs'[n] = procs[n]
      BY <1>2
    <3>2. h \in Held(chain) /\ chain'[h] = chain[h]
      BY <1>5, <1>10, <2>6, <3>1
    <3> QED
      BY <1>7, <1>12, <2>6, <3>1, <3>2 DEF Returned
  <2>7. before'[n] = before[n]
    BY <1>3
  <2> QED
    BY <1>2, <1>5, <1>12, <2>3, <2>4, <2>5, <2>6, <2>7 DEF Returned
<1>13. ASSUME ~ Mistaken(psp), NEW n, n = l + 1
       PROVE  Returned(n)'
  <2>1. \A m \in n .. n : m = n
    BY <1>1, <1>13
  <2>2. n \in n .. n
    BY <1>1, <1>13
  <2>3. ASSUME NEW h \in Held(chain') \ Held(chain)
        PROVE  Takes(procs'[n], psp_parent', h, chain')
    BY <1>2, <1>5, <1>13 DEF Takes
  <2>4. ASSUME NEW h \in Held(chain'), chain'[h].own = psp
        PROVE  h + 1 = psp
    <3>1. h \notin Held(chain)
      BY <1>2, <1>5, <1>11, <1>13, <2>4 DEF Names
    <3> QED
      BY <1>4, <1>5, <1>8, <2>4, <3>1
  <2>5. before'[n] = chain /\ Len(procs') = n /\ procs'[n].psp = psp
    BY <1>2, <1>3, <1>13
  <2>6. Chain(before'[n]) /\ Merged(before'[n])
    BY <1>1, <2>5
  <2>7. ASSUME NEW h \in Held(before'[n])
        PROVE  /\ h \in Held(chain') /\ chain'[h] = before'[n][h]
               /\ \A m \in n .. Len(procs') : ~ Names(procs'[m], psp_parent', h, chain'[h])
    BY <1>5, <1>11, <1>13, <2>1, <2>5, <2>7
  <2>8. ASSUME NEW h \in Held(chain') \ Held(before'[n])
        PROVE  \E m \in n .. Len(procs') : Takes(procs'[m], psp_parent', h, chain')
    BY <2>2, <2>3, <2>5, <2>8
  <2> QED
    BY <2>4, <2>5, <2>6, <2>7, <2>8 DEF Returned
<1>14. \A n \in 1 .. Len(procs') : n \in 1 .. l \/ n = l + 1
  BY <1>1, <1>2
<1>15. ASSUME NEW n \in 1 .. Len(procs'), ~ leaky'[n]
       PROVE  Returned(n)'
  <2>1. CASE n \in 1 .. l
    <3>1. ~ leaky[n] /\ ~ Mistaken(psp)
      BY <1>3, <1>15, <2>1
    <3> QED
      BY <1>12, <2>1, <3>1 DEF RInv, l
  <2>2. CASE n = l + 1
    <3>1. ~ Mistaken(psp)
      BY <1>3, <1>15, <2>2
    <3> QED
      BY <1>13, <2>2, <3>1
  <2> QED
    BY <1>14, <2>1, <2>2
<1>16. \A m, n \in 1 .. Len(procs') : n < m /\ leaky'[m] => leaky'[n]
  <2> SUFFICES ASSUME NEW m \in 1 .. Len(procs'), NEW n \in 1 .. Len(procs'), n < m, leaky'[m]
               PROVE  leaky'[n]
    OBVIOUS
  <2>1. n \in 1 .. l
    BY <1>1, <1>2
  <2>2. Mistaken(psp) \/ (m \in 1 .. l /\ leaky[m])
    BY <1>3, <1>14
  <2> QED
    BY <1>3, <2>1, <2>2 DEF RInv, l
<1> QED
  BY <1>9, <1>15, <1>16 DEF RInv

\* No block in use before a program's EXEC is freed by its exit or by that of
\* a program it started.
LEMMA ExitSpares ==
  ASSUME MInv, RInv, Exit, NEW n \in 1 .. Len(procs), Returned(n), NEW h \in Held(before[n])
  PROVE  h \in Held(chain') /\ chain'[h] = chain[h] /\ chain[h] = before[n][h]
<1>1. Running /\ Top = procs[Len(procs)] /\ Len(procs) \in n .. Len(procs)
      /\ Top \in Program /\ ProcStands(Top, chain) /\ Top.psp \in Nat
  BY TopFacts, ProcHeld, SegmentFacts DEF Exit, MInv
<1>2. /\ h \in Held(chain) /\ chain[h] = before[n][h]
      /\ ~ Names(Top, psp_parent, h, chain[h])
  BY <1>1 DEF Returned
<1>3. h \in Nat /\ chain[h].own \in Segments \cup {EnvOwner}
  BY <1>2, ChainFacts DEF MInv, Typed, Held, RInv, Owners
<1>4. h + 1 # Top.psp
  <2>1. SUFFICES ASSUME h + 1 = Top.psp PROVE FALSE
    OBVIOUS
  <2>2. h = Top.psp - 1
    BY <1>1, <1>3, <2>1
  <2> QED
    BY <1>1, <1>2, <2>2 DEF ProcStands, Names
<1>5. h + 1 # Top.env /\ ~ ChildBlock(h)
  BY <1>2, <1>3 DEF Names, ChildBlock
<1> QED
  BY <1>2, <1>4, <1>5, ExitFrees

\* Nothing of a program is left after its exit, but blocks from 48h that it
\* has not freed.
LEMMA ExitLeaves ==
  ASSUME MInv, RInv, Exit, ~ leaky[Len(procs)], \A b \in given : b.psp # cur_psp,
         NEW h \in Held(chain')
  PROVE  ~ Takes(Top, psp_parent, h, chain)
<1>1. /\ Running /\ Top = procs[Len(procs)] /\ Len(procs) \in 1 .. Len(procs)
      /\ cur_psp = Top.psp
  BY TopFacts DEF Exit, MInv
<1>2. h \in Held(chain) /\ h + 1 # Top.psp /\ h + 1 # Top.env /\ ~ ChildBlock(h)
  BY ExitFrees
<1>3. Returned(Len(procs))
  BY <1>1 DEF RInv
<1>4. chain[h].own # Top.psp
  <2>1. SUFFICES ASSUME chain[h].own = Top.psp PROVE FALSE
    OBVIOUS
  <2>2. [seg |-> h + 1, psp |-> Top.psp] \in given
    BY <1>1, <1>2, <1>3, <2>1 DEF Returned
  <2>3. [seg |-> h + 1, psp |-> Top.psp].psp = cur_psp
    BY <1>1
  <2> QED
    BY <2>2, <2>3
<1>5. chain[h].own \in Segments => chain[h].own # EnvOwner
  BY SegmentFacts
<1> QED
  BY <1>2, <1>4, <1>5 DEF Takes, ChildBlock

\* The histories of the programs below the one that ends.
LEMMA PoppedHistories ==
  ASSUME MInv, Histories, Running, procs' = Below, cur_psp' = Top.parent,
         psp_parent' = psp_parent, before' = Front(before),
         NEW mark, leaky' = [n \in DOMAIN Below |-> leaky[n] \/ mark]
  PROVE  \A n \in 1 .. Len(procs') :
           /\ n \in 1 .. Len(procs) /\ n < Len(procs) /\ procs'[n] = procs[n]
           /\ before'[n] = before[n] /\ (leaky'[n] <=> (leaky[n] \/ mark))
<1>1. /\ procs' \in Seq(Program) /\ Len(procs') \in Nat /\ Len(procs') = Len(procs) - 1
      /\ \A n \in 1 .. Len(procs') : n \in 1 .. Len(procs) /\ procs'[n] = procs[n]
      /\ procs # <<>> /\ Len(procs) \in Nat
  BY PopStack, TopFacts DEF MInv, Typed
<1>2. before # <<>> /\ before \in Seq(Chains) /\ Len(before) = Len(procs)
  BY <1>1 DEF Histories
<1>3. \A n \in 1 .. Len(procs') : before'[n] = before[n]
  BY <1>1, <1>2, FrontFacts
<1>4. leaky' = [n \in 1 .. Len(procs') |-> leaky[n] \/ mark]
  <2>1. DOMAIN Below = 1 .. Len(procs')
    BY <1>1
  <2> QED
    BY <2>1
<1>5. \A n \in 1 .. Len(procs') : leaky'[n] <=> (leaky[n] \/ mark)
  BY <1>4, Zenon
<1>6. \A n \in 1 .. Len(procs') : n < Len(procs)
  BY <1>1
<1> QED
  BY <1>1, <1>3, <1>5, <1>6

\* An exit that leaves nothing behind gives the programs below what they rely
\* on.
LEMMA ExitReturns ==
  ASSUME MInv, RInv, Histories, Exit
  PROVE  RInv'
<1> DEFINE top == Len(procs)
           mark == \E b \in given : b.psp = cur_psp
<1>1. /\ Running /\ procs' = Below /\ cur_psp' = Top.parent /\ psp_parent' = psp_parent
      /\ before' = Front(before) /\ leaky' = [n \in DOMAIN Below |-> leaky[n] \/ mark]
  BY DEF Exit
<1>2. /\ top \in 1 .. top /\ Top = procs[top] /\ cur_psp = Top.psp /\ Top.psp \in Segments
      /\ \A n \in 1 .. top : procs[n] \in Program
  BY <1>1, TopFacts DEF MInv
<1>3. Len(procs') = top - 1
  BY <1>1, <1>2, PopStack DEF MInv
<1> HIDE DEF mark
<1>4. \A n \in 1 .. Len(procs') :
        /\ n \in 1 .. top /\ n < top /\ procs'[n] = procs[n]
        /\ before'[n] = before[n] /\ (leaky'[n] <=> (leaky[n] \/ mark))
  BY <1>1, PoppedHistories
<1>5. /\ \A h \in Held(chain') : h \in Held(chain) /\ chain'[h] = chain[h]
      /\ \A b \in given : b.psp # Top.psp /\ b.seg - 1 \in Held(chain') => b \in given'
  BY ExitFrees
<1>6. Owners'
  BY <1>5 DEF RInv, Owners
<1> HIDE DEF top
<1>7. ASSUME NEW n \in 1 .. Len(procs'), ~ leaky'[n]
      PROVE  Returned(n)'
  <2>1. ~ leaky[n] /\ ~ leaky[top] /\ n \in 1 .. top /\ n < top /\ \A b \in given : b.psp # cur_psp
    BY <1>2, <1>4, <1>7 DEF RInv, top, mark
  <2>2. Returned(n)
    BY <2>1 DEF RInv, top
  <2>3. \A m \in n .. Len(procs') : m \in n .. top /\ m \in 1 .. Len(procs') /\ procs'[m] = procs[m]
    BY <1>2, <1>3, <1>4
  <2>4. \A h \in Held(before[n]) : h \in Held(chain') /\ chain'[h] = chain[h] /\ chain[h] = before[n][h]
    BY <2>1, <2>2, ExitSpares DEF top
  <2>5. ASSUME NEW h \in Held(before[n]), NEW m \in n .. Len(procs')
        PROVE  ~ Names(procs'[m], psp_parent', h, chain'[h])
    <3>1. ~ Names(procs[m], psp_parent, h, chain[h])
      BY <2>2, <2>3 DEF Returned, top
    <3> QED
      BY <1>1, <2>3, <2>4, <3>1
  <2>6. ASSUME NEW h \in Held(chain') \ Held(before[n])
        PROVE  \E m \in n .. Len(procs') : Takes(procs'[m], psp_parent', h, chain')
    <3>1. PICK m \in n .. top : Takes(procs[m], psp_parent, h, chain)
      BY <1>5, <2>2 DEF Returned, top
    <3>2. ~ Takes(Top, psp_parent, h, chain)
      BY <2>1, ExitLeaves DEF top
    <3>3. m # top /\ m \in 1 .. top
      BY <1>2, <2>1, <3>1, <3>2
    <3>4. m \in n .. Len(procs') /\ procs'[m] = procs[m]
      BY <1>2, <1>3, <2>3, <3>1, <3>3
    <3>5. procs[m].psp # Top.psp
      BY <1>1, <3>3, BelowIsNoChild DEF top
    <3>6. ASSUME chain[h].own \in Segments, IsLoaded(chain[h].own, chain),
                 psp_parent[chain[h].own] = procs[m].psp
          PROVE  IsLoaded(chain[h].own, chain')
      <4>1. chain[h].own # Top.psp
        BY <3>2 DEF Takes
      <4> QED
        BY <3>5, <3>6, <4>1, ExitKeepsLoaded
    <3>7. Takes(procs'[m], psp_parent', h, chain')
      BY <1>1, <1>5, <3>1, <3>4, <3>6 DEF Takes
    <3> QED
      BY <3>4, <3>7
  <2>7. ASSUME NEW h \in Held(chain'), chain'[h].own = procs'[n].psp
        PROVE  h + 1 = procs'[n].psp \/ [seg |-> h + 1, psp |-> procs'[n].psp] \in given'
    <3> DEFINE b == [seg |-> h + 1, psp |-> procs'[n].psp]
    <3>1. procs'[n].psp # Top.psp /\ procs'[n] = procs[n]
      BY <1>1, <1>4, <2>1, BelowIsNoChild DEF top
    <3>2. h + 1 = procs[n].psp \/ [seg |-> h + 1, psp |-> procs[n].psp] \in given
      BY <1>5, <2>2, <2>7, <3>1 DEF Returned
    <3>3. h \in Nat
      BY <1>5, ChainFacts DEF MInv, Typed, Held
    <3>4. b.seg - 1 = h /\ b.psp = procs'[n].psp
      BY <3>3
    <3> HIDE DEF b
    <3>5. b \in given => b \in given'
      BY <1>5, <3>1, <3>4
    <3> QED
      BY <3>1, <3>2, <3>5 DEF b
  <2>8. before'[n] = before[n]
    BY <1>4
  <2> QED
    BY <2>2, <2>4, <2>5, <2>6, <2>7, <2>8 DEF Returned
<1>8. \A m, n \in 1 .. Len(procs') : n < m /\ leaky'[m] => leaky'[n]
  BY <1>4 DEF RInv, top
<1> QED
  BY <1>6, <1>7, <1>8 DEF RInv

\* A program that goes resident becomes the child of the one below, and with
\* no resident children of its own leaves nothing that is not.
LEMMA StayReturns ==
  ASSUME MInv, RInv, Histories, NEW keep \in Nat, StayResident(keep)
  PROVE  RInv'
<1> DEFINE top == Len(procs)
           mark == ChildBlocks(chain, Top.psp) # {}
<1>1. /\ Running /\ procs' = Below /\ cur_psp' = Top.parent /\ psp_parent' = psp_parent
      /\ before' = Front(before) /\ leaky' = [n \in DOMAIN Below |-> leaky[n] \/ mark]
      /\ given' = given
  BY DEF StayResident
<1>2. /\ top \in 1 .. top /\ Top = procs[top] /\ Top.psp \in Segments
      /\ \A n \in 1 .. top : procs[n] \in Program
      /\ ProcStands(Top, chain) /\ Top.psp \in Nat /\ IsLoaded(Top.psp, chain)
  BY <1>1, TopFacts, SegmentFacts DEF MInv, ProcStands, IsLoaded
<1>3. Len(procs') = top - 1
  BY <1>1, <1>2, PopStack DEF MInv
<1> HIDE DEF mark
<1>4. \A n \in 1 .. Len(procs') :
        /\ n \in 1 .. top /\ n < top /\ procs'[n] = procs[n]
        /\ before'[n] = before[n] /\ (leaky'[n] <=> (leaky[n] \/ mark))
  BY <1>1, PoppedHistories
<1>5. /\ \A h \in Held(chain) :
           h + 1 # Top.env => h \in Held(chain') /\ (h + 1 # Top.psp => chain'[h] = chain[h])
      /\ \A h \in Held(chain') :
           h \in Held(chain) /\ h + 1 # Top.env /\ chain'[h].own = chain[h].own
  BY StayFrees
<1>6. Owners'
  BY <1>5 DEF RInv, Owners
<1>7. \A x \in Segments : IsLoaded(x, chain) => IsLoaded(x, chain')
  BY StayKeepsLoaded DEF LoadedKept
<1>8. \A h \in Held(chain) : h \in Nat /\ h \in DOMAIN chain /\ chain[h].own # NoOwner
  BY ChainFacts DEF MInv, Typed, Held, Free
<1> HIDE DEF top
<1>9. ASSUME NEW n \in 1 .. Len(procs'), ~ leaky'[n]
      PROVE  Returned(n)'
  <2>1. ~ leaky[n] /\ ChildBlocks(chain, Top.psp) = {} /\ n \in 1 .. top /\ n < top
    BY <1>4, <1>9 DEF mark
  <2>2. Returned(n)
    BY <2>1 DEF RInv, top
  <2>3. \A m \in n .. Len(procs') : m \in n .. top /\ m \in 1 .. Len(procs') /\ procs'[m] = procs[m]
    BY <1>2, <1>3, <1>4
  <2>4. ASSUME NEW h \in Held(before[n])
        PROVE  h \in Held(chain') /\ chain'[h] = chain[h] /\ chain[h] = before[n][h]
    <3>1. h \in Held(chain) /\ chain[h] = before[n][h] /\ ~ Names(Top, psp_parent, h, chain[h])
      BY <1>2, <2>1, <2>2 DEF Returned, top
    <3>2. h + 1 # Top.env /\ chain[h].own # Top.psp
      BY <3>1 DEF Names
    <3>3. h # Top.psp - 1
      BY <1>2, <3>2 DEF ProcStands
    <3>4. h + 1 # Top.psp
      BY <1>2, <1>8, <3>1, <3>3
    <3> QED
      BY <1>5, <3>1, <3>2, <3>4
  <2>5. ASSUME NEW h \in Held(before[n]), NEW m \in n .. Len(procs')
        PROVE  ~ Names(procs'[m], psp_parent', h, chain'[h])
    <3>1. ~ Names(procs[m], psp_parent, h, chain[h])
      BY <2>2, <2>3 DEF Returned, top
    <3> QED
      BY <1>1, <2>3, <2>4, <3>1
  <2>6. ASSUME NEW h \in Held(chain') \ Held(before[n])
        PROVE  \E m \in n .. Len(procs') : Takes(procs'[m], psp_parent', h, chain')
    <3>1. h \in Held(chain) /\ chain'[h].own = chain[h].own /\ h + 1 # Top.env
      BY <1>5
    <3>2. PICK m \in n .. top : Takes(procs[m], psp_parent, h, chain)
      BY <2>2, <3>1 DEF Returned, top
    <3>3. CASE m # top
      <4>1. m \in n .. Len(procs') /\ procs'[m] = procs[m]
        BY <1>2, <1>3, <2>1, <2>3, <3>2, <3>3
      <4>2. Takes(procs'[m], psp_parent', h, chain')
        BY <1>1, <1>7, <3>1, <3>2, <4>1 DEF Takes
      <4> QED
        BY <4>1, <4>2
    <3>4. CASE m = top
      <4>1. chain[h].own = Top.psp
        <5>1. SUFFICES ASSUME chain[h].own # Top.psp, chain[h].own \in Segments,
                              psp_parent[chain[h].own] = Top.psp
                       PROVE  FALSE
          BY <1>2, <3>1, <3>2, <3>4 DEF Takes
        <5>2. h \in ChildBlocks(chain, Top.psp)
          BY <1>8, <3>1, <5>1, SegmentFacts DEF ChildBlocks
        <5> QED
          BY <2>1, <5>2
      <4> DEFINE k == top - 1
      <4>2. k \in n .. Len(procs') /\ k \in n .. top /\ top # 1
        BY <1>2, <1>3, <2>1
      <4>3. psp_parent[Top.psp] = procs[k].psp
        BY <1>2, <4>2 DEF MInv, Stack, top
      <4> HIDE DEF k
      <4>4. procs'[k] = procs[k]
        BY <2>3, <4>2
      <4>5. Takes(procs'[k], psp_parent', h, chain')
        BY <1>1, <1>2, <1>7, <3>1, <4>1, <4>3, <4>4 DEF Takes
      <4> QED
        BY <4>2, <4>5
    <3> QED
      BY <3>3, <3>4
  <2>7. ASSUME NEW h \in Held(chain'), chain'[h].own = procs'[n].psp
        PROVE  h + 1 = procs'[n].psp \/ [seg |-> h + 1, psp |-> procs'[n].psp] \in given'
    <3>1. procs'[n] = procs[n]
      BY <1>4
    <3> QED
      BY <1>1, <1>5, <2>2, <2>7, <3>1 DEF Returned
  <2>8. before'[n] = before[n]
    BY <1>4
  <2> QED
    BY <2>2, <2>4, <2>5, <2>6, <2>7, <2>8 DEF Returned
<1>10. \A m, n \in 1 .. Len(procs') : n < m /\ leaky'[m] => leaky'[n]
  BY <1>4 DEF RInv, top
<1> QED
  BY <1>6, <1>9, <1>10 DEF RInv

\* A failed EXEC whose environment fitted spoils it for every program that
\* runs, and touches nothing that was in use.
LEMMA ExecFailsReturns ==
  ASSUME MInv, RInv, Histories, NEW image \in Images, ExecFails(image)
  PROVE  RInv'
<1>1. /\ Running /\ chain' = WithEnv /\ leaky' = [n \in DOMAIN leaky |-> leaky[n] \/ EnvFits]
      /\ UNCHANGED <<procs, psp_parent, before, given>>
  BY DEF ExecFails
<1>2. leaky \in Seq(BOOLEAN) /\ Len(leaky) = Len(procs) /\ DOMAIN leaky = 1 .. Len(procs)
      /\ Len(procs) \in Nat
  BY DEF Histories, MInv, Typed
<1>3. CASE ~ EnvFits
  <2>1. chain' = chain
    BY <1>1, <1>3 DEF WithEnv
  <2>2. \A n \in 1 .. Len(procs) : (leaky[n] \/ EnvFits) = leaky[n]
    BY <1>2, <1>3
  <2>3. leaky' = [n \in 1 .. Len(procs) |-> leaky[n]]
    BY <1>1, <1>2, <2>2
  <2>4. leaky' = leaky
    BY <1>2, <2>3
  <2> QED
    BY <1>1, <1>2, <2>1, <2>4, SameReturns
<1>4. CASE EnvFits
  <2>1. \A n \in 1 .. Len(procs') : leaky'[n]
    BY <1>1, <1>2, <1>4
  <2>2. Owners'
    <3> DEFINE g == AllocHeader(chain, EnvSize, strategy)
               d == AfterAlloc(chain, EnvSize, EnvOwner, strategy)
    <3>1. EnvSize \in Nat /\ EnvOwner \in Nat \ {NoOwner} /\ strategy \in 0 .. 2 /\ Chain(chain)
      BY SegmentFacts DEF EnvOwner, NoOwner, MInv, Typed
    <3>2. d[g].own = EnvOwner /\ OthersStay(chain, d, g)
      BY <1>4, <3>1, AllocTiles DEF EnvFits
    <3>3. Held(d) \subseteq Held(chain) \cup {g}
      BY <1>4, <3>1, AllocHolds DEF EnvFits
    <3>4. chain' = d
      BY <1>1, <1>4 DEF WithEnv
    <3> HIDE DEF g, d
    <3> QED
      BY <3>2, <3>3, <3>4 DEF RInv, Owners, OthersStay
  <2> QED
    BY <2>1, <2>2 DEF RInv
<1> QED
  BY <1>3, <1>4

\* The invariant of the memory that comes back holds in every reachable state.
LEMMA RInvAlways == Spec => []RInv
<1>1. Init => RInv
  <2> SUFFICES ASSUME Init PROVE RInv
    OBVIOUS
  <2>1. Len(procs) = 0 /\ Held(chain) = {}
    BY DEF Init, mcb_init, Held, Free
  <2> QED
    BY <2>1 DEF RInv, Owners
<1>2. MInv /\ Histories /\ RInv /\ [Next]_vars => RInv'
  <2> SUFFICES ASSUME MInv, Histories, RInv, [Next]_vars PROVE RInv'
    OBVIOUS
  <2>1. CASE Exit
    BY <2>1, ExitReturns
  <2>2. Len(procs) \in Nat
    BY DEF MInv, Typed
  <2>3. ASSUME UNCHANGED <<chain, procs, psp_parent, before, leaky, given>>
        PROVE  RInv'
    BY <2>2, <2>3, SameReturns
  <2>4. CASE Done \/ UNCHANGED vars
    BY <2>3, <2>4 DEF Done, vars, memory
  <2>5. ASSUME NEW s, SetStrategy(s) PROVE RInv'
    BY <2>3, <2>5 DEF SetStrategy
  <2>6. ASSUME NEW v \in Vectors, Hook(v) \/ Unhook(v) PROVE RInv'
    <3>1. Running /\ UNCHANGED <<chain, psp_parent, before, leaky, given>>
      BY <2>6 DEF Hook, Unhook, memory
    <3>2. procs \in Seq(Program) /\ Len(procs) \in 1 .. Len(procs)
          /\ \A n \in 1 .. Len(procs) : procs[n] \in Program
      BY <3>1, TopFacts DEF MInv, Typed
    <3>3. /\ Len(procs') = Len(procs)
          /\ \A n \in 1 .. Len(procs) : procs'[n].psp = procs[n].psp /\ procs'[n].env = procs[n].env
      <4>1. PICK hooks : procs' = [procs EXCEPT ![Len(procs)].hooks = hooks]
        BY <2>6 DEF Hook, Unhook
      <4>2. Len(procs') = Len(procs) /\ \A n \in 1 .. Len(procs) : n # Len(procs) => procs'[n] = procs[n]
        BY <3>2, <4>1
      <4>3. procs'[Len(procs)] = [procs[Len(procs)] EXCEPT !.hooks = hooks]
        BY <3>2, <4>1
      <4>4. /\ procs'[Len(procs)].psp = procs[Len(procs)].psp
            /\ procs'[Len(procs)].env = procs[Len(procs)].env
        BY <3>2, <4>3 DEF Program
      <4> QED
        BY <4>2, <4>4
    <3> QED
      BY <2>2, <3>1, <3>3, SameReturns
  <2>7. ASSUME NEW paras \in Sizes, Alloc(paras) PROVE RInv'
    BY <2>7, CallReturns, SegmentFacts
  <2>8. ASSUME NEW b \in given, FreeBlock(b) PROVE RInv'
    BY <2>8, CallReturns
  <2>9. ASSUME NEW seg, NEW paras \in Sizes, Resize(seg, paras) PROVE RInv'
    BY <2>9, CallReturns, SegmentFacts
  <2>10. ASSUME NEW paras \in Sizes, StayResident(paras) PROVE RInv'
    BY <2>10, StayReturns, SegmentFacts
  <2>11. ASSUME NEW image \in Images, Exec(image) PROVE RInv'
    BY <2>11, ExecReturns
  <2>12. ASSUME NEW image \in Images, ExecFails(image) PROVE RInv'
    BY <2>12, ExecFailsReturns
  <2> QED
    BY <2>1, <2>4, <2>5, <2>6, <2>7, <2>8, <2>9, <2>10, <2>11, <2>12 DEF Next
<1> QED
  BY <1>1, <1>2, MInvAlways, HistoriesAlways, PTL DEF Spec

\* What a program's end has to leave is what its EXEC found.
LEMMA ExitGivesBack ==
  ASSUME MInv, RInv, Histories, Exit, ~ leaky[Len(procs)], \A b \in given : b.psp # cur_psp
  PROVE  chain' = before[Len(procs)]
<1> DEFINE top == Len(procs)
<1>1. Running /\ top \in 1 .. top /\ Top = procs[top]
  BY TopFacts DEF Exit, MInv
<1>2. Returned(top)
  BY <1>1 DEF RInv
<1> HIDE DEF top
<1>3. \A h \in Held(before[top]) : h \in Held(chain') /\ chain'[h] = before[top][h]
  BY <1>1, <1>2, ExitSpares DEF top
<1>4. ASSUME NEW h \in Held(chain') PROVE h \in Held(before[top])
  <2>1. h \in Held(chain)
    BY ExitFrees
  <2>2. ~ Takes(Top, psp_parent, h, chain)
    BY ExitLeaves DEF top
  <2>3. \A m \in top .. Len(procs) : m = top
    BY <1>1 DEF top
  <2> QED
    BY <1>1, <1>2, <2>1, <2>2, <2>3 DEF Returned
<1>5. Chain(chain') /\ Merged(chain')
  BY ExitInv DEF MInv, Typed
<1>6. Chain(before[top]) /\ Merged(before[top])
  BY <1>2 DEF Returned
<1>7. Held(chain') = Held(before[top]) /\ \A h \in Held(chain') : chain'[h] = before[top][h]
  BY <1>3, <1>4
<1>8. chain' = before[top]
  BY <1>5, <1>6, <1>7, OneChain
<1> QED
  BY <1>8 DEF top

\* A program's end gives back all the memory its EXEC took, to the block: the
\* chain of memory blocks is the one its EXEC found, unless something that is
\* meant to stays behind, or was taken for the program's (dos_terminate2).
THEOREM MemoryReturned == Spec => MemoryComesBack
<1>1. MInv /\ Histories /\ RInv /\ [Next]_vars =>
        [ProgramEnds /\ ~ Last(leaky) /\ (\A block \in given : block.psp # cur_psp)
           => chain' = Last(before)]_vars
  <2> SUFFICES ASSUME MInv, Histories, RInv, Next, ProgramEnds, ~ Last(leaky),
                      \A block \in given : block.psp # cur_psp
               PROVE  chain' = Last(before)
    OBVIOUS
  <2>1. /\ procs \in Seq(Program) /\ Len(procs) \in Nat /\ Len(procs') < Len(procs)
        /\ cur_psp \notin Loaded'
    BY DEF ProgramEnds, MInv, Typed
  <2>2. CASE Exit
    <3>1. Running /\ procs # <<>>
      BY <2>2, TopFacts DEF Exit, MInv
    <3>2. Last(leaky) = leaky[Len(procs)] /\ Last(before) = before[Len(procs)]
      BY <2>1, <3>1 DEF Histories, Last
    <3>3. ~ leaky[Len(procs)]
      BY <3>2
    <3>4. chain' = before[Len(procs)]
      BY <2>2, <3>3, ExitGivesBack
    <3> QED
      BY <3>2, <3>4
  <2>3. ASSUME NEW paras \in Sizes, StayResident(paras) PROVE FALSE
    <3>1. Running /\ cur_psp = Top.psp /\ cur_psp \in Segments /\ ProcStands(Top, chain)
      BY <2>3, TopFacts DEF StayResident, MInv
    <3>2. IsLoaded(cur_psp, chain')
      BY <2>3, <3>1, StayKeepsLoaded, SegmentFacts DEF LoadedKept, ProcStands, IsLoaded
    <3>3. cur_psp - 1 + 1 = cur_psp
      BY <3>1, SegmentFacts
    <3> QED
      BY <2>1, <3>2, <3>3 DEF Loaded, IsLoaded
  <2>4. ASSUME NEW v \in Vectors, Hook(v) \/ Unhook(v) PROVE FALSE
    BY <2>1, <2>4 DEF Hook, Unhook
  <2>5. ASSUME NEW image \in Images, Exec(image) PROVE FALSE
    BY <2>1, <2>5 DEF Exec
  <2>6. ASSUME procs' = procs PROVE FALSE
    BY <2>1, <2>6
  <2> QED
    BY <2>2, <2>3, <2>4, <2>5, <2>6
       DEF Next, Done, vars, Alloc, FreeBlock, Resize, SetStrategy, ExecFails
<1> QED
  BY <1>1, MInvAlways, HistoriesAlways, RInvAlways, PTL DEF Spec, MemoryComesBack
=============================================================================
