-------------------------------- MODULE Mcb ---------------------------------
(***************************************************************************)
(* The memory control blocks of the DOS layer (src/dos.c) as operators.    *)
(*                                                                         *)
(* Memory is counted in paragraphs, MEM_FIRST .. MEM_LAST - 1.  A chain maps the   *)
(* paragraph of each header to the block behind it: its owner and its size *)
(* in paragraphs.  The next header follows the block; the block that ends  *)
(* at MEM_LAST is the one the code marks 'Z'.  A block is named by the segment *)
(* behind its header.                                                      *)
(***************************************************************************)
EXTENDS Integers

CONSTANTS MEM_FIRST, MEM_LAST   \* the first header and the end of memory (60h, 9FC0h)

ASSUME MemoryAssumption == MEM_FIRST \in Nat \ {0} /\ MEM_LAST \in Nat /\ MEM_FIRST < MEM_LAST

NoOwner == 0

Free(chain) == {h \in DOMAIN chain : chain[h].own = NoOwner}
NextHeader(chain, h) == h + chain[h].sz + 1

\* mcb_init: one free block.
mcb_init == [h \in {MEM_FIRST} |-> [own |-> NoOwner, sz |-> MEM_LAST - MEM_FIRST - 1]]

\* A chain tiles the memory: every block ends at the next header or at the
\* end of memory, and no header lies inside a block.
Tiled(chain) ==
  /\ MEM_FIRST \in DOMAIN chain
  /\ DOMAIN chain \subseteq MEM_FIRST .. MEM_LAST - 1
  /\ \A h \in DOMAIN chain :
       /\ chain[h].sz \in 0 .. MEM_LAST - MEM_FIRST - 1
       /\ NextHeader(chain, h) \in DOMAIN chain \cup {MEM_LAST}
       /\ \A g \in DOMAIN chain : h < g => NextHeader(chain, h) <= g

(***************************************************************************)
(* mcb_coalesce: a free block swallows the free blocks behind it.  The     *)
(* headers that stay are those no free block ends at.                      *)
(***************************************************************************)
Kept(chain) ==
  {h \in DOMAIN chain :
     h \in Free(chain) => \A f \in Free(chain) : NextHeader(chain, f) # h}

Following(headers, h) ==
  CHOOSE e \in headers \cup {MEM_LAST} : e > h /\ \A g \in headers : g > h => e <= g

mcb_coalesce(chain) ==
  [h \in Kept(chain) |->
     [own |-> chain[h].own, sz |-> Following(Kept(chain), h) - h - 1]]

(***************************************************************************)
(* mcb_alloc: first fit, best fit (the first of the smallest) or last fit. *)
(***************************************************************************)
Fitting(chain, paras) == {h \in Free(chain) : chain[h].sz >= paras}

Chosen(chain, paras, strategy) ==
  CASE strategy = 0 ->
         CHOOSE h \in Fitting(chain, paras) : \A g \in Fitting(chain, paras) : h <= g
    [] strategy = 1 ->
         CHOOSE h \in Fitting(chain, paras) : \A g \in Fitting(chain, paras) :
           chain[h].sz < chain[g].sz \/ (chain[h].sz = chain[g].sz /\ h <= g)
    [] strategy = 2 ->
         CHOOSE h \in Fitting(chain, paras) : \A g \in Fitting(chain, paras) : h >= g

\* A block cut in two at the header `at'.
Split(chain, h, at, lowOwner, highOwner) ==
  [g \in DOMAIN chain \cup {at} |->
     CASE g = h  -> [own |-> lowOwner, sz |-> at - h - 1]
       [] g = at -> [own |-> highOwner, sz |-> NextHeader(chain, h) - at - 1]
       [] OTHER  -> chain[g]]

Owned(chain, h, owner) == [chain EXCEPT ![h].own = owner]

\* Whether the block is cut: a rest of less than two paragraphs stays in it.
Cuts(chain, h, paras) == chain[h].sz > paras + 1

\* Where the new block's header lies.
AllocHeader(chain, paras, strategy) ==
  LET h == Chosen(chain, paras, strategy) IN
  IF strategy = 2 /\ Cuts(chain, h, paras) THEN h + chain[h].sz - paras ELSE h

AfterAlloc(chain, paras, owner, strategy) ==
  LET h == Chosen(chain, paras, strategy) IN
  IF ~ Cuts(chain, h, paras) THEN Owned(chain, h, owner)
  ELSE IF strategy = 2 THEN Split(chain, h, h + chain[h].sz - paras, NoOwner, owner)
  ELSE Split(chain, h, h + paras + 1, owner, NoOwner)

\* What a failed call reports: the size of the largest free block.
Largest(chain) ==
  IF Free(chain) = {} THEN 0
  ELSE chain[CHOOSE h \in Free(chain) : \A g \in Free(chain) : chain[h].sz >= chain[g].sz].sz

(***************************************************************************)
(* mcb_free: a segment that names no block is left alone.                  *)
(***************************************************************************)
mcb_free(chain, seg) ==
  IF seg - 1 \in DOMAIN chain THEN mcb_coalesce(Owned(chain, seg - 1, NoOwner)) ELSE chain

(***************************************************************************)
(* mcb_resize: shrink in place, or grow into the free block behind.        *)
(***************************************************************************)
Shrunk(chain, h, paras) ==
  IF paras = chain[h].sz THEN chain
  ELSE mcb_coalesce(Split(chain, h, h + paras + 1, chain[h].own, NoOwner))

\* Mutant: the header between the two blocks is forgotten.
RoomWithoutHeader(chain, h) ==
  LET n == NextHeader(chain, h) IN
  IF n \in Free(chain) THEN chain[h].sz + chain[n].sz ELSE chain[h].sz

\* The paragraphs h's block would have with the free block behind it.
Room(chain, h) ==
  LET n == NextHeader(chain, h) IN
  IF n \in Free(chain) THEN chain[h].sz + chain[n].sz + 1 ELSE chain[h].sz

Absorbed(chain, h) ==
  [g \in DOMAIN chain \ {NextHeader(chain, h)} |->
     IF g = h THEN [own |-> chain[h].own, sz |-> Room(chain, h)] ELSE chain[g]]

Resizable(chain, h, paras) == paras <= Room(chain, h)

mcb_resize(chain, h, paras) ==
  IF ~ Resizable(chain, h, paras) THEN chain
  ELSE IF paras <= chain[h].sz THEN Shrunk(chain, h, paras)
  ELSE Shrunk(Absorbed(chain, h), h, paras)
=============================================================================
