-------------------------------- MODULE Dos ---------------------------------
(***************************************************************************)
(* Programs and memory of the DOS layer (src/dos.c): EXEC, exit and "stay  *)
(* resident", the memory calls 48h/49h/4Ah/58h, the memory control blocks  *)
(* they work on (module Mcb) and the interrupt vectors a resident driver   *)
(* hooks.                                                                  *)
(*                                                                         *)
(* The guest is well behaved: it frees and resizes only blocks it was      *)
(* given, a program that exits has taken its own vectors back, and it      *)
(* passes no environment block of its own to EXEC.                         *)
(***************************************************************************)
EXTENDS Mcb, SequencesExt

CONSTANTS
  Images,    \* programs: records [min, need] of paragraphs, PSP included
  PspSize,   \* paragraphs of a PSP, and so of the least resident program
  EnvSize,   \* paragraphs of an environment block
  Sizes,     \* sizes the guest asks 48h and 4Ah for
  MaxProcs,  \* bound: programs nested in one another (8 in the code)
  MaxGiven,  \* bound: blocks the guest holds from 48h
  Strategies,  \* allocation strategies the guest sets: first, best, last fit
  Vectors    \* interrupt vectors the guest hooks

ASSUME DosAssumption ==
  /\ Images \subseteq {i \in [min : Nat, need : Nat] : PspSize <= i.min /\ i.min <= i.need}
  /\ PspSize \in Nat \ {0} /\ EnvSize \in Nat /\ Sizes \subseteq Nat
  /\ MaxProcs \in Nat \ {0} /\ MaxGiven \in Nat /\ Strategies \subseteq 0 .. 2
  /\ MEM_FIRST >= 8   \* no segment is the environments' owner mark

VARIABLES
  chain,       \* the memory control blocks
  strategy,    \* dos_alloc_strategy
  cur_psp,     \* the running program's PSP, 0 when there is none
  procs,       \* the EXEC stack, innermost last
  psp_parent,  \* the parent field at each segment: what memory says there,
               \* whether or not the program is still loaded
  ivt,         \* the interrupt vectors: a PSP's segment, 0 for the BIOS
  ivt_snap,    \* the vectors at the last EXEC
  dos_done,    \* the root program has exited
  stale,       \* history: the snapshot lost what a resident driver found
  given,       \* history: blocks the guest has from 48h, with their owner
  before,      \* history: for each program of procs, memory at its EXEC
  leaky        \* history: for each program, something leaves memory changed on purpose

memory == <<chain, strategy>>
vars == <<memory, cur_psp, procs, psp_parent, ivt, ivt_snap, dos_done,
          stale, given, before, leaky>>

Bios == 0
EnvOwner == 8
Segments == MEM_FIRST + 1 .. MEM_LAST

Top   == Last(procs)
Below == Front(procs)

Running == cur_psp # 0 /\ ~ dos_done

Init ==
  /\ chain = mcb_init /\ strategy = 0
  /\ cur_psp = 0 /\ procs = <<>>
  /\ psp_parent = [s \in Segments |-> 0]
  /\ ivt = [v \in Vectors |-> Bios] /\ ivt_snap = ivt
  /\ dos_done = FALSE
  /\ stale = FALSE /\ given = {} /\ before = <<>> /\ leaky = <<>>

-----------------------------------------------------------------------------
(***************************************************************************)
(* Memory calls.                                                           *)
(***************************************************************************)
\* INT 21h AH=48h.
Alloc(paras) ==
  /\ Running /\ Cardinality(given) < MaxGiven
  /\ IF Fitting(chain, paras) # {}
     THEN /\ chain' = AfterAlloc(chain, paras, cur_psp, strategy)
          /\ given' = given \cup {[seg |-> AllocHeader(chain, paras, strategy) + 1,
                                   psp |-> cur_psp]}
     ELSE UNCHANGED <<chain, given>>
  /\ UNCHANGED <<strategy, cur_psp, procs, psp_parent, ivt, ivt_snap, dos_done, stale, before, leaky>>

\* INT 21h AH=49h.
FreeBlock(block) ==
  /\ Running /\ block \in given /\ block.psp = cur_psp
  /\ chain' = mcb_free(chain, block.seg)
  /\ given' = given \ {block}
  /\ UNCHANGED <<strategy, cur_psp, procs, psp_parent, ivt, ivt_snap, dos_done, stale, before, leaky>>

\* INT 21h AH=4Ah, on the program's own block (a program keeps its PSP) or
\* on one it was given.
Resize(seg, paras) ==
  /\ Running
  /\ \/ seg = cur_psp /\ paras >= PspSize
     \/ [seg |-> seg, psp |-> cur_psp] \in given
  /\ chain' = mcb_resize(chain, seg - 1, paras)
  /\ UNCHANGED <<strategy, cur_psp, procs, psp_parent, ivt, ivt_snap, dos_done,
                 stale, given, before, leaky>>

\* INT 21h AH=58h.
SetStrategy(s) ==
  /\ Running
  /\ strategy' = s
  /\ UNCHANGED <<chain, cur_psp, procs, psp_parent, ivt, ivt_snap, dos_done,
                 stale, given, before, leaky>>

\* INT 21h AH=25h: the running program points a vector at itself, or puts
\* back what it found there when it was started.
Hook(v) ==
  /\ Running
  /\ ivt' = [ivt EXCEPT ![v] = cur_psp]
  /\ procs' = [procs EXCEPT ![Len(procs)].hooks = @ \cup {v}]
  /\ UNCHANGED <<memory, cur_psp, psp_parent, ivt_snap, dos_done, stale, given, before, leaky>>

Unhook(v) ==
  /\ Running /\ v \in Top.hooks
  /\ ivt' = [ivt EXCEPT ![v] = Top.found[v]]
  /\ procs' = [procs EXCEPT ![Len(procs)].hooks = @ \ {v}]
  /\ UNCHANGED <<memory, cur_psp, psp_parent, ivt_snap, dos_done, stale, given, before, leaky>>

-----------------------------------------------------------------------------
(***************************************************************************)
(* EXEC (dos_exec, make_env, load_mz).                                     *)
(***************************************************************************)
\* The environment comes first; without room for it the program has none.
EnvFits == Fitting(chain, EnvSize) # {}
WithEnv == IF EnvFits THEN AfterAlloc(chain, EnvSize, EnvOwner, strategy) ELSE chain
EnvSeg  == IF EnvFits THEN AllocHeader(chain, EnvSize, strategy) + 1 ELSE 0

\* What the program gets: all it can use, or else the largest free block if
\* that is enough for it.
Granted(image) ==
  IF Fitting(WithEnv, image.need) # {} THEN image.need ELSE Largest(WithEnv)

Loads(image) == Granted(image) >= image.min /\ Fitting(WithEnv, Granted(image)) # {}

LoadedPsp(image) == AllocHeader(WithEnv, Granted(image), strategy) + 1

\* Memory under a program just loaded: its PSP, and nothing of what was there.
LoadedOver(psp, size, parent) ==
  [s \in Segments |-> IF s = psp THEN parent
                      ELSE IF s \in psp .. psp + size - 1 THEN 0
                      ELSE psp_parent[s]]

\* A block left behind is taken for the new program's or a child's of it: its
\* owner mark, or the parent its owner's PSP names, is the new PSP's segment.
Mistaken(psp) ==
  \E h \in DOMAIN chain :
    /\ chain[h].own \in Segments
    /\ chain[h].own = psp \/ psp_parent[chain[h].own] = psp

Exec(image) ==
  /\ ~ dos_done /\ Len(procs) < MaxProcs
  /\ cur_psp = 0 => procs = <<>>
  /\ Loads(image)
  /\ LET psp == LoadedPsp(image) IN
     /\ chain' = AfterAlloc(WithEnv, Granted(image), psp, strategy)
     /\ psp_parent' = LoadedOver(psp, Granted(image), IF cur_psp = 0 THEN psp ELSE cur_psp)
     /\ procs' = Append(procs, [psp |-> psp, parent |-> cur_psp, env |-> EnvSeg,
                               found |-> ivt, hooks |-> {}])
     /\ cur_psp' = psp
     /\ leaky' = Append([n \in DOMAIN leaky |-> leaky[n] \/ Mistaken(psp)], Mistaken(psp))
  /\ ivt_snap' = ivt
  /\ stale' = (stale \/ \E v \in Vectors :
                           ivt[v] # Bios /\ \A n \in DOMAIN procs : procs[n].psp # ivt[v])
  /\ before' = Append(before, chain)
  /\ UNCHANGED <<strategy, ivt, dos_done, given>>

\* A program that does not fit: the caller gets an error.  Its environment
\* block stays behind.
ExecFails(image) ==
  /\ Running /\ Len(procs) < MaxProcs
  /\ ~ Loads(image)
  /\ chain' = WithEnv
  /\ leaky' = [n \in DOMAIN leaky |-> leaky[n] \/ EnvFits]
  /\ UNCHANGED <<strategy, cur_psp, procs, psp_parent, ivt, ivt_snap, dos_done, stale, given, before>>

-----------------------------------------------------------------------------
(***************************************************************************)
(* The end of a program (dos_terminate2).                                  *)
(***************************************************************************)
\* mcb_free_children: the blocks of programs whose parent field names psp.
\* Mutant: whose child it is is not looked at.
ForeignBlocks(c, psp) ==
  {h \in DOMAIN c : c[h].own \notin {NoOwner, EnvOwner, psp}}

ChildBlocks(c, psp) ==
  {h \in DOMAIN c : /\ c[h].own \notin {NoOwner, EnvOwner, psp}
                    /\ psp_parent[c[h].own] = psp}

Released(c, headers) ==
  mcb_coalesce([h \in DOMAIN c |->
                  IF h \in headers THEN [c[h] EXCEPT !.own = NoOwner] ELSE c[h]])

\* ivt_unhook_range on each block released: vectors into it go back to what
\* they were at the last EXEC, unless that is what they are.
\* Mutant: memory is taken back and its vectors left alone.
VectorsStay(c, headers) == ivt

Unhooked(c, headers) ==
  [v \in Vectors |->
     IF \E h \in headers : ivt[v] \in h + 1 .. h + c[h].sz THEN ivt_snap[v] ELSE ivt[v]]

\* Mutant: the environment is forgotten.
EnvStays(c) == c

EnvFreed(c) == IF Top.env # 0 THEN mcb_free(c, Top.env) ELSE c

\* INT 21h AH=4Ch.
Exit ==
  /\ Running /\ Top.hooks = {}
  /\ LET c == mcb_free(EnvFreed(chain), Top.psp)
         children == ChildBlocks(c, Top.psp)
     IN  /\ chain' = Released(c, children)
         /\ ivt' = Unhooked(c, children)
         /\ given' = {block \in given : block.psp # Top.psp /\ block.seg - 1 \notin children}
  /\ cur_psp' = Top.parent
  /\ procs' = Below
  /\ dos_done' = (Below = <<>>)
  /\ before' = Front(before)
  /\ leaky' = [n \in DOMAIN Below |-> leaky[n] \/ \E block \in given : block.psp = cur_psp]
  /\ UNCHANGED <<strategy, psp_parent, ivt_snap, stale>>

\* INT 21h AH=31h, not by the root program.  Resident programs it started
\* itself stay behind when it is released.
StayResident(keep) ==
  /\ Running /\ Len(procs) > 1
  /\ LET paras == IF keep < PspSize THEN PspSize ELSE keep
     IN  chain' = EnvFreed(mcb_resize(chain, Top.psp - 1, paras))
  /\ cur_psp' = Top.parent
  /\ procs' = Below
  /\ before' = Front(before)
  /\ stale' = (stale \/ \E v \in Vectors : ivt[v] = cur_psp /\ ivt_snap[v] # Top.found[v])
  /\ leaky' = [n \in DOMAIN Below |-> leaky[n] \/ ChildBlocks(chain, Top.psp) # {}]
  /\ UNCHANGED <<strategy, psp_parent, ivt, ivt_snap, dos_done, given>>

Done == dos_done /\ UNCHANGED vars

Next ==
  \/ Exit \/ Done
  \/ \E paras \in Sizes : Alloc(paras) \/ StayResident(paras)
  \/ \E block \in given : FreeBlock(block)
  \/ \E seg \in {cur_psp} \cup {block.seg : block \in given}, paras \in Sizes : Resize(seg, paras)
  \/ \E s \in Strategies : SetStrategy(s)
  \/ \E v \in Vectors : Hook(v) \/ Unhook(v)
  \/ \E image \in Images : Exec(image) \/ ExecFails(image)

Spec == Init /\ [][Next]_vars

-----------------------------------------------------------------------------
\* The programs in memory, running or resident.
Loaded == {h + 1 : h \in {g \in DOMAIN chain : chain[g].own = g + 1}}

TypeOK ==
  /\ Tiled(chain) /\ strategy \in 0 .. 2
  /\ cur_psp \in Segments \cup {0}
  /\ Len(procs) <= MaxProcs
  /\ psp_parent \in [Segments -> Segments \cup {0}]
  /\ ivt \in [Vectors -> Segments \cup {Bios}]
  /\ Len(before) = Len(procs) /\ Len(leaky) = Len(procs)

\* Free memory is never split without need: no free block lies behind
\* another, so the largest size a failed 48h reports is all there is.
NoFreeNeighbours ==
  \A h \in Free(chain) : NextHeader(chain, h) \notin Free(chain)

\* What a program was given stays its own: until it exits, its PSP's block,
\* its environment and every block it got from 48h stand in the chain under
\* its name, whatever its children do and however they end.
HeldMemoryStands ==
  /\ \A n \in DOMAIN procs :
       /\ procs[n].psp - 1 \in DOMAIN chain
       /\ chain[procs[n].psp - 1].own = procs[n].psp
       /\ chain[procs[n].psp - 1].sz >= PspSize
       /\ procs[n].env # 0 => /\ procs[n].env - 1 \in DOMAIN chain
                              /\ chain[procs[n].env - 1].own = EnvOwner
  /\ \A block \in given :
       /\ block.seg - 1 \in DOMAIN chain
       /\ chain[block.seg - 1].own = block.psp

\* Both at once: what programs hold stands, and what nobody holds is merged.
HeapStands == HeldMemoryStands /\ NoFreeNeighbours

\* A program's end gives back all the memory its EXEC took: with the blocks
\* it freed itself, its resident children's and its environment, memory is
\* as it was - unless a failed EXEC, an exit with blocks from 48h still
\* allocated, or a resident grandchild left something behind, or something
\* left behind was mistaken for a program's that was loaded later.
ProgramEnds == Len(procs') < Len(procs) /\ cur_psp \notin Loaded'

MemoryComesBack ==
  [][ProgramEnds /\ ~ Last(leaky) /\ (\A block \in given : block.psp # cur_psp)
       => chain' = Last(before)]_vars

\* No vector points into memory whose program is gone, so no interrupt runs
\* another program's data - as long as the snapshot has what the drivers that
\* hold vectors found: none EXEC'd a program before it went resident, and no
\* program was EXEC'd after.
NoDanglingVector ==
  ~ stale /\ ~ dos_done => \A v \in Vectors : ivt[v] = Bios \/ ivt[v] \in Loaded

\* dos.c: the hooks of a block that is taken away are undone, "or the next
\* program to be loaded over that memory gets control on the next IRQ".
ReleasedHooksUndone ==
  ~ dos_done => \A v \in Vectors : ivt[v] = Bios \/ ivt[v] \in Loaded
=============================================================================
