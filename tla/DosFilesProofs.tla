--------------------------- MODULE DosFilesProofs ---------------------------
(***************************************************************************)
(* Proofs about the DOS layer's files (module DosFiles), for any files,    *)
(* any number of handles, of writes and of positions.                      *)
(***************************************************************************)
EXTENDS DosFiles, WellFoundedInduction, TLAPS

\* What a snapshot says of a handle.
Saved == [name : Files, wr : BOOLEAN, pos : 0 .. MaxPos]

Typed ==
  /\ install \in [Files -> {None, Stock}] /\ overlay \in [Files -> Version]
  /\ fh \in [Handle -> Stream \cup {Unused}]
  /\ state_shadow \in BOOLEAN
  /\ DOMAIN snap \subseteq Handle /\ \A h \in DOMAIN snap : snap[h] \in Saved
  /\ version \in Old .. Old + MaxWrites
  /\ latest \in [Files -> Version] /\ plain \subseteq Files

\* A stream of a table: who writes has the copy open, only who writes has
\* something in the buffer, written by this session, and an open copy exists.
Sound(s, o) ==
  /\ s.wr => s.at = "overlay"
  /\ s.buffer # None => s.wr /\ s.buffer > Old
  /\ s.at = "overlay" => o[s.name] # None

SoundTable(t, o) == \A h \in Handle : t[h].used => Sound(t[h], o)

\* Under the shadow a state file is read from the overlay, where only the
\* session itself has put it.
ShadowKept(o, t) ==
  \A name \in StateFiles :
    /\ o[name] = None \/ o[name] > Old
    /\ \A h \in Handle : t[h].used /\ t[h].name = name => t[h].at = "overlay"

Openers(t, name) == {h \in Handle : t[h].used /\ t[h].name = name}

FoundIn(i, o, s) ==
  IF s.buffer # None THEN s.buffer ELSE IF s.at = "overlay" THEN o[s.name] ELSE i[s.name]

\* What a file reads as when it is opened: `hidden' says that the shadow is on
\* it.
ReadsAs(i, o, hidden, name) == IF o[name] # None \/ hidden THEN o[name] ELSE i[name]

(***************************************************************************)
(* A file that was never deleted and never open twice reads as it was last *)
(* written: it is open once at most, a stream finds what was written, a    *)
(* stream on the installation has no copy beside it that it would miss,    *)
(* and when nobody has it open the next one will find it.                  *)
(***************************************************************************)
PlainIn(i, o, t, hidden, last, name) ==
  /\ \A h, k \in Openers(t, name) : h = k
  /\ \A h \in Openers(t, name) :
       FoundIn(i, o, t[h]) = last /\ (t[h].at = "install" => o[name] = None /\ ~ hidden)
  /\ Openers(t, name) = {} => ReadsAs(i, o, hidden, name) = last

Hidden(name) == state_shadow /\ name \in StateFiles

\* Nor does a snapshot hold it twice.
PlainKept ==
  \A name \in plain :
    /\ PlainIn(install, overlay, fh, Hidden(name), latest[name], name)
    /\ \A h, k \in DOMAIN snap : snap[h].name = name /\ snap[k].name = name => h = k

\* The inductive invariant.
FInv ==
  /\ Typed
  /\ SoundTable(fh, overlay)
  /\ state_shadow => ShadowKept(overlay, fh)
  /\ PlainKept

-----------------------------------------------------------------------------
(***************************************************************************)
(* Numbers and entries of a table.                                         *)
(***************************************************************************)
\* A set of numbers has a least one.
LEMMA LeastElement ==
  ASSUME NEW T \in SUBSET Nat, T # {}
  PROVE  \E x \in T : \A y \in T : x <= y
<1>1. PICK x \in T : \A y \in T : ~ (<<y, x>> \in OpToRel(<, Nat))
  BY NatLessThanWellFounded, WFMin
<1>2. \A y \in T : ~ (y < x)
  BY <1>1 DEF OpToRel
<1> QED
  BY <1>2

\* A set of handles has a greatest one.
LEMMA GreatestHandle ==
  ASSUME NEW T \in SUBSET Handle, T # {}
  PROVE  \E x \in T : \A y \in T : y <= x
<1> DEFINE U == {LastHandle - t : t \in T}
<1>0. \A t \in T : t \in Nat /\ t <= LastHandle
  BY FilesAssumption DEF Handle
<1>1. U \in SUBSET Nat /\ U # {}
  <2>1. PICK t \in T : TRUE
    OBVIOUS
  <2>2. LastHandle - t \in U
    OBVIOUS
  <2>3. ASSUME NEW u \in U PROVE u \in Nat
    BY <1>0, FilesAssumption DEF U
  <2> QED
    BY <2>2, <2>3
<1>2. PICK u \in U : \A v \in U : u <= v
  BY <1>1, LeastElement
<1>3. PICK x \in T : u = LastHandle - x
  BY <1>2
<1>4. \A y \in T : LastHandle - x <= LastHandle - y
  BY <1>2, <1>3
<1> QED
  BY <1>0, <1>4, FilesAssumption

\* alloc_handle returns a free handle, and no lower one is free.
LEMMA Allocated ==
  ASSUME NEW t, FreeHandles(t) # {}
  PROVE  /\ alloc_handle(t) \in Handle /\ ~ t[alloc_handle(t)].used
         /\ \A k \in FreeHandles(t) : alloc_handle(t) <= k
<1>1. FreeHandles(t) \in SUBSET Nat
  BY FilesAssumption DEF FreeHandles, Handle
<1>2. PICK x \in FreeHandles(t) : \A k \in FreeHandles(t) : x <= k
  BY <1>1, LeastElement
<1>3. alloc_handle(t) \in FreeHandles(t) /\ \A k \in FreeHandles(t) : alloc_handle(t) <= k
  BY <1>2 DEF alloc_handle
<1> QED
  BY <1>3 DEF FreeHandles

\* What is in use is a stream.
LEMMA InUse ==
  ASSUME NEW t \in [Handle -> Stream \cup {Unused}], NEW h \in Handle, t[h].used
  PROVE  /\ t[h] \in Stream /\ t[h].name \in Files /\ t[h].wr \in BOOLEAN
         /\ t[h].at \in {"install", "overlay"} /\ t[h].pos \in 0 .. MaxPos
         /\ t[h].buffer \in Version
<1>1. t[h] \in Stream
  BY DEF Unused
<1> QED
  BY <1>1 DEF Stream

\* The stream a call opens.
LEMMA Opened ==
  ASSUME NEW name \in Files, NEW writing \in BOOLEAN, NEW at \in {"install", "overlay"},
         NEW pos \in 0 .. MaxPos
  PROVE  LET s == NewStream(name, writing, at, pos) IN
         /\ s \in Stream /\ s.used /\ s.name = name /\ s.wr = writing /\ s.at = at
         /\ s.pos = pos /\ s.buffer = None
<1>1. None \in Version
  BY FilesAssumption DEF None, Version, Old
<1> QED
  BY <1>1 DEF NewStream, Stream

\* A table with one entry replaced by a stream.
LEMMA Placed ==
  ASSUME NEW t \in [Handle -> Stream \cup {Unused}], NEW h \in Handle, NEW s \in Stream
  PROVE  LET u == [t EXCEPT ![h] = s] IN
         /\ u \in [Handle -> Stream \cup {Unused}]
         /\ u[h] = s /\ u[h].used
         /\ \A k \in Handle \ {h} : u[k] = t[k]
  BY DEF Stream

\* A stream that was moved.
LEMMA MovedOn ==
  ASSUME NEW s \in Stream, NEW pos \in 0 .. MaxPos
  PROVE  LET u == [s EXCEPT !.pos = pos] IN
         /\ u \in Stream /\ u.name = s.name /\ u.wr = s.wr /\ u.at = s.at /\ u.buffer = s.buffer
  BY DEF Stream

-----------------------------------------------------------------------------
(***************************************************************************)
(* One file at a time.  What a step leaves of a file: its two versions and *)
(* the streams on it.                                                      *)
(***************************************************************************)
SameFile(i, o, t, i2, o2, t2, name) ==
  /\ i2[name] = i[name] /\ o2[name] = o[name]
  /\ Openers(t2, name) = Openers(t, name)
  /\ \A h \in Openers(t, name) : t2[h] = t[h]

\* A file whose versions and streams are the same reads the same.
LEMMA Untouched ==
  ASSUME NEW i, NEW o, NEW t, NEW i2, NEW o2, NEW t2, NEW hidden, NEW last, NEW name,
         SameFile(i, o, t, i2, o2, t2, name), PlainIn(i, o, t, hidden, last, name)
  PROVE  PlainIn(i2, o2, t2, hidden, last, name)
<1>1. \A h \in Openers(t, name) : FoundIn(i2, o2, t2[h]) = FoundIn(i, o, t[h])
  BY DEF FoundIn, Openers, SameFile
<1>2. ReadsAs(i2, o2, hidden, name) = ReadsAs(i, o, hidden, name)
  BY DEF ReadsAs, SameFile
<1> QED
  BY <1>1, <1>2 DEF PlainIn, SameFile

\* A file nobody else had open and that one stream now has.
LEMMA OpenedOnce ==
  ASSUME NEW t, NEW u, NEW h \in Handle, NEW name, \A k \in Handle \ {h} : u[k] = t[k],
         Openers(t, name) \subseteq {h}, u[h].used, u[h].name = name,
         NEW i, NEW o, NEW hidden, NEW last,
         FoundIn(i, o, u[h]) = last, u[h].at = "install" => o[name] = None /\ ~ hidden
  PROVE  PlainIn(i, o, u, hidden, last, name)
<1>1. Openers(u, name) = {h}
  BY DEF Openers
<1> QED
  BY <1>1 DEF PlainIn

\* Soundness looks at a file only to see that the copy is there.
LEMMA StillSound ==
  ASSUME NEW t \in [Handle -> Stream \cup {Unused}], NEW o, NEW o2, SoundTable(t, o),
         \A name \in Files : o[name] # None => o2[name] # None
  PROVE  SoundTable(t, o2)
  BY InUse DEF SoundTable, Sound

\* A sound stream put into a sound table.
LEMMA PlacedSound ==
  ASSUME NEW t \in [Handle -> Stream \cup {Unused}], NEW h \in Handle, NEW s \in Stream,
         NEW o, SoundTable(t, o), Sound(s, o), NEW u, u = [t EXCEPT ![h] = s]
  PROVE  SoundTable(u, o)
<1>1. u[h] = s /\ \A k \in Handle \ {h} : u[k] = t[k]
  BY Placed
<1> QED
  BY <1>1 DEF SoundTable

\* Nothing of a sound stream goes to the installation.
LEMMA SparesInstall ==
  ASSUME NEW s, NEW o, Sound(s, o), NEW files
  PROVE  FlushedTo("install", files, s) = files
  BY DEF Sound, FlushedTo

\* What is left of it goes to its own copy.
LEMMA WrittenOut ==
  ASSUME NEW s \in Stream, NEW o \in [Files -> Version], Sound(s, o)
  PROVE  LET o2 == FlushedTo("overlay", o, s) IN
         /\ o2 \in [Files -> Version]
         /\ \A name \in Files \ {s.name} : o2[name] = o[name]
         /\ o2[s.name] = IF s.buffer # None THEN s.buffer ELSE o[s.name]
  BY DEF Sound, FlushedTo, Stream

-----------------------------------------------------------------------------
(***************************************************************************)
(* The first state.                                                        *)
(***************************************************************************)
LEMMA InitHolds == Init => FInv
<1> SUFFICES ASSUME Init PROVE FInv
  OBVIOUS
<1>0. None \in Version /\ Old \in Version /\ Stock \in Version /\ None # Old /\ None # Stock
  BY FilesAssumption DEF None, Old, Stock, Version
<1>1. PICK v \in {None, Old} : overlay = [name \in Files |-> v]
  BY DEF Init
<1>2. install \in [Files -> {None, Stock}] /\ state_shadow \in BOOLEAN
      /\ fh = [h \in Handle |-> Unused] /\ plain = Files /\ version = Old
  BY DEF Init
<1>3. DOMAIN snap = {}
  BY DEF Init
<1>4. latest = [name \in Files |-> IF overlay[name] # None THEN overlay[name]
                                  ELSE IF Shadowed(name) THEN None ELSE install[name]]
  BY DEF Init
<1>5. Typed
  <2>1. latest \in [Files -> Version]
    BY <1>0, <1>1, <1>2, <1>4
  <2>2. version \in Old .. Old + MaxWrites
    BY <1>2, FilesAssumption DEF Old
  <2>3. fh \in [Handle -> Stream \cup {Unused}]
    BY <1>2
  <2>4. overlay \in [Files -> Version]
    BY <1>0, <1>1
  <2> QED
    BY <1>2, <1>3, <2>1, <2>2, <2>3, <2>4 DEF Typed
<1>6. \A h \in Handle : ~ fh[h].used
  BY <1>2 DEF Unused
<1>7. state_shadow => ShadowKept(overlay, fh)
  <2>1. state_shadow => \A name \in Files : overlay[name] = None
    BY DEF Init
  <2> QED
    BY <1>6, <2>1, FilesAssumption DEF ShadowKept
<1>8. ASSUME NEW name \in plain
      PROVE  PlainIn(install, overlay, fh, Hidden(name), latest[name], name)
  <2>1. Openers(fh, name) = {}
    BY <1>6 DEF Openers
  <2>2. latest[name] = IF overlay[name] # None THEN overlay[name]
                       ELSE IF Shadowed(name) THEN None ELSE install[name]
    BY <1>2, <1>4
  <2>3. ReadsAs(install, overlay, Hidden(name), name) = latest[name]
    BY <2>2 DEF ReadsAs, Hidden, Shadowed
  <2> QED
    BY <2>1, <2>3 DEF PlainIn
<1> QED
  BY <1>3, <1>5, <1>6, <1>7, <1>8 DEF FInv, SoundTable, PlainKept

-----------------------------------------------------------------------------
(***************************************************************************)
(* The calls.                                                              *)
(***************************************************************************)
\* What a name leads to when it is opened: the copy, which is there then, or
\* the installation where no copy hides it.
LEMMA Leads ==
  ASSUME Typed, NEW name \in Files, NEW writing \in BOOLEAN
  PROVE  LET o == Copied(name, writing) IN
         /\ o \in [Files -> Version]
         /\ \A other \in Files \ {name} : o[other] = overlay[other]
         /\ overlay[name] # None => o = overlay
         /\ Hidden(name) /\ overlay[name] = None => o = overlay
         /\ OpensAt(name, writing) \in {"install", "overlay"}
         /\ writing => OpensAt(name, writing) = "overlay"
         /\ Hidden(name) => OpensAt(name, writing) = "overlay"
         /\ OpensAt(name, writing) = "install" => o = overlay /\ overlay[name] = None
         /\ OpensAt(name, writing) = "overlay" /\ overlay[name] = None /\ ~ Hidden(name)
              => o[name] = install[name]
<1>1. install[name] \in Version
  BY FilesAssumption DEF Typed, None, Stock, Version, Old
<1> QED
  BY <1>1 DEF Typed, Copied, OpensAt, Shadowed, Hidden

\* AH=3Dh keeps the invariant.
LEMMA OpenHolds ==
  ASSUME FInv, NEW name \in Files, NEW writing \in BOOLEAN, OpenFile(name, writing)
  PROVE  FInv'
<1> DEFINE at == OpensAt(name, writing)
           o  == Copied(name, writing)
           f  == alloc_handle(fh)
           s  == NewStream(name, writing, at, 0)
           found == IF at = "overlay" THEN o[name] ELSE install[name]
<1>1. /\ overlay' = o /\ fh' = IF found = None THEN fh ELSE [fh EXCEPT ![f] = s]
      /\ plain' = StillPlain(name) /\ FreeHandles(fh) # {}
      /\ install' = install /\ state_shadow' = state_shadow /\ snap' = snap
      /\ version' = version /\ latest' = latest
  BY DEF OpenFile
<1>2. Typed /\ SoundTable(fh, overlay) /\ (state_shadow => ShadowKept(overlay, fh)) /\ PlainKept
  BY DEF FInv
<1>3. /\ o \in [Files -> Version]
      /\ \A other \in Files \ {name} : o[other] = overlay[other]
      /\ overlay[name] # None => o = overlay
      /\ Hidden(name) /\ overlay[name] = None => o = overlay
      /\ at \in {"install", "overlay"}
      /\ writing => at = "overlay"
      /\ Hidden(name) => at = "overlay"
      /\ at = "install" => o = overlay /\ overlay[name] = None
      /\ at = "overlay" /\ overlay[name] = None /\ ~ Hidden(name) => o[name] = install[name]
  BY <1>2, Leads
<1>4. f \in Handle /\ ~ fh[f].used
  BY <1>1, Allocated
<1>5. /\ s \in Stream /\ s.used /\ s.name = name /\ s.wr = writing /\ s.at = at
      /\ s.pos = 0 /\ s.buffer = None
  <2>1. 0 \in 0 .. MaxPos
    BY FilesAssumption
  <2> QED
    BY <1>3, <2>1, Opened
<1> HIDE DEF at, o, f, s, found
<1>t. fh \in [Handle -> Stream \cup {Unused}]
  BY <1>2 DEF Typed
<1>u. fh' \in [Handle -> Stream \cup {Unused}]
  BY <1>1, <1>4, <1>5, <1>t, Placed
<1>e. found # None => fh'[f] = s /\ \A k \in Handle \ {f} : fh'[k] = fh[k]
  BY <1>1, <1>4, <1>5, <1>t, Placed
<1>p. plain' \subseteq plain /\ plain \subseteq Files /\ (name \in plain' => Open(name) = {})
  BY <1>1, <1>2 DEF StillPlain, Typed
<1>6. Typed'
  BY <1>1, <1>2, <1>3, <1>u, <1>p DEF Typed
<1>7. SoundTable(fh', overlay')
  <2>1. \A other \in Files : overlay[other] # None => o[other] # None
    BY <1>3
  <2>2. SoundTable(fh, o)
    BY <1>2, <1>t, <2>1, StillSound
  <2>3. found # None => Sound(s, o)
    BY <1>3, <1>5 DEF Sound, found
  <2> QED
    BY <1>1, <1>4, <1>5, <1>t, <2>2, <2>3, PlacedSound
<1>8. state_shadow' => ShadowKept(overlay', fh')
  <2> SUFFICES ASSUME state_shadow, NEW n \in StateFiles
               PROVE  /\ o[n] = None \/ o[n] > Old
                      /\ \A h \in Handle : fh'[h].used /\ fh'[h].name = n => fh'[h].at = "overlay"
    BY <1>1 DEF ShadowKept
  <2>1. /\ overlay[n] = None \/ overlay[n] > Old
        /\ \A h \in Handle : fh[h].used /\ fh[h].name = n => fh[h].at = "overlay"
    BY <1>2 DEF ShadowKept
  <2>2. n \in Files
    BY FilesAssumption
  <2>3. o[n] = overlay[n]
    BY <1>3, <2>2 DEF Hidden
  <2>4. n = name => at = "overlay"
    BY <1>3 DEF Hidden
  <2>5. \A h \in Handle : fh'[h] = fh[h] \/ (h = f /\ fh'[h] = s)
    BY <1>1, <1>4, <1>5, <1>t, Placed
  <2> QED
    BY <1>5, <2>1, <2>3, <2>4, <2>5
<1>9. PlainKept'
  <2> SUFFICES ASSUME NEW n \in plain'
               PROVE  PlainIn(install, o, fh', Hidden(n), latest[n], n)
    BY <1>1, <1>2, <1>p DEF PlainKept, Hidden
  <2>1. PlainIn(install, overlay, fh, Hidden(n), latest[n], n) /\ n \in Files
    BY <1>2, <1>p DEF PlainKept
  <2>2. CASE n # name
    <3>1. o[n] = overlay[n]
      BY <1>3, <2>1, <2>2
    <3>3. Openers(fh', n) = Openers(fh, n) /\ \A k \in Openers(fh, n) : fh'[k] = fh[k]
      <4>1. CASE found = None
        BY <1>1, <4>1
      <4>2. CASE found # None
        <5>1. \A k \in Handle \ {f} : fh'[k] = fh[k]
          BY <1>e, <4>2
        <5>2. ~ (fh[f].used /\ fh[f].name = n) /\ ~ (fh'[f].used /\ fh'[f].name = n)
          BY <1>4, <1>5, <1>e, <2>2, <4>2
        <5> QED
          BY <5>1, <5>2 DEF Openers
      <4> QED
        BY <4>1, <4>2
    <3>4. SameFile(install, overlay, fh, install, o, fh', n)
      BY <3>1, <3>3 DEF SameFile
    <3> QED
      BY <2>1, <3>4, Untouched
  <2>3. CASE n = name
    <3>1. Openers(fh, n) = {}
      BY <1>p, <2>3 DEF Open, Openers
    <3>2. ReadsAs(install, overlay, Hidden(n), n) = latest[n]
      BY <2>1, <3>1 DEF PlainIn
    <3>3. CASE found = None
      <4>1. ReadsAs(install, o, Hidden(n), n) = latest[n]
        BY <1>3, <2>3, <3>2, <3>3 DEF ReadsAs, found
      <4> QED
        BY <1>1, <3>1, <3>3, <4>1 DEF PlainIn
    <3>4. CASE found # None
      <4>1. FoundIn(install, o, s) = latest[n]
        BY <1>3, <1>5, <2>3, <3>2, <3>4 DEF ReadsAs, FoundIn, found
      <4>2. s.at = "install" => o[n] = None /\ ~ Hidden(n)
        BY <1>3, <1>5, <2>3
      <4>3. fh'[f] = s /\ \A k \in Handle \ {f} : fh'[k] = fh[k]
        BY <1>e, <3>4
      <4> QED
        BY <1>4, <1>5, <2>3, <3>1, <4>1, <4>2, <4>3, OpenedOnce
    <3> QED
      BY <3>3, <3>4
  <2> QED
    BY <2>2, <2>3
<1> QED
  BY <1>6, <1>7, <1>8, <1>9 DEF FInv

\* A call on an open handle keeps the invariant when the stream stays what it
\* is, its file is the only one touched, by a stream that may write, and the
\* stream finds what was written last.
LEMMA HandleHolds ==
  ASSUME FInv, NEW h \in Handle, fh[h].used, NEW s \in Stream,
         s.name = fh[h].name, s.wr = fh[h].wr, s.at = fh[h].at,
         s.buffer # None => s.wr /\ s.buffer > Old,
         fh' = [fh EXCEPT ![h] = s],
         overlay' \in [Files -> Version],
         \A name \in Files \ {s.name} : overlay'[name] = overlay[name],
         overlay'[s.name] = overlay[s.name] \/ (s.wr /\ overlay'[s.name] > Old),
         version' \in Old .. Old + MaxWrites,
         latest' \in [Files -> Version],
         \A name \in Files \ {s.name} : latest'[name] = latest[name],
         s.name \in plain => FoundIn(install, overlay', s) = latest'[s.name],
         UNCHANGED <<install, state_shadow, snap, plain>>
  PROVE  FInv'
<1>1. Typed /\ SoundTable(fh, overlay) /\ (state_shadow => ShadowKept(overlay, fh)) /\ PlainKept
  BY DEF FInv
<1>2. fh \in [Handle -> Stream \cup {Unused}]
  BY <1>1 DEF Typed
<1>3. /\ fh' \in [Handle -> Stream \cup {Unused}]
      /\ fh'[h] = s /\ s.used
      /\ \A k \in Handle \ {h} : fh'[k] = fh[k]
  BY <1>2, Placed
<1>4. Sound(fh[h], overlay)
  BY <1>1 DEF SoundTable
<1>5. None \in Nat /\ Old \in Nat /\ None < Old
  BY DEF None, Old
<1>n. s.name \in Files
  BY DEF Stream
<1>6. \A name \in Files : overlay[name] # None => overlay'[name] # None
  BY <1>5
<1>7. Typed'
  BY <1>1, <1>3 DEF Typed
<1>8. SoundTable(fh', overlay')
  <2>1. \A k \in Handle \ {h} : fh[k].used => Sound(fh[k], overlay')
    BY <1>1, <1>2, <1>6, InUse DEF SoundTable, Sound
  <2>2. Sound(s, overlay')
    BY <1>4, <1>6, <1>n DEF Sound
  <2> QED
    BY <1>3, <2>1, <2>2 DEF SoundTable
<1>9. state_shadow' => ShadowKept(overlay', fh')
  <2> SUFFICES ASSUME state_shadow, NEW n \in StateFiles
               PROVE  /\ overlay'[n] = None \/ overlay'[n] > Old
                      /\ \A k \in Handle : fh'[k].used /\ fh'[k].name = n => fh'[k].at = "overlay"
    BY DEF ShadowKept
  <2>1. /\ overlay[n] = None \/ overlay[n] > Old
        /\ \A k \in Handle : fh[k].used /\ fh[k].name = n => fh[k].at = "overlay"
    BY <1>1 DEF ShadowKept
  <2>2. n \in Files
    BY FilesAssumption
  <2>3. overlay'[n] = None \/ overlay'[n] > Old
    BY <2>1, <2>2
  <2>4. \A k \in Handle : fh'[k].used /\ fh'[k].name = n => fh'[k].at = "overlay"
    BY <1>3, <2>1
  <2> QED
    BY <2>3, <2>4
<1>10. PlainKept'
  <2> SUFFICES ASSUME NEW n \in plain
               PROVE  PlainIn(install, overlay', fh', Hidden(n), latest'[n], n)
    BY <1>1 DEF PlainKept, Hidden
  <2>1. PlainIn(install, overlay, fh, Hidden(n), latest[n], n) /\ n \in Files
    BY <1>1 DEF PlainKept, Typed
  <2>2. CASE n # s.name
    <3>1. overlay'[n] = overlay[n] /\ latest'[n] = latest[n]
      BY <2>1, <2>2
    <3>2. ~ (fh[h].used /\ fh[h].name = n) /\ ~ (fh'[h].used /\ fh'[h].name = n)
      BY <1>3, <2>2
    <3>3. Openers(fh', n) = Openers(fh, n) /\ \A k \in Openers(fh, n) : fh'[k] = fh[k]
      BY <1>3, <3>2 DEF Openers
    <3>4. SameFile(install, overlay, fh, install, overlay', fh', n)
      BY <3>1, <3>3 DEF SameFile
    <3> QED
      BY <2>1, <3>1, <3>4, Untouched
  <2>3. CASE n = s.name
    <3>1. h \in Openers(fh, n)
      BY <2>3 DEF Openers
    <3>2. Openers(fh, n) \subseteq {h}
      BY <2>1, <3>1 DEF PlainIn
    <3>3. fh[h].at = "install" => overlay[n] = None /\ ~ Hidden(n)
      BY <2>1, <3>1 DEF PlainIn
    <3>4. fh'[h].at = "install" => overlay'[n] = None /\ ~ Hidden(n)
      BY <1>3, <1>4, <2>3, <3>3 DEF Sound
    <3>5. FoundIn(install, overlay', fh'[h]) = latest'[n]
      BY <1>3, <2>3
    <3>6. fh'[h].used /\ fh'[h].name = n /\ \A k \in Handle \ {h} : fh'[k] = fh[k]
      BY <1>3, <2>3
    <3>7. Openers(fh', n) = {h}
      BY <3>2, <3>6 DEF Openers
    <3> QED
      BY <3>4, <3>5, <3>7 DEF PlainIn
  <2> QED
    BY <2>2, <2>3
<1> QED
  BY <1>7, <1>8, <1>9, <1>10 DEF FInv

\* What is known of an open handle.
LEMMA OfHandle ==
  ASSUME FInv, NEW h \in Handle, fh[h].used
  PROVE  /\ fh[h] \in Stream /\ fh[h].name \in Files /\ fh[h].wr \in BOOLEAN
         /\ fh[h].pos \in 0 .. MaxPos /\ fh[h].buffer \in Version
         /\ Sound(fh[h], overlay)
         /\ fh[h].name \in plain => FoundIn(install, overlay, fh[h]) = latest[fh[h].name]
<1>1. Typed /\ SoundTable(fh, overlay) /\ PlainKept
  BY DEF FInv
<1>2. fh \in [Handle -> Stream \cup {Unused}]
  BY <1>1 DEF Typed
<1>3. h \in Openers(fh, fh[h].name)
  BY DEF Openers
<1>4. fh[h].name \in plain => FoundIn(install, overlay, fh[h]) = latest[fh[h].name]
  BY <1>1, <1>3 DEF PlainKept, PlainIn
<1> QED
  BY <1>1, <1>2, <1>4, InUse DEF SoundTable

\* AH=3Fh keeps the invariant.
LEMMA ReadHolds ==
  ASSUME FInv, NEW h \in Handle, Read(h)
  PROVE  FInv'
<1>1. /\ fh[h].used /\ fh[h].pos < MaxPos /\ fh' = [fh EXCEPT ![h].pos = fh[h].pos + 1]
      /\ UNCHANGED <<install, overlay, state_shadow, snap, version, latest, plain>>
  BY DEF Read
<1>2. /\ fh[h] \in Stream /\ fh[h].pos \in 0 .. MaxPos /\ fh[h].buffer \in Version
      /\ Sound(fh[h], overlay)
      /\ fh[h].name \in plain => FoundIn(install, overlay, fh[h]) = latest[fh[h].name]
  BY <1>1, OfHandle
<1> DEFINE s == [fh[h] EXCEPT !.pos = fh[h].pos + 1]
<1>3. s \in Stream /\ s.name = fh[h].name /\ s.wr = fh[h].wr /\ s.at = fh[h].at
      /\ s.buffer = fh[h].buffer
  <2>1. fh[h].pos + 1 \in 0 .. MaxPos
    BY <1>1, <1>2, FilesAssumption
  <2> QED
    BY <1>2, <2>1, MovedOn
<1>4. fh' = [fh EXCEPT ![h] = s]
  BY <1>1
<1> HIDE DEF s
<1>5. s.buffer # None => s.wr /\ s.buffer > Old
  BY <1>2, <1>3 DEF Sound
<1>6. s.name \in plain => FoundIn(install, overlay, s) = latest[s.name]
  BY <1>2, <1>3 DEF FoundIn
<1>7. overlay \in [Files -> Version] /\ version \in Old .. Old + MaxWrites /\ latest \in [Files -> Version]
  BY DEF FInv, Typed
<1> QED
  BY <1>1, <1>3, <1>4, <1>5, <1>6, <1>7, HandleHolds

\* AH=40h keeps the invariant, whether the bytes stay in the buffer or not.
LEMMA WriteHolds ==
  ASSUME FInv, NEW h \in Handle, Write(h)
  PROVE  FInv'
<1> DEFINE s == [fh[h] EXCEPT !.pos = fh[h].pos + 1, !.buffer = version + 1]
           r == [s EXCEPT !.buffer = None]
<1>1. /\ fh[h].used /\ fh[h].wr /\ fh[h].pos < MaxPos /\ version < Old + MaxWrites
      /\ version' = version + 1 /\ latest' = [latest EXCEPT ![fh[h].name] = version + 1]
      /\ UNCHANGED <<state_shadow, snap, plain>>
      /\ \/ fh' = [fh EXCEPT ![h] = s] /\ install' = install /\ overlay' = overlay
         \/ /\ fh' = [fh EXCEPT ![h] = r]
            /\ install' = FlushedTo("install", install, s)
            /\ overlay' = FlushedTo("overlay", overlay, s)
  BY DEF Write
<1>2. /\ fh[h] \in Stream /\ fh[h].name \in Files /\ fh[h].wr \in BOOLEAN
      /\ fh[h].pos \in 0 .. MaxPos /\ fh[h].buffer \in Version /\ Sound(fh[h], overlay)
  BY <1>1, OfHandle
<1>3. overlay \in [Files -> Version] /\ version \in Old .. Old + MaxWrites /\ latest \in [Files -> Version]
  BY DEF FInv, Typed
<1>4. /\ version + 1 \in Version /\ version + 1 > Old /\ version + 1 # None
      /\ None \in Version /\ version + 1 \in Old .. Old + MaxWrites
  BY <1>1, <1>3, FilesAssumption DEF Version, Old, None
<1>5. fh[h].pos + 1 \in 0 .. MaxPos
  BY <1>1, <1>2, FilesAssumption
<1>6. s \in Stream /\ s.name = fh[h].name /\ s.wr = fh[h].wr /\ s.at = fh[h].at
      /\ s.pos = fh[h].pos + 1 /\ s.buffer = version + 1
  BY <1>2, <1>4, <1>5 DEF Stream
<1>7. r \in Stream /\ r.name = fh[h].name /\ r.wr = fh[h].wr /\ r.at = fh[h].at /\ r.buffer = None
  <2> HIDE DEF s
  <2> QED
    BY <1>4, <1>6 DEF Stream
<1> HIDE DEF s, r
<1>8. /\ latest' \in [Files -> Version] /\ latest'[fh[h].name] = version + 1
      /\ \A name \in Files \ {fh[h].name} : latest'[name] = latest[name]
  BY <1>1, <1>2, <1>3, <1>4
<1>9. fh[h].at = "overlay"
  BY <1>1, <1>2 DEF Sound
<1>10. CASE fh' = [fh EXCEPT ![h] = s] /\ install' = install /\ overlay' = overlay
  <2>1. FoundIn(install, overlay', s) = latest'[s.name]
    BY <1>4, <1>6, <1>8 DEF FoundIn
  <2>2. s.buffer # None => s.wr /\ s.buffer > Old
    BY <1>1, <1>4, <1>6
  <2>3. version' \in Old .. Old + MaxWrites
    BY <1>1, <1>4
  <2> QED
    BY <1>1, <1>3, <1>6, <1>8, <1>10, <2>1, <2>2, <2>3, HandleHolds
<1>11. CASE /\ fh' = [fh EXCEPT ![h] = r]
            /\ install' = FlushedTo("install", install, s)
            /\ overlay' = FlushedTo("overlay", overlay, s)
  <2>1. install' = install
    BY <1>6, <1>9, <1>11 DEF FlushedTo
  <2>2. overlay' = [overlay EXCEPT ![fh[h].name] = version + 1]
    BY <1>4, <1>6, <1>9, <1>11 DEF FlushedTo
  <2>3. /\ overlay' \in [Files -> Version] /\ overlay'[fh[h].name] = version + 1
        /\ \A name \in Files \ {fh[h].name} : overlay'[name] = overlay[name]
    BY <1>2, <1>3, <1>4, <2>2
  <2>4. FoundIn(install, overlay', r) = latest'[r.name]
    BY <1>7, <1>8, <1>9, <2>3 DEF FoundIn
  <2>5. version' \in Old .. Old + MaxWrites
    BY <1>1, <1>4
  <2>6. overlay'[r.name] = overlay[r.name] \/ (r.wr /\ overlay'[r.name] > Old)
    BY <1>1, <1>4, <1>7, <2>3
  <2> QED
    BY <1>1, <1>7, <1>8, <1>11, <2>1, <2>3, <2>4, <2>5, <2>6, HandleHolds
<1> QED
  BY <1>1, <1>10, <1>11

\* What a stream finds once its buffer is out.
LEMMA FindsWritten ==
  ASSUME FInv, NEW h \in Handle, fh[h].used
  PROVE  LET o == FlushedTo("overlay", overlay, fh[h]) IN
         /\ FlushedTo("install", install, fh[h]) = install
         /\ o \in [Files -> Version]
         /\ \A name \in Files \ {fh[h].name} : o[name] = overlay[name]
         /\ o[fh[h].name] = IF fh[h].buffer # None THEN fh[h].buffer ELSE overlay[fh[h].name]
         /\ fh[h].buffer # None => fh[h].wr /\ fh[h].at = "overlay" /\ fh[h].buffer > Old
         /\ (IF fh[h].at = "overlay" THEN o[fh[h].name] ELSE install[fh[h].name])
              = FoundIn(install, overlay, fh[h])
<1>1. fh[h] \in Stream /\ fh[h].wr \in BOOLEAN /\ Sound(fh[h], overlay)
  BY OfHandle
<1>2. overlay \in [Files -> Version]
  BY DEF FInv, Typed
<1> DEFINE o == FlushedTo("overlay", overlay, fh[h])
<1>3. /\ o \in [Files -> Version]
      /\ \A name \in Files \ {fh[h].name} : o[name] = overlay[name]
      /\ o[fh[h].name] = IF fh[h].buffer # None THEN fh[h].buffer ELSE overlay[fh[h].name]
  BY <1>1, <1>2, WrittenOut
<1>4. FlushedTo("install", install, fh[h]) = install
  BY <1>1, SparesInstall
<1>5. fh[h].buffer # None => fh[h].wr /\ fh[h].at = "overlay" /\ fh[h].buffer > Old
  BY <1>1 DEF Sound
<1> HIDE DEF o
<1>6. (IF fh[h].at = "overlay" THEN o[fh[h].name] ELSE install[fh[h].name])
        = FoundIn(install, overlay, fh[h])
  BY <1>3, <1>5 DEF FoundIn
<1> QED
  BY <1>3, <1>4, <1>5, <1>6 DEF o

\* AH=42h keeps the invariant.
LEMMA SeekHolds ==
  ASSUME FInv, NEW h \in Handle, NEW pos \in 0 .. MaxPos, Seek(h, pos)
  PROVE  FInv'
<1> DEFINE s == [fh[h] EXCEPT !.pos = pos, !.buffer = None]
           o == FlushedTo("overlay", overlay, fh[h])
<1>1. /\ fh[h].used /\ fh' = [fh EXCEPT ![h] = s]
      /\ install' = FlushedTo("install", install, fh[h]) /\ overlay' = o
      /\ UNCHANGED <<state_shadow, snap, version, latest, plain>>
  BY DEF Seek
<1>2. /\ fh[h] \in Stream /\ fh[h].name \in Files /\ fh[h].wr \in BOOLEAN
      /\ fh[h].name \in plain => FoundIn(install, overlay, fh[h]) = latest[fh[h].name]
  BY <1>1, OfHandle
<1>3. /\ install' = install
      /\ o \in [Files -> Version]
      /\ \A name \in Files \ {fh[h].name} : o[name] = overlay[name]
      /\ o[fh[h].name] = IF fh[h].buffer # None THEN fh[h].buffer ELSE overlay[fh[h].name]
      /\ fh[h].buffer # None => fh[h].wr /\ fh[h].at = "overlay" /\ fh[h].buffer > Old
      /\ (IF fh[h].at = "overlay" THEN o[fh[h].name] ELSE install[fh[h].name])
           = FoundIn(install, overlay, fh[h])
  BY <1>1, FindsWritten
<1>4. s \in Stream /\ s.name = fh[h].name /\ s.wr = fh[h].wr /\ s.at = fh[h].at /\ s.buffer = None
  <2>1. None \in Version
    BY FilesAssumption DEF None, Version, Old
  <2> QED
    BY <1>2, <2>1 DEF Stream
<1> HIDE DEF s, o
<1>5. s.name \in plain => FoundIn(install, overlay', s) = latest'[s.name]
  BY <1>1, <1>2, <1>3, <1>4 DEF FoundIn
<1>6. version' \in Old .. Old + MaxWrites /\ latest' \in [Files -> Version]
  BY <1>1 DEF FInv, Typed
<1>7. overlay'[s.name] = overlay[s.name] \/ (s.wr /\ overlay'[s.name] > Old)
  BY <1>1, <1>3, <1>4
<1> QED
  BY <1>1, <1>3, <1>4, <1>5, <1>6, <1>7, HandleHolds

\* AH=3Eh keeps the invariant: the next one to open the file finds what the
\* stream found.
LEMMA CloseHolds ==
  ASSUME FInv, NEW h \in Handle, Close(h)
  PROVE  FInv'
<1> DEFINE o == FlushedTo("overlay", overlay, fh[h])
<1>1. /\ fh[h].used /\ fh' = [fh EXCEPT ![h] = Unused]
      /\ install' = FlushedTo("install", install, fh[h]) /\ overlay' = o
      /\ UNCHANGED <<state_shadow, snap, version, latest, plain>>
  BY DEF Close
<1>2. /\ fh[h] \in Stream /\ fh[h].name \in Files /\ Sound(fh[h], overlay)
      /\ fh[h].at \in {"install", "overlay"}
  BY <1>1, OfHandle DEF Stream
<1>3. /\ install' = install
      /\ o \in [Files -> Version]
      /\ \A name \in Files \ {fh[h].name} : o[name] = overlay[name]
      /\ o[fh[h].name] = IF fh[h].buffer # None THEN fh[h].buffer ELSE overlay[fh[h].name]
      /\ fh[h].buffer # None => fh[h].wr /\ fh[h].at = "overlay" /\ fh[h].buffer > Old
      /\ (IF fh[h].at = "overlay" THEN o[fh[h].name] ELSE install[fh[h].name])
           = FoundIn(install, overlay, fh[h])
  BY <1>1, FindsWritten
<1> HIDE DEF o
<1>4. Typed /\ SoundTable(fh, overlay) /\ (state_shadow => ShadowKept(overlay, fh)) /\ PlainKept
  BY DEF FInv
<1>5. fh \in [Handle -> Stream \cup {Unused}]
  BY <1>4 DEF Typed
<1>6. /\ fh' \in [Handle -> Stream \cup {Unused}] /\ ~ fh'[h].used
      /\ \A k \in Handle \ {h} : fh'[k] = fh[k]
  BY <1>1, <1>5 DEF Unused
<1>7. Typed'
  BY <1>1, <1>3, <1>4, <1>6 DEF Typed
<1>8. \A name \in Files : overlay[name] # None => o[name] # None
  BY <1>3
<1>9. SoundTable(fh', overlay')
  <2>1. \A k \in Handle \ {h} : fh[k].used => Sound(fh[k], o)
    BY <1>4, <1>5, <1>8, InUse DEF SoundTable, Sound
  <2> QED
    BY <1>1, <1>6, <2>1 DEF SoundTable
<1>10. state_shadow' => ShadowKept(overlay', fh')
  <2> SUFFICES ASSUME state_shadow, NEW n \in StateFiles
               PROVE  /\ o[n] = None \/ o[n] > Old
                      /\ \A k \in Handle : fh'[k].used /\ fh'[k].name = n => fh'[k].at = "overlay"
    BY <1>1 DEF ShadowKept
  <2>1. /\ overlay[n] = None \/ overlay[n] > Old
        /\ \A k \in Handle : fh[k].used /\ fh[k].name = n => fh[k].at = "overlay"
    BY <1>4 DEF ShadowKept
  <2>2. n \in Files
    BY FilesAssumption
  <2>3. o[n] = None \/ o[n] > Old
    BY <1>3, <2>1, <2>2
  <2> QED
    BY <1>6, <2>1, <2>3
<1>11. PlainKept'
  <2> SUFFICES ASSUME NEW n \in plain
               PROVE  PlainIn(install, o, fh', Hidden(n), latest[n], n)
    BY <1>1, <1>3, <1>4 DEF PlainKept, Hidden
  <2>1. PlainIn(install, overlay, fh, Hidden(n), latest[n], n) /\ n \in Files
    BY <1>4 DEF PlainKept, Typed
  <2>2. CASE n # fh[h].name
    <3>1. o[n] = overlay[n]
      BY <1>3, <2>1, <2>2
    <3>2. Openers(fh', n) = Openers(fh, n) /\ \A k \in Openers(fh, n) : fh'[k] = fh[k]
      BY <1>6, <2>2 DEF Openers
    <3>3. SameFile(install, overlay, fh, install, o, fh', n)
      BY <3>1, <3>2 DEF SameFile
    <3> QED
      BY <2>1, <3>3, Untouched
  <2>3. CASE n = fh[h].name
    <3>1. h \in Openers(fh, n)
      BY <1>1, <2>3 DEF Openers
    <3>2. Openers(fh', n) = {}
      BY <1>6, <2>1, <3>1 DEF PlainIn, Openers
    <3>3. /\ FoundIn(install, overlay, fh[h]) = latest[n]
          /\ fh[h].at = "install" => overlay[n] = None /\ ~ Hidden(n)
      BY <2>1, <3>1 DEF PlainIn
    <3>4. fh[h].at = "overlay" => o[n] # None
      BY <1>2, <1>8, <2>3 DEF Sound
    <3>5. ReadsAs(install, o, Hidden(n), n) = latest[n]
      BY <1>2, <1>3, <2>3, <3>3, <3>4 DEF ReadsAs
    <3> QED
      BY <3>2, <3>5 DEF PlainIn
  <2> QED
    BY <2>2, <2>3
<1> QED
  BY <1>7, <1>9, <1>10, <1>11 DEF FInv

\* AH=3Ch keeps the invariant.
LEMMA CreateHolds ==
  ASSUME FInv, NEW name \in Files, Create(name)
  PROVE  FInv'
<1> DEFINE f == alloc_handle(fh)
           s == NewStream(name, TRUE, "overlay", 0)
<1>0. OpensAt(name, TRUE) = "overlay"
  BY DEF OpensAt
<1>1. /\ FreeHandles(fh) # {} /\ version < Old + MaxWrites /\ version' = version + 1
      /\ overlay' = [overlay EXCEPT ![name] = version + 1] /\ install' = install
      /\ fh' = [fh EXCEPT ![f] = s]
      /\ latest' = [latest EXCEPT ![name] = version + 1]
      /\ plain' = StillPlain(name)
      /\ state_shadow' = state_shadow /\ snap' = snap
  BY <1>0 DEF Create
<1>2. Typed /\ SoundTable(fh, overlay) /\ (state_shadow => ShadowKept(overlay, fh)) /\ PlainKept
  BY DEF FInv
<1>3. version + 1 \in Version /\ version + 1 > Old /\ version + 1 # None
      /\ version' \in Old .. Old + MaxWrites
  BY <1>1, <1>2, FilesAssumption DEF Typed, Version, Old, None
<1>4. f \in Handle /\ ~ fh[f].used
  BY <1>1, Allocated
<1>5. s \in Stream /\ s.used /\ s.name = name /\ s.wr /\ s.at = "overlay" /\ s.buffer = None
  <2>1. 0 \in 0 .. MaxPos
    BY FilesAssumption
  <2>2. None \in Version
    BY FilesAssumption DEF None, Version, Old
  <2> QED
    BY <2>1, <2>2 DEF NewStream, Stream
<1> HIDE DEF f, s
<1>6. fh \in [Handle -> Stream \cup {Unused}]
  BY <1>2 DEF Typed
<1>7. /\ fh' \in [Handle -> Stream \cup {Unused}] /\ fh'[f] = s
      /\ \A k \in Handle \ {f} : fh'[k] = fh[k]
  BY <1>1, <1>4, <1>5, <1>6, Placed
<1>8. /\ overlay' \in [Files -> Version] /\ overlay'[name] = version + 1
      /\ \A other \in Files \ {name} : overlay'[other] = overlay[other]
  BY <1>1, <1>2, <1>3 DEF Typed
<1>9. /\ latest' \in [Files -> Version] /\ latest'[name] = version + 1
      /\ \A other \in Files \ {name} : latest'[other] = latest[other]
  BY <1>1, <1>2, <1>3 DEF Typed
<1>10. plain' \subseteq plain /\ plain \subseteq Files /\ (name \in plain' => Open(name) = {})
  BY <1>1, <1>2 DEF StillPlain, Typed
<1>11. Typed'
  BY <1>1, <1>2, <1>3, <1>7, <1>8, <1>9, <1>10 DEF Typed
<1>12. SoundTable(fh', overlay')
  <2>1. \A other \in Files : overlay[other] # None => overlay'[other] # None
    BY <1>3, <1>8
  <2>2. \A k \in Handle \ {f} : fh[k].used => Sound(fh[k], overlay')
    BY <1>2, <1>6, <2>1, InUse DEF SoundTable, Sound
  <2>3. Sound(s, overlay')
    BY <1>3, <1>5, <1>8 DEF Sound
  <2> QED
    BY <1>7, <2>2, <2>3 DEF SoundTable
<1>13. state_shadow' => ShadowKept(overlay', fh')
  <2> SUFFICES ASSUME state_shadow, NEW n \in StateFiles
               PROVE  /\ overlay'[n] = None \/ overlay'[n] > Old
                      /\ \A k \in Handle : fh'[k].used /\ fh'[k].name = n => fh'[k].at = "overlay"
    BY <1>1 DEF ShadowKept
  <2>1. /\ overlay[n] = None \/ overlay[n] > Old
        /\ \A k \in Handle : fh[k].used /\ fh[k].name = n => fh[k].at = "overlay"
    BY <1>2 DEF ShadowKept
  <2>2. n \in Files
    BY FilesAssumption
  <2>3. overlay'[n] = None \/ overlay'[n] > Old
    BY <1>3, <1>8, <2>1, <2>2
  <2> QED
    BY <1>5, <1>7, <2>1, <2>3
<1>14. PlainKept'
  <2> SUFFICES ASSUME NEW n \in plain'
               PROVE  PlainIn(install, overlay', fh', Hidden(n), latest'[n], n)
    BY <1>1, <1>2, <1>10 DEF PlainKept, Hidden
  <2>1. PlainIn(install, overlay, fh, Hidden(n), latest[n], n) /\ n \in Files
    BY <1>2, <1>10 DEF PlainKept
  <2>2. CASE n # name
    <3>1. overlay'[n] = overlay[n] /\ latest'[n] = latest[n]
      BY <1>8, <1>9, <2>1, <2>2
    <3>2. ~ (fh[f].used /\ fh[f].name = n) /\ ~ (fh'[f].used /\ fh'[f].name = n)
      BY <1>4, <1>5, <1>7, <2>2
    <3>3. Openers(fh', n) = Openers(fh, n) /\ \A k \in Openers(fh, n) : fh'[k] = fh[k]
      BY <1>7, <3>2 DEF Openers
    <3>4. SameFile(install, overlay, fh, install, overlay', fh', n)
      BY <3>1, <3>3 DEF SameFile
    <3> QED
      BY <2>1, <3>1, <3>4, Untouched
  <2>3. CASE n = name
    <3>1. Openers(fh, n) = {}
      BY <1>10, <2>3 DEF Open, Openers
    <3>2. Openers(fh', n) = {f}
      BY <1>4, <1>5, <1>7, <2>3, <3>1 DEF Openers
    <3>3. FoundIn(install, overlay', s) = latest'[n]
      BY <1>5, <1>8, <1>9, <2>3 DEF FoundIn
    <3> QED
      BY <1>5, <1>7, <3>2, <3>3 DEF PlainIn
  <2> QED
    BY <2>2, <2>3
<1> QED
  BY <1>11, <1>12, <1>13, <1>14 DEF FInv

\* AH=41h keeps the invariant: what it removes is no longer plain.
LEMMA DeleteHolds ==
  ASSUME FInv, NEW name \in Files, Delete(name)
  PROVE  FInv'
<1>1. /\ install' = [install EXCEPT ![name] = None] /\ plain' = plain \ {name}
      /\ UNCHANGED <<overlay, fh, state_shadow, snap, version, latest>>
  BY DEF Delete
<1>2. Typed /\ SoundTable(fh, overlay) /\ (state_shadow => ShadowKept(overlay, fh)) /\ PlainKept
  BY DEF FInv
<1>3. /\ install' \in [Files -> {None, Stock}]
      /\ \A other \in Files \ {name} : install'[other] = install[other]
  BY <1>1, <1>2 DEF Typed
<1>4. Typed'
  BY <1>1, <1>2, <1>3 DEF Typed
<1>5. PlainKept'
  <2> SUFFICES ASSUME NEW n \in plain \ {name}
               PROVE  PlainIn(install', overlay, fh, Hidden(n), latest[n], n)
    BY <1>1, <1>2 DEF PlainKept, Hidden
  <2>1. PlainIn(install, overlay, fh, Hidden(n), latest[n], n) /\ n \in Files
    BY <1>2 DEF PlainKept, Typed
  <2>2. SameFile(install, overlay, fh, install', overlay, fh, n)
    BY <1>3, <2>1 DEF SameFile
  <2> QED
    BY <2>1, <2>2, Untouched
<1> QED
  BY <1>1, <1>2, <1>4, <1>5 DEF FInv

\* dos_save_handles keeps the invariant: what is open once is saved once.
LEMMA SaveHolds ==
  ASSUME FInv, SaveHandles
  PROVE  FInv'
<1>1. /\ snap' = [h \in UsedHandles |-> [name |-> fh[h].name, wr |-> fh[h].wr, pos |-> fh[h].pos]]
      /\ UNCHANGED <<install, overlay, fh, state_shadow, version, latest, plain>>
  BY DEF SaveHandles
<1>2. Typed /\ SoundTable(fh, overlay) /\ (state_shadow => ShadowKept(overlay, fh)) /\ PlainKept
  BY DEF FInv
<1>3. DOMAIN snap' = UsedHandles /\ UsedHandles \subseteq Handle
  BY <1>1 DEF UsedHandles
<1>4. \A h \in UsedHandles :
        /\ snap'[h].name = fh[h].name /\ snap'[h] \in Saved /\ h \in Handle /\ fh[h].used
  <2> SUFFICES ASSUME NEW h \in UsedHandles
               PROVE  snap'[h].name = fh[h].name /\ snap'[h] \in Saved /\ h \in Handle /\ fh[h].used
    OBVIOUS
  <2>1. h \in Handle /\ fh[h].used
    BY DEF UsedHandles
  <2>2. fh[h].name \in Files /\ fh[h].wr \in BOOLEAN /\ fh[h].pos \in 0 .. MaxPos
    BY <2>1, OfHandle
  <2>3. snap'[h] = [name |-> fh[h].name, wr |-> fh[h].wr, pos |-> fh[h].pos]
    BY <1>1
  <2> QED
    BY <2>1, <2>2, <2>3 DEF Saved
<1>5. Typed'
  BY <1>1, <1>2, <1>3, <1>4 DEF Typed
<1>6. ASSUME NEW n \in plain, NEW h \in UsedHandles, NEW k \in UsedHandles,
             snap'[h].name = n, snap'[k].name = n
      PROVE  h = k
  <2>1. h \in Openers(fh, n) /\ k \in Openers(fh, n)
    BY <1>4, <1>6 DEF Openers
  <2> QED
    BY <1>2, <2>1 DEF PlainKept, PlainIn
<1>7. PlainKept'
  <2>1. \A n \in plain : PlainIn(install, overlay, fh, Hidden(n), latest[n], n)
    BY <1>2 DEF PlainKept
  <2> QED
    BY <1>1, <1>3, <1>6, <2>1 DEF PlainKept, Hidden
<1> QED
  BY <1>1, <1>2, <1>5, <1>7 DEF FInv

-----------------------------------------------------------------------------
(***************************************************************************)
(* The end of a session: dos_close_all_handles.                            *)
(***************************************************************************)
\* All handles closed: the installation has nothing to take, what was there
\* is there, and a plain file reads as it was last written.
LEMMA AllClosed ==
  ASSUME FInv, ~ state_shadow
  PROVE  LET o == AllFlushed("overlay", overlay) IN
         /\ AllFlushed("install", install) = install
         /\ o \in [Files -> Version]
         /\ \A name \in Files : overlay[name] # None => o[name] # None
         /\ \A name \in plain : ReadsAs(install, o, FALSE, name) = latest[name]
<1> DEFINE o == AllFlushed("overlay", overlay)
<1>1. Typed /\ SoundTable(fh, overlay) /\ PlainKept
  BY DEF FInv
<1>2. overlay \in [Files -> Version] /\ install \in [Files -> {None, Stock}] /\ plain \subseteq Files
  BY <1>1 DEF Typed
<1>3. AllFlushed("install", install) = install
  <2>1. ASSUME NEW name \in Files PROVE Buffered("install", name) = {}
    <3> SUFFICES ASSUME NEW h \in Handle, fh[h].used, fh[h].at = "install", fh[h].buffer # None
                 PROVE  FALSE
      BY DEF Buffered, UsedHandles
    <3> QED
      BY OfHandle DEF Sound
  <2> QED
    BY <1>2, <2>1 DEF AllFlushed
<1>4. ASSUME NEW name \in Files, Buffered("overlay", name) # {}
      PROVE  \E h \in Handle : /\ fh[h].used /\ fh[h].name = name /\ fh[h].buffer \in Version
                             /\ fh[h].buffer # None /\ o[name] = fh[h].buffer
  <2> DEFINE B == Buffered("overlay", name)
             g == CHOOSE h \in B : \A k \in B : k <= h
  <2>1. B \in SUBSET Handle
    BY DEF Buffered, UsedHandles
  <2>2. \E h \in B : \A k \in B : k <= h
    BY <1>4, <2>1, GreatestHandle
  <2>3. g \in B
    BY <2>2
  <2>4. o[name] = fh[g].buffer
    BY <1>4 DEF AllFlushed
  <2> HIDE DEF g
  <2>5. g \in Handle /\ fh[g].used /\ fh[g].name = name /\ fh[g].buffer # None
    BY <2>3 DEF Buffered, UsedHandles
  <2>6. fh[g].buffer \in Version
    BY <2>5, OfHandle
  <2> QED
    BY <2>4, <2>5, <2>6
<1>5. ASSUME NEW name \in Files, Buffered("overlay", name) = {}
      PROVE  o[name] = overlay[name]
  BY <1>5 DEF AllFlushed
<1>6. o \in [Files -> Version]
  <2>1. \A name \in Files : o[name] \in Version
    BY <1>2, <1>4, <1>5
  <2> QED
    BY <2>1 DEF AllFlushed
<1>7. ASSUME NEW name \in plain
      PROVE  ReadsAs(install, o, FALSE, name) = latest[name]
  <2>1. PlainIn(install, overlay, fh, FALSE, latest[name], name) /\ name \in Files
    BY <1>1, <1>2 DEF PlainKept, Hidden
  <2>2. CASE Buffered("overlay", name) # {}
    <3>1. PICK h \in Handle : /\ fh[h].used /\ fh[h].name = name
                             /\ fh[h].buffer # None /\ o[name] = fh[h].buffer
      BY <1>4, <2>1, <2>2
    <3>2. FoundIn(install, overlay, fh[h]) = latest[name]
      BY <2>1, <3>1 DEF PlainIn, Openers
    <3> QED
      BY <3>1, <3>2 DEF FoundIn, ReadsAs
  <2>3. CASE Buffered("overlay", name) = {}
    <3>1. o[name] = overlay[name]
      BY <1>5, <2>1, <2>3
    <3>2. CASE Openers(fh, name) = {}
      BY <2>1, <3>1, <3>2 DEF PlainIn, ReadsAs
    <3>3. CASE Openers(fh, name) # {}
      <4>1. PICK h \in Openers(fh, name) : TRUE
        BY <3>3
      <4>2. h \in Handle /\ fh[h].used /\ fh[h].name = name
        BY <4>1 DEF Openers
      <4>3. /\ FoundIn(install, overlay, fh[h]) = latest[name]
            /\ fh[h].at = "install" => overlay[name] = None
        BY <2>1, <4>1 DEF PlainIn
      <4>4. fh[h] \in Stream /\ Sound(fh[h], overlay) /\ fh[h].at \in {"install", "overlay"}
        BY <4>2, OfHandle DEF Stream
      <4>5. fh[h].buffer = None
        <5>1. fh[h].buffer # None => h \in Buffered("overlay", name)
          BY <4>2, <4>4 DEF Sound, Buffered, UsedHandles
        <5> QED
          BY <2>3, <5>1
      <4> QED
        BY <3>1, <4>2, <4>3, <4>4, <4>5 DEF Sound, FoundIn, ReadsAs
    <3> QED
      BY <3>2, <3>3
  <2> QED
    BY <2>2, <2>3
<1>8. \A name \in Files : overlay[name] # None => o[name] # None
  BY <1>4, <1>5
<1> QED
  BY <1>3, <1>6, <1>7, <1>8

\* A table with nothing in it.
LEMMA EmptyTable ==
  ASSUME NEW t, t = [k \in Handle |-> Unused]
  PROVE  /\ t \in [Handle -> Stream \cup {Unused}]
         /\ \A h \in Handle : ~ t[h].used
         /\ \A name : Openers(t, name) = {}
         /\ \A o : SoundTable(t, o)
<1>1. \A h \in Handle : ~ t[h].used
  BY DEF Unused
<1> QED
  BY <1>1 DEF Openers, SoundTable

\* The end of a session keeps the invariant.
LEMMA RestartHolds ==
  ASSUME FInv, Restart
  PROVE  FInv'
<1> DEFINE o == AllFlushed("overlay", overlay)
<1>1. /\ ~ state_shadow /\ fh' = [h \in Handle |-> Unused]
      /\ install' = AllFlushed("install", install) /\ overlay' = o
      /\ UNCHANGED <<state_shadow, snap, version, latest, plain>>
  BY DEF Restart
<1>2. /\ AllFlushed("install", install) = install
      /\ o \in [Files -> Version]
      /\ \A name \in plain : ReadsAs(install, o, FALSE, name) = latest[name]
  BY <1>1, AllClosed
<1> HIDE DEF o
<1>3. /\ fh' \in [Handle -> Stream \cup {Unused}]
      /\ \A name : Openers(fh', name) = {}
      /\ SoundTable(fh', overlay')
  BY <1>1, EmptyTable
<1>4. Typed /\ PlainKept
  BY DEF FInv
<1>5. Typed'
  BY <1>1, <1>2, <1>3, <1>4 DEF Typed
<1>6. PlainKept'
  <2>1. ASSUME NEW n \in plain
        PROVE  PlainIn(install, o, fh', FALSE, latest[n], n)
    BY <1>2, <1>3 DEF PlainIn
  <2> QED
    BY <1>1, <1>2, <1>4, <2>1 DEF PlainKept, Hidden
<1> QED
  BY <1>1, <1>3, <1>5, <1>6 DEF FInv

-----------------------------------------------------------------------------
(***************************************************************************)
(* Opening a snapshot's handles again, one after the other.                *)
(***************************************************************************)
\* The recursive function is what its definition says: there is such a
\* function up to each handle, by one more handle at a time.
LEMMA ReopenedIs ==
  Reopened = [h \in 4 .. LastHandle |->
    IF h = 4 THEN [overlay |-> AllFlushed("overlay", overlay), fh |-> [k \in Handle |-> Unused]]
    ELSE IF h \in DOMAIN snap THEN reopen_handle(Reopened[h - 1], snap[h])
    ELSE Reopened[h - 1]]
<1> DEFINE start == [overlay |-> AllFlushed("overlay", overlay), fh |-> [k \in Handle |-> Unused]]
           After(m, h) == IF h \in DOMAIN snap THEN reopen_handle(m, snap[h]) ELSE m
           Upto(f, n) == f = [h \in 4 .. n |-> IF h = 4 THEN start ELSE After(f[h - 1], h)]
           T == {n \in 4 .. LastHandle : ~ \E f : Upto(f, n)}
<1>1. LastHandle \in Nat /\ LastHandle >= 5
  BY FilesAssumption
<1> HIDE DEF After, start
<1>2. \E f : Upto(f, 4)
  <2> DEFINE f == [h \in 4 .. 4 |-> start]
  <2>1. f = [h \in 4 .. 4 |-> IF h = 4 THEN start ELSE After(f[h - 1], h)]
    OBVIOUS
  <2> QED
    BY <2>1
<1>3. ASSUME NEW n \in 4 .. LastHandle - 1, \E f : Upto(f, n)
      PROVE  \E f : Upto(f, n + 1)
  <2>1. PICK f : Upto(f, n)
    BY <1>3
  <2> DEFINE g == [h \in 4 .. n + 1 |-> IF h = n + 1 THEN After(f[n], n + 1) ELSE f[h]]
  <2>2. ASSUME NEW h \in 4 .. n + 1
        PROVE  g[h] = IF h = 4 THEN start ELSE After(g[h - 1], h)
    <3>1. CASE h = n + 1
      <4>1. h # 4 /\ h - 1 = n /\ n \in 4 .. n + 1 /\ n # n + 1
        BY <1>1, <3>1
      <4>2. g[n] = f[n] /\ g[h] = After(f[n], n + 1)
        BY <3>1, <4>1
      <4> QED
        BY <3>1, <4>1, <4>2
    <3>2. CASE h # n + 1
      <4>1. h \in 4 .. n
        BY <1>1, <3>2
      <4>2. g[h] = f[h]
        BY <3>2
      <4>3. f[h] = IF h = 4 THEN start ELSE After(f[h - 1], h)
        BY <2>1, <4>1
      <4>4. h # 4 => g[h - 1] = f[h - 1]
        BY <4>1
      <4> QED
        BY <4>2, <4>3, <4>4
    <3> QED
      BY <3>1, <3>2
  <2>3. g = [h \in 4 .. n + 1 |-> IF h = 4 THEN start ELSE After(g[h - 1], h)]
    BY <2>2
  <2> QED
    BY <2>3
<1>4. T = {}
  <2> SUFFICES ASSUME T # {} PROVE FALSE
    OBVIOUS
  <2>1. T \in SUBSET Nat
    BY <1>1
  <2>2. PICK n \in T : \A k \in T : n <= k
    BY <2>1, LeastElement
  <2>3. n \in 4 .. LastHandle /\ ~ \E f : Upto(f, n)
    OBVIOUS
  <2>4. n # 4
    BY <1>2, <2>3
  <2>5. n - 1 \in 4 .. LastHandle - 1 /\ n - 1 \in 4 .. LastHandle /\ (n - 1) + 1 = n /\ ~ (n <= n - 1)
    BY <1>1, <2>3, <2>4
  <2>6. \E f : Upto(f, n - 1)
    <3> HIDE DEF Upto
    <3> QED
      BY <2>2, <2>5
  <2>7. ASSUME NEW k, k = n - 1 PROVE \E f : Upto(f, k + 1)
    <3> HIDE DEF Upto
    <3> QED
      BY <1>3, <2>5, <2>6, <2>7
  <2> HIDE DEF Upto
  <2> QED
    BY <2>3, <2>5, <2>7
<1>5. \E f : Upto(f, LastHandle)
  <2> HIDE DEF Upto
  <2> QED
    BY <1>1, <1>4
<1>6. Reopened = CHOOSE f : Upto(f, LastHandle)
  BY DEF Reopened, After, start
<1>7. Upto(Reopened, LastHandle)
  <2> HIDE DEF Upto
  <2> QED
    BY <1>5, <1>6
<1> QED
  BY <1>7 DEF After, start

\* The overlay and the table after the saved handles up to h: as sound and as
\* plain as they were, with nothing open that the snapshot did not hold.
Good(m, h) ==
  /\ m.overlay \in [Files -> Version] /\ m.fh \in [Handle -> Stream \cup {Unused}]
  /\ SoundTable(m.fh, m.overlay)
  /\ \A n \in plain : PlainIn(install, m.overlay, m.fh, FALSE, latest[n], n)
  /\ \A k \in Handle : m.fh[k].used => \E j \in DOMAIN snap : j <= h /\ snap[j].name = m.fh[k].name

\* reopen_handle keeps that.
LEMMA ReopenGood ==
  ASSUME FInv, NEW h \in DOMAIN snap, NEW m, Good(m, h - 1)
  PROVE  Good(reopen_handle(m, snap[h]), h)
<1> DEFINE e == snap[h]
           o  == IF m.overlay[e.name] = None /\ e.wr
                 THEN [m.overlay EXCEPT ![e.name] = install[e.name]] ELSE m.overlay
           at == IF o[e.name] # None THEN "overlay" ELSE "install"
           f  == alloc_handle(m.fh)
           s  == NewStream(e.name, e.wr, at, e.pos)
           r  == reopen_handle(m, e)
<1>1. Typed /\ PlainKept
  BY DEF FInv
<1>2. /\ h \in Handle /\ h \in Nat /\ e.name \in Files /\ e.wr \in BOOLEAN /\ e.pos \in 0 .. MaxPos
      /\ DOMAIN snap \subseteq Handle /\ \A j \in Handle : j \in Nat
  BY <1>1, FilesAssumption DEF Typed, Saved, Handle
<1>3. m.overlay \in [Files -> Version] /\ m.fh \in [Handle -> Stream \cup {Unused}]
      /\ SoundTable(m.fh, m.overlay)
  BY DEF Good
<1>4. install[e.name] \in Version
  BY <1>1, <1>2, FilesAssumption DEF Typed, None, Stock, Version, Old
<1>5. /\ o \in [Files -> Version]
      /\ \A n \in Files \ {e.name} : o[n] = m.overlay[n]
      /\ \A n \in Files : m.overlay[n] # None => o[n] = m.overlay[n]
      /\ m.overlay[e.name] = None => o[e.name] = IF e.wr THEN install[e.name] ELSE None
  BY <1>2, <1>3, <1>4
<1>6. /\ at \in {"install", "overlay"} /\ (at = "overlay" <=> o[e.name] # None)
      /\ s \in Stream /\ s.used /\ s.name = e.name /\ s.wr = e.wr /\ s.at = at
      /\ s.pos = e.pos /\ s.buffer = None
  BY <1>2, Opened
<1>7. /\ FreeHandles(m.fh) = {} => r = m
      /\ FreeHandles(m.fh) # {} /\ at = "install" /\ install[e.name] = None
           => r.overlay = o /\ r.fh = m.fh
      /\ FreeHandles(m.fh) # {} /\ ~ (at = "install" /\ install[e.name] = None)
           => r.overlay = o /\ r.fh = [m.fh EXCEPT ![f] = s]
  BY DEF reopen_handle, Good
<1> HIDE DEF o, at, f, s, r, e
<1>8. \A k \in Handle : m.fh[k].used
        => \E j \in DOMAIN snap : j <= h /\ j # h /\ snap[j].name = m.fh[k].name
  BY <1>2 DEF Good
<1>9. e.name \in plain => Openers(m.fh, e.name) = {}
  <2> SUFFICES ASSUME e.name \in plain, NEW k \in Handle, m.fh[k].used, m.fh[k].name = e.name
               PROVE  FALSE
    BY DEF Openers
  <2>1. PICK j \in DOMAIN snap : j # h /\ snap[j].name = e.name
    BY <1>8
  <2> QED
    BY <1>1, <2>1 DEF PlainKept, e
<1>10. ASSUME FreeHandles(m.fh) = {} PROVE Good(r, h)
  BY <1>3, <1>7, <1>8, <1>10 DEF Good
<1>11. SoundTable(m.fh, o)
  BY <1>3, <1>5, InUse DEF SoundTable, Sound
<1>12. ASSUME NEW n \in plain
       PROVE  /\ PlainIn(install, m.overlay, m.fh, FALSE, latest[n], n)
              /\ n # e.name => o[n] = m.overlay[n]
              /\ n = e.name => ReadsAs(install, m.overlay, FALSE, n) = latest[n]
  BY <1>1, <1>5, <1>9 DEF Good, PlainIn, Typed
<1>13. ASSUME FreeHandles(m.fh) # {}, at = "install", install[e.name] = None PROVE Good(r, h)
  <2>1. ASSUME NEW n \in plain PROVE PlainIn(install, o, m.fh, FALSE, latest[n], n)
    <3>1. CASE n # e.name
      <4>1. SameFile(install, m.overlay, m.fh, install, o, m.fh, n)
        BY <1>12, <3>1 DEF SameFile
      <4> QED
        BY <1>12, <4>1, Untouched
    <3>2. CASE n = e.name
      <4>1. ReadsAs(install, o, FALSE, n) = latest[n]
        BY <1>5, <1>6, <1>2, <1>12, <1>13, <3>2 DEF ReadsAs
      <4> QED
        BY <1>9, <3>2, <4>1 DEF PlainIn
    <3> QED
      BY <3>1, <3>2
  <2> QED
    BY <1>3, <1>5, <1>7, <1>8, <1>11, <1>13, <2>1 DEF Good
<1>14. ASSUME FreeHandles(m.fh) # {}, ~ (at = "install" /\ install[e.name] = None) PROVE Good(r, h)
  <2>1. r.overlay = o /\ r.fh = [m.fh EXCEPT ![f] = s]
    BY <1>7, <1>14
  <2>2. f \in Handle /\ ~ m.fh[f].used
    BY <1>14, Allocated DEF f
  <2>3. /\ r.fh \in [Handle -> Stream \cup {Unused}] /\ r.fh[f] = s
        /\ \A k \in Handle \ {f} : r.fh[k] = m.fh[k]
    BY <1>3, <1>6, <2>1, <2>2, Placed
  <2>4. Sound(s, o)
    <3>1. e.wr /\ m.overlay[e.name] = None => o[e.name] = install[e.name]
      BY <1>5
    <3>2. e.wr => at = "overlay"
      BY <1>2, <1>5, <1>6, <1>14, <3>1
    <3> QED
      BY <1>6, <3>2 DEF Sound
  <2>5. SoundTable(r.fh, o)
    BY <1>11, <2>3, <2>4 DEF SoundTable
  <2>6. ASSUME NEW n \in plain PROVE PlainIn(install, o, r.fh, FALSE, latest[n], n)
    <3>1. CASE n # e.name
      <4>1. ~ (m.fh[f].used /\ m.fh[f].name = n) /\ ~ (r.fh[f].used /\ r.fh[f].name = n)
        BY <1>6, <2>2, <2>3, <3>1
      <4>2. Openers(r.fh, n) = Openers(m.fh, n) /\ \A k \in Openers(m.fh, n) : r.fh[k] = m.fh[k]
        BY <2>3, <4>1 DEF Openers
      <4>3. SameFile(install, m.overlay, m.fh, install, o, r.fh, n)
        BY <1>12, <3>1, <4>2 DEF SameFile
      <4> QED
        BY <1>12, <4>3, Untouched
    <3>2. CASE n = e.name
      <4>1. Openers(m.fh, n) = {}
        BY <1>9, <3>2
      <4>2. Openers(r.fh, n) = {f}
        BY <1>6, <2>2, <2>3, <3>2, <4>1 DEF Openers
      <4>3. ReadsAs(install, m.overlay, FALSE, n) = latest[n]
        BY <1>12, <3>2
      <4>4. FoundIn(install, o, s) = latest[n]
        BY <1>2, <1>5, <1>6, <1>14, <3>2, <4>3 DEF FoundIn, ReadsAs
      <4>5. s.at = "install" => o[n] = None
        BY <1>6, <3>2
      <4> QED
        BY <2>3, <4>2, <4>4, <4>5 DEF PlainIn
    <3> QED
      BY <3>1, <3>2
  <2>7. ASSUME NEW k \in Handle, r.fh[k].used
        PROVE  \E j \in DOMAIN snap : j <= h /\ snap[j].name = r.fh[k].name
    <3>1. CASE k = f
      BY <1>2, <1>6, <2>3, <3>1 DEF e
    <3>2. CASE k # f
      BY <1>8, <2>3, <2>7, <3>2
    <3> QED
      BY <3>1, <3>2
  <2> QED
    BY <1>5, <2>1, <2>3, <2>5, <2>6, <2>7 DEF Good
<1> QED
  BY <1>10, <1>13, <1>14 DEF r, e

\* The steps of the recursion.
LEMMA ReopenedSteps ==
  /\ Reopened[4] = [overlay |-> AllFlushed("overlay", overlay), fh |-> [k \in Handle |-> Unused]]
  /\ \A h \in 5 .. LastHandle :
       Reopened[h] = IF h \in DOMAIN snap THEN reopen_handle(Reopened[h - 1], snap[h]) ELSE Reopened[h - 1]
<1>1. 4 \in 4 .. LastHandle /\ \A h \in 5 .. LastHandle : h \in 4 .. LastHandle /\ h # 4
  BY FilesAssumption
<1>2. \A h \in 4 .. LastHandle : Reopened[h] =
        IF h = 4 THEN [overlay |-> AllFlushed("overlay", overlay), fh |-> [k \in Handle |-> Unused]]
        ELSE IF h \in DOMAIN snap THEN reopen_handle(Reopened[h - 1], snap[h])
        ELSE Reopened[h - 1]
  BY ReopenedIs
<1> QED
  BY <1>1, <1>2

\* All saved handles are opened soundly.
LEMMA GoodAll ==
  ASSUME FInv, ~ state_shadow
  PROVE  Good(Reopened[LastHandle], LastHandle)
<1>1. LastHandle \in Nat /\ LastHandle >= 5
  BY FilesAssumption
<1>2. Good(Reopened[4], 4)
  <2> DEFINE m == Reopened[4]
  <2>1. m.overlay = AllFlushed("overlay", overlay) /\ m.fh = [k \in Handle |-> Unused]
    BY ReopenedSteps
  <2>2. /\ m.overlay \in [Files -> Version]
        /\ \A n \in plain : ReadsAs(install, m.overlay, FALSE, n) = latest[n]
    BY <2>1, AllClosed
  <2> HIDE DEF m
  <2>3. /\ m.fh \in [Handle -> Stream \cup {Unused}] /\ SoundTable(m.fh, m.overlay)
        /\ \A n : Openers(m.fh, n) = {}
        /\ \A k \in Handle : ~ m.fh[k].used
    BY <2>1, EmptyTable
  <2>4. \A n \in plain : PlainIn(install, m.overlay, m.fh, FALSE, latest[n], n)
    BY <2>2, <2>3 DEF PlainIn
  <2>5. Good(m, 4)
    BY <2>2, <2>3, <2>4 DEF Good
  <2> QED
    BY <2>5 DEF m
<1>3. ASSUME NEW h \in 5 .. LastHandle, NEW g, g = h - 1, Good(Reopened[g], g)
      PROVE  Good(Reopened[h], h)
  <2>1. CASE h \in DOMAIN snap
    <3>1. Good(reopen_handle(Reopened[g], snap[h]), h)
      BY <1>3, <2>1, ReopenGood
    <3>2. Reopened[h] = reopen_handle(Reopened[g], snap[h])
      BY <1>3, <2>1, ReopenedSteps
    <3> QED
      BY <3>1, <3>2
  <2>2. CASE h \notin DOMAIN snap
    <3>1. Reopened[h] = Reopened[g]
      BY <1>3, <2>2, ReopenedSteps
    <3>2. DOMAIN snap \subseteq Handle
      BY DEF FInv, Typed
    <3>3. \A j \in DOMAIN snap : j <= g => j <= h
      BY <1>1, <1>3, <3>2 DEF Handle
    <3> QED
      BY <1>3, <3>1, <3>3 DEF Good
  <2> QED
    BY <2>1, <2>2
<1>4. {h \in 4 .. LastHandle : ~ Good(Reopened[h], h)} = {}
  <2> DEFINE T == {h \in 4 .. LastHandle : ~ Good(Reopened[h], h)}
  <2> SUFFICES ASSUME T # {} PROVE FALSE
    OBVIOUS
  <2>1. T \in SUBSET Nat
    BY <1>1
  <2>2. PICK h \in T : \A k \in T : h <= k
    BY <2>1, LeastElement
  <2>3. h \in 5 .. LastHandle
    BY <1>1, <1>2
  <2>4. h - 1 \in 4 .. LastHandle /\ ~ (h <= h - 1)
    BY <1>1, <2>3
  <2>5. Good(Reopened[h - 1], h - 1)
    BY <2>2, <2>4
  <2>6. ASSUME NEW g, g = h - 1 PROVE Good(Reopened[h], h)
    BY <1>3, <2>3, <2>5, <2>6
  <2> QED
    BY <2>6
<1> QED
  BY <1>1, <1>4

\* dos_load_handles keeps the invariant.
LEMMA LoadHolds ==
  ASSUME FInv, LoadHandles
  PROVE  FInv'
<1> DEFINE m == Reopened[LastHandle]
<1>1. /\ ~ state_shadow /\ overlay' = m.overlay /\ fh' = m.fh
      /\ install' = AllFlushed("install", install)
      /\ UNCHANGED <<state_shadow, snap, version, latest, plain>>
  BY DEF LoadHandles
<1>2. install' = install
  BY <1>1, AllClosed
<1>3. Good(m, LastHandle)
  BY <1>1, GoodAll
<1> HIDE DEF m
<1>4. Typed /\ PlainKept
  BY DEF FInv
<1>5. Typed'
  BY <1>1, <1>2, <1>3, <1>4 DEF Typed, Good
<1>6. PlainKept'
  BY <1>1, <1>2, <1>3, <1>4 DEF PlainKept, Hidden, Good
<1>7. SoundTable(fh', overlay')
  BY <1>1, <1>3 DEF Good
<1> QED
  BY <1>1, <1>5, <1>6, <1>7 DEF FInv

-----------------------------------------------------------------------------
(***************************************************************************)
(* The theorems.                                                           *)
(***************************************************************************)
\* Every call keeps the invariant.
LEMMA NextHolds == FInv /\ [Next]_vars => FInv'
<1> SUFFICES ASSUME FInv, [Next]_vars PROVE FInv'
  OBVIOUS
<1>1. CASE SaveHandles
  BY <1>1, SaveHolds
<1>2. CASE LoadHandles
  BY <1>2, LoadHolds
<1>3. CASE Restart
  BY <1>3, RestartHolds
<1>4. ASSUME NEW name \in Files, Create(name) PROVE FInv'
  BY <1>4, CreateHolds
<1>5. ASSUME NEW name \in Files, Delete(name) PROVE FInv'
  BY <1>5, DeleteHolds
<1>6. ASSUME NEW name \in Files, NEW writing \in BOOLEAN, OpenFile(name, writing) PROVE FInv'
  BY <1>6, OpenHolds
<1>7. ASSUME NEW h \in Handle, Close(h) PROVE FInv'
  BY <1>7, CloseHolds
<1>8. ASSUME NEW h \in Handle, Read(h) PROVE FInv'
  BY <1>8, ReadHolds
<1>9. ASSUME NEW h \in Handle, Write(h) PROVE FInv'
  BY <1>9, WriteHolds
<1>10. ASSUME NEW h \in Handle, NEW pos \in 0 .. MaxPos, Seek(h, pos) PROVE FInv'
  BY <1>10, SeekHolds
<1>11. CASE UNCHANGED vars
  BY <1>11 DEF vars, FInv, Typed, SoundTable, Sound, ShadowKept, PlainKept, PlainIn, Openers,
     FoundIn, ReadsAs, Hidden
<1> QED
  BY <1>1, <1>2, <1>3, <1>4, <1>5, <1>6, <1>7, <1>8, <1>9, <1>10, <1>11 DEF Next

\* The inductive invariant holds in every state: the tables of handles and of
\* files that the four properties below need.
LEMMA FInvAlways == Spec => []FInv
  BY InitHolds, NextHolds, PTL DEF Spec

\* The variables have their types, and a stream that may write has the copy
\* open.
THEOREM TypeCorrect == Spec => []TypeOK
<1>1. FInv => TypeOK
  <2> SUFFICES ASSUME FInv PROVE TypeOK
    OBVIOUS
  <2>1. Typed /\ SoundTable(fh, overlay)
    BY DEF FInv
  <2>2. {None, Stock} \subseteq Version
    BY FilesAssumption DEF None, Stock, Version, Old
  <2>3. \A h \in UsedHandles : fh[h].wr => fh[h].at = "overlay"
    BY <2>1 DEF SoundTable, Sound, UsedHandles
  <2> QED
    BY <2>1, <2>2, <2>3 DEF Typed, TypeOK
<1> QED
  BY <1>1, FInvAlways, PTL

\* No call, no snapshot and no restart rewrites a file of the installation: a
\* stream that may write never has one open, so no buffer ever goes there.
THEOREM InstallKept == Spec => []InstallNeverRewritten
<1>1. FInv => InstallNeverRewritten
  BY DEF FInv, Typed, InstallNeverRewritten
<1> QED
  BY <1>1, FInvAlways, PTL

\* What the guest wrote to a plain file is what it reads: through the stream,
\* after a close, after a restart and through a handle a snapshot restored.
THEOREM ReadsBack == Spec => []ReadsBackWritten
<1>1. FInv => ReadsBackWritten
  <2> SUFFICES ASSUME FInv, NEW name \in plain
               PROVE  /\ \A h \in Open(name) : Found(overlay, fh[h]) = latest[name]
                      /\ Open(name) = {} => WouldFind(name) = latest[name]
    BY DEF ReadsBackWritten
  <2>1. PlainIn(install, overlay, fh, Hidden(name), latest[name], name)
    BY DEF FInv, PlainKept
  <2>2. Open(name) = Openers(fh, name)
    BY DEF Open, Openers
  <2>3. \A h \in Openers(fh, name) : Found(overlay, fh[h]) = FoundIn(install, overlay, fh[h])
    BY DEF Found, FoundIn
  <2>4. WouldFind(name) = ReadsAs(install, overlay, Hidden(name), name)
    BY DEF WouldFind, OpensAt, Shadowed, ReadsAs, Hidden
  <2> QED
    BY <2>1, <2>2, <2>3, <2>4 DEF PlainIn
<1> QED
  BY <1>1, FInvAlways, PTL

\* A ranked session never reads a state file that it did not write itself.
THEOREM ShadowIsKept == Spec => []ShadowHides
<1>1. FInv => ShadowHides
  <2> SUFFICES ASSUME FInv, state_shadow, NEW h \in UsedHandles, fh[h].name \in StateFiles
               PROVE  Found(overlay, fh[h]) > Old
    BY DEF ShadowHides
  <2>1. h \in Handle /\ fh[h].used
    BY DEF UsedHandles
  <2>2. Sound(fh[h], overlay)
    BY <2>1, OfHandle
  <2>3. /\ overlay[fh[h].name] = None \/ overlay[fh[h].name] > Old
        /\ fh[h].at = "overlay"
    BY <2>1 DEF FInv, ShadowKept
  <2> QED
    BY <2>2, <2>3 DEF Sound, Found
<1> QED
  BY <1>1, FInvAlways, PTL

-----------------------------------------------------------------------------
(***************************************************************************)
(* The handles of a snapshot come back under their numbers.                *)
(***************************************************************************)
\* The table after the saved handles up to h: exactly those, as they were
\* saved, and no copy that was there is gone.
Back(m, h) ==
  /\ m.overlay \in [Files -> Version] /\ m.fh \in [Handle -> Stream \cup {Unused}]
  /\ \A n \in Files : overlay[n] # None => m.overlay[n] # None
  /\ \A k \in Handle : m.fh[k].used <=> k \in DOMAIN snap /\ k <= h
  /\ \A k \in DOMAIN snap : k <= h =>
       m.fh[k].name = snap[k].name /\ m.fh[k].wr = snap[k].wr /\ m.fh[k].pos = snap[k].pos

\* reopen_handle gives the next handle its number: those below it are the
\* ones in use.
LEMMA ReopenBack ==
  ASSUME FInv, Gapless, AllThere, NEW h \in DOMAIN snap, NEW m, Back(m, h - 1)
  PROVE  Back(reopen_handle(m, snap[h]), h)
<1> DEFINE e == snap[h]
           o  == IF m.overlay[e.name] = None /\ e.wr
                 THEN [m.overlay EXCEPT ![e.name] = install[e.name]] ELSE m.overlay
           at == IF o[e.name] # None THEN "overlay" ELSE "install"
           f  == alloc_handle(m.fh)
           s  == NewStream(e.name, e.wr, at, e.pos)
           r  == reopen_handle(m, e)
<1>1. Typed
  BY DEF FInv
<1>2. /\ h \in Handle /\ h \in Nat /\ e.name \in Files /\ e.wr \in BOOLEAN /\ e.pos \in 0 .. MaxPos
      /\ DOMAIN snap \subseteq Handle /\ \A k \in Handle : k \in Nat
  BY <1>1, FilesAssumption DEF Typed, Saved, Handle
<1>3. m.overlay \in [Files -> Version] /\ m.fh \in [Handle -> Stream \cup {Unused}]
  BY DEF Back
<1>4. install[e.name] \in Version
  BY <1>1, <1>2, FilesAssumption DEF Typed, None, Stock, Version, Old
<1>5. /\ o \in [Files -> Version]
      /\ \A n \in Files : m.overlay[n] # None => o[n] # None
      /\ install[e.name] # None \/ m.overlay[e.name] # None
  <2>1. install[e.name] # None \/ overlay[e.name] # None
    BY DEF AllThere
  <2> QED
    BY <1>2, <1>3, <1>4, <2>1 DEF Back
<1>6. /\ at \in {"install", "overlay"} /\ (at = "overlay" <=> o[e.name] # None)
      /\ s \in Stream /\ s.used /\ s.name = e.name /\ s.wr = e.wr /\ s.pos = e.pos
  BY <1>2, Opened
<1>7. FreeHandles(m.fh) # {} /\ ~ (at = "install" /\ install[e.name] = None)
        => r.overlay = o /\ r.fh = [m.fh EXCEPT ![f] = s]
  BY DEF reopen_handle
<1> HIDE DEF o, at, f, s, r
<1>8. \A k \in Handle : m.fh[k].used <=> k < h
  <2>1. \A k \in Handle : k < h => k \in DOMAIN snap
    <3>1. 5 .. h \subseteq DOMAIN snap
      BY DEF Gapless
    <3> QED
      BY <1>2, <3>1 DEF Handle
  <2>2. \A k \in Handle : k <= h - 1 <=> k < h
    BY <1>2
  <2> QED
    BY <2>1, <2>2 DEF Back
<1>9. h \in FreeHandles(m.fh)
  BY <1>2, <1>8 DEF FreeHandles
<1>10. f = h
  <2>1. f \in Handle /\ ~ m.fh[f].used /\ \A k \in FreeHandles(m.fh) : f <= k
    BY <1>9, Allocated DEF f
  <2> QED
    BY <1>2, <1>8, <1>9, <2>1
<1>11. at = "overlay" \/ install[e.name] # None
  BY <1>2, <1>5, <1>6
<1>12. r.overlay = o /\ r.fh = [m.fh EXCEPT ![h] = s]
  BY <1>7, <1>9, <1>10, <1>11
<1>13. /\ r.fh \in [Handle -> Stream \cup {Unused}] /\ r.fh[h] = s
       /\ \A k \in Handle \ {h} : r.fh[k] = m.fh[k]
  BY <1>2, <1>3, <1>6, <1>12, Placed
<1>14. \A n \in Files : overlay[n] # None => r.overlay[n] # None
  BY <1>5, <1>12 DEF Back
<1>15. \A k \in Handle : k <= h <=> k <= h - 1 \/ k = h
  BY <1>2
<1>16. \A k \in Handle : r.fh[k].used <=> k \in DOMAIN snap /\ k <= h
  BY <1>6, <1>13, <1>15 DEF Back
<1>17. \A k \in DOMAIN snap : k <= h =>
         r.fh[k].name = snap[k].name /\ r.fh[k].wr = snap[k].wr /\ r.fh[k].pos = snap[k].pos
  BY <1>2, <1>6, <1>13, <1>15 DEF Back
<1>18. r.overlay \in [Files -> Version]
  BY <1>5, <1>12
<1> QED
  BY <1>13, <1>14, <1>16, <1>17, <1>18 DEF Back, r

\* All of them.
LEMMA BackAll ==
  ASSUME FInv, ~ state_shadow, Gapless, AllThere
  PROVE  Back(Reopened[LastHandle], LastHandle)
<1>1. LastHandle \in Nat /\ LastHandle >= 5
  BY FilesAssumption
<1>s. DOMAIN snap \subseteq Handle
  BY DEF FInv, Typed
<1>2. Back(Reopened[4], 4)
  <2> DEFINE m == Reopened[4]
  <2>1. m.overlay = AllFlushed("overlay", overlay) /\ m.fh = [k \in Handle |-> Unused]
    BY ReopenedSteps
  <2>2. /\ m.overlay \in [Files -> Version]
        /\ \A n \in Files : overlay[n] # None => m.overlay[n] # None
    BY <2>1, AllClosed
  <2> HIDE DEF m
  <2>3. m.fh \in [Handle -> Stream \cup {Unused}] /\ \A k \in Handle : ~ m.fh[k].used
    BY <2>1, EmptyTable
  <2>4. \A k \in Handle : ~ (k <= 4)
    BY <1>1 DEF Handle
  <2>5. Back(m, 4)
    BY <1>s, <2>2, <2>3, <2>4 DEF Back
  <2> QED
    BY <2>5 DEF m
<1>3. ASSUME NEW h \in 5 .. LastHandle, NEW g, g = h - 1, Back(Reopened[g], g)
      PROVE  Back(Reopened[h], h)
  <2>1. CASE h \in DOMAIN snap
    <3>1. Back(reopen_handle(Reopened[g], snap[h]), h)
      BY <1>3, <2>1, ReopenBack
    <3>2. Reopened[h] = reopen_handle(Reopened[g], snap[h])
      BY <1>3, <2>1, ReopenedSteps
    <3> QED
      BY <3>1, <3>2
  <2>2. CASE h \notin DOMAIN snap
    <3>1. Reopened[h] = Reopened[g]
      BY <1>3, <2>2, ReopenedSteps
    <3>2. \A k \in DOMAIN snap : k <= g <=> k <= h
      BY <1>1, <1>3, <1>s, <2>2 DEF Handle
    <3> QED
      BY <1>3, <3>1, <3>2 DEF Back
  <2> QED
    BY <2>1, <2>2
<1>4. {h \in 4 .. LastHandle : ~ Back(Reopened[h], h)} = {}
  <2> DEFINE T == {h \in 4 .. LastHandle : ~ Back(Reopened[h], h)}
  <2> SUFFICES ASSUME T # {} PROVE FALSE
    OBVIOUS
  <2>1. T \in SUBSET Nat
    BY <1>1
  <2>2. PICK h \in T : \A k \in T : h <= k
    BY <2>1, LeastElement
  <2>3. h \in 5 .. LastHandle
    BY <1>1, <1>2
  <2>4. h - 1 \in 4 .. LastHandle /\ ~ (h <= h - 1)
    BY <1>1, <2>3
  <2>5. Back(Reopened[h - 1], h - 1)
    BY <2>2, <2>4
  <2>6. ASSUME NEW g, g = h - 1 PROVE Back(Reopened[h], h)
    BY <1>3, <2>3, <2>5, <2>6
  <2> QED
    BY <2>6
<1> QED
  BY <1>1, <1>4

\* A snapshot's handles come back under their numbers, where they stood and
\* open the same way, when the table had no gap and every file is still there.
THEOREM HandlesBack == Spec => HandlesComeBack
<1> DEFINE A == LoadHandles /\ Gapless /\ AllThere
       => \A h \in DOMAIN snap :
            LET s == fh'[h] IN
            s.used /\ s.name = snap[h].name /\ s.wr = snap[h].wr /\ s.pos = snap[h].pos
<1>1. FInv => A
  <2> SUFFICES ASSUME FInv, LoadHandles, Gapless, AllThere, NEW h \in DOMAIN snap
               PROVE  /\ fh'[h].used /\ fh'[h].name = snap[h].name
                      /\ fh'[h].wr = snap[h].wr /\ fh'[h].pos = snap[h].pos
    OBVIOUS
  <2>1. ~ state_shadow /\ fh' = Reopened[LastHandle].fh
    BY DEF LoadHandles
  <2>2. Back(Reopened[LastHandle], LastHandle)
    BY <2>1, BackAll
  <2>3. h \in Handle /\ h <= LastHandle
    BY FilesAssumption DEF FInv, Typed, Handle
  <2> QED
    BY <2>1, <2>2, <2>3 DEF Back
<1> HIDE DEF A
<1>2. Spec => [][A]_vars
  BY <1>1, FInvAlways, PTL
<1> QED
  BY <1>2 DEF HandlesComeBack, A
=============================================================================
