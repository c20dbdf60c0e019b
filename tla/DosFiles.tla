------------------------------ MODULE DosFiles ------------------------------
(***************************************************************************)
(* The file calls of the DOS layer (src/dos.c): the handle table, the      *)
(* write overlay that keeps the installation as it was, the shadow that    *)
(* hides its state files from a ranked session, and the handles a snapshot *)
(* carries by name.                                                        *)
(*                                                                         *)
(* A file is its version: None when it does not exist, Stock as installed, *)
(* Old as an earlier session left it, and a number for everything the      *)
(* guest wrote.  A handle is a C stream: what it wrote may sit in its      *)
(* buffer until the stream is closed, sought or full.                      *)
(***************************************************************************)
EXTENDS Integers

CONSTANTS
  Files,       \* the names the guest uses
  StateFiles,  \* those the game keeps its own state in (is_state_file)
  LastHandle,  \* handles are 5 .. LastHandle (63)
  MaxWrites,   \* bound: versions the guest writes
  MaxPos       \* bound: how far a position is told apart

ASSUME FilesAssumption ==
  /\ StateFiles \subseteq Files
  /\ LastHandle \in Nat /\ LastHandle >= 5 /\ MaxWrites \in Nat /\ MaxPos \in Nat

None  == 0
Stock == 1
Old   == 2
Version == None .. Old + MaxWrites
Handle  == 5 .. LastHandle

Unused == [used |-> FALSE]
Stream == [used : {TRUE}, name : Files, wr : BOOLEAN, at : {"install", "overlay"},
           pos : 0 .. MaxPos, buffer : Version]   \* buffer: None when it is flushed

VARIABLES
  install,       \* the game directory
  overlay,       \* PFEMU-STATE/
  fh,            \* the handle table
  state_shadow,
  snap,          \* the handles of the saved snapshot, by number; <<>> before
  version,       \* history: the last version the guest wrote
  latest,        \* history: what the guest last wrote to each file
  plain          \* history: files never deleted and never open twice at a time

vars == <<install, overlay, fh, state_shadow, snap, version, latest, plain>>

Open(name) == {h \in Handle : fh[h].used /\ fh[h].name = name}

\* alloc_handle: the lowest one that is free.
FreeHandles(t) == {h \in Handle : ~ t[h].used}
alloc_handle(t) == CHOOSE h \in FreeHandles(t) : \A k \in FreeHandles(t) : h <= k

-----------------------------------------------------------------------------
(***************************************************************************)
(* Where a name leads (AH=3Ch/3Dh): to the copy in the overlay if there is *)
(* one; else a writer gets a copy made for it and a reader the install.    *)
(***************************************************************************)
\* Mutant: the shadow is not asked.
NeverShadowed(name) == FALSE

Shadowed(name) == state_shadow /\ name \in StateFiles /\ overlay[name] = None

\* Mutant: a writer works in place.
InPlace(name, writing) == IF overlay[name] # None THEN "overlay" ELSE "install"

OpensAt(name, writing) ==
  IF overlay[name] # None \/ writing \/ Shadowed(name) THEN "overlay" ELSE "install"

\* The overlay once the file has been looked up: copy_to_overlay() for a
\* writer that creates nothing; no copy of what is not there.
\* Mutant: the copy is made for every writer, not only the first.
CopiedAgain(name, writing) ==
  IF writing /\ ~ Shadowed(name) THEN [overlay EXCEPT ![name] = install[name]] ELSE overlay

Copied(name, writing) ==
  IF writing /\ overlay[name] = None /\ ~ Shadowed(name)
  THEN [overlay EXCEPT ![name] = install[name]]
  ELSE overlay

\* What a stream finds: its own buffer, or the file.
Found(o, s) == IF s.buffer # None THEN s.buffer
               ELSE IF s.at = "overlay" THEN o[s.name] ELSE install[s.name]

\* The two directories after the stream's buffer was written out.
FlushedTo(dir, files, s) ==
  IF s.buffer # None /\ s.at = dir THEN [files EXCEPT ![s.name] = s.buffer] ELSE files

NewStream(name, writing, at, pos) ==
  [used |-> TRUE, name |-> name, wr |-> writing, at |-> at, pos |-> pos, buffer |-> None]

StillPlain(name) == IF Open(name) = {} THEN plain ELSE plain \ {name}

-----------------------------------------------------------------------------
Init ==
  /\ install \in {files \in [Files -> {None, Stock}] :
                   \A name \in Files \ StateFiles : files[name] = Stock}
  /\ overlay \in {[name \in Files |-> v] : v \in {None, Old}}   \* first session, or a later one
  /\ state_shadow \in BOOLEAN
  /\ state_shadow => \A name \in Files : overlay[name] = None  \* the canonical overlay
  /\ fh = [h \in Handle |-> Unused]
  /\ snap = <<>> /\ version = Old
  /\ latest = [name \in Files |->
                 IF overlay[name] # None THEN overlay[name]
                 ELSE IF Shadowed(name) THEN None ELSE install[name]]
  /\ plain = Files

\* AH=3Dh.
OpenFile(name, writing) ==
  LET at == OpensAt(name, writing)
      o  == Copied(name, writing)
  IN  /\ FreeHandles(fh) # {}
      /\ overlay' = o
      /\ fh' = IF (IF at = "overlay" THEN o[name] ELSE install[name]) = None
               THEN fh                          \* not found
               ELSE [fh EXCEPT ![alloc_handle(fh)] = NewStream(name, writing, at, 0)]
      /\ plain' = StillPlain(name)
      /\ UNCHANGED <<install, state_shadow, snap, version, latest>>

\* AH=3Ch: a new, empty file.
Create(name) ==
  /\ FreeHandles(fh) # {} /\ version < Old + MaxWrites
  /\ version' = version + 1
  /\ LET at == OpensAt(name, TRUE) IN
     /\ IF at = "overlay"
        THEN overlay' = [overlay EXCEPT ![name] = version'] /\ UNCHANGED install
        ELSE install' = [install EXCEPT ![name] = version'] /\ UNCHANGED overlay
     /\ fh' = [fh EXCEPT ![alloc_handle(fh)] = NewStream(name, TRUE, at, 0)]
  /\ latest' = [latest EXCEPT ![name] = version']
  /\ plain' = StillPlain(name)
  /\ UNCHANGED <<state_shadow, snap>>

\* AH=3Eh.  A handle that is not open is ignored.
Close(h) ==
  /\ fh[h].used
  /\ fh' = [fh EXCEPT ![h] = Unused]
  /\ install' = FlushedTo("install", install, fh[h])
  /\ overlay' = FlushedTo("overlay", overlay, fh[h])
  /\ UNCHANGED <<state_shadow, snap, version, latest, plain>>

\* AH=3Fh.
Read(h) ==
  /\ fh[h].used /\ fh[h].pos < MaxPos
  /\ fh' = [fh EXCEPT ![h].pos = @ + 1]
  /\ UNCHANGED <<install, overlay, state_shadow, snap, version, latest, plain>>

\* AH=40h.  The bytes stay in the stream's buffer or go out at once; a
\* stream opened for reading takes none.
Write(h) ==
  /\ fh[h].used /\ fh[h].wr /\ fh[h].pos < MaxPos /\ version < Old + MaxWrites
  /\ version' = version + 1
  /\ latest' = [latest EXCEPT ![fh[h].name] = version']
  /\ LET s == [fh[h] EXCEPT !.pos = @ + 1, !.buffer = version'] IN
     \/ fh' = [fh EXCEPT ![h] = s] /\ UNCHANGED <<install, overlay>>
     \/ /\ fh' = [fh EXCEPT ![h] = [s EXCEPT !.buffer = None]]
        /\ install' = FlushedTo("install", install, s)
        /\ overlay' = FlushedTo("overlay", overlay, s)
  /\ UNCHANGED <<state_shadow, snap, plain>>

\* AH=42h.
Seek(h, pos) ==
  /\ fh[h].used
  /\ fh' = [fh EXCEPT ![h].pos = pos, ![h].buffer = None]
  /\ install' = FlushedTo("install", install, fh[h])
  /\ overlay' = FlushedTo("overlay", overlay, fh[h])
  /\ UNCHANGED <<state_shadow, snap, version, latest, plain>>

\* AH=41h: the file of the installation, never the copy.
Delete(name) ==
  /\ install' = [install EXCEPT ![name] = None]
  /\ plain' = plain \ {name}
  /\ UNCHANGED <<overlay, fh, state_shadow, snap, version, latest>>

-----------------------------------------------------------------------------
(***************************************************************************)
(* Snapshots: refused while recording or replaying, so never in a session  *)
(* with the shadow on.                                                     *)
(***************************************************************************)
UsedHandles == {h \in Handle : fh[h].used}

\* dos_save_handles.
SaveHandles ==
  /\ ~ state_shadow
  /\ snap' = [h \in UsedHandles |-> [name |-> fh[h].name, wr |-> fh[h].wr, pos |-> fh[h].pos]]
  /\ UNCHANGED <<install, overlay, fh, state_shadow, version, latest, plain>>

\* dos_close_all_handles, lowest first: of the streams with something left for
\* a file the highest writes last.
Buffered(dir, name) ==
  {h \in UsedHandles : fh[h].name = name /\ fh[h].at = dir /\ fh[h].buffer # None}

AllFlushed(dir, files) ==
  [name \in Files |->
     IF Buffered(dir, name) = {} THEN files[name]
     ELSE fh[CHOOSE h \in Buffered(dir, name) : \A k \in Buffered(dir, name) : k <= h].buffer]

\* reopen_handle: like 3Dh, but the shadow is not asked, nothing is
\* truncated, and the stream is put back where it was.  m is the overlay and
\* the table so far.
\* Mutant: the stream is left at the start of the file.
FromTheStart(m, e) ==
  [m EXCEPT !.fh[alloc_handle(m.fh)] =
     NewStream(e.name, e.wr, IF m.overlay[e.name] # None THEN "overlay" ELSE "install", 0)]

reopen_handle(m, e) ==
  LET o  == IF m.overlay[e.name] = None /\ e.wr
            THEN [m.overlay EXCEPT ![e.name] = install[e.name]] ELSE m.overlay
      at == IF o[e.name] # None THEN "overlay" ELSE "install"
  IN  IF FreeHandles(m.fh) = {} THEN m
      ELSE IF at = "install" /\ install[e.name] = None THEN [m EXCEPT !.overlay = o]
      ELSE [overlay |-> o,
            fh |-> [m.fh EXCEPT ![alloc_handle(m.fh)] = NewStream(e.name, e.wr, at, e.pos)]]

\* The overlay and the table when the saved handles up to h are open again.
Reopened[h \in 4 .. LastHandle] ==
  IF h = 4 THEN [overlay |-> AllFlushed("overlay", overlay), fh |-> [k \in Handle |-> Unused]]
  ELSE IF h \in DOMAIN snap THEN reopen_handle(Reopened[h - 1], snap[h])
  ELSE Reopened[h - 1]

\* dos_load_handles, in the session that saved them or in a later one.
LoadHandles ==
  /\ ~ state_shadow /\ snap # <<>>
  /\ overlay' = Reopened[LastHandle].overlay
  /\ fh' = Reopened[LastHandle].fh
  /\ install' = AllFlushed("install", install)
  /\ UNCHANGED <<state_shadow, snap, version, latest, plain>>

\* The emulator ends and is started again: dos_close_all_handles at the end
\* of run().
Restart ==
  /\ ~ state_shadow /\ UsedHandles # {}
  /\ fh' = [h \in Handle |-> Unused]
  /\ install' = AllFlushed("install", install)
  /\ overlay' = AllFlushed("overlay", overlay)
  /\ UNCHANGED <<state_shadow, snap, version, latest, plain>>

Next ==
  \/ SaveHandles \/ LoadHandles \/ Restart
  \/ \E name \in Files : Create(name) \/ Delete(name) \/ \E writing \in BOOLEAN : OpenFile(name, writing)
  \/ \E h \in Handle : Close(h) \/ Read(h) \/ Write(h) \/ \E pos \in 0 .. MaxPos : Seek(h, pos)

Spec == Init /\ [][Next]_vars

-----------------------------------------------------------------------------
\* A stream that can write has the copy open.
TypeOK ==
  /\ install \in [Files -> Version] /\ overlay \in [Files -> Version]
  /\ fh \in [Handle -> Stream \cup {Unused}]
  /\ version \in Old .. Old + MaxWrites
  /\ \A h \in UsedHandles : fh[h].wr => fh[h].at = "overlay"

\* dos.c: "every write goes to a copy instead ... originals are never
\* touched": a file of the installation is as it was installed - or, by the
\* one call that does touch it, deleted.
InstallNeverRewritten == \A name \in Files : install[name] \in {None, Stock}

\* What the guest wrote is what it gets: a file that was never deleted and
\* never open twice at a time reads as it was last written, through a
\* handle that is open, after it was closed and opened again, after a
\* restart and through a handle a snapshot restored.
WouldFind(name) == IF OpensAt(name, FALSE) = "overlay" THEN overlay[name] ELSE install[name]

ReadsBackWritten ==
  \A name \in plain :
    /\ \A h \in Open(name) : Found(overlay, fh[h]) = latest[name]
    /\ Open(name) = {} => WouldFind(name) = latest[name]

\* A ranked session never reads state that the installation brought along:
\* under the shadow, a state file is there only once the session wrote it.
ShadowHides ==
  state_shadow =>
    \A h \in UsedHandles : fh[h].name \in StateFiles => Found(overlay, fh[h]) > Old

\* A snapshot's handles come back under their numbers, at their place and
\* open the same way, if the table had no gap when they were saved and every
\* file is still there.
Gapless == \A h \in DOMAIN snap : 5 .. h \subseteq DOMAIN snap
AllThere == \A h \in DOMAIN snap : install[snap[h].name] # None \/ overlay[snap[h].name] # None

HandlesComeBack ==
  [][LoadHandles /\ Gapless /\ AllThere
       => \A h \in DOMAIN snap :
            LET s == fh'[h] IN
            s.used /\ s.name = snap[h].name /\ s.wr = snap[h].wr /\ s.pos = snap[h].pos]_vars
=============================================================================
