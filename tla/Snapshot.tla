------------------------------ MODULE Snapshot -------------------------------
(***************************************************************************)
(* Savestates (src/snapshot.c) and the loop that serves F6 and F8 (run.c): *)
(* one slot per install, rewritten in place section by section, checked as *)
(* a whole before any of it is applied.  The process may die at any write, *)
(* the disk may fill, memory may run out, and between two sessions the     *)
(* slot may be exchanged for a file from elsewhere.                        *)
(*                                                                         *)
(* A part of the machine is known by the emulated time of its contents:    *)
(* a sound machine has the same time in all its parts.                     *)
(***************************************************************************)
EXTENDS Integers, SequencesExt

CONSTANTS
  Sections,   \* the sections of a file in their order, without the seal
  Sized,      \* those whose length pass 1 knows (RAMLOW, VRAM)
  MaxTime,    \* bound: emulated and wall time
  MaxDeaths   \* bound: process ends

VARIABLES
  pc,        \* "down", "run" or "save"
  mode,      \* "play", "record", "replay" or "trainer"
  machine,   \* for each part, the emulated time of its contents
  broken,    \* history: the player was told that a load failed half-way and
             \* the session should be restarted; what it saves is no better
  real,      \* the wall clock behind the anchor t0, in emulated time
  wants,     \* snap_save_pending and snap_load_pending
  slot,      \* the file of this install, a sequence of pieces, or NoFile
  full,      \* the disk takes no more bytes
  saved,     \* history: the machines that were saved
  deaths     \* history: process ends so far

vars == <<pc, mode, machine, broken, real, wants, slot, full, saved, deaths>>

\* What the constants may be: the release and the devices have sections, and
\* the seal is none.
Constants ==
  /\ Sections \in Seq(STRING) /\ {"RELEASE", "DEV"} \subseteq Range(Sections)
  /\ "HASH" \notin Range(Sections)
  /\ MaxTime \in Nat

\* A piece of a file: a section with its release, its time and whether it is
\* as long as this build's reader expects; or the seal, and whether the
\* bytes above it are the ones it was computed over.
Piece(tag, rel, at, whole) == [tag |-> tag, rel |-> rel, at |-> at, whole |-> whole]
Seal(good) == Piece("HASH", "none", 0, good)
NoFile == <<Piece("none", "none", 0, FALSE)>>
Home   == "home"

Parts    == Range(Sections) \ {"RELEASE"}
emu_time == machine["DEV"]

\* The mode in which the slot may be touched at all.
Refused == mode # "play"

-----------------------------------------------------------------------------
\* Pass 1: one seal, good, every section ahead of it, the sections of known
\* size whole, and the identity that of this install.
Has(file, t)     == SelectInSeq(file, LAMBDA p : p.tag = t) # 0
PieceOf(file, t) == file[SelectInSeq(file, LAMBDA p : p.tag = t)]
SealAt(file)     == SelectInSeq(file, LAMBDA p : p.tag = "HASH")
Complete(file)   == \A t \in Range(Sections) : Has(file, t)

\* Mutant: the sections are applied as they come.
OnePass(file) == Has(file, "RELEASE") /\ PieceOf(file, "RELEASE").rel = Home

Valid(file) ==
  /\ SealAt(file) # 0 /\ file[SealAt(file)].whole
  /\ Complete(file)
  /\ \A t \in Sized : PieceOf(file, t).whole
  /\ PieceOf(file, "RELEASE").rel = Home

\* Pass 2: the sections in their order, up to the first that does not read.
FirstBad(file) ==
  LET n == SelectInSeq(Sections, LAMBDA t : t \in Parts /\ Has(file, t) /\ ~PieceOf(file, t).whole)
  IN  IF n = 0 THEN Len(Sections) + 1 ELSE n
Applied(file) ==
  LET reached == {t \in Parts : Has(file, t) /\ \E n \in 1 .. FirstBad(file) - 1 : Sections[n] = t}
  IN  [p \in Parts |-> IF p \in reached THEN PieceOf(file, p).at ELSE machine[p]]

Anchored(time) == time

Load(file) ==
  /\ machine' = Applied(file)
  /\ IF FirstBad(file) <= Len(Sections) THEN broken' = TRUE /\ UNCHANGED real
     ELSE UNCHANGED broken /\ real' = Anchored(machine'["DEV"])

-----------------------------------------------------------------------------
\* A batch runs only while emulated time is behind the wall clock, and the
\* anchor moves up when it has fallen far behind.
Batch ==
  /\ pc = "run" /\ emu_time < real /\ \A p \in Parts : machine[p] < MaxTime
  /\ machine' = [p \in Parts |-> machine[p] + 1]
  /\ UNCHANGED <<pc, mode, broken, real, wants, slot, full, saved, deaths>>

Wall ==
  /\ pc = "run" /\ real <= MaxTime
  /\ real' = IF emu_time < real - 1 THEN emu_time ELSE real + 1
  /\ UNCHANGED <<pc, mode, machine, broken, wants, slot, full, saved, deaths>>

Key(want) ==
  /\ pc = "run"
  /\ wants' = wants \cup {want}
  /\ UNCHANGED <<pc, mode, machine, broken, real, slot, full, saved, deaths>>

LoadRefused == Refused

\* fopen with "wb": what the slot held is gone.
Opened == <<>>

\* F6 goes before F8 when both are pending.
ServeSave ==
  /\ pc = "run" /\ "save" \in wants
  /\ wants' = wants \ {"save"}
  /\ IF Refused THEN UNCHANGED <<pc, slot>>
     ELSE \/ pc' = "save" /\ slot' = Opened
          \/ UNCHANGED <<pc, slot>>          \* cannot open
  /\ UNCHANGED <<mode, machine, broken, real, full, saved, deaths>>

ServeLoad ==
  /\ pc = "run" /\ wants = {"load"}
  /\ wants' = {}
  /\ IF LoadRefused \/ ~Valid(slot) THEN UNCHANGED <<machine, broken, real>> ELSE Load(slot)
  /\ UNCHANGED <<pc, mode, slot, full, saved, deaths>>

-----------------------------------------------------------------------------
\* What one write leaves of the file: nothing fwrite returns is looked at.
Written(piece) == slot' = IF full' THEN slot ELSE Append(slot, piece)
DiskFills == full' \in {full, TRUE}

\* Sections go out one after the other; a buffer that could not grow leaves
\* its section short, and the save goes on.
SaveSection ==
  /\ pc = "save" /\ Len(slot) < Len(Sections) /\ ~full
  /\ DiskFills
  /\ \E whole \in BOOLEAN :
       LET t == Sections[Len(slot) + 1] IN
       Written(Piece(t, Home, IF t \in Parts THEN machine[t] ELSE 0, whole))
  /\ UNCHANGED <<pc, mode, machine, broken, real, wants, saved, deaths>>

\* snap_oom: a section came out short.  (Read off the file: what a full disk
\* took down with it does not matter to any later load.)
OutOfMemory == \E n \in DOMAIN slot : ~slot[n].whole

SaveSeal ==
  /\ pc = "save" /\ (Len(slot) >= Len(Sections) \/ full)
  /\ pc' = "run"
  /\ IF OutOfMemory THEN slot' = NoFile /\ UNCHANGED <<saved, full>>
     ELSE /\ DiskFills
          /\ Written(Seal(TRUE))
          /\ saved' = saved \cup {machine}
  /\ UNCHANGED <<mode, machine, broken, real, wants, deaths>>

-----------------------------------------------------------------------------
\* The process ends, killed or closed; the file stays as far as it got.
Die ==
  /\ pc # "down" /\ deaths < MaxDeaths
  /\ pc' = "down" /\ wants' = {} /\ deaths' = deaths + 1
  /\ UNCHANGED <<mode, machine, broken, real, slot, full, saved>>

\* Between sessions: room on the disk again, and perhaps another file at
\* the slot's name - another release's, one with a byte changed, or one of
\* another build, whose section is not this build's length.
Elsewhere(rel, build, intact) ==
  [n \in 1 .. Len(Sections) |->
     Piece(Sections[n], rel, MaxTime, build = "this" \/ Sections[n] # build)]
  \o <<Seal(intact)>>

Replace ==
  /\ pc = "down" /\ deaths < MaxDeaths
  /\ \E rel \in {Home, "other"}, build \in Parts \cup {"this"}, intact \in BOOLEAN :
       /\ rel = Home => ~intact \/ build # "this"
       /\ slot' = Elsewhere(rel, build, intact)
  /\ full' = FALSE
  /\ UNCHANGED <<pc, mode, machine, broken, real, wants, saved, deaths>>

\* A session boots afresh, or from the slot (-load); refused, it does not
\* start at all.
Boot ==
  /\ pc = "down"
  /\ mode' \in {"play", "record", "replay", "trainer"}
  /\ pc' = "run" /\ full' = FALSE
  /\ \/ machine' = [p \in Parts |-> 0] /\ real' = 0 /\ UNCHANGED broken
     \/ mode' = "play" /\ Valid(slot) /\ FirstBad(slot) > Len(Sections) /\ Load(slot)
  /\ UNCHANGED <<wants, slot, saved, deaths>>

Init ==
  /\ pc = "down" /\ mode = "play" /\ machine = [p \in Parts |-> 0] /\ broken = FALSE
  /\ real = 0 /\ wants = {} /\ slot = NoFile /\ full = FALSE /\ saved = {} /\ deaths = 0

Next ==
  \/ Batch \/ Wall \/ \E want \in {"save", "load"} : Key(want)
  \/ ServeSave \/ ServeLoad \/ SaveSection \/ SaveSeal
  \/ Die \/ Replace \/ Boot

Spec == Init /\ [][Next]_vars

-----------------------------------------------------------------------------
Whole(m) == \A p, q \in Parts : m[p] = m[q]

TypeOK ==
  /\ pc \in {"down", "run", "save"} /\ broken \in BOOLEAN /\ full \in BOOLEAN
  /\ mode \in {"play", "record", "replay", "trainer"}
  /\ machine \in [Parts -> 0 .. MaxTime] /\ real \in 0 .. MaxTime + 1
  /\ wants \subseteq {"save", "load"} /\ Len(slot) <= Len(Sections) + 1

\* The machine is never put together from two moments without the player
\* being told to restart: torn, cut-off, foreign and edited files leave it
\* as it was.
NoMixture == ~broken => Whole(machine)

\* Sections that came out short are never sealed as if they were whole.
SealedIsWhole ==
  saved # {} /\ slot # NoFile /\ SealAt(slot) # 0 /\ deaths = 0 =>
    \A n \in DOMAIN slot : slot[n].whole

\* What a load puts the machine to is a state that this install itself
\* saved, and no step of the loop moves the clock in any other way.
LoadsOnlySaved ==
  [][ServeLoad /\ machine' # machine /\ ~broken' => machine' \in saved]_vars

\* The clock of a session that is recorded or replayed never goes back: a
\* .pfr's event stream stays sorted.
RecordedClockForward ==
  [][pc = "run" /\ mode \in {"record", "replay"} /\ pc' = "run" =>
       \A p \in Parts : machine'[p] >= machine[p]]_vars

\* The guest is never left waiting for the wall clock to catch up with a
\* loaded state: emulated time is at most one batch ahead of it.
NeverAhead == pc = "run" /\ ~broken => emu_time <= real

\* The machine is never put together from two moments, a load puts it to one
\* that this install saved whole, and neither the guest's clock nor a recorded
\* session's is disturbed by it.
OneMoment ==
  /\ [](NoMixture /\ SealedIsWhole /\ NeverAhead)
  /\ LoadsOnlySaved
  /\ RecordedClockForward
=============================================================================
