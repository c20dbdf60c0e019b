-------------------------------- MODULE Table --------------------------------
(***************************************************************************)
(* What pfemu does around a running table, part by part on a small         *)
(* instance: the score that is tracked, the trainer, and the picture - the *)
(* scrolled page, the split palette, video memory and the moment a frame   *)
(* is presented.  A behaviour is one part's, `which' says whose, and the   *)
(* others stand still.                                                     *)
(***************************************************************************)
EXTENDS Integers, Sequences

CONSTANTS
  Short, Long, SCLog, Setups, MaxGames, MaxScore,       \* of Score
  Tables, Sites, Places,                                \* of Trainer
  PageVtotal, PageVrs, SaHist, BallHold, Bytes,         \* of StartAddress
  Vtotal, Vde, Vrs, Flip, Mid, Wander, Steady, PalSw,   \* of PaletteSplit
  Width, Cells, Settings, Addrs, Values, Screen, Pattern(_, _), Accesses,  \* of Vram
  Buckets, Warmup, Every, Margin, MinW, SeedLo, SeedHi, Retrace,           \* of PresentWindow
  None

VARIABLES
  which,
  setup, g, t, log, games, real,
  armed, trainer, mem, running, fix_on, table_num, spring_cheat_on, addr, prev, osd, ticked, slot,
  beam, cr, sa_hist, ball, displayed, settled,
  line, ar14, pal_sw, pal_sw_base, split, screen, idle, flips,
  vram, latch, regs, start, n,
  occ, redraws, vt, crtc, win

score   == <<setup, g, t, log, games, real>>
poked   == <<armed, trainer, mem, running, fix_on, table_num, spring_cheat_on, addr, prev, osd,
             ticked, slot>>
page    == <<beam, cr, sa_hist, ball, displayed, settled>>
palette == <<line, ar14, pal_sw, pal_sw_base, split, screen, idle, flips>>
memory  == <<vram, latch, regs, start, n>>
window  == <<occ, redraws, vt, crtc, win>>
vars    == <<which, score, poked, page, palette, memory, window>>

-----------------------------------------------------------------------------
\* Three installs: three balls, five in high resolution, and the trainer on.
Plain  == [five |-> FALSE, hires |-> FALSE, trainer |-> FALSE]
Installs == {Plain, [Plain EXCEPT !.five = TRUE, !.hires = TRUE], [Plain EXCEPT !.trainer = TRUE]}

Sc == INSTANCE Score

\* A table all sites of which are found, and one without two of them.
TwoTables == [t1 |-> {"balls", "tilt", "spring", "pause"}, t2 |-> {"tilt", "pause"}]

Tr == INSTANCE Trainer

Sa == INSTANCE StartAddress WITH Vtotal <- PageVtotal, Vrs <- PageVrs, line <- beam

Ps == INSTANCE PaletteSplit

\* Bytes of two bits, eight addresses a plane, six rows of which the last two
\* are the panel's, and settings that take each mode of the graphics
\* controller in turn.
TwoBits == {0, 1}
Plane   == 0 .. 3
Planar == [chain |-> FALSE, oddeven |-> FALSE, map |-> 1, wm |-> 0, rm |-> 0, readmap |-> 2,
           fn |-> "put", rot |-> 0, esr |-> {}, sr |-> {}, bm |-> TwoBits, planes |-> Plane,
           care |-> Plane, compare |-> {1}, boot |-> TRUE]
EachMode ==
  {[Planar EXCEPT !.wm = w, !.fn = f, !.rot = r, !.esr = e, !.sr = {0, 2}, !.bm = m, !.planes = k,
                  !.boot = FALSE] :
     w \in 0 .. 3, f \in {"put", "and", "or", "xor"}, r \in {0, 1}, e \in {{}, {0, 1}},
     m \in {TwoBits, {1}}, k \in {Plane, {0, 3}}}
  \cup {[Planar EXCEPT !.rm = 1, !.care = c, !.compare = q, !.boot = FALSE] :
          c \in {Plane, {0}, {}}, q \in {{}, {1}, {0, 3}}}
  \cup {[Planar EXCEPT !.chain = b, !.oddeven = ~b, !.map = w, !.planes = k, !.boot = (k = Plane)] :
          b \in BOOLEAN, w \in 0 .. 3, k \in {Plane, {0, 3}}}
  \cup {Planar}
Stripes(c, p) == {b \in TwoBits : (c + p + (2 * b)) % 3 = 0}

SixRows == [columns |-> 4, rows |-> 6, rowh |-> 2, lc |-> 7, offset |-> 1, pel |-> 1]
SomeBytes == {{0}, TwoBits}

Vr == INSTANCE Vram

TwoTimings == [normal |-> 6, high |-> 4]

Pw == INSTANCE PresentWindow WITH n <- redraws

\* What the proofs about the parts assume of their constants.
ASSUME PartsAssumption ==
  Sc!Constants /\ Tr!Constants /\ Sa!Constants /\ Ps!Constants /\ Vr!Constants /\ Pw!Constants

-----------------------------------------------------------------------------
Only(part) ==
  /\ which = part /\ UNCHANGED which
  /\ IF part = "score"   THEN TRUE ELSE UNCHANGED score
  /\ IF part = "trainer" THEN TRUE ELSE UNCHANGED poked
  /\ IF part = "page"    THEN TRUE ELSE UNCHANGED page
  /\ IF part = "palette" THEN TRUE ELSE UNCHANGED palette
  /\ IF part = "vram"    THEN TRUE ELSE UNCHANGED memory
  /\ IF part = "window"  THEN TRUE ELSE UNCHANGED window

Init ==
  /\ which \in {"score", "trainer", "page", "palette", "vram", "window"}
  /\ Sc!Init /\ (which = "score" \/ setup = Plain)
  /\ Tr!Init /\ (which = "trainer" \/ (~armed /\ ~trainer))
  /\ Sa!Init /\ Ps!Init
  /\ Vr!Init /\ (which = "vram" \/ regs = Planar)
  /\ Pw!Init /\ (which = "window" \/ crtc = "normal")

Next ==
  \/ Only("score") /\ Sc!Next
  \/ Only("trainer") /\ Tr!Next
  \/ Only("page") /\ Sa!Next
  \/ Only("palette") /\ Ps!Next
  \/ Only("vram") /\ Vr!Next
  \/ Only("window") /\ Pw!Next

Spec == Init /\ [][Next]_vars

-----------------------------------------------------------------------------
\* Every part's variables have their types.
TypeOK ==
  CASE which = "score"   -> Sc!TypeOK
    [] which = "trainer" -> Tr!TypeOK
    [] which = "page"    -> Sa!TypeOK
    [] which = "palette" -> Ps!TypeOK
    [] which = "vram"    -> Vr!TypeOK
    [] which = "window"  -> Pw!TypeOK

\* An attempt is open exactly while a game is played, and ranked exactly when it
\* was honestly played to its end, with the score it had, ball by ball.
RankedIsWon ==
  which = "score" =>
    /\ Sc!OpenWhilePlaying
    /\ Sc!RankedWasWon /\ Sc!WonIsRanked /\ Sc!BallScoresRight /\ Sc!CounterTrue

\* After a pause the table never finds a phase 2 owed from before it and has
\* lost none of the present one, what the trainer last said of the table holds,
\* and nothing is written into a program that is not one.
PokesAreClean ==
  /\ [](which = "trainer" => Tr!HandshakeClean /\ Tr!SaysWhatHolds)
  /\ Tr!TakesNothing
  /\ Tr!OthersStand

\* Whatever line it is drawn at, the picture is the page latched at the retrace
\* or the one its ball was drawn for, a palette's seam stands where the menu
\* switches and leaves with the menu, and a frame is presented in a span that no
\* redraw it was learned from touches.
PictureSteady ==
  /\ [](which = "page" => Sa!ShownIsLatched)
  /\ Sa!StepsWithBall
  /\ [](which = "palette" => Ps!MenuSteady /\ Ps!SeamLeaves)
  /\ Ps!SeamStands
  /\ Pw!AdoptsQuiet
  /\ Pw!FollowsRetrace

\* What a write leaves in the planes is its operation on what a read had
\* latched, what goes in through the window comes out of it, and it is seen
\* where it was put, the panel standing still while the field scrolls.
PlanesRight ==
  /\ Vr!ReadModifyWrite /\ Vr!WindowIsMemory /\ Vr!CompareFinds
  /\ Vr!PanelStands /\ Vr!PlotsWhereMeant
=============================================================================
