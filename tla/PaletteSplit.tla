----------------------------- MODULE PaletteSplit -----------------------------
(***************************************************************************)
(* The menu's split palette (src/vga.c): the program turns register AR14   *)
(* to 1 during vertical blanking and back to 0 part way down the picture,  *)
(* so the upper and the lower half use two palettes; its driver does so    *)
(* only on every other frame or so.  vga_render finds the split in the     *)
(* history of the register's writes and keeps it from frame to frame.      *)
(* Time runs in scan lines; the picture may be drawn at any of them.       *)
(***************************************************************************)
EXTENDS Integers, Sequences

CONSTANTS
  Vtotal, Vde, Vrs,  \* lines of a frame, those displayed, start of the retrace
  Flip,              \* the blanked line the menu sets AR14 on
  Mid, Wander,       \* the line it clears it on, and how far that one strays
  Steady,            \* lines the seam must move by to be moved (4)
  PalSw              \* switches remembered, PALSW_N

\* What the proofs assume of them: the menu sets the register in the blank and
\* clears it in the picture, straying by no more than moves the seam.
Constants ==
  /\ Vtotal \in Nat /\ Vde \in 0 .. Vrs /\ Vrs \in 0 .. Vtotal - 1 /\ Flip \in Vde .. Vtotal - 1
  /\ {Mid, Wander, Steady, PalSw} \subseteq Nat /\ Mid + Wander < Vde
  /\ Wander <= Steady /\ PalSw >= 3

VARIABLES
  line,
  ar14,
  pal_sw,    \* the switches, oldest first: [val, line, age]
  pal_sw_base,
  split,     \* the latched split: its line or -1, both banks, lines since seen
  screen,    \* what the program shows: "menu" or "other"
  idle,      \* lines since the menu's last switch, while it is on
  flips      \* history: switches of this menu, up to four

vars == <<line, ar14, pal_sw, pal_sw_base, split, screen, idle, flips>>

Frame3 == 3 * Vtotal
NoSplit == [line |-> -1, hi |-> 0, lo |-> 0, age |-> Frame3 + 1]
Old(n) == IF n > Frame3 THEN n ELSE n + 1

Init ==
  /\ line = 0 /\ ar14 = 0 /\ pal_sw = <<>> /\ pal_sw_base = 0
  /\ split = NoSplit /\ screen = "menu" /\ idle = 0 /\ flips = 0

-----------------------------------------------------------------------------
\* vga_io_w, 3C0 with index 14h: a value that changes is noted, the oldest
\* making room.
WriteAr14(v) ==
  /\ ar14' = v
  /\ IF v = ar14 THEN UNCHANGED <<pal_sw, pal_sw_base>>
     ELSE LET s == Append(pal_sw, [val |-> v, line |-> line, age |-> 0]) IN
          IF Len(pal_sw) = PalSw
          THEN pal_sw' = Tail(s) /\ pal_sw_base' = pal_sw[1].val
          ELSE pal_sw' = s /\ UNCHANGED pal_sw_base

\* The last three switches go back and forth.
Alternating ==
  LET n == Len(pal_sw)
  IN  /\ n >= 3
      /\ pal_sw[n].val # pal_sw[n - 1].val
      /\ pal_sw[n].val = pal_sw[n - 2].val
Prev(i) == IF i = 1 THEN pal_sw_base ELSE pal_sw[i - 1].val
\* The switches that fell inside the picture.
Visible == {i \in DOMAIN pal_sw : pal_sw[i].line < Vde /\ pal_sw[i].val # Prev(i)}
Raster(l) == IF l >= Vrs THEN l - Vrs ELSE l - Vrs + Vtotal

\* The split taken from the newest of them; the seam stays where it was unless
\* it moved for real.
Seam(i) ==
  LET l == Raster(pal_sw[i].line)
  IN  IF split.line < 0 \/ l - split.line > Steady \/ split.line - l > Steady
      THEN l ELSE split.line
Latched ==
  IF Alternating /\ Visible # {}
  THEN LET i == CHOOSE i \in Visible : \A j \in Visible : j <= i
       IN  [line |-> Seam(i), hi |-> Prev(i), lo |-> pal_sw[i].val, age |-> pal_sw[i].age]
  ELSE split
\* It is forgotten three frames after the switch it came from.
Expire(s) == IF s.age > Frame3 THEN NoSplit ELSE s

\* vga_render: the latch is worked out anew, and then drawn.
vga_render ==
  /\ split' = Expire(Latched)
  /\ UNCHANGED <<line, ar14, pal_sw, pal_sw_base, screen, idle, flips>>

-----------------------------------------------------------------------------
\* The menu's two callbacks.  Its driver may sit out a frame, not two.
MenuFlip ==
  /\ screen = "menu"
  /\ \/ line = Flip /\ ar14 = 0 /\ WriteAr14(1)
     \/ line \in Mid .. Mid + Wander /\ ar14 = 1 /\ WriteAr14(0)
  /\ flips' = IF flips < 4 THEN flips + 1 ELSE flips
  /\ idle' = 0
  /\ UNCHANGED <<line, split, screen>>

\* The menu's next switch is due: a set one is cleared in its time, and a
\* cleared one is set again within two frames.
Due == /\ screen = "menu"
       /\ \/ ar14 = 1 /\ line = Mid + Wander
          \/ ar14 = 0 /\ line = Flip /\ idle >= Vtotal

NextLine ==
  /\ ~Due
  /\ line' = (line + 1) % Vtotal
  /\ pal_sw' = [i \in DOMAIN pal_sw |-> [pal_sw[i] EXCEPT !.age = Old(@)]]
  /\ split' = IF split.line < 0 THEN split ELSE [split EXCEPT !.age = Old(@)]
  /\ idle' = Old(idle)
  /\ UNCHANGED <<ar14, pal_sw_base, screen, flips>>

\* The menu is left; a later screen writes the register on its own now and
\* then, and never as a pair within a frame.
LeaveMenu ==
  /\ screen = "menu" /\ screen' = "other" /\ flips' = 0
  /\ UNCHANGED <<line, ar14, pal_sw, pal_sw_base, split, idle>>
OtherWrite ==
  /\ screen = "other" /\ idle >= Vtotal
  /\ \E v \in {0, 1} : WriteAr14(v)
  /\ idle' = 0
  /\ UNCHANGED <<line, split, screen, flips>>

\* apply_regs, for a mode set: the history means nothing any more.
apply_regs ==
  /\ ar14' = 0 /\ pal_sw' = <<>> /\ pal_sw_base' = 0 /\ split' = NoSplit
  /\ screen' \in {"menu", "other"} /\ flips' = 0 /\ idle' = 0
  /\ UNCHANGED line

Next == vga_render \/ MenuFlip \/ NextLine \/ LeaveMenu \/ OtherWrite \/ apply_regs
Spec == Init /\ [][Next]_vars

-----------------------------------------------------------------------------
Banks == {0, 1}
\* Every variable has its type.
TypeOK ==
  /\ line \in 0 .. Vtotal - 1 /\ ar14 \in Banks /\ pal_sw_base \in Banks
  /\ Len(pal_sw) <= PalSw
  /\ \A i \in DOMAIN pal_sw :
       pal_sw[i] \in [val : Banks, line : 0 .. Vtotal - 1, age : 0 .. Frame3 + 1]
  /\ split \in [line : -1 .. Vtotal - 1, hi : Banks, lo : Banks, age : 0 .. Frame3 + 1]
  /\ screen \in {"menu", "other"} /\ idle \in 0 .. Frame3 + 1 /\ flips \in 0 .. 4

\* Once the menu has switched both ways twice, a picture drawn at any line, in a
\* frame whose own tick wrote the register or in one it sat out, shows bank 1
\* above the seam and bank 0 below it.
MenuSteady ==
  flips = 4 => LET s == Expire(Latched) IN s.line >= 0 /\ s.hi = 1 /\ s.lo = 0

\* The seam does not move while the menu's own switch strays by a line or two.
SeamStands ==
  [][flips = 4 /\ flips' = 4 /\ split.line >= 0 => split'.line = split.line]_vars

\* No picture keeps a seam three frames after the register was last written, nor
\* has one, after a mode set, before the new screen has gone back and forth too.
SeamLeaves ==
  idle > Frame3 \/ Len(pal_sw) < 3 => Expire(Latched).line < 0
===============================================================================
