----------------------------- MODULE StartAddress -----------------------------
(***************************************************************************)
(* Which start address the picture is drawn from (src/vga.c).  The program *)
(* writes CRTC 0C and 0D one byte at a time, anywhere in the frame; real   *)
(* hardware copies the pair when the vertical retrace starts.  The         *)
(* emulator draws at any moment, so it works the copy out from a ring of   *)
(* the last writes; and while a ball was drawn lately it keeps the picture *)
(* on the camera that ball was drawn against.  Time runs in scan lines;    *)
(* what happens within a line happens after the line's start.              *)
(***************************************************************************)
EXTENDS Naturals, Sequences

CONSTANTS
  Vtotal, Vrs,  \* lines of a frame, the one the vertical retrace starts on
  SaHist,       \* entries of the ring, SA_HIST
  BallHold,     \* lines the ball's camera is kept for, 0.10 s
  Bytes         \* what each half of the address may be

\* What the proofs assume of them.
Constants ==
  /\ Vtotal \in Nat /\ Vrs \in 0 .. Vtotal - 1
  /\ SaHist \in Nat \ {0} /\ BallHold \in Nat /\ 0 \in Bytes

VARIABLES
  line,
  cr,        \* the registers 0C and 0D
  sa_hist,   \* the last writes, oldest first: the pair then, the lines since
  ball,      \* ball_start: the pair the ball was drawn with and the lines since
  displayed, \* history: the pair the display hardware holds
  settled    \* history: a write noted since the mode was set came before the retrace

vars == <<line, cr, sa_hist, ball, displayed, settled>>

NoBall == [v |-> <<0, 0>>, age |-> BallHold]
Home == <<0, 0>>

\* The lines since the last retrace started: t_latch in start_latched.
LatchAge == IF line >= Vrs THEN line - Vrs ELSE line + Vtotal - Vrs
\* Older than any latch: past it an entry's age no longer matters.
Aged(e) == [e EXCEPT !.age = IF @ < Vtotal THEN @ + 1 ELSE @]

Init ==
  /\ line = 0 /\ cr = Home /\ sa_hist = <<>> /\ ball = NoBall
  /\ displayed = Home /\ settled = FALSE

-----------------------------------------------------------------------------
\* start_latched: the newest write made before the retrace, and the registers
\* themselves when the ring holds none.
Before == {i \in DOMAIN sa_hist : sa_hist[i].age > LatchAge}
Newest(S) == CHOOSE i \in S : \A j \in S : j <= i
\* Mutant: the newest write, latched or not.
NewestWrite == IF sa_hist = <<>> THEN cr ELSE sa_hist[Len(sa_hist)].v
start_latched == IF Before = {} THEN cr ELSE sa_hist[Newest(Before)].v

\* vga_display_start.
vga_display_start == IF ball.age < BallHold THEN ball.v ELSE start_latched

\* sa_note: the ring keeps the last SaHist.
sa_note(v) ==
  sa_hist' = LET s == Append(sa_hist, [v |-> v, age |-> 0])
             IN  IF Len(s) > SaHist THEN Tail(s) ELSE s

\* Time: one line.  The hardware copies the pair as the retrace starts.
NextLine ==
  /\ line' = (line + 1) % Vtotal
  /\ sa_hist' = [i \in DOMAIN sa_hist |-> Aged(sa_hist[i])]
  /\ ball' = IF ball.age + 1 < BallHold THEN [ball EXCEPT !.age = @ + 1] ELSE NoBall
  /\ IF line' = Vrs
     THEN displayed' = cr /\ settled' = (sa_hist # <<>>)
     ELSE UNCHANGED <<displayed, settled>>
  /\ UNCHANGED cr

\* vga_io_w, 3D5 with index 0C or 0D.
WriteStart ==
  \E half \in 1 .. 2, b \in Bytes :
    /\ cr' = [cr EXCEPT ![half] = b]
    /\ sa_note(cr')
    /\ UNCHANGED <<line, ball, displayed, settled>>

\* vga_note_ball_start, from the hook in PUTTHEBALL.
vga_note_ball_start ==
  /\ ball' = [v |-> cr, age |-> 0]
  /\ UNCHANGED <<line, cr, sa_hist, displayed, settled>>

\* vga_set_mode_bios and vga_reset_start_pairing.
vga_set_mode_bios ==
  /\ cr' = Home /\ sa_hist' = <<>> /\ ball' = NoBall
  /\ displayed' = Home /\ settled' = FALSE
  /\ UNCHANGED line

Next == NextLine \/ WriteStart \/ vga_note_ball_start \/ vga_set_mode_bios
Spec == Init /\ [][Next]_vars

-----------------------------------------------------------------------------
Pairs == Bytes \X Bytes
\* Every variable has its type.
TypeOK ==
  /\ line \in 0 .. Vtotal - 1
  /\ cr \in Pairs /\ displayed \in Pairs /\ settled \in BOOLEAN
  /\ Len(sa_hist) <= SaHist
  /\ \A i \in DOMAIN sa_hist : sa_hist[i] \in [v : Pairs, age : 0 .. Vtotal]
  /\ ball \in [v : Pairs, age : 0 .. BallHold]

\* The writes since the retrace: all of the ring when it has turned round.
Since == Len(sa_hist) - (IF Before = {} THEN 0 ELSE Newest(Before))

\* What start_latched answers is what the hardware would be displaying, at
\* whatever line the picture is drawn, however the two bytes' writes fall about
\* the retrace: once one was noted before a retrace, and unless a whole ring of
\* them has come since.
ShownIsLatched == settled /\ Since < SaHist => start_latched = displayed

\* While a ball's drawing stands, the picture moves only with the next drawing
\* or a new mode: the camera and the ball step together.
StepsWithBall ==
  [][ball'.age < BallHold /\ ball'.age = ball.age + 1
       => vga_display_start' = vga_display_start]_vars
===============================================================================
