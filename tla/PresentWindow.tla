---------------------------- MODULE PresentWindow ----------------------------
(***************************************************************************)
(* When in a frame the picture may be taken (src/fantasies.c, pw_*, and    *)
(* present_phase_in of src/run.c).  Between erasing the ball and drawing   *)
(* it again the game leaves it off the screen; the emulator marks the      *)
(* parts of the frame the redraws cover, on a ring of buckets, and takes   *)
(* the picture in the quiet span that follows the vertical blank's band.   *)
(***************************************************************************)
EXTENDS Integers

CONSTANTS
  Buckets,        \* PW_B
  Warmup,         \* redraws before a window is trusted, PW_WARMUP
  Every,          \* redraws from one derivation to the next, 30
  Margin, MinW,   \* PW_MARGIN, PW_MINW
  Retrace,        \* per timing of the CRTC, the bucket the retrace starts in
  SeedLo, SeedHi  \* the window until one is learned

\* What the proofs assume of them: a frame has a bucket, every timing's retrace
\* starts in one, and a window must be some bucket wide.
Constants ==
  /\ {Buckets, Warmup, Every, MinW} \subseteq Nat \ {0} /\ Margin \in Nat
  /\ \A t \in DOMAIN Retrace : Retrace[t] \in 0..(Buckets - 1)
  /\ "none" \notin DOMAIN Retrace

VARIABLES
  occ,     \* buckets some redraw covered
  n,       \* redraws seen
  vt,      \* the timing they were seen under
  crtc,    \* the timing now
  win      \* [valid, lo, hi]: from bucket lo up to the start of bucket hi

vars == <<occ, n, vt, crtc, win>>
Ring == 0..(Buckets - 1)
Timings == DOMAIN Retrace
NoTiming == "none"

Unlearned == [valid |-> FALSE, lo |-> 0, hi |-> 0]
pw_reset == occ' = {} /\ n' = 0 /\ vt' = NoTiming /\ win' = Unlearned

\* The buckets from a forward to b, round the end of the frame.
Band(a, b) == IF a <= b THEN a..b ELSE (a..(Buckets - 1)) \cup (0..b)

At(k) == k % Buckets
\* How far the quiet runs from a bucket on.
Length(o, s) ==
  CHOOSE l \in 0..Buckets :
    /\ \A i \in 0..(l - 1) : At(s + i) \notin o
    /\ l = Buckets \/ At(s + l) \in o

\* The first quiet bucket from the retrace on.
FirstQuiet(o) == CHOOSE i \in Ring : At(Retrace[crtc] + i) \notin o /\ \A j \in 0..(i - 1) : At(Retrace[crtc] + j) \in o
QuietFrom(o) == At(Retrace[crtc] + FirstQuiet(o))

Placed(s, l) == [valid |-> TRUE, lo |-> At(s + Margin), hi |-> At(s + l - 1 - Margin) + 1]

pw_derive(o, seen) ==
  IF seen < Warmup \/ o = Ring THEN win
  ELSE LET s == QuietFrom(o)
           l == Length(o, s) IN
       IF l < (2 * Margin) + MinW THEN win ELSE Placed(s, l)

-----------------------------------------------------------------------------
\* A redraw, from the bucket its entry hook was met in to that of its exit;
\* marks of another timing are dropped with all that was learned from them.
Kept(v) == IF v = vt THEN occ ELSE {}
Seen(v) == IF v = vt THEN n ELSE 0
Redraw(a, b) ==
  LET o == Kept(crtc) \cup Band(a, b)
      seen == Seen(crtc) + 1 IN
  /\ occ' = o /\ vt' = crtc
  /\ n' = IF seen >= Warmup + Every THEN seen - Every ELSE seen   \* only n >= Warmup and n % Every count
  /\ win' = IF seen % Every = 0
            THEN IF vt = crtc THEN pw_derive(o, seen) ELSE Unlearned
            ELSE IF vt = crtc THEN win ELSE Unlearned
  /\ UNCHANGED crtc

\* A table is loaded: fantasies_patch_ballgap.
Load == pw_reset /\ UNCHANGED crtc
\* The program sets another timing (the F8 resolution).
SetTiming(t) == crtc' = t /\ UNCHANGED <<occ, n, vt, win>>

Init == occ = {} /\ n = 0 /\ vt = NoTiming /\ crtc \in Timings /\ win = Unlearned
Next ==
  \/ \E a, b \in Ring : Redraw(a, b)
  \/ Load
  \/ \E t \in Timings : SetTiming(t)
Spec == Init /\ [][Next]_vars

-----------------------------------------------------------------------------
\* fantasies_present_window and present_phase_in: the beam in bucket k, the
\* whole bucket or its first line.
PhaseIn(k) ==
  LET w == IF win.valid THEN win ELSE [valid |-> FALSE, lo |-> SeedLo, hi |-> SeedHi] IN
  IF w.lo <= w.hi THEN k >= w.lo /\ k < w.hi ELSE k >= w.lo \/ k < w.hi

\* Buckets are the frame's, and nothing learned outlives what it was learned
\* from.
TypeOK ==
  /\ occ \subseteq Ring /\ n \in 0..(Warmup + Every) /\ vt \in Timings \cup {NoTiming}
  /\ win.lo \in Ring /\ win.hi \in 0..Buckets
  /\ (n = 0) = (vt = NoTiming) /\ (win.valid => n > 0)

\* Whenever a window is adopted, no redraw seen so far covers any of it or
\* comes within the margin of it, round the end of the frame or not - and
\* there is some of it (pw_derive, PW_MARGIN).
AdoptsQuiet ==
  [][win' # win /\ win'.valid =>
       /\ \E k \in Ring : PhaseIn(k)'
       /\ \A k \in Ring : PhaseIn(k)' => \A d \in (-Margin)..Margin : At(k + d + Buckets) \notin occ']_vars

\* How far bucket b is from the retrace.
FromRetrace(b) ==
  CHOOSE i \in 0..Buckets :
    At(Retrace[crtc] + i) = b /\ \A j \in 0..(i - 1) : At(Retrace[crtc] + j) # b

\* The span taken is the one after the vertical blank's band, never the later
\* one: from the retrace to the window there are redraws, then none (#26).
FollowsRetrace ==
  [][win' # win /\ win'.valid =>
       \A i, j \in 0..FromRetrace(win'.lo) :
         i < j /\ At(Retrace[crtc] + i) \notin occ' => At(Retrace[crtc] + j) \notin occ']_vars
=============================================================================
