----------------------------- MODULE TableProofs -----------------------------
(***************************************************************************)
(* Proofs about the parts around a running table (module Table), for every *)
(* value of their constants: the score attempts (Score), the trainer       *)
(* (Trainer), the scrolled page (StartAddress), the split palette          *)
(* (PaletteSplit), the display memory (Vram) and the moment a frame is     *)
(* presented (PresentWindow).  Each part's section begins with what its    *)
(* inductive invariant is for.                                             *)
(*                                                                         *)
(* First the score attempts, for games of any number of balls and points,  *)
(* any number of games and any place a poll falls in: what is ranked was   *)
(* won, and what was won is ranked.                                        *)
(***************************************************************************)
EXTENDS Table, WellFoundedInduction, TLAPS

Steps == {"other", "attract", "reset", "ready", "cleared", "lane", "play", "gone", "zero",
          "off", "over"}
Points0 == 0 .. MaxScore

Table == [step : Steps, demo : BOOLEAN, ball : 0 .. Long, score : Points0,
          saved : [1 .. 2 -> Points0], player : 1 .. 2, players : 1 .. 2,
          off : SUBSET Sc!Cheats, first : BOOLEAN, seen : BOOLEAN]

Tracker == [state : {"idle", "open", "locked"}, have : BOOLEAN, prev : 0 .. Long,
            edge : 0 .. Long, unstable : BOOLEAN, last : Points0, rewound : BOOLEAN,
            players : 1 .. 2, nballs : 0 .. Long, cheats : SUBSET Sc!Cheats, reached : 0 .. Long,
            decreased : BOOLEAN, score : Points0, ends : Seq(Points0)]

Played == [earned : Seq(Nat), honest : BOOLEAN, players : 1 .. 2, final : Points0]

Entry == [how : {"attract", "abandoned", "unfinished"}, score : Points0, reached : 0 .. Long,
          rewound : BOOLEAN, rankable : BOOLEAN, ball_scores : Seq(Nat)]

Setup == [five : BOOLEAN, hires : BOOLEAN, trainer : BOOLEAN]

Typed ==
  /\ setup \in Setup /\ g \in Table /\ t \in Tracker /\ Len(t.ends) < Long
  /\ real \in [now : Played, past : Seq(Played)] /\ real.now.earned # <<>>
  /\ log \in Seq(Entry) /\ \A i \in 1 .. Len(log) : Len(log[i].ball_scores) \in 1 .. Long
  /\ games \in Nat

-----------------------------------------------------------------------------
(***************************************************************************)
(* The inductive invariant.                                                *)
(***************************************************************************)
Live == t.state # "idle"
Playing == g.step \in {"reset", "ready", "cleared", "lane", "play", "gone"}
Balls == Len(real.now.earned)

\* An attempt is open in a game, and behind one that was left.
Phases ==
  /\ Playing => Live
  /\ Live => ~ g.demo /\ (Playing \/ g.step = "off")
  /\ g.step \in {"attract", "zero"} => g.demo /\ g.players = 1 /\ g.player = 1
  /\ g.step = "attract" => g.score = 0

\* The balls a poll has seen are this game's, and no later than the present one.
Watching ==
  /\ ~ t.rewound
  /\ Live =>
       /\ t.have \/ g.ball = 1 => g.ball = Balls
       /\ IF t.have THEN t.prev \in 1 .. g.ball ELSE t.prev = 0
       /\ t.reached <= t.prev /\ t.edge <= t.prev
       /\ t.unstable <=> g.step = "cleared"

\* What is known of the game is true of it; from the first launch on it is
\* locked; and a ball in play has been seen by a poll.
Following ==
  Playing =>
    /\ t.cheats = g.off /\ (real.now.honest <=> g.off = {})
    /\ g.players = real.now.players /\ g.player <= g.players
    /\ t.state = "open" => g.step = "reset" \/ g.ball = 1
    /\ t.state = "open" => g.step \notin {"play", "gone"}
    /\ g.step = "reset" => t.state = "open" /\ Balls = 1 /\ g.score = 0
    /\ t.state = "locked" => ~ g.first /\ t.players = g.players
    /\ g.step # "reset" =>
         /\ g.ball = Balls /\ (t.have \/ g.ball = 1)
         /\ g.seen => t.have /\ t.prev = g.ball /\ t.edge = 0
         /\ g.step \in {"play", "gone"} => g.seen

\* The score of a single player, which memory has elsewhere while it is built again.
Now == IF g.step = "cleared" THEN g.saved[1] ELSE g.score

\* c has the score at the end of each ball, the present one included.
Sums(c, earned, ends, now) ==
  /\ c \in [0 .. Len(earned) -> Points0]
  /\ c[0] = 0 /\ c[Len(earned)] = now
  /\ \A i, j \in 0 .. Len(earned) : i <= j => c[i] <= c[j]
  /\ \A i \in 1 .. Len(earned) : earned[i] = c[i] - c[i - 1]
  /\ Len(ends) <= Len(earned) /\ \A i \in 1 .. Len(ends) : ends[i] = c[i]

\* How many balls' ends have been marked.
Marks ==
  /\ t.have => t.prev \in {Balls - 1, Balls}
  /\ t.edge = 0 => Len(t.ends) = (IF t.have THEN t.prev - 1 ELSE 0)
  /\ t.edge # 0 => t.edge = Balls /\ t.prev = Balls /\ Len(t.ends) = Balls - 2
  /\ Len(t.ends) < Balls - 1 => real.now.earned[Balls] = 0

\* A game of one player: the marks are the score as it was at the ends of
\* balls, and no poll has seen the score go down.
Counted ==
  Playing /\ real.now.players = 1 =>
    /\ \E c : Sums(c, real.now.earned, t.ends, Now)
    /\ g.step \in {"ready", "lane", "cleared"} => g.saved[1] = Now
    /\ ~ t.decreased /\ t.last <= Now
    /\ Marks

Logged ==
  /\ Len(log) <= SCLog /\ Len(log) <= Len(real.past)
  /\ Len(log) < SCLog => Len(log) = Len(real.past)
  /\ Sc!RankedWasWon /\ Sc!WonIsRanked /\ Sc!BallScoresRight /\ Sc!CounterTrue

GInv == Typed /\ Phases /\ Watching /\ Following /\ Counted /\ Logged

\* What the constants may be.
-----------------------------------------------------------------------------
(***************************************************************************)
(* Splitting a score into balls.                                           *)
(***************************************************************************)
\* Numbers up to a bound have a greatest.
LEMMA GreatestElement ==
  ASSUME NEW N \in Nat, NEW T \in SUBSET (0 .. N), T # {}
  PROVE  \E x \in T : \A y \in T : y <= x
<1> DEFINE D == {N - x : x \in T}
<1>1. D \in SUBSET Nat /\ D # {}
  <2>1. \A x \in T : N - x \in Nat
    OBVIOUS
  <2> QED
    BY <2>1
<1>2. PICK d \in D : \A e \in D : ~ (<<e, d>> \in OpToRel(<, Nat))
  BY <1>1, NatLessThanWellFounded, WFMin
<1>3. \A e \in D : ~ (e < d)
  BY <1>1, <1>2 DEF OpToRel
<1>4. PICK x \in T : d = N - x
  OBVIOUS
<1>5. ASSUME NEW y \in T PROVE y <= x
  <2>1. ~ (N - y < N - x)
    BY <1>3, <1>4
  <2> QED
    BY <2>1
<1> QED
  BY <1>5

\* sc_split_balls's running maximum.
LEMMA HighIs ==
  ASSUME Sc!Constants, NEW ends \in Seq(Points0), NEW i \in 1 .. Len(ends)
  PROVE  /\ Sc!HighBefore(ends, i) \in Points0
         /\ \A m \in {0} \cup {ends[j] : j \in 1 .. i - 1} :
              (\A x \in {0} \cup {ends[j] : j \in 1 .. i - 1} : x <= m) => Sc!HighBefore(ends, i) = m
<1> DEFINE B == {0} \cup {ends[j] : j \in 1 .. i - 1}
           High == CHOOSE m \in B : \A x \in B : x <= m
<1>1. MaxScore \in Nat /\ B \in SUBSET (0 .. MaxScore) /\ B # {}
  BY DEF Sc!Constants, Points0
<1>2. Sc!HighBefore(ends, i) = High
  BY DEF Sc!HighBefore
<1>3. \E m \in B : \A x \in B : x <= m
  BY <1>1, GreatestElement
<1> HIDE DEF B
<1>4. High \in B /\ \A x \in B : x <= High
  BY <1>3
<1> HIDE DEF High
<1>5. ASSUME NEW m \in B, \A x \in B : x <= m PROVE High = m
  <2>1. High <= m /\ m <= High /\ High \in Nat /\ m \in Nat
    BY <1>1, <1>4, <1>5
  <2> QED
    BY <2>1
<1>6. High \in Points0
  BY <1>1, <1>4 DEF Points0
<1> QED
  BY <1>2, <1>5, <1>6 DEF B, High

LEMMA SplitIs ==
  ASSUME Sc!Constants, NEW ends \in Seq(Points0), NEW final \in Points0
  PROVE  Sc!Split(ends, final) \in Seq(Nat) /\ Len(Sc!Split(ends, final)) = Len(ends) + 1
<1> DEFINE all == Append(ends, final)
<1>1. all \in Seq(Points0) /\ Len(all) = Len(ends) + 1 /\ Len(ends) \in Nat
  OBVIOUS
<1> HIDE DEF all
<1>2. ASSUME NEW i \in 1 .. Len(all)
      PROVE  (IF all[i] > Sc!HighBefore(all, i) THEN all[i] - Sc!HighBefore(all, i) ELSE 0) \in Nat
  <2>1. Sc!HighBefore(all, i) \in Points0 /\ all[i] \in Points0
    BY <1>1, HighIs
  <2> QED
    BY <2>1 DEF Points0
<1>3. Sc!Split(ends, final) =
        [i \in 1 .. Len(all) |->
           IF all[i] > Sc!HighBefore(all, i) THEN all[i] - Sc!HighBefore(all, i) ELSE 0]
  BY DEF Sc!Split, all
<1> QED
  BY <1>1, <1>2, <1>3

\* When the marks and the final score are the score at the ends of balls, the
\* balls get what was earned on them.
LEMMA SplitRight ==
  ASSUME Sc!Constants, NEW earned \in Seq(Nat), NEW ends \in Seq(Points0), NEW final \in Points0,
         NEW c, Sums(c, earned, ends, final), Len(earned) = Len(ends) + 1
  PROVE  Sc!Split(ends, final) = earned
<1> DEFINE all == Append(ends, final)
<1>1. /\ all \in Seq(Points0) /\ Len(all) = Len(ends) + 1 /\ Len(ends) \in Nat
      /\ Len(all) = Len(earned)
  OBVIOUS
<1>2. \A i \in 1 .. Len(all) : all[i] = c[i]
  BY DEF Sums
<1> HIDE DEF all
<1>3. ASSUME NEW i \in 1 .. Len(all) PROVE Sc!HighBefore(all, i) = c[i - 1]
  <2> DEFINE B == {0} \cup {all[j] : j \in 1 .. i - 1}
  <2>1. i - 1 \in 0 .. Len(earned) /\ 0 \in 0 .. Len(earned) /\ c[0] = 0 /\ c[0] <= c[i - 1]
    BY <1>1 DEF Sums
  <2>2. c[i - 1] \in B
    <3>1. CASE i = 1
      BY <2>1, <3>1
    <3>2. CASE i # 1
      <4>1. i - 1 \in 1 .. i - 1 /\ all[i - 1] = c[i - 1]
        BY <1>1, <1>2, <3>2
      <4> QED
        BY <4>1
    <3> QED
      BY <3>1, <3>2
  <2>3. ASSUME NEW j \in 1 .. i - 1 PROVE all[j] <= c[i - 1]
    <3>1. /\ j \in 1 .. Len(all) /\ j \in 0 .. Len(earned) /\ i - 1 \in 0 .. Len(earned)
          /\ j <= i - 1
      BY <1>1
    <3>2. all[j] = c[j] /\ c[j] <= c[i - 1]
      BY <1>2, <3>1 DEF Sums
    <3> QED
      BY <3>2
  <2>4. \A x \in B : x <= c[i - 1]
    BY <2>1, <2>3
  <2> QED
    BY <1>1, <2>2, <2>4, HighIs
<1>4. ASSUME NEW i \in 1 .. Len(all)
      PROVE  (IF all[i] > Sc!HighBefore(all, i) THEN all[i] - Sc!HighBefore(all, i) ELSE 0) = earned[i]
  <2>1. i \in 1 .. Len(earned) /\ i \in 0 .. Len(earned) /\ i - 1 \in 0 .. Len(earned) /\ i - 1 <= i
    BY <1>1
  <2>2. earned[i] = c[i] - c[i - 1] /\ c[i - 1] <= c[i] /\ c[i] \in Points0 /\ c[i - 1] \in Points0
    BY <2>1 DEF Sums
  <2>3. c[i] \in Nat /\ c[i - 1] \in Nat
    BY <2>2 DEF Points0
  <2> QED
    BY <1>2, <1>3, <2>2, <2>3
<1>5. Sc!Split(ends, final) =
        [i \in 1 .. Len(all) |->
           IF all[i] > Sc!HighBefore(all, i) THEN all[i] - Sc!HighBefore(all, i) ELSE 0]
  BY DEF Sc!Split, all
<1>6. earned = [i \in 1 .. Len(earned) |-> earned[i]]
  OBVIOUS
<1> QED
  BY <1>1, <1>4, <1>5, <1>6

-----------------------------------------------------------------------------
(***************************************************************************)
(* The tracker, field by field.                                            *)
(***************************************************************************)
SameWatch(u, s) ==
  /\ u.have = s.have /\ u.prev = s.prev /\ u.edge = s.edge
  /\ u.reached = s.reached /\ u.rewound = s.rewound

SameScores(u, s) == u.last = s.last /\ u.decreased = s.decreased /\ u.ends = s.ends

SameFacts(u, s) == u.state = s.state /\ u.players = s.players /\ u.cheats = s.cheats

\* A number of balls there are.
LEMMA BallFacts ==
  ASSUME Sc!Constants, Typed
  PROVE  /\ 0 \in 0 .. Long /\ 1 \in 0 .. Long /\ 0 \in Points0
         /\ Sc!NoOfBalls \in 1 .. Long
         /\ Long \in Nat /\ Short \in Nat /\ MaxScore \in Nat /\ SCLog \in Nat
  BY DEF Sc!Constants, Typed, Sc!NoOfBalls, Points0

LEMMA SampledIs ==
  ASSUME Typed, NEW s \in Tracker
  PROVE  LET u == Sc!Sampled(s) IN
         /\ u \in Tracker /\ SameWatch(u, s) /\ SameScores(u, s)
         /\ u.state = s.state /\ u.players = s.players /\ u.unstable = s.unstable
         /\ u.score = s.score /\ u.cheats = s.cheats \cup g.off
<1>1. g.off \in SUBSET Sc!Cheats
  BY DEF Typed, Table
<1> QED
  BY <1>1 DEF Tracker, SameWatch, SameScores, Sc!Sampled

LEMMA IdleIs ==
  ASSUME Sc!Constants, Typed
  PROVE  /\ Sc!Idle \in Tracker /\ Sc!Idle.state = "idle" /\ ~ Sc!Idle.have /\ Sc!Idle.prev = 0
         /\ Sc!Idle.edge = 0 /\ Sc!Idle.reached = 0 /\ ~ Sc!Idle.rewound /\ ~ Sc!Idle.unstable
         /\ ~ Sc!Idle.decreased /\ Sc!Idle.ends = <<>> /\ Sc!Idle.cheats = {}
<1>1. 0 \in 0 .. Long /\ 0 \in Points0 /\ {} \in SUBSET Sc!Cheats /\ <<>> \in Seq(Points0) /\ 1 \in 1 .. 2
  BY BallFacts
<1> QED
  BY <1>1 DEF Sc!Idle, Tracker

\* A new attempt.
LEMMA BeganIs ==
  ASSUME Sc!Constants, Typed
  PROVE  /\ Sc!Began \in Tracker /\ Sc!Began.state = "open" /\ ~ Sc!Began.have /\ Sc!Began.prev = 0
         /\ Sc!Began.edge = 0 /\ Sc!Began.reached = 0 /\ ~ Sc!Began.rewound /\ ~ Sc!Began.unstable
         /\ ~ Sc!Began.decreased /\ Sc!Began.ends = <<>> /\ Sc!Began.last = g.score
         /\ Sc!Began.cheats = g.off
<1> DEFINE s == [Sc!Idle EXCEPT !.state = "open", !.players = g.players,
                              !.nballs = Sc!NoOfBalls, !.last = g.score]
<1>1. g.players \in 1 .. 2 /\ g.score \in Points0 /\ Sc!NoOfBalls \in 0 .. Long 
  BY BallFacts DEF Typed, Table
<1>4. /\ s \in Tracker /\ s.state = "open" /\ ~ s.have /\ s.prev = 0
      /\ s.edge = 0 /\ s.reached = 0 /\ ~ s.rewound /\ ~ s.unstable
      /\ ~ s.decreased /\ s.ends = <<>> /\ s.last = g.score /\ s.cheats = {}
  BY <1>1, IdleIs DEF Tracker
<1>5. Sc!Began = Sc!Sampled(s)
  BY DEF Sc!Began
<1> HIDE DEF s
<1> QED
  BY <1>4, <1>5, SampledIs DEF SameWatch, SameScores

\* What is left of an attempt that was closed.
LEMMA RestIs ==
  ASSUME Sc!Constants, Typed, NEW s \in Tracker
  PROVE  LET u == Sc!Rest(s) IN
         /\ u \in Tracker /\ u.state = "idle" /\ u.rewound = s.rewound /\ u.ends = <<>>
  BY IdleIs DEF Sc!Rest, Tracker

\* sc_mark_balls: the balls behind the last mark end with the score v.
LEMMA MarkedIs ==
  ASSUME Sc!Constants, Typed, NEW s \in Tracker, Len(s.ends) < Long, NEW v \in Points0
  PROVE  LET u == Sc!Marked(s, v) IN
         /\ u \in Tracker /\ u.edge = 0 /\ u.have = s.have /\ u.prev = s.prev
         /\ u.reached = s.reached /\ u.rewound = s.rewound /\ SameFacts(u, s)
         /\ u.unstable = s.unstable /\ u.last = s.last /\ u.decreased = s.decreased
         /\ u.score = s.score
         /\ Len(u.ends) = (IF s.edge > Len(s.ends) THEN s.edge - 1 ELSE Len(s.ends))
         /\ Len(u.ends) < Long
         /\ \A i \in 1 .. Len(s.ends) : u.ends[i] = s.ends[i]
         /\ \A i \in Len(s.ends) + 1 .. Len(u.ends) : u.ends[i] = v
<1> DEFINE k == IF s.edge > Len(s.ends) THEN s.edge - 1 - Len(s.ends) ELSE 0
           more == [i \in 1 .. k |-> v]
           e == s.ends \o more
<1>1. s.ends \in Seq(Points0) /\ s.edge \in 0 .. Long /\ Len(s.ends) \in Nat
  BY DEF Tracker
<1>2. Long \in Nat /\ 0 \in 0 .. Long
  BY BallFacts
<1>3. k \in Nat
  BY <1>1, <1>2
<1>4. Len(s.ends) + k = (IF s.edge > Len(s.ends) THEN s.edge - 1 ELSE Len(s.ends))
  BY <1>1, <1>2
<1>5. Len(s.ends) + k < Long
  BY <1>1, <1>2, <1>4
<1>9. Sc!Marked(s, v) = [s EXCEPT !.edge = 0, !.ends = e]
  BY DEF Sc!Marked
<1> HIDE DEF k
<1>6. more \in Seq(Points0) /\ Len(more) = k /\ \A i \in 1 .. k : more[i] = v
  BY <1>3
<1> HIDE DEF more
<1>7. /\ e \in Seq(Points0) /\ Len(e) = Len(s.ends) + k
      /\ \A i \in 1 .. Len(s.ends) : e[i] = s.ends[i]
  BY <1>1, <1>3, <1>6
<1>8. ASSUME NEW i \in Len(s.ends) + 1 .. Len(e) PROVE e[i] = v
  <2>1. i - Len(s.ends) \in 1 .. k /\ e[i] = more[i - Len(s.ends)]
    BY <1>1, <1>3, <1>6, <1>7
  <2> QED
    BY <1>6, <2>1
<1> HIDE DEF e
<1>10. LET u == [s EXCEPT !.edge = 0, !.ends = e] IN
       /\ u \in Tracker /\ u.edge = 0 /\ u.have = s.have /\ u.prev = s.prev
       /\ u.reached = s.reached /\ u.rewound = s.rewound /\ SameFacts(u, s)
       /\ u.unstable = s.unstable /\ u.last = s.last /\ u.decreased = s.decreased
       /\ u.score = s.score /\ u.ends = e
  BY <1>2, <1>7 DEF Tracker, SameFacts
<1> QED
  BY <1>4, <1>5, <1>7, <1>8, <1>9, <1>10

\* The attempt a close makes of it.
LEMMA AttemptIs ==
  ASSUME Sc!Constants, Typed, NEW s \in Tracker, Len(s.ends) < Long,
         NEW how \in {"attract", "abandoned", "unfinished"}
  PROVE  LET a == Sc!Attempt(s, how)
             final == IF how = "attract" THEN s.score ELSE s.last
         IN  /\ a \in Entry /\ Len(a.ball_scores) \in 1 .. Long
             /\ a.how = how /\ a.score = final /\ a.reached = s.reached /\ a.rewound = s.rewound
             /\ a.rankable = Sc!Rankable(s, how)
             /\ a.ball_scores = Sc!Split(Sc!Marked(s, final).ends, final)
<1> DEFINE final == IF how = "attract" THEN s.score ELSE s.last
           parts == Sc!Split(Sc!Marked(s, final).ends, final)
<1>1. final \in Points0 /\ s.reached \in 0 .. Long /\ s.rewound \in BOOLEAN /\ Sc!Rankable(s, how) \in BOOLEAN
  BY DEF Tracker, Sc!Rankable, Typed, Setup
<1>2. Sc!Attempt(s, how) = [how |-> how, score |-> final, reached |-> s.reached, rewound |-> s.rewound,
                         rankable |-> Sc!Rankable(s, how), ball_scores |-> parts]
  BY DEF Sc!Attempt
<1> HIDE DEF final
<1>3. /\ Sc!Marked(s, final).ends \in Seq(Points0) /\ Len(Sc!Marked(s, final).ends) < Long
  BY <1>1, MarkedIs DEF Tracker
<1>4. parts \in Seq(Nat) /\ Len(parts) = Len(Sc!Marked(s, final).ends) + 1
  BY <1>1, <1>3, SplitIs
<1>5. Len(parts) \in 1 .. Long
  BY <1>3, <1>4, BallFacts
<1> HIDE DEF parts
<1>6. LET a == Sc!Attempt(s, how) IN
      /\ a \in Entry /\ Len(a.ball_scores) \in 1 .. Long
      /\ a.how = how /\ a.score = final /\ a.reached = s.reached /\ a.rewound = s.rewound
      /\ a.rankable = Sc!Rankable(s, how) /\ a.ball_scores = parts
  BY <1>1, <1>2, <1>4, <1>5 DEF Entry
<1> QED
  BY <1>6 DEF final, parts

\* What a poll sees of the ball's number.
LEMMA WatchedIs ==
  ASSUME Typed, NEW s \in Tracker
  PROVE  LET u == Sc!Watched(s) IN
         /\ u \in Tracker /\ u.have /\ u.prev = g.ball
         /\ u.reached = (IF g.ball > s.reached THEN g.ball ELSE s.reached)
         /\ u.edge = (IF s.prev > 0 /\ g.ball > s.prev /\ g.ball > s.edge THEN g.ball ELSE s.edge)
         /\ u.rewound = (s.rewound \/ g.ball < s.prev)
         /\ SameFacts(u, s) /\ SameScores(u, s) /\ u.unstable = s.unstable
<1>1. g.ball \in 0 .. Long
  BY DEF Typed, Table
<1> DEFINE up == s.prev > 0 /\ g.ball > s.prev /\ g.ball > s.edge
           re == IF g.ball > s.reached THEN g.ball ELSE s.reached
           ed == IF up THEN g.ball ELSE s.edge
           rw == s.rewound \/ g.ball < s.prev
<1>2. re \in 0 .. Long /\ ed \in 0 .. Long /\ rw \in BOOLEAN
  BY <1>1 DEF Tracker
<1>3. Sc!Watched(s) = [s EXCEPT !.have = TRUE, !.prev = g.ball, !.reached = re, !.edge = ed, !.rewound = rw]
  BY DEF Sc!Watched
<1> HIDE DEF re, ed, rw
<1>4. LET u == Sc!Watched(s) IN
      /\ u \in Tracker /\ u.have /\ u.prev = g.ball /\ u.reached = re /\ u.edge = ed /\ u.rewound = rw
      /\ SameFacts(u, s) /\ SameScores(u, s) /\ u.unstable = s.unstable
  BY <1>1, <1>2, <1>3 DEF Tracker, SameFacts, SameScores
<1> QED
  BY <1>4 DEF re, ed, rw

\* A poll of a score that stands still for it.
LEMMA ReadIs ==
  ASSUME Sc!Constants, Typed, NEW s \in Tracker, Len(s.ends) < Long, Sc!Tracks(s), s.state # "idle",
         ~ s.unstable
  PROVE  LET u == Sc!Polled(s)
             w == Sc!Watched(s)
         IN  /\ u \in Tracker /\ u.have /\ u.prev = g.ball /\ u.edge = 0
             /\ u.reached = w.reached /\ u.rewound = w.rewound
             /\ SameFacts(u, s) /\ ~ u.unstable
             /\ u.decreased = (s.decreased \/ g.score < s.last) /\ u.last = g.score
             /\ u.ends = Sc!Marked(w, g.score).ends
<1> DEFINE w == Sc!Watched(s)
           m == Sc!Marked(w, g.score)
           d == m.decreased \/ g.score < s.last
<1>1. /\ w \in Tracker /\ w.have /\ w.prev = g.ball /\ SameFacts(w, s) /\ SameScores(w, s)
      /\ ~ w.unstable
  BY WatchedIs
<1>2. g.score \in Points0 /\ Len(w.ends) < Long
  BY <1>1 DEF Typed, Table, SameScores
<1>4. Sc!Polled(s) = [m EXCEPT !.decreased = d, !.last = g.score]
  BY <1>1 DEF Sc!Polled
<1> HIDE DEF w
<1>3. /\ m \in Tracker /\ m.edge = 0 /\ m.have = w.have /\ m.prev = w.prev
      /\ m.reached = w.reached /\ m.rewound = w.rewound /\ SameFacts(m, w)
      /\ m.unstable = w.unstable /\ m.decreased = w.decreased
  BY <1>1, <1>2, MarkedIs
<1>5. d = (s.decreased \/ g.score < s.last) /\ d \in BOOLEAN
  BY <1>1, <1>2, <1>3 DEF SameScores, Tracker
<1> HIDE DEF d, m
<1>6. LET u == Sc!Polled(s) IN
      /\ u \in Tracker /\ u.edge = 0 /\ u.have = m.have /\ u.prev = m.prev
      /\ u.reached = m.reached /\ u.rewound = m.rewound /\ SameFacts(u, m)
      /\ u.unstable = m.unstable /\ u.decreased = d /\ u.last = g.score /\ u.ends = m.ends
  BY <1>2, <1>3, <1>4, <1>5 DEF Tracker, SameFacts
<1> QED
  BY <1>1, <1>3, <1>5, <1>6 DEF SameFacts, m, w

-----------------------------------------------------------------------------
(***************************************************************************)
(* The log.                                                                *)
(***************************************************************************)
LEMMA LogKept ==
  ASSUME Logged, UNCHANGED <<log, setup>>, real'.past = real.past
  PROVE  Logged'
  BY DEF Logged, Sc!RankedWasWon, Sc!WonIsRanked, Sc!BallScoresRight, Sc!CounterTrue

\* One more attempt, a, of the game q: what holds of it holds of the log.
LEMMA Entered ==
  ASSUME Sc!Constants, Typed, Logged, setup' = setup, NEW a \in Entry, NEW q \in Played,
         Len(a.ball_scores) \in 1 .. Long,
         a.rankable => /\ q.players = 1 /\ q.honest /\ ~ setup.trainer
                       /\ a.score = q.final /\ a.ball_scores = q.earned,
         a.how = "attract" /\ q.players = 1 /\ q.honest /\ ~ setup.trainer => a.rankable,
         ~ a.rewound, a.reached <= Len(q.earned),
         log' = IF Len(log) < SCLog THEN Append(log, a) ELSE log,
         real' = [now |-> Sc!Game, past |-> Append(real.past, q)]
  PROVE  /\ Logged' /\ log' \in Seq(Entry)
         /\ \A i \in 1 .. Len(log') : Len(log'[i].ball_scores) \in 1 .. Long
         /\ real' \in [now : Played, past : Seq(Played)] /\ real'.now.earned # <<>>
         /\ real'.now = Sc!Game
<1>1. /\ log \in Seq(Entry) /\ real.past \in Seq(Played) /\ Len(log) \in Nat
      /\ Len(real.past) \in Nat /\ Len(log) <= SCLog /\ Len(log) <= Len(real.past)
      /\ SCLog \in Nat
      /\ \A i \in 1 .. Len(log) : Len(log[i].ball_scores) \in 1 .. Long
  BY BallFacts DEF Typed, Logged
<1>2. /\ real'.past \in Seq(Played) /\ Len(real'.past) = Len(real.past) + 1
      /\ \A i \in 1 .. Len(real.past) : real'.past[i] = real.past[i]
      /\ real'.past[Len(real.past) + 1] = q
  BY <1>1
<1>3. Sc!Game \in Played /\ Sc!Game.earned # <<>>
  <2>1. 0 \in Points0 /\ <<0>> \in Seq(Nat) /\ <<0>> # <<>> /\ 1 \in 1 .. 2
    BY BallFacts
  <2> QED
    BY <2>1 DEF Sc!Game, Played
<1>4. /\ real' \in [now : Played, past : Seq(Played)] /\ real'.now.earned # <<>>
      /\ real'.now = Sc!Game
  BY <1>2, <1>3
<1>5. /\ log' \in Seq(Entry) /\ Len(log') \in Nat
      /\ \A i \in 1 .. Len(log) : log'[i] = log[i]
      /\ \/ Len(log) = SCLog /\ Len(log') = Len(log)
         \/ Len(log) < SCLog /\ Len(log') = Len(log) + 1 /\ log'[Len(log) + 1] = a
  BY <1>1
<1>6. Len(log) < SCLog => Len(log) = Len(real.past)
  BY DEF Logged
<1>7. /\ Len(log') <= SCLog /\ Len(log') <= Len(real'.past)
      /\ Len(log') < SCLog => Len(log') = Len(real'.past)
  BY <1>1, <1>2, <1>5, <1>6
<1>8. ASSUME NEW i \in 1 .. Len(log')
      PROVE  \/ i \in 1 .. Len(log) /\ log'[i] = log[i] /\ real'.past[i] = real.past[i]
             \/ log'[i] = a /\ real'.past[i] = q
  <2>1. CASE i \in 1 .. Len(log)
    <3>1. i \in 1 .. Len(real.past)
      BY <1>1, <2>1
    <3> QED
      BY <1>2, <1>5, <2>1, <3>1
  <2>2. CASE i \notin 1 .. Len(log)
    <3>1. Len(log) < SCLog /\ i = Len(log) + 1
      BY <1>1, <1>5, <2>2
    <3> QED
      BY <1>2, <1>5, <1>6, <3>1
  <2> QED
    BY <2>1, <2>2
<1>9. DOMAIN log = 1 .. Len(log) /\ DOMAIN log' = 1 .. Len(log')
  BY <1>1, <1>5
<1>10. \A i \in 1 .. Len(log') : Len(log'[i].ball_scores) \in 1 .. Long
  BY <1>1, <1>8
<1>11. Sc!RankedWasWon'
  <2>1. Sc!RankedWasWon
    BY DEF Logged
  <2>2. ASSUME NEW i \in 1 .. Len(log'), log'[i].rankable
        PROVE  /\ real'.past[i].players = 1 /\ real'.past[i].honest /\ ~ setup'.trainer
               /\ log'[i].score = real'.past[i].final
    <3>1. CASE i \in 1 .. Len(log) /\ log'[i] = log[i] /\ real'.past[i] = real.past[i]
      BY <1>9, <2>1, <2>2, <3>1 DEF Sc!RankedWasWon
    <3>2. CASE log'[i] = a /\ real'.past[i] = q
      BY <2>2, <3>2
    <3> QED
      BY <1>8, <3>1, <3>2
  <2> QED
    BY <1>9, <2>2 DEF Sc!RankedWasWon
<1>12. Sc!WonIsRanked'
  <2>1. Sc!WonIsRanked
    BY DEF Logged
  <2>2. ASSUME NEW i \in 1 .. Len(log'), log'[i].how = "attract", real'.past[i].players = 1,
               real'.past[i].honest, ~ setup'.trainer
        PROVE  log'[i].rankable
    <3>1. CASE i \in 1 .. Len(log) /\ log'[i] = log[i] /\ real'.past[i] = real.past[i]
      BY <1>9, <2>1, <2>2, <3>1 DEF Sc!WonIsRanked
    <3>2. CASE log'[i] = a /\ real'.past[i] = q
      BY <2>2, <3>2
    <3> QED
      BY <1>8, <3>1, <3>2
  <2> QED
    BY <1>9, <2>2 DEF Sc!WonIsRanked
<1>13. Sc!BallScoresRight'
  <2>1. Sc!BallScoresRight
    BY DEF Logged
  <2> QED
    BY <1>8, <1>9, <2>1 DEF Sc!BallScoresRight
<1>14. Sc!CounterTrue'
  <2>1. Sc!CounterTrue
    BY DEF Logged
  <2> QED
    BY <1>8, <1>9, <2>1 DEF Sc!CounterTrue
<1> QED
  BY <1>4, <1>5, <1>7, <1>10, <1>11, <1>12, <1>13, <1>14 DEF Logged

\* No attempt has reached a ball of another game.
LEMMA ReachedIs ==
  ASSUME Typed, Watching, Live
  PROVE  t.reached <= Len(real.now.earned) /\ ~ t.rewound
<1>1. /\ t.reached \in Nat /\ t.prev \in Nat /\ g.ball \in Nat /\ Balls \in Nat
  BY DEF Typed, Tracker, Table, Played, Balls
<1> QED
  BY <1>1 DEF Watching, Balls

\* sc_close on a game that was left.
LEMMA Closes ==
  ASSUME Sc!Constants, GInv, NEW how \in {"abandoned", "unfinished"}, Sc!Close(t, how), setup' = setup
  PROVE  /\ t' \in Tracker /\ t'.state = "idle" /\ ~ t'.rewound /\ Len(t'.ends) < Long
         /\ log' \in Seq(Entry) /\ \A i \in 1 .. Len(log') : Len(log'[i].ball_scores) \in 1 .. Long
         /\ real' \in [now : Played, past : Seq(Played)] /\ real'.now.earned # <<>>
         /\ Logged'
<1>1. Typed /\ Watching /\ Logged
  BY DEF GInv
<1>2. CASE t.state = "idle"
  <2>1. t' = t /\ UNCHANGED <<log, real>>
    BY <1>2 DEF Sc!Close
  <2>2. Logged'
    BY <1>1, <2>1, LogKept
  <2> QED
    BY <1>1, <1>2, <2>1, <2>2 DEF Typed, Watching
<1>3. CASE t.state # "idle"
  <2> DEFINE a == Sc!Attempt(t, how)
  <2>1. /\ log' = IF Len(log) < SCLog THEN Append(log, a) ELSE log
        /\ t' = Sc!Rest(t)
        /\ real' = [now |-> Sc!Game, past |-> Append(real.past, real.now)]
    BY <1>3 DEF Sc!Close
  <2>2. /\ a \in Entry /\ Len(a.ball_scores) \in 1 .. Long /\ a.how = how
        /\ a.reached = t.reached /\ a.rewound = t.rewound /\ a.rankable = Sc!Rankable(t, how)
    BY <1>1, AttemptIs DEF Typed
  <2>3. ~ a.rankable /\ a.how # "attract"
    BY <2>2 DEF Sc!Rankable
  <2>4. ~ a.rewound /\ a.reached <= Len(real.now.earned)
    BY <1>1, <1>3, <2>2, ReachedIs DEF Live
  <2> HIDE DEF a
  <2> DEFINE q == real.now
  <2>5. q \in Played
    BY <1>1 DEF Typed
  <2>9. /\ a.rankable => /\ q.players = 1 /\ q.honest /\ ~ setup.trainer
                         /\ a.score = q.final /\ a.ball_scores = q.earned
        /\ a.how = "attract" /\ q.players = 1 /\ q.honest /\ ~ setup.trainer => a.rankable
        /\ ~ a.rewound /\ a.reached <= Len(q.earned)
        /\ real' = [now |-> Sc!Game, past |-> Append(real.past, q)]
    BY <2>1, <2>3, <2>4
  <2> HIDE DEF q
  <2>6. /\ Logged' /\ log' \in Seq(Entry)
        /\ \A i \in 1 .. Len(log') : Len(log'[i].ball_scores) \in 1 .. Long
        /\ real' \in [now : Played, past : Seq(Played)] /\ real'.now.earned # <<>>
    BY <1>1, <2>1, <2>2, <2>5, <2>9, Entered
  <2>7. t' \in Tracker /\ t'.state = "idle" /\ ~ t'.rewound /\ t'.ends = <<>>
    BY <1>1, <2>1, RestIs DEF Typed, Watching
  <2>8. Len(<<>>) < Long
    BY <1>1, BallFacts
  <2> QED
    BY <2>6, <2>7, <2>8
<1> QED
  BY <1>2, <1>3

-----------------------------------------------------------------------------
(***************************************************************************)
(* Steps between games.                                                    *)
(***************************************************************************)
\* A step to a table that is not played keeps the rest.
LEMMA NotPlaying ==
  ASSUME Sc!Constants, Typed', Logged', ~ Playing', ~ Live', ~ t'.rewound,
         g'.step \in {"attract", "zero"} => g'.demo /\ g'.players = 1 /\ g'.player = 1,
         g'.step = "attract" => g'.score = 0
  PROVE  GInv'
  BY DEF GInv, Phases, Watching, Following, Counted, Logged

LEMMA AttractIs ==
  ASSUME Sc!Constants, Typed
  PROVE  /\ Sc!Attract \in Table /\ Sc!Other \in Table
         /\ Sc!Attract.step = "attract" /\ Sc!Attract.demo /\ Sc!Attract.players = 1 /\ Sc!Attract.player = 1
         /\ Sc!Attract.score = 0 /\ Sc!Other.step = "other"
<1>1. 0 \in 0 .. Long /\ 0 \in Points0 /\ 1 \in 1 .. 2 /\ {} \in SUBSET Sc!Cheats
  BY BallFacts
<1>2. <<0, 0>> \in [1 .. 2 -> Points0]
  BY <1>1
<1>3. /\ Sc!Attract \in Table /\ Sc!Attract.step = "attract" /\ Sc!Attract.demo /\ Sc!Attract.players = 1
      /\ Sc!Attract.player = 1 /\ Sc!Attract.score = 0
  BY <1>1, <1>2 DEF Sc!Attract, Table, Steps
<1>4. Sc!Other \in Table /\ Sc!Other.step = "other"
  BY <1>3 DEF Sc!Other, Table, Steps
<1> QED
  BY <1>3, <1>4

LEMMA ExecHolds ==
  ASSUME Sc!Constants, GInv, Sc!Exec
  PROVE  GInv'
<1>1. /\ g' \in {Sc!Attract, Sc!Other} /\ Sc!Close(t, "abandoned") /\ UNCHANGED <<setup, games>>
  BY DEF Sc!Exec, Sc!Leave
<1>2. /\ t' \in Tracker /\ t'.state = "idle" /\ ~ t'.rewound /\ Len(t'.ends) < Long
      /\ log' \in Seq(Entry) /\ \A i \in 1 .. Len(log') : Len(log'[i].ball_scores) \in 1 .. Long
      /\ real' \in [now : Played, past : Seq(Played)] /\ real'.now.earned # <<>>
      /\ Logged'
  BY <1>1, Closes
<1>3. /\ g' \in Table /\ g'.step \in {"attract", "other"}
      /\ g'.step = "attract" => g'.demo /\ g'.players = 1 /\ g'.player = 1 /\ g'.score = 0
  BY <1>1, AttractIs DEF GInv
<1>4. Typed'
  BY <1>1, <1>2, <1>3 DEF GInv, Typed
<1> QED
  BY <1>2, <1>3, <1>4, NotPlaying DEF Playing, Live

LEMMA FinishHolds ==
  ASSUME Sc!Constants, GInv, Sc!Finish
  PROVE  GInv'
<1>1. /\ g' = [g EXCEPT !.step = "over"] /\ Sc!Close(t, "unfinished") /\ UNCHANGED <<setup, games>>
  BY DEF Sc!Finish
<1>2. /\ t' \in Tracker /\ t'.state = "idle" /\ ~ t'.rewound /\ Len(t'.ends) < Long
      /\ log' \in Seq(Entry) /\ \A i \in 1 .. Len(log') : Len(log'[i].ball_scores) \in 1 .. Long
      /\ real' \in [now : Played, past : Seq(Played)] /\ real'.now.earned # <<>>
      /\ Logged'
  BY <1>1, Closes
<1>3. g' \in Table /\ g'.step = "over"
  BY <1>1 DEF GInv, Typed, Table, Steps
<1>4. Typed'
  BY <1>1, <1>2, <1>3 DEF GInv, Typed
<1> QED
  BY <1>2, <1>3, <1>4, NotPlaying DEF Playing, Live

LEMMA CheatHolds ==
  ASSUME Sc!Constants, GInv, Sc!Cheat
  PROVE  GInv'
<1>1. PICK off \in SUBSET Sc!Cheats : g' = [g EXCEPT !.off = off]
  BY DEF Sc!Cheat, Sc!Cheats, GInv, Typed, Table
<1>2. g.step = "attract" /\ UNCHANGED <<t, log, games, real, setup>>
  BY DEF Sc!Cheat, Sc!Quiet
<1>3. /\ g' \in Table /\ g'.step = "attract" /\ g'.demo = g.demo /\ g'.players = g.players
      /\ g'.player = g.player /\ g'.score = g.score
  BY <1>1, <1>2 DEF GInv, Typed, Table
<1>4. Typed' /\ Logged'
  BY <1>2, <1>3, LogKept DEF GInv, Typed
<1> QED
  BY <1>2, <1>3, <1>4, NotPlaying DEF Playing, Live, GInv, Phases, Watching

LEMMA ZeroScoreHolds ==
  ASSUME Sc!Constants, GInv, Sc!ZeroScore
  PROVE  GInv'
<1>1. g' = [g EXCEPT !.step = "attract", !.score = 0] /\ g.step = "zero"
      /\ UNCHANGED <<t, log, games, real, setup>>
  BY DEF Sc!ZeroScore, Sc!Quiet
<1>2. 0 \in Points0
  BY BallFacts DEF GInv
<1>3. /\ g' \in Table /\ g'.step = "attract" /\ g'.demo = g.demo /\ g'.players = g.players
      /\ g'.player = g.player /\ g'.score = 0
  BY <1>1, <1>2 DEF GInv, Typed, Table, Steps
<1>4. Typed' /\ Logged'
  BY <1>1, <1>3, LogKept DEF GInv, Typed
<1> QED
  BY <1>1, <1>3, <1>4, NotPlaying DEF Playing, Live, GInv, Phases, Watching

LEMMA QuitHolds ==
  ASSUME Sc!Constants, GInv, Sc!Quit
  PROVE  GInv'
<1>1. /\ g' = [g EXCEPT !.step = "off"] /\ g.step \notin {"off", "other", "over", "cleared"}
      /\ UNCHANGED <<t, log, games, real, setup>>
  BY DEF Sc!Quit, Sc!Quiet
<1>2. /\ g' \in Table /\ g'.step = "off" /\ g'.demo = g.demo /\ g'.ball = g.ball
  BY <1>1 DEF GInv, Typed, Table, Steps
<1>3. Typed' /\ Logged'
  BY <1>1, <1>2, LogKept DEF GInv, Typed
<1>4. Phases'
  BY <1>1, <1>2 DEF GInv, Phases, Playing, Live
<1>5. Watching'
  BY <1>1, <1>2 DEF GInv, Phases, Watching, Live, Balls
<1>6. Following' /\ Counted'
  BY <1>2 DEF Following, Counted, Playing
<1> QED
  BY <1>3, <1>4, <1>5, <1>6 DEF GInv

-----------------------------------------------------------------------------
(***************************************************************************)
(* A game, from its start to the first launch.                             *)
(***************************************************************************)
\* What the types say of numbers.
LEMMA Numbers ==
  ASSUME Sc!Constants, Typed
  PROVE  /\ g.ball \in Nat /\ g.score \in Nat /\ g.score <= MaxScore /\ g.ball <= Long
         /\ g.player \in 1 .. 2 /\ g.players \in 1 .. 2
         /\ t.prev \in Nat /\ t.edge \in Nat /\ t.reached \in Nat /\ t.last \in Nat
         /\ t.ends \in Seq(Points0) /\ Len(t.ends) \in Nat /\ Len(t.ends) < Long
         /\ real.now \in Played /\ real.now.earned \in Seq(Nat)
         /\ Balls \in Nat /\ Balls > 0 /\ Long \in Nat /\ MaxScore \in Nat
         /\ real.now.players \in 1 .. 2
         /\ g.saved \in [1 .. 2 -> Points0] /\ g.saved[g.player] \in Points0
         /\ t.state \in {"idle", "open", "locked"} /\ g.step \in Steps
<1>1. real.now \in Played /\ real.now.earned # <<>>
  BY DEF Typed
<1>2. real.now.earned \in Seq(Nat) /\ Len(real.now.earned) \in Nat /\ Len(real.now.earned) > 0
      /\ real.now.players \in 1 .. 2
  BY <1>1 DEF Played
<1>3. g \in Table /\ t \in Tracker /\ Long \in Nat /\ MaxScore \in Nat /\ Len(t.ends) < Long
  BY BallFacts DEF Typed
<1>4. /\ g.ball \in 0 .. Long /\ g.score \in Points0 /\ g.player \in 1 .. 2 /\ g.players \in 1 .. 2
      /\ g.saved \in [1 .. 2 -> Points0] /\ g.saved[g.player] \in Points0 /\ g.step \in Steps
  BY <1>3 DEF Table
<1>5. /\ t.prev \in 0 .. Long /\ t.edge \in 0 .. Long /\ t.reached \in 0 .. Long
      /\ t.last \in Points0 /\ t.ends \in Seq(Points0) /\ Len(t.ends) \in Nat
      /\ t.state \in {"idle", "open", "locked"}
  BY <1>3 DEF Tracker
<1> QED
  BY <1>1, <1>2, <1>3, <1>4, <1>5 DEF Points0, Balls

LEMMA StartGameHolds ==
  ASSUME Sc!Constants, GInv, Sc!StartGame
  PROVE  GInv'
<1>1. Typed /\ Phases /\ Logged
  BY DEF GInv
<1>2. /\ g.step = "attract" /\ games' = games + 1 /\ UNCHANGED <<log, setup>>
      /\ g' = [g EXCEPT !.step = "reset", !.demo = FALSE]
      /\ t' = Sc!Began
      /\ real' = [real EXCEPT !.now = [Sc!Game EXCEPT !.honest = (g.off = {})]]
  BY DEF Sc!StartGame
<1>3. g.score = 0 /\ g.players = 1 /\ g.player = 1
  BY <1>1, <1>2 DEF Phases
<1>4. /\ g' \in Table /\ g'.step = "reset" /\ ~ g'.demo /\ g'.ball = g.ball /\ g'.score = 0
      /\ g'.players = 1 /\ g'.player = 1 /\ g'.off = g.off
  BY <1>1, <1>2, <1>3 DEF Typed, Table, Steps
<1>5. /\ t' \in Tracker /\ t'.state = "open" /\ ~ t'.have /\ t'.prev = 0
      /\ t'.edge = 0 /\ t'.reached = 0 /\ ~ t'.rewound /\ ~ t'.unstable
      /\ ~ t'.decreased /\ t'.ends = <<>> /\ t'.last = 0 /\ t'.cheats = g.off
  BY <1>1, <1>2, <1>3, BeganIs
<1>6. /\ real' \in [now : Played, past : Seq(Played)] /\ real'.past = real.past
      /\ real'.now.earned = <<0>> /\ real'.now.players = 1 /\ (real'.now.honest <=> g.off = {})
  <2>1. 0 \in Points0 /\ <<0>> \in Seq(Nat) /\ 1 \in 1 .. 2 /\ (g.off = {}) \in BOOLEAN
    BY <1>1, BallFacts
  <2>2. [Sc!Game EXCEPT !.honest = (g.off = {})] \in Played
    BY <2>1 DEF Sc!Game, Played
  <2>3. real \in [now : Played, past : Seq(Played)]
    BY <1>1 DEF Typed
  <2> QED
    BY <1>2, <2>2, <2>3 DEF Sc!Game
<1>7. Balls' = 1 /\ Len(<<>>) = 0 /\ 0 < Long /\ 0 \in Points0 /\ Len(<<0>>) = 1 /\ <<0>>[1] = 0
      /\ games' \in Nat
  <2>1. Len(<<0>>) = 1 /\ <<0>>[1] = 0 /\ Len(<<>>) = 0
    OBVIOUS
  <2>2. Balls' = 1
    BY <1>6, <2>1 DEF Balls
  <2>3. 0 < Long /\ 0 \in Points0
    BY <1>1, BallFacts
  <2>4. games' \in Nat
    BY <1>1, <1>2 DEF Typed
  <2> QED
    BY <2>1, <2>2, <2>3, <2>4
<1>8. Typed'
  <2>1. <<0>> # <<>>
    OBVIOUS
  <2> QED
    BY <1>1, <1>2, <1>4, <1>5, <1>6, <1>7, <2>1 DEF Typed
<1>9. Phases' /\ Watching'
  BY <1>4, <1>5, <1>7 DEF Phases, Watching, Playing, Live
<1>10. Following'
  BY <1>4, <1>5, <1>6, <1>7 DEF Following, Playing
<1>11. Counted'
  <2> DEFINE c == [i \in 0 .. 1 |-> 0]
  <2>1. Sums(c, <<0>>, <<>>, 0)
    BY <1>7 DEF Sums
  <2>2. Now' = 0
    BY <1>4 DEF Now
  <2> HIDE DEF c
  <2>3. \E d : Sums(d, real'.now.earned, t'.ends, Now')
    BY <1>5, <1>6, <2>1, <2>2
  <2>4. Marks'
    BY <1>5, <1>7 DEF Marks
  <2> QED
    BY <1>4, <1>5, <2>2, <2>3, <2>4 DEF Counted
<1> QED
  BY <1>1, <1>2, <1>6, <1>8, <1>9, <1>10, <1>11, LogKept DEF GInv

LEMMA NewGameResetHolds ==
  ASSUME Sc!Constants, GInv, Sc!NewGameReset
  PROVE  GInv'
<1>1. Typed /\ Phases /\ Watching /\ Following /\ Counted /\ Logged
  BY DEF GInv
<1>2. /\ g.step = "reset" /\ UNCHANGED <<t, log, games, real, setup>>
      /\ g' = [g EXCEPT !.step = "ready", !.ball = 1, !.saved = <<0, 0>>, !.seen = FALSE]
  BY DEF Sc!NewGameReset, Sc!Quiet
<1>3. /\ g' \in Table /\ g'.step = "ready" /\ g'.ball = 1 /\ g'.saved[1] = 0 /\ ~ g'.seen
      /\ g'.demo = g.demo /\ g'.score = g.score /\ g'.players = g.players
      /\ g'.player = g.player /\ g'.off = g.off /\ g'.first = g.first
  <2>1. <<0, 0>> \in [1 .. 2 -> Points0] /\ 1 \in 0 .. Long
    <3>1. 0 \in Points0 /\ 1 \in 0 .. Long
      BY <1>1, BallFacts
    <3> QED
      BY <3>1
  <2> QED
    BY <1>1, <1>2, <2>1 DEF Typed, Table, Steps
<1>4. t.state = "open" /\ Balls = 1 /\ g.score = 0
  BY <1>1, <1>2 DEF Following, Playing
<1>5. Typed' /\ Logged'
  BY <1>1, <1>2, <1>3, LogKept DEF Typed
<1>6. Phases'
  BY <1>1, <1>2, <1>3, <1>4 DEF Phases, Playing, Live
<1>7. Watching'
  BY <1>1, <1>2, <1>3, <1>4 DEF Watching, Live, Balls
<1>8. Following'
  BY <1>1, <1>2, <1>3, <1>4 DEF Following, Playing, Balls
<1>9. Counted'
  BY <1>1, <1>2, <1>3, <1>4 DEF Counted, Playing, Now, Marks, Balls
<1> QED
  BY <1>5, <1>6, <1>7, <1>8, <1>9 DEF GInv

LEMMA ResetVarsHolds ==
  ASSUME Sc!Constants, GInv, Sc!ResetVars
  PROVE  GInv'
<1>1. Typed /\ Phases /\ Watching /\ Following /\ Counted /\ Logged
  BY DEF GInv
<1>2. /\ g.step = "ready" /\ UNCHANGED <<log, games, real, setup>>
      /\ g' = [g EXCEPT !.step = "cleared", !.score = 0] /\ t' = Sc!Cleared(t)
  BY DEF Sc!ResetVars
<1>3. /\ g' \in Table /\ g'.step = "cleared" /\ g'.ball = g.ball /\ g'.saved = g.saved
      /\ g'.seen = g.seen /\ g'.demo = g.demo /\ g'.players = g.players
      /\ g'.player = g.player /\ g'.off = g.off /\ g'.first = g.first
  <2>1. 0 \in Points0
    BY <1>1, BallFacts
  <2> QED
    BY <1>1, <1>2, <2>1 DEF Typed, Table, Steps
<1>4. t.state # "idle"
  BY <1>1, <1>2 DEF Phases, Playing, Live
<1>5. /\ t' \in Tracker /\ t'.unstable /\ SameWatch(t', t) /\ SameFacts(t', t) /\ SameScores(t', t)
  BY <1>1, <1>2, <1>4 DEF Sc!Cleared, Typed, Tracker, SameWatch, SameFacts, SameScores
<1>6. Typed' /\ Logged'
  BY <1>1, <1>2, <1>3, <1>5, LogKept DEF Typed, SameScores
<1>7. Phases'
  BY <1>3, <1>1, <1>2, <1>4, <1>5 DEF Phases, Playing, Live, SameFacts
<1>8. Watching'
  BY <1>1, <1>2, <1>3, <1>4, <1>5 DEF Watching, Live, Balls, SameWatch
<1>9. Following'
  BY <1>1, <1>2, <1>3, <1>5 DEF Following, Playing, Balls, SameWatch, SameFacts
<1>10. Counted'
  BY <1>1, <1>2, <1>3, <1>5 DEF Counted, Playing, Now, Marks, Balls, SameWatch, SameScores
<1> QED
  BY <1>6, <1>7, <1>8, <1>9, <1>10 DEF GInv

LEMMA RestoreHolds ==
  ASSUME Sc!Constants, GInv, Sc!Restore
  PROVE  GInv'
<1>1. Typed /\ Phases /\ Watching /\ Following /\ Counted /\ Logged
  BY DEF GInv
<1> DEFINE v == g.saved[g.player]
<1>2. /\ g.step = "cleared" /\ UNCHANGED <<log, games, real, setup>>
      /\ g' = [g EXCEPT !.step = "lane", !.score = v] /\ t' = Sc!Restored(t, v)
  BY DEF Sc!Restore
<1>3. v \in Points0 /\ t.last \in Nat /\ g.player \in 1 .. 2
  BY <1>1, Numbers
<1>11. real.now.players = 1 => v = Now
  BY <1>1, <1>2, <1>3 DEF Following, Playing, Now
<1> HIDE DEF v
<1>4. /\ g' \in Table /\ g'.step = "lane" /\ g'.ball = g.ball /\ g'.saved = g.saved
      /\ g'.seen = g.seen /\ g'.demo = g.demo /\ g'.players = g.players /\ g'.score = v
      /\ g'.player = g.player /\ g'.off = g.off /\ g'.first = g.first
  BY <1>1, <1>2, <1>3 DEF Typed, Table, Steps
<1>5. t.state # "idle" /\ t.unstable
  BY <1>1, <1>2 DEF Phases, Watching, Playing, Live
<1>6. /\ t' \in Tracker /\ ~ t'.unstable /\ SameWatch(t', t) /\ SameFacts(t', t)
      /\ t'.ends = t.ends /\ t'.last = v /\ t'.decreased = (t.decreased \/ v < t.last)
  <2> DEFINE d == t.decreased \/ v < t.last
  <2>1. d \in BOOLEAN
    BY <1>1, <1>3 DEF Typed, Tracker
  <2>2. t' = [t EXCEPT !.unstable = FALSE, !.decreased = d, !.last = v]
    BY <1>2, <1>5 DEF Sc!Restored
  <2> HIDE DEF d
  <2>3. /\ t' \in Tracker /\ ~ t'.unstable /\ SameWatch(t', t) /\ SameFacts(t', t)
        /\ t'.ends = t.ends /\ t'.last = v /\ t'.decreased = d
    BY <1>1, <1>3, <2>1, <2>2 DEF Typed, Tracker, SameWatch, SameFacts
  <2> QED
    BY <2>3 DEF d
<1>7. Typed' /\ Logged'
  BY <1>1, <1>2, <1>4, <1>6, LogKept DEF Typed
<1>8. Phases'
  BY <1>1, <1>2, <1>4, <1>5, <1>6 DEF Phases, Playing, Live, SameFacts
<1>9. Watching'
  BY <1>1, <1>2, <1>4, <1>5, <1>6 DEF Watching, Live, Balls, SameWatch
<1>10. Following'
  BY <1>1, <1>2, <1>4, <1>6 DEF Following, Playing, Balls, SameWatch, SameFacts
<1>12. Counted'
  <2>1. SUFFICES ASSUME real'.now.players = 1 PROVE Counted'
    BY DEF Counted
  <2>2. /\ \E c : Sums(c, real.now.earned, t.ends, Now)
        /\ g.saved[1] = Now /\ ~ t.decreased /\ t.last <= Now /\ Marks
    BY <1>1, <1>2, <2>1 DEF Counted, Playing
  <2>3. v = Now /\ Now' = Now
    BY <1>2, <1>4, <1>11, <2>1 DEF Now
  <2>7. v \in Nat
    BY <1>1, <1>3, Numbers DEF Points0
  <2>8. ~ (v < t.last)
    BY <1>3, <2>2, <2>3, <2>7
  <2>4. ~ t'.decreased /\ t'.last = Now
    BY <1>6, <2>2, <2>3, <2>8
  <2>5. Marks'
    BY <1>2, <1>6, <2>2 DEF Marks, Balls, SameWatch
  <2>6. t'.last <= Now'
    BY <1>3, <2>3, <2>4 DEF Points0
  <2> QED
    BY <1>2, <1>4, <1>6, <2>2, <2>3, <2>4, <2>5, <2>6 DEF Counted
<1> QED
  BY <1>7, <1>8, <1>9, <1>10, <1>12 DEF GInv

LEMMA AddPlayerHolds ==
  ASSUME Sc!Constants, GInv, Sc!AddPlayer
  PROVE  GInv'
<1>1. Typed /\ Phases /\ Watching /\ Following /\ Counted /\ Logged
  BY DEF GInv
<1>2. /\ g.step = "lane" /\ g.first /\ g.players = 1 /\ UNCHANGED <<t, log, games, setup>>
      /\ g' = [g EXCEPT !.players = 2] /\ real' = [real EXCEPT !.now.players = 2]
  BY DEF Sc!AddPlayer
<1>3. /\ g' \in Table /\ g'.step = "lane" /\ g'.ball = g.ball /\ g'.players = 2
      /\ g'.seen = g.seen /\ g'.demo = g.demo
      /\ g'.player = g.player /\ g'.off = g.off /\ g'.first = g.first
  <2>1. 2 \in 1 .. 2 /\ g \in Table
    BY <1>1 DEF Typed
  <2> QED
    BY <1>2, <2>1 DEF Table
<1>4. /\ real' \in [now : Played, past : Seq(Played)] /\ real'.past = real.past
      /\ real'.now.earned = real.now.earned /\ real'.now.players = 2
      /\ real'.now.honest = real.now.honest
  <2>1. real \in [now : Played, past : Seq(Played)] /\ real.now \in Played
    BY <1>1 DEF Typed
  <2>2. 2 \in 1 .. 2
    OBVIOUS
  <2> DEFINE q == [real.now EXCEPT !.players = 2]
  <2>3. q \in Played /\ q.earned = real.now.earned /\ q.players = 2 /\ q.honest = real.now.honest
    BY <2>1, <2>2 DEF Played
  <2>4. real' = [real EXCEPT !.now = q]
    BY <1>2
  <2> HIDE DEF q
  <2> QED
    BY <2>1, <2>3, <2>4
<1>5. Typed' /\ Logged'
  BY <1>1, <1>2, <1>3, <1>4, LogKept DEF Typed
<1>6. Phases'
  BY <1>1, <1>2, <1>3 DEF Phases, Playing, Live
<1>7. Watching'
  BY <1>1, <1>2, <1>3, <1>4 DEF Watching, Live, Balls
<1>8. Following'
  BY <1>1, <1>2, <1>3, <1>4, Numbers DEF Following, Playing, Balls
<1>9. Counted'
  BY <1>4 DEF Counted
<1> QED
  BY <1>5, <1>6, <1>7, <1>8, <1>9 DEF GInv

LEMMA LaunchHolds ==
  ASSUME Sc!Constants, GInv, Sc!Launch
  PROVE  GInv'
<1>1. Typed /\ Phases /\ Watching /\ Following /\ Counted /\ Logged
  BY DEF GInv
<1>2. /\ g.step = "lane" /\ g.seen /\ UNCHANGED <<log, games, real, setup>>
      /\ g' = [g EXCEPT !.step = "play", !.first = FALSE] /\ t' = Sc!Launched(t)
  BY DEF Sc!Launch
<1>3. /\ g' \in Table /\ g'.step = "play" /\ g'.ball = g.ball /\ g'.saved = g.saved
      /\ g'.seen /\ g'.demo = g.demo /\ g'.players = g.players /\ g'.score = g.score
      /\ g'.player = g.player /\ g'.off = g.off /\ ~ g'.first
  BY <1>1, <1>2 DEF Typed, Table, Steps
<1>4. /\ t.state # "idle" /\ t.cheats = g.off /\ (t.state = "open" => g.ball = 1)
      /\ t.state \in {"open", "locked"}
  BY <1>1, <1>2, Numbers DEF Phases, Following, Playing, Live
<1>5. /\ t' \in Tracker /\ SameWatch(t', t) /\ SameScores(t', t) /\ t'.unstable = t.unstable
      /\ t'.state = "locked" /\ t'.cheats = g.off
      /\ t'.players = IF t.state = "open" THEN g.players ELSE t.players
  <2>1. /\ t \in Tracker /\ g.players \in 1 .. 2
    BY <1>1, Numbers DEF Typed
  <2> DEFINE u == Sc!Sampled(t)
  <2>2. /\ u \in Tracker /\ SameWatch(u, t) /\ SameScores(u, t)
        /\ u.state = t.state /\ u.players = t.players /\ u.unstable = t.unstable
        /\ u.cheats = t.cheats \cup g.off
    BY <1>1, <2>1, SampledIs
  <2>3. IF t.state = "open" THEN t' = [u EXCEPT !.state = "locked", !.players = g.players] ELSE t' = u
    BY <1>2, <1>4 DEF Sc!Launched
  <2> HIDE DEF u
  <2>4. u.cheats = g.off
    BY <1>4, <2>2
  <2>5. CASE t.state = "open"
    BY <2>1, <2>2, <2>3, <2>4, <2>5 DEF Tracker, SameWatch, SameScores
  <2>6. CASE t.state # "open"
    BY <1>4, <2>2, <2>3, <2>4, <2>6
  <2> QED
    BY <2>5, <2>6
<1>6. Typed' /\ Logged'
  BY <1>1, <1>2, <1>3, <1>5, LogKept DEF Typed, SameScores
<1>7. Phases'
  BY <1>1, <1>2, <1>3, <1>5 DEF Phases, Playing, Live
<1>8. Watching'
  BY <1>1, <1>2, <1>3, <1>4, <1>5 DEF Watching, Live, Balls, SameWatch
<1>9. Following'
  BY <1>1, <1>2, <1>3, <1>4, <1>5 DEF Following, Playing, Balls, SameWatch
<1>10. Counted'
  BY <1>1, <1>2, <1>3, <1>5 DEF Counted, Playing, Now, Marks, Balls, SameWatch, SameScores
<1> QED
  BY <1>6, <1>7, <1>8, <1>9, <1>10 DEF GInv

-----------------------------------------------------------------------------
(***************************************************************************)
(* A ball in play, and the next one.                                       *)
(***************************************************************************)
\* One more point on the present ball.
LEMMA PointAdded ==
  ASSUME Sc!Constants, NEW earned \in Seq(Nat), Len(earned) > 0, NEW ends \in Seq(Points0),
         NEW now \in Points0, now < MaxScore, NEW c, Sums(c, earned, ends, now),
         Len(ends) < Len(earned)
  PROVE  \E d : Sums(d, [earned EXCEPT ![Len(earned)] = @ + 1], ends, now + 1)
<1> DEFINE num == Len(earned)
           d == [c EXCEPT ![num] = @ + 1]
           e == [earned EXCEPT ![num] = @ + 1]
<1>1. num \in Nat /\ num > 0 /\ MaxScore \in Nat /\ Len(ends) \in Nat /\ Len(ends) < num
  BY DEF Sc!Constants
<1>2. c \in [0 .. num -> Points0] /\ c[0] = 0 /\ c[num] = now
  BY DEF Sums
<1>3. now \in Nat /\ now + 1 \in Points0
  BY <1>1 DEF Points0
<1>4. e \in Seq(Nat) /\ Len(e) = num /\ e[num] = earned[num] + 1 /\ \A i \in 1 .. num - 1 : e[i] = earned[i]
  BY <1>1
<1>5. d \in [0 .. num -> Points0] /\ d[num] = now + 1 /\ \A i \in 0 .. num - 1 : d[i] = c[i]
  BY <1>1, <1>2, <1>3
<1>6. \A i, j \in 0 .. num : i <= j => c[i] <= c[j]
  BY DEF Sums
<1>7. \A i \in 1 .. num : earned[i] = c[i] - c[i - 1]
  BY DEF Sums
<1>8. \A i \in 1 .. Len(ends) : ends[i] = c[i]
  BY DEF Sums
<1>14. \A i \in 0 .. num : c[i] \in Nat
  BY <1>2 DEF Points0
<1> HIDE DEF d, e, num
<1>9. d[0] = 0
  BY <1>1, <1>2, <1>5
<1>10. ASSUME NEW i \in 0 .. num, NEW j \in 0 .. num, i <= j PROVE d[i] <= d[j]
  <2>1. c[i] <= c[j] /\ c[i] \in Nat /\ c[j] \in Nat
    BY <1>6, <1>10, <1>14
  <2>2. CASE i = num
    BY <1>1, <1>3, <1>5, <1>10, <2>2
  <2>3. CASE i # num /\ j = num
    BY <1>1, <1>2, <1>3, <1>5, <2>1, <2>3
  <2>4. CASE i # num /\ j # num
    BY <1>1, <1>5, <2>1, <2>4
  <2> QED
    BY <2>2, <2>3, <2>4
<1>11. ASSUME NEW i \in 1 .. num PROVE e[i] = d[i] - d[i - 1]
  <2>1. i - 1 \in 0 .. num - 1 /\ d[i - 1] = c[i - 1] /\ c[i] \in Nat /\ c[i - 1] \in Nat
        /\ earned[i] = c[i] - c[i - 1]
    BY <1>1, <1>5, <1>7, <1>14
  <2>2. CASE i = num
    BY <1>2, <1>3, <1>4, <1>5, <2>1, <2>2
  <2>3. CASE i # num
    <3>1. i \in 1 .. num - 1 /\ i \in 0 .. num - 1
      BY <1>1, <2>3
    <3> QED
      BY <1>4, <1>5, <2>1, <3>1
  <2> QED
    BY <2>2, <2>3
<1>12. \A i \in 1 .. Len(ends) : ends[i] = d[i]
  BY <1>1, <1>5, <1>8
<1>13. Sums(d, e, ends, now + 1)
  BY <1>1, <1>4, <1>5, <1>9, <1>10, <1>11, <1>12 DEF Sums
<1> QED
  BY <1>13 DEF e, num

\* A new ball starts with the score the last one ended with.
LEMMA BallAdded ==
  ASSUME NEW earned \in Seq(Nat), NEW ends \in Seq(Points0),
         NEW now \in Points0, NEW c, Sums(c, earned, ends, now)
  PROVE  \E d : Sums(d, Append(earned, 0), ends, now)
<1> DEFINE num == Len(earned)
           d == [i \in 0 .. num + 1 |-> IF i = num + 1 THEN now ELSE c[i]]
           e == Append(earned, 0)
<1>1. num \in Nat /\ Len(ends) \in Nat /\ Len(ends) <= num
  BY DEF Sums
<1>2. c \in [0 .. num -> Points0] /\ c[0] = 0 /\ c[num] = now
  BY DEF Sums
<1>4. e \in Seq(Nat) /\ Len(e) = num + 1 /\ e[num + 1] = 0 /\ \A i \in 1 .. num : e[i] = earned[i]
  BY <1>1
<1>5. d \in [0 .. num + 1 -> Points0] /\ d[num + 1] = now /\ \A i \in 0 .. num : d[i] = c[i]
  BY <1>1, <1>2
<1>6. \A i, j \in 0 .. num : i <= j => c[i] <= c[j]
  BY DEF Sums
<1>7. \A i \in 1 .. num : earned[i] = c[i] - c[i - 1]
  BY DEF Sums
<1>8. \A i \in 1 .. Len(ends) : ends[i] = c[i]
  BY DEF Sums
<1> HIDE DEF d, e, num
<1>3. now \in Nat
  BY DEF Points0
<1>9. d[0] = 0
  BY <1>1, <1>2, <1>5
<1>10. ASSUME NEW i \in 0 .. num + 1, NEW j \in 0 .. num + 1, i <= j PROVE d[i] <= d[j]
  <2>1. CASE i = num + 1
    BY <1>1, <1>3, <1>5, <1>10, <2>1
  <2>2. CASE i # num + 1 /\ j = num + 1
    <3>1. i \in 0 .. num /\ num \in 0 .. num /\ i <= num
      BY <1>1, <2>2
    <3> QED
      BY <1>2, <1>5, <1>6, <2>2, <3>1
  <2>3. CASE i # num + 1 /\ j # num + 1
    <3>1. i \in 0 .. num /\ j \in 0 .. num
      BY <1>1, <2>3
    <3> QED
      BY <1>5, <1>6, <1>10, <3>1
  <2> QED
    BY <2>1, <2>2, <2>3
<1>11. ASSUME NEW i \in 1 .. num + 1 PROVE e[i] = d[i] - d[i - 1]
  <2>1. i - 1 \in 0 .. num /\ d[i - 1] = c[i - 1]
    BY <1>1, <1>5
  <2>2. CASE i = num + 1
    BY <1>1, <1>2, <1>3, <1>4, <1>5, <2>1, <2>2
  <2>3. CASE i # num + 1
    <3>1. i \in 1 .. num /\ i \in 0 .. num
      BY <1>1, <2>3
    <3> QED
      BY <1>4, <1>5, <1>7, <2>1, <3>1
  <2> QED
    BY <2>2, <2>3
<1>12. \A i \in 1 .. Len(ends) : ends[i] = d[i]
  BY <1>1, <1>5, <1>8
<1>13. Sums(d, e, ends, now)
  BY <1>1, <1>4, <1>5, <1>9, <1>10, <1>11, <1>12 DEF Sums
<1> QED
  BY <1>13 DEF e

\* A ball in play is the one the last poll saw.
LEMMA InPlay ==
  ASSUME Sc!Constants, GInv, g.step \in {"play", "gone"}
  PROVE  /\ t.state = "locked" /\ g.ball = Balls /\ g.seen /\ t.have /\ t.prev = Balls /\ t.edge = 0
         /\ ~ t.unstable /\ ~ g.first /\ t.cheats = g.off /\ t.players = g.players
         /\ g.players = real.now.players /\ g.player <= g.players
         /\ (real.now.honest <=> g.off = {})
         /\ real.now.players = 1 =>
              /\ \E c : Sums(c, real.now.earned, t.ends, g.score)
              /\ ~ t.decreased /\ t.last <= g.score /\ Len(t.ends) = Balls - 1
<1>1. Typed /\ Phases /\ Watching /\ Following /\ Counted
  BY DEF GInv
<1>2. Live /\ Playing
  BY <1>1 DEF Phases, Playing
<1>3. t.state = "locked"
  BY <1>1, <1>2, Numbers DEF Following, Live
<1>4. /\ g.ball = Balls /\ g.seen /\ t.have /\ t.prev = Balls /\ t.edge = 0
      /\ ~ t.unstable /\ ~ g.first /\ t.cheats = g.off /\ t.players = g.players
      /\ g.players = real.now.players /\ g.player <= g.players
      /\ (real.now.honest <=> g.off = {})
  BY <1>1, <1>2, <1>3 DEF Following, Watching
<1>5. Now = g.score
  BY DEF Now
<1> QED
  BY <1>1, <1>2, <1>3, <1>4, <1>5 DEF Counted, Marks

LEMMA PointsHolds ==
  ASSUME Sc!Constants, GInv, Sc!Points
  PROVE  GInv'
<1>1. Typed /\ Phases /\ Watching /\ Following /\ Counted /\ Logged
  BY DEF GInv
<1>2. /\ g.step \in {"play", "gone"} /\ g.score < MaxScore /\ UNCHANGED <<t, log, games, setup>>
      /\ g' = [g EXCEPT !.score = @ + 1]
      /\ real' = [real EXCEPT !.now.earned[g.ball] = @ + 1]
  BY DEF Sc!Points
<1>3. /\ g' \in Table /\ g'.step = g.step /\ g'.ball = g.ball /\ g'.score = g.score + 1
      /\ g'.seen = g.seen /\ g'.demo = g.demo /\ g'.players = g.players /\ g'.saved = g.saved
      /\ g'.player = g.player /\ g'.off = g.off /\ g'.first = g.first
  <2>1. g.score + 1 \in Points0 /\ g \in Table
    BY <1>1, <1>2, Numbers DEF Typed, Points0
  <2> QED
    BY <1>2, <2>1 DEF Table
<1> DEFINE earned == real.now.earned
           more == [earned EXCEPT ![Balls] = @ + 1]
<1>4. /\ g.ball = Balls /\ t.have /\ t.prev = Balls /\ t.edge = 0
      /\ real.now.players = 1 =>
           /\ \E c : Sums(c, earned, t.ends, g.score)
           /\ ~ t.decreased /\ t.last <= g.score /\ Len(t.ends) = Balls - 1
  BY <1>2, InPlay
<1>5. earned \in Seq(Nat) /\ Balls = Len(earned) /\ Balls \in Nat /\ Balls > 0
  BY <1>1, Numbers DEF Balls
<1>6. more \in Seq(Nat) /\ Len(more) = Balls /\ more # <<>>
  <2>1. more \in Seq(Nat) /\ Len(more) = Balls
    BY <1>5
  <2> HIDE DEF more
  <2> QED
    BY <1>5, <2>1
<1>7. /\ real' \in [now : Played, past : Seq(Played)] /\ real'.past = real.past
      /\ real'.now.earned = more /\ real'.now.players = real.now.players
      /\ real'.now.honest = real.now.honest
  <2>1. real \in [now : Played, past : Seq(Played)] /\ real.now \in Played
    BY <1>1 DEF Typed
  <2>2. real' = [real EXCEPT !.now = [real.now EXCEPT !.earned = more]]
    BY <1>2, <1>4
  <2> HIDE DEF more
  <2> DEFINE q == [real.now EXCEPT !.earned = more]
  <2>3. q \in Played /\ q.earned = more /\ q.players = real.now.players /\ q.honest = real.now.honest
    BY <1>6, <2>1 DEF Played
  <2> HIDE DEF q
  <2> QED
    BY <2>1, <2>2, <2>3 DEF q
<1>8. Balls' = Balls
  BY <1>6, <1>7 DEF Balls
<1>9. Typed' /\ Logged'
  BY <1>1, <1>2, <1>3, <1>6, <1>7, LogKept DEF Typed
<1>10. Phases'
  BY <1>1, <1>2, <1>3 DEF Phases, Playing, Live
<1>11. Watching'
  BY <1>1, <1>2, <1>3, <1>8 DEF Watching, Live
<1>12. Following'
  BY <1>1, <1>2, <1>3, <1>7, <1>8 DEF Following, Playing
<1>13. Counted'
  <2>1. SUFFICES ASSUME real'.now.players = 1 PROVE Counted'
    BY DEF Counted
  <2>2. PICK c : Sums(c, earned, t.ends, g.score)
    BY <1>4, <1>7, <2>1
  <2>3. ~ t.decreased /\ t.last <= g.score /\ Len(t.ends) = Balls - 1
    BY <1>4, <1>7, <2>1
  <2>4. g.score \in Points0 /\ t.ends \in Seq(Points0) /\ g.score \in Nat /\ t.last \in Nat
    BY <1>1, Numbers DEF Typed, Table
  <2>5. \E d : Sums(d, [earned EXCEPT ![Len(earned)] = @ + 1], t.ends, g.score + 1)
    <3>1. Len(earned) > 0 /\ Len(t.ends) < Len(earned) /\ g.score < MaxScore /\ earned \in Seq(Nat)
      BY <1>2, <1>5, <2>3
    <3> HIDE DEF earned
    <3> QED
      BY <2>2, <2>4, <3>1, PointAdded
  <2>6. Now' = g.score + 1
    BY <1>2, <1>3 DEF Now
  <2>7. \E d : Sums(d, real'.now.earned, t'.ends, Now')
    BY <1>2, <1>5, <1>7, <2>5, <2>6
  <2>8. ~ t'.decreased /\ t'.last <= Now'
    BY <1>2, <2>3, <2>4, <2>6
  <2>9. Marks'
    BY <1>2, <1>4, <1>5, <1>8, <2>3 DEF Marks
  <2> QED
    BY <1>2, <1>3, <2>7, <2>8, <2>9 DEF Counted
<1> QED
  BY <1>9, <1>10, <1>11, <1>12, <1>13 DEF GInv

LEMMA LoseBallHolds ==
  ASSUME Sc!Constants, GInv, Sc!LoseBall
  PROVE  GInv'
<1>1. Typed /\ Phases /\ Watching /\ Following /\ Counted /\ Logged
  BY DEF GInv
<1>2. /\ g.step = "play" /\ UNCHANGED <<t, log, games, real, setup>>
      /\ g' = [g EXCEPT !.step = "gone"]
  BY DEF Sc!LoseBall, Sc!Step, Sc!Quiet
<1>3. /\ g' \in Table /\ g'.step = "gone" /\ g'.ball = g.ball /\ g'.score = g.score
      /\ g'.seen = g.seen /\ g'.demo = g.demo /\ g'.players = g.players /\ g'.saved = g.saved
      /\ g'.player = g.player /\ g'.off = g.off /\ g'.first = g.first
  BY <1>1, <1>2 DEF Typed, Table, Steps
<1>4. Typed' /\ Logged'
  BY <1>1, <1>2, <1>3, LogKept DEF Typed
<1>5. Phases'
  BY <1>1, <1>2, <1>3 DEF Phases, Playing, Live
<1>6. Watching'
  BY <1>1, <1>2, <1>3 DEF Watching, Live, Balls
<1>7. Following'
  BY <1>1, <1>2, <1>3 DEF Following, Playing, Balls
<1>8. Counted'
  BY <1>1, <1>2, <1>3 DEF Counted, Playing, Now, Marks, Balls
<1> QED
  BY <1>4, <1>5, <1>6, <1>7, <1>8 DEF GInv

LEMMA ShootAgainHolds ==
  ASSUME Sc!Constants, GInv, Sc!ShootAgain
  PROVE  GInv'
<1>1. Typed /\ Phases /\ Watching /\ Following /\ Counted /\ Logged
  BY DEF GInv
<1>2. /\ g.step = "gone" /\ UNCHANGED <<t, log, games, real, setup>>
      /\ g' = [g EXCEPT !.step = "ready", !.saved[g.player] = g.score]
  BY DEF Sc!ShootAgain, Sc!Quiet
<1>3. /\ g' \in Table /\ g'.step = "ready" /\ g'.ball = g.ball /\ g'.score = g.score
      /\ g'.seen = g.seen /\ g'.demo = g.demo /\ g'.players = g.players
      /\ g'.saved[g.player] = g.score
      /\ g'.player = g.player /\ g'.off = g.off /\ g'.first = g.first
  <2>1. g.player \in 1 .. 2 /\ g.score \in Points0 /\ g.saved \in [1 .. 2 -> Points0] /\ g \in Table
    BY <1>1 DEF Typed, Table
  <2> QED
    BY <1>2, <2>1 DEF Table, Steps
<1>4. Typed' /\ Logged'
  BY <1>1, <1>2, <1>3, LogKept DEF Typed
<1>5. Phases'
  BY <1>1, <1>2, <1>3 DEF Phases, Playing, Live
<1>6. Watching'
  BY <1>1, <1>2, <1>3 DEF Watching, Live, Balls
<1>7. Following'
  BY <1>1, <1>2, <1>3, InPlay DEF Following, Playing, Balls
<1>8. Counted'
  <2>1. SUFFICES ASSUME real'.now.players = 1 PROVE Counted'
    BY DEF Counted
  <2>2. g.player = 1
    BY <1>1, <1>2, <2>1, InPlay, Numbers
  <2>3. Now = g.score /\ Now' = g.score
    BY <1>2, <1>3 DEF Now
  <2> QED
    BY <1>1, <1>2, <1>3, <2>1, <2>2, <2>3 DEF Counted, Playing, Marks, Balls
<1> QED
  BY <1>4, <1>5, <1>6, <1>7, <1>8 DEF GInv

LEMMA NextBallHolds ==
  ASSUME Sc!Constants, GInv, Sc!NextBall
  PROVE  GInv'
<1>1. Typed /\ Phases /\ Watching /\ Following /\ Counted /\ Logged
  BY DEF GInv
<1> DEFINE kept == [g EXCEPT !.saved[g.player] = g.score, !.step = "ready"]
<1>2. g.step = "gone" /\ UNCHANGED <<t, log, games, setup>>
  BY DEF Sc!NextBall
<1>3. /\ t.state = "locked" /\ g.ball = Balls /\ g.seen /\ t.have /\ t.prev = Balls /\ t.edge = 0
      /\ ~ t.unstable /\ ~ g.first /\ t.cheats = g.off /\ t.players = g.players
      /\ g.players = real.now.players /\ g.player <= g.players
      /\ (real.now.honest <=> g.off = {})
      /\ real.now.players = 1 =>
           /\ \E c : Sums(c, real.now.earned, t.ends, g.score)
           /\ ~ t.decreased /\ t.last <= g.score /\ Len(t.ends) = Balls - 1
  BY <1>2, InPlay
<1>4. /\ kept \in Table /\ kept.step = "ready" /\ kept.ball = g.ball /\ kept.score = g.score
      /\ kept.seen = g.seen /\ kept.demo = g.demo /\ kept.players = g.players
      /\ kept.saved[g.player] = g.score
      /\ kept.player = g.player /\ kept.off = g.off /\ kept.first = g.first
  <2>1. g.player \in 1 .. 2 /\ g.score \in Points0 /\ g.saved \in [1 .. 2 -> Points0] /\ g \in Table
    BY <1>1 DEF Typed, Table
  <2> QED
    BY <2>1 DEF Table, Steps
<1>5. /\ g.player \in 1 .. 2 /\ g.players \in 1 .. 2 /\ Balls \in Nat /\ Balls > 0
      /\ real.now.earned \in Seq(Nat) /\ Balls = Len(real.now.earned)
  BY <1>1, Numbers DEF Balls
<1>6. CASE g.player < g.players /\ g' = [kept EXCEPT !.player = @ + 1] /\ UNCHANGED real
  <2>1. g.players = 2 /\ g.player = 1 /\ kept.player + 1 = 2 /\ 2 \in 1 .. 2
    BY <1>4, <1>5, <1>6
  <2>2. /\ g' \in Table /\ g'.step = "ready" /\ g'.ball = g.ball /\ g'.player = 2
        /\ g'.seen = g.seen /\ g'.demo = g.demo /\ g'.players = g.players /\ g'.score = g.score
        /\ g'.off = g.off /\ g'.first = g.first
    <3> HIDE DEF kept
    <3> QED
      BY <1>4, <1>6, <2>1 DEF Table
  <2>3. Typed' /\ Logged'
    BY <1>1, <1>2, <1>6, <2>2, LogKept DEF Typed
  <2>4. Phases'
    BY <1>1, <1>2, <2>2 DEF Phases, Playing, Live
  <2>5. Watching'
    BY <1>1, <1>2, <1>6, <2>2 DEF Watching, Live, Balls
  <2>6. Following'
    BY <1>2, <1>3, <1>6, <2>1, <2>2 DEF Following, Playing, Balls
  <2>7. Counted'
    <3>1. real'.now.players = 2
      BY <1>3, <1>6, <2>1
    <3> QED
      BY <3>1 DEF Counted
  <2> QED
    BY <2>3, <2>4, <2>5, <2>6, <2>7 DEF GInv
<1>7. CASE /\ g.player = g.players /\ g.ball < Sc!NoOfBalls
           /\ \E step \in IF g.players = 1 THEN {"ready", "lane"} ELSE {"ready"} :
                g' = [kept EXCEPT !.player = 1, !.ball = @ + 1, !.seen = FALSE, !.step = step]
           /\ real' = [real EXCEPT !.now.earned = Append(@, 0)]
  <2>1. PICK step \in {"ready", "lane"} :
          g' = [kept EXCEPT !.player = 1, !.ball = @ + 1, !.seen = FALSE, !.step = step]
    BY <1>7
  <2>2. /\ g' \in Table /\ g'.step \in {"ready", "lane"} /\ g'.ball = g.ball + 1 /\ g'.player = 1
        /\ ~ g'.seen /\ g'.demo = g.demo /\ g'.players = g.players /\ g'.score = g.score
        /\ g'.saved = kept.saved /\ g'.off = g.off /\ g'.first = g.first
    <3>1. g.ball + 1 \in 0 .. Long
      BY <1>1, <1>3, <1>5, <1>7, BallFacts
    <3>2. 1 \in 1 .. 2 /\ kept \in Table
      BY <1>4
    <3>3. kept.ball + 1 \in 0 .. Long
      BY <1>4, <3>1
    <3> HIDE DEF kept
    <3>4. /\ g' \in Table /\ g'.step = step /\ g'.ball = kept.ball + 1 /\ g'.player = 1
          /\ ~ g'.seen /\ g'.demo = kept.demo /\ g'.players = kept.players /\ g'.score = kept.score
          /\ g'.saved = kept.saved /\ g'.off = kept.off /\ g'.first = kept.first
      BY <2>1, <3>2, <3>3 DEF Table, Steps
    <3> QED
      BY <1>4, <3>4
  <2> DEFINE more == Append(real.now.earned, 0)
  <2>3. more \in Seq(Nat) /\ Len(more) = Balls + 1 /\ more[Balls + 1] = 0 /\ more # <<>>
    BY <1>5
  <2>4. /\ real' \in [now : Played, past : Seq(Played)] /\ real'.past = real.past
        /\ real'.now.earned = more /\ real'.now.players = real.now.players
        /\ real'.now.honest = real.now.honest
    <3>1. real \in [now : Played, past : Seq(Played)] /\ real.now \in Played
      BY <1>1 DEF Typed
    <3> DEFINE q == [real.now EXCEPT !.earned = more]
    <3>2. real' = [real EXCEPT !.now = q]
      BY <1>7
    <3> HIDE DEF more
    <3>3. q \in Played /\ q.earned = more /\ q.players = real.now.players
          /\ q.honest = real.now.honest
      BY <2>3, <3>1 DEF Played
    <3> HIDE DEF q
    <3> QED
      BY <3>1, <3>2, <3>3
  <2>5. Balls' = Balls + 1
    BY <2>3, <2>4 DEF Balls
  <2>6. Typed' /\ Logged'
    BY <1>1, <1>2, <2>2, <2>3, <2>4, LogKept DEF Typed
  <2>7. Phases'
    BY <1>1, <1>2, <2>2 DEF Phases, Playing, Live
  <2>8. Watching'
    <3>1. t.reached \in Nat /\ t.reached <= t.prev /\ ~ t.rewound
      BY <1>1, <1>3, Numbers DEF Watching, Live
    <3> QED
      BY <1>2, <1>3, <1>5, <2>2, <2>5, <3>1 DEF Watching, Live
  <2>9. Following'
    BY <1>2, <1>3, <1>5, <2>2, <2>4, <2>5 DEF Following, Playing
  <2>10. Counted'
    <3>1. SUFFICES ASSUME real'.now.players = 1 PROVE Counted'
      BY DEF Counted
    <3>2. PICK c : Sums(c, real.now.earned, t.ends, g.score)
      BY <1>3, <2>4, <3>1
    <3>3. ~ t.decreased /\ t.last <= g.score /\ Len(t.ends) = Balls - 1
      BY <1>3, <2>4, <3>1
    <3>4. g.score \in Points0 /\ t.ends \in Seq(Points0)
      BY <1>1, Numbers DEF Typed, Table
    <3>5. \E d : Sums(d, more, t.ends, g.score)
      BY <1>5, <3>2, <3>4, BallAdded
    <3>6. Now' = g.score /\ g'.saved[1] = g.score
      <4>1. g.player = 1
        BY <1>3, <1>7, <2>4, <3>1
      <4> QED
        BY <1>4, <2>2, <4>1 DEF Now
    <3>7. Marks'
      BY <1>2, <1>3, <1>5, <2>3, <2>4, <2>5, <3>3 DEF Marks
    <3> QED
      BY <1>2, <2>4, <3>3, <3>5, <3>6, <3>7 DEF Counted
  <2> QED
    BY <2>6, <2>7, <2>8, <2>9, <2>10 DEF GInv
<1> QED
  BY <1>6, <1>7 DEF Sc!NextBall

\* sc_close at the game's own end.
LEMMA GameOverHolds ==
  ASSUME Sc!Constants, GInv, Sc!GameOver
  PROVE  GInv'
<1>1. Typed /\ Phases /\ Watching /\ Following /\ Counted /\ Logged
  BY DEF GInv
<1> DEFINE r == [t EXCEPT !.score = g.score]
           s == Sc!Sampled(r)
           a == Sc!Attempt(s, "attract")
           q == [real.now EXCEPT !.final = g.score]
<1>2. /\ g.step = "gone" /\ UNCHANGED <<games, setup>>
      /\ g' = [Sc!Attract EXCEPT !.step = "zero", !.ball = g.ball, !.score = g.score, !.off = g.off]
      /\ t' = Sc!Rest(s)
      /\ log' = IF Len(log) < SCLog THEN Append(log, a) ELSE log
      /\ real' = [now |-> Sc!Game, past |-> Append(real.past, q)]
  BY DEF Sc!GameOver
<1>3. /\ t.state = "locked" /\ g.ball = Balls /\ t.have /\ t.prev = Balls /\ t.edge = 0
      /\ t.cheats = g.off /\ t.players = g.players
      /\ g.players = real.now.players /\ (real.now.honest <=> g.off = {})
      /\ real.now.players = 1 =>
           /\ \E c : Sums(c, real.now.earned, t.ends, g.score)
           /\ ~ t.decreased /\ t.last <= g.score /\ Len(t.ends) = Balls - 1
  BY <1>2, InPlay
<1>4. /\ g' \in Table /\ g'.step = "zero" /\ g'.demo /\ g'.players = 1 /\ g'.player = 1
  <2>1. g.ball \in 0 .. Long /\ g.score \in Points0 /\ g.off \in SUBSET Sc!Cheats
    BY <1>1 DEF Typed, Table
  <2> QED
    BY <1>1, <1>2, <2>1, AttractIs DEF Table, Steps
<1>5. /\ r \in Tracker /\ SameWatch(r, t) /\ SameScores(r, t) /\ SameFacts(r, t)
      /\ r.score = g.score
  <2>1. t \in Tracker /\ g.score \in Points0
    BY <1>1 DEF Typed, Table
  <2> QED
    BY <2>1 DEF Tracker, SameWatch, SameScores, SameFacts
<1> HIDE DEF r
<1>6. /\ s \in Tracker /\ SameWatch(s, t) /\ SameScores(s, t) /\ SameFacts(s, t)
      /\ s.score = g.score
  <2>1. /\ s \in Tracker /\ SameWatch(s, r) /\ SameScores(s, r)
        /\ s.state = r.state /\ s.players = r.players
        /\ s.score = r.score /\ s.cheats = r.cheats \cup g.off
    BY <1>1, <1>5, SampledIs
  <2>2. s.cheats = t.cheats
    BY <1>3, <1>5, <2>1 DEF SameFacts
  <2> QED
    BY <1>5, <2>1, <2>2 DEF SameWatch, SameScores, SameFacts
<1>7. /\ real.now \in Played /\ real.now.earned \in Seq(Nat) /\ Balls = Len(real.now.earned)
      /\ g.score \in Points0 /\ t.ends \in Seq(Points0) /\ Len(t.ends) < Long /\ Len(t.ends) \in Nat
      /\ Balls \in Nat
  BY <1>1, Numbers DEF Balls, Typed, Table
<1>8. /\ q \in Played /\ q.earned = real.now.earned /\ q.players = real.now.players
      /\ q.honest = real.now.honest /\ q.final = g.score
  BY <1>7 DEF Played
<1> HIDE DEF q, s
<1>9. Len(s.ends) < Long /\ s.ends = t.ends /\ s.edge = 0
  BY <1>3, <1>6, <1>7 DEF SameScores, SameWatch
<1>10. /\ a \in Entry /\ Len(a.ball_scores) \in 1 .. Long /\ a.score = g.score
       /\ a.reached = s.reached /\ a.rewound = s.rewound
       /\ a.rankable = Sc!Rankable(s, "attract")
       /\ a.ball_scores = Sc!Split(Sc!Marked(s, g.score).ends, g.score)
  BY <1>1, <1>6, <1>9, AttemptIs
<1>11. Sc!Marked(s, g.score).ends = t.ends
  <2>1. /\ Sc!Marked(s, g.score) \in Tracker /\ Len(Sc!Marked(s, g.score).ends) = Len(t.ends)
        /\ \A i \in 1 .. Len(t.ends) : Sc!Marked(s, g.score).ends[i] = t.ends[i]
    <3>1. ~ (0 > Len(t.ends))
      BY <1>7
    <3>2. s \in Tracker /\ Len(s.ends) < Long /\ g.score \in Points0 /\ Typed
      BY <1>1, <1>6, <1>7, <1>9
    <3>3. /\ Sc!Marked(s, g.score) \in Tracker
          /\ Len(Sc!Marked(s, g.score).ends) = (IF s.edge > Len(s.ends) THEN s.edge - 1 ELSE Len(s.ends))
          /\ \A i \in 1 .. Len(s.ends) : Sc!Marked(s, g.score).ends[i] = s.ends[i]
      BY <3>2, MarkedIs
    <3> QED
      BY <1>9, <3>1, <3>3
  <2>2. Sc!Marked(s, g.score).ends \in Seq(Points0)
    BY <2>1 DEF Tracker
  <2> QED
    BY <1>7, <2>1, <2>2
<1> HIDE DEF a
<1>12. a.rankable <=> /\ ~ setup.trainer /\ g.off = {} /\ real.now.players = 1 /\ ~ t.decreased
  BY <1>3, <1>6, <1>10 DEF Sc!Rankable, SameFacts, SameScores
<1>13. a.rankable <=> real.now.players = 1 /\ real.now.honest /\ ~ setup.trainer
  BY <1>3, <1>12
<1>14. real.now.players = 1 => a.ball_scores = real.now.earned
  <2>1. SUFFICES ASSUME real.now.players = 1 PROVE a.ball_scores = real.now.earned
    OBVIOUS
  <2>2. PICK c : Sums(c, real.now.earned, t.ends, g.score)
    BY <1>3, <2>1
  <2>3. Len(real.now.earned) = Len(t.ends) + 1
    BY <1>3, <1>7, <2>1
  <2> QED
    BY <1>7, <1>10, <1>11, <2>2, <2>3, SplitRight
<1>15. ~ a.rewound /\ a.reached <= Len(q.earned)
  BY <1>1, <1>3, <1>6, <1>8, <1>10, ReachedIs DEF Live, SameWatch
<1>16. /\ a.rankable => /\ q.players = 1 /\ q.honest /\ ~ setup.trainer
                        /\ a.score = q.final /\ a.ball_scores = q.earned
       /\ a.how = "attract" /\ q.players = 1 /\ q.honest /\ ~ setup.trainer => a.rankable
  BY <1>8, <1>10, <1>13, <1>14
<1>17. /\ Logged' /\ log' \in Seq(Entry)
       /\ \A i \in 1 .. Len(log') : Len(log'[i].ball_scores) \in 1 .. Long
       /\ real' \in [now : Played, past : Seq(Played)] /\ real'.now.earned # <<>>
  BY <1>1, <1>2, <1>8, <1>10, <1>15, <1>16, Entered
<1>18. t' \in Tracker /\ t'.state = "idle" /\ ~ t'.rewound /\ Len(t'.ends) < Long
  <2>1. t' \in Tracker /\ t'.state = "idle" /\ t'.rewound = s.rewound /\ t'.ends = <<>>
    BY <1>1, <1>2, <1>6, RestIs
  <2>2. Len(<<>>) < Long
    BY <1>1, BallFacts
  <2> QED
    BY <1>10, <1>15, <2>1, <2>2
<1>19. Typed'
  BY <1>1, <1>2, <1>4, <1>17, <1>18 DEF Typed
<1> QED
  BY <1>4, <1>17, <1>18, <1>19, NotPlaying DEF Playing, Live

-----------------------------------------------------------------------------
(***************************************************************************)
(* The poll.                                                               *)
(***************************************************************************)
\* A poll that tracks sees the present ball, and at most the last one's end
\* is still to be marked.
LEMMA SeenIs ==
  ASSUME Sc!Constants, Typed, Watching, Live, Sc!Tracks(t)
  PROVE  LET w == Sc!Watched(t) IN
         /\ g.ball = Balls /\ w.reached <= Balls /\ w.edge <= Balls /\ ~ w.rewound
         /\ Marks => \/ w.edge = 0 /\ Len(t.ends) = Balls - 1
                     \/ w.edge = Balls /\ Len(t.ends) = Balls - 2
<1>1. /\ g.ball \in Nat /\ t.prev \in Nat /\ t.edge \in Nat /\ t.reached \in Nat
      /\ Balls \in Nat /\ Balls > 0 /\ Len(t.ends) \in Nat
  BY Numbers
<1>2. /\ g.ball = Balls /\ t.reached <= t.prev /\ t.edge <= t.prev /\ ~ t.rewound
      /\ IF t.have THEN t.prev \in 1 .. g.ball ELSE t.prev = 0 /\ g.ball = 1
  BY DEF Watching, Sc!Tracks
<1> DEFINE w == Sc!Watched(t)
<1>3. /\ w.reached = (IF g.ball > t.reached THEN g.ball ELSE t.reached)
      /\ w.edge = (IF t.prev > 0 /\ g.ball > t.prev /\ g.ball > t.edge THEN g.ball ELSE t.edge)
      /\ w.rewound = (t.rewound \/ g.ball < t.prev)
  BY WatchedIs DEF Typed
<1> HIDE DEF w
<1>4. g.ball = Balls /\ w.reached <= Balls /\ w.edge <= Balls /\ ~ w.rewound
  <2>1. t.prev <= Balls /\ t.reached <= Balls /\ t.edge <= Balls
    BY <1>1, <1>2
  <2>2. ~ (g.ball < t.prev)
    BY <1>1, <1>2, <2>1
  <2>3. ~ w.rewound
    BY <1>2, <1>3, <2>2
  <2> QED
    BY <1>1, <1>2, <1>3, <2>1, <2>3
<1>5. ASSUME Marks
      PROVE  \/ w.edge = 0 /\ Len(t.ends) = Balls - 1
             \/ w.edge = Balls /\ Len(t.ends) = Balls - 2
  <2>1. /\ t.have => t.prev \in {Balls - 1, Balls}
        /\ t.edge = 0 => Len(t.ends) = (IF t.have THEN t.prev - 1 ELSE 0)
        /\ t.edge # 0 => t.edge = Balls /\ t.prev = Balls /\ Len(t.ends) = Balls - 2
    BY <1>5 DEF Marks
  <2>2. CASE ~ t.have
    BY <1>1, <1>2, <1>3, <2>1, <2>2
  <2>3. CASE t.have /\ t.edge = 0
    BY <1>1, <1>2, <1>3, <2>1, <2>3
  <2>4. CASE t.have /\ t.edge # 0
    BY <1>1, <1>2, <1>3, <2>1, <2>4
  <2> QED
    BY <2>2, <2>3, <2>4
<1> QED
  BY <1>4, <1>5 DEF w

LEMMA PollHolds ==
  ASSUME Sc!Constants, GInv, Sc!Poll
  PROVE  GInv'
<1>1. Typed /\ Phases /\ Watching /\ Following /\ Counted /\ Logged
  BY DEF GInv
<1>2. /\ Live /\ UNCHANGED <<log, games, real, setup>> /\ t' = Sc!Polled(t)
      /\ g' = [g EXCEPT !.seen = (g.step # "cleared")]
  BY DEF Sc!Poll, Live
<1>3. /\ g' \in Table /\ g'.step = g.step /\ g'.ball = g.ball /\ g'.score = g.score
      /\ g'.seen = (g.step # "cleared") /\ g'.demo = g.demo /\ g'.players = g.players
      /\ g'.saved = g.saved /\ g'.player = g.player /\ g'.off = g.off /\ g'.first = g.first
  <2>1. (g.step # "cleared") \in BOOLEAN /\ g \in Table
    BY <1>1 DEF Typed
  <2> QED
    BY <1>2, <2>1 DEF Table
<1>4. Balls' = Balls /\ Now' = Now
  BY <1>2, <1>3 DEF Balls, Now
<1>5. Logged'
  BY <1>1, <1>2, LogKept
<1>6. /\ t \in Tracker /\ Len(t.ends) < Long /\ Balls \in Nat /\ Balls > 0 /\ Len(t.ends) \in Nat
      /\ t.last \in Nat /\ t.prev \in Nat /\ t.edge \in Nat /\ t.reached \in Nat /\ Long \in Nat
      /\ g.score \in Nat /\ g.score \in Points0 /\ t.ends \in Seq(Points0)
  BY <1>1, Numbers DEF Typed, Table
<1>7. CASE ~ Sc!Tracks(t)
  <2>1. t' = t /\ ~ t.have /\ g.ball # 1
    BY <1>2, <1>7 DEF Sc!Polled, Sc!Tracks
  <2>2. Typed'
    BY <1>1, <1>2, <1>3, <2>1 DEF Typed
  <2>3. Phases' /\ Watching'
    BY <1>1, <1>2, <1>3, <1>4, <2>1 DEF Phases, Watching, Playing, Live
  <2>4. Following'
    BY <1>1, <1>2, <1>3, <1>4, <2>1 DEF Following, Playing
  <2>5. Counted'
    BY <1>1, <1>2, <1>3, <1>4, <2>1 DEF Counted, Playing, Marks
  <2> QED
    BY <1>5, <2>2, <2>3, <2>4, <2>5 DEF GInv
<1> DEFINE w == Sc!Watched(t)
<1>8. ASSUME Sc!Tracks(t)
      PROVE  /\ w \in Tracker /\ w.have /\ w.prev = g.ball /\ w.unstable = t.unstable
             /\ SameFacts(w, t) /\ SameScores(w, t)
             /\ g.ball = Balls /\ w.reached <= Balls /\ w.edge <= Balls /\ ~ w.rewound
             /\ Marks => \/ w.edge = 0 /\ Len(t.ends) = Balls - 1
                         \/ w.edge = Balls /\ Len(t.ends) = Balls - 2
  BY <1>1, <1>2, <1>6, <1>8, SeenIs, WatchedIs
<1>9. CASE Sc!Tracks(t) /\ t.unstable
  <2>1. t' = w /\ g.step = "cleared"
    BY <1>1, <1>2, <1>8, <1>9 DEF Sc!Polled, Watching, Live
  <2> HIDE DEF w
  <2>2. Typed'
    BY <1>1, <1>2, <1>3, <1>8, <1>9, <2>1 DEF Typed, SameScores
  <2>3. Phases'
    BY <1>1, <1>2, <1>3, <1>8, <1>9, <2>1 DEF Phases, Playing, Live, SameFacts
  <2>4. Watching'
    <3>1. t'.have /\ t'.prev = Balls /\ t'.unstable /\ g'.step = "cleared" /\ g'.ball = Balls
          /\ t'.reached <= Balls /\ t'.edge <= Balls /\ ~ t'.rewound
      BY <1>3, <1>8, <1>9, <2>1
    <3>2. t'.prev \in 1 .. g'.ball
      BY <1>6, <3>1
    <3> QED
      BY <1>4, <3>1, <3>2 DEF Watching
  <2>5. Following'
    BY <1>1, <1>2, <1>3, <1>4, <1>8, <1>9, <2>1 DEF Following, Playing, SameFacts
  <2>6. Counted'
    <3>1. SUFFICES ASSUME real.now.players = 1 PROVE Counted'
      BY <1>2 DEF Counted
    <3>2. /\ \E c : Sums(c, real.now.earned, t.ends, Now)
          /\ g.saved[1] = Now /\ ~ t.decreased /\ t.last <= Now /\ Marks
      BY <1>1, <2>1, <3>1 DEF Counted, Playing
    <3>3. t'.ends = t.ends /\ t'.last = t.last /\ t'.decreased = t.decreased /\ t'.edge = w.edge
          /\ t'.have /\ t'.prev = Balls
      BY <1>8, <1>9, <2>1 DEF SameScores
    <3>4. Len(t.ends) < Balls - 1 => real.now.earned[Balls] = 0
      BY <3>2 DEF Marks
    <3>5. Marks'
      BY <1>2, <1>4, <1>6, <1>8, <1>9, <3>2, <3>3, <3>4 DEF Marks
    <3> QED
      BY <1>2, <1>3, <1>4, <3>2, <3>3, <3>5 DEF Counted
  <2> QED
    BY <1>5, <2>2, <2>3, <2>4, <2>5, <2>6 DEF GInv
<1>10. CASE Sc!Tracks(t) /\ ~ t.unstable
  <2>1. g.step # "cleared"
    BY <1>1, <1>2, <1>10 DEF Watching
  <2>2. /\ t' \in Tracker /\ t'.have /\ t'.prev = g.ball /\ t'.edge = 0
        /\ t'.reached = w.reached /\ t'.rewound = w.rewound
        /\ SameFacts(t', t) /\ ~ t'.unstable
        /\ t'.decreased = (t.decreased \/ g.score < t.last) /\ t'.last = g.score
        /\ t'.ends = Sc!Marked(w, g.score).ends
    BY <1>1, <1>2, <1>6, <1>10, ReadIs DEF Live
  <2> HIDE DEF w
  <2>3. /\ Len(t'.ends) = (IF w.edge > Len(t.ends) THEN w.edge - 1 ELSE Len(t.ends))
        /\ Len(t'.ends) < Long
        /\ \A i \in 1 .. Len(t.ends) : t'.ends[i] = t.ends[i]
        /\ \A i \in Len(t.ends) + 1 .. Len(t'.ends) : t'.ends[i] = g.score
    <3>1. w \in Tracker /\ w.ends = t.ends
      BY <1>8, <1>10 DEF SameScores
    <3>2. /\ Len(Sc!Marked(w, g.score).ends) = (IF w.edge > Len(w.ends) THEN w.edge - 1 ELSE Len(w.ends))
          /\ Len(Sc!Marked(w, g.score).ends) < Long
          /\ \A i \in 1 .. Len(w.ends) : Sc!Marked(w, g.score).ends[i] = w.ends[i]
          /\ \A i \in Len(w.ends) + 1 .. Len(Sc!Marked(w, g.score).ends) :
               Sc!Marked(w, g.score).ends[i] = g.score
      <4>1. w \in Tracker /\ Len(w.ends) < Long /\ g.score \in Points0 /\ Typed
        BY <1>1, <1>6, <3>1
      <4> QED
        BY <4>1, MarkedIs
    <3> QED
      BY <2>2, <3>1, <3>2
  <2>4. Typed'
    BY <1>1, <1>2, <1>3, <2>2, <2>3 DEF Typed
  <2>5. Phases'
    BY <1>1, <1>2, <1>3, <2>2 DEF Phases, Playing, Live, SameFacts
  <2>6. Watching'
    BY <1>3, <1>4, <1>6, <1>8, <1>10, <2>1, <2>2 DEF Watching, Live
  <2>7. Following'
    BY <1>1, <1>2, <1>3, <1>4, <1>8, <1>10, <2>2 DEF Following, Playing, SameFacts
  <2>8. Counted'
    <3>1. SUFFICES ASSUME Playing, real.now.players = 1 PROVE Counted'
      BY <1>2, <1>3 DEF Counted, Playing
    <3>2. /\ \E c : Sums(c, real.now.earned, t.ends, Now)
          /\ g.step \in {"ready", "lane", "cleared"} => g.saved[1] = Now
          /\ ~ t.decreased /\ t.last <= Now /\ Marks
      BY <1>1, <3>1 DEF Counted
    <3>3. Now = g.score
      BY <2>1 DEF Now
    <3>4. ~ t'.decreased /\ t'.last <= Now
      <4>1. ~ (g.score < t.last)
        BY <1>6, <3>2, <3>3
      <4>2. ~ t'.decreased
        BY <2>2, <3>2, <4>1
      <4> QED
        BY <1>6, <2>2, <3>3, <4>2
    <3>5. \/ w.edge = 0 /\ Len(t.ends) = Balls - 1
          \/ w.edge = Balls /\ Len(t.ends) = Balls - 2
      BY <1>8, <1>10, <3>2
    <3>6. /\ Len(t'.ends) = Balls - 1
          /\ Len(t.ends) < Balls - 1 => Len(t.ends) = Balls - 2 /\ real.now.earned[Balls] = 0
      BY <1>6, <2>3, <3>2, <3>5 DEF Marks
    <3>7. Marks'
      BY <1>2, <1>4, <1>6, <1>8, <1>10, <2>2, <3>6 DEF Marks
    <3>8. PICK c : Sums(c, real.now.earned, t.ends, Now)
      BY <3>2
    <3>9. ASSUME NEW i \in 1 .. Len(t'.ends) PROVE t'.ends[i] = c[i]
      <4>1. CASE i \in 1 .. Len(t.ends)
        BY <2>3, <3>8, <4>1 DEF Sums
      <4>2. CASE i \notin 1 .. Len(t.ends)
        <5>1. i = Balls - 1 /\ t'.ends[i] = g.score /\ real.now.earned[Balls] = 0
          BY <1>6, <2>3, <3>6, <4>2
        <5>2. /\ real.now.earned[Balls] = c[Balls] - c[Balls - 1] /\ c[Balls] = g.score
              /\ c[Balls] \in Nat /\ c[Balls - 1] \in Nat
          <6>1. /\ Balls \in 1 .. Len(real.now.earned) /\ Balls \in 0 .. Len(real.now.earned)
                /\ Balls - 1 \in 0 .. Len(real.now.earned)
            BY <1>6 DEF Balls
          <6>2. c[Balls] \in Points0 /\ c[Balls - 1] \in Points0
            BY <3>8, <6>1 DEF Sums
          <6>3. c[Balls] \in Nat /\ c[Balls - 1] \in Nat
            BY <6>2 DEF Points0
          <6>4. real.now.earned[Balls] = c[Balls] - c[Balls - 1]
            BY <3>8, <6>1 DEF Sums
          <6>5. c[Balls] = g.score
            BY <3>3, <3>8 DEF Sums, Balls
          <6> QED
            BY <6>3, <6>4, <6>5
        <5> QED
          BY <5>1, <5>2
      <4> QED
        BY <4>1, <4>2
    <3>10. Sums(c, real.now.earned, t'.ends, Now)
      <4>1. Len(t'.ends) <= Len(real.now.earned)
        BY <1>6, <3>6 DEF Balls
      <4> QED
        BY <3>8, <3>9, <4>1 DEF Sums
    <3> QED
      BY <1>2, <1>3, <1>4, <3>2, <3>4, <3>7, <3>10 DEF Counted
  <2> QED
    BY <1>5, <2>4, <2>5, <2>6, <2>7, <2>8 DEF GInv
<1> QED
  BY <1>7, <1>9, <1>10

-----------------------------------------------------------------------------
(***************************************************************************)
(* The theorems.                                                           *)
(***************************************************************************)
LEMMA InitHolds ==
  ASSUME Sc!Constants, Sc!Init
  PROVE  GInv
<1>1. /\ setup \in Setup /\ g = Sc!Other /\ t = Sc!Idle /\ log = <<>> /\ games = 0
      /\ real = [now |-> Sc!Game, past |-> <<>>]
  BY DEF Sc!Init, Sc!Constants, Setup
<1>2. 0 \in 0 .. Long /\ 0 \in Points0 /\ 0 < Long /\ SCLog \in Nat
  BY DEF Sc!Constants, Points0
<1>3. Sc!Other \in Table /\ Sc!Other.step = "other"
  <2>1. 1 \in 1 .. 2 /\ {} \in SUBSET Sc!Cheats /\ <<0, 0>> \in [1 .. 2 -> Points0]
    BY <1>2
  <2> QED
    BY <1>2, <2>1 DEF Sc!Attract, Sc!Other, Table, Steps
<1>4. Sc!Idle \in Tracker /\ Sc!Idle.state = "idle" /\ ~ Sc!Idle.rewound /\ Sc!Idle.ends = <<>>
  <2>1. {} \in SUBSET Sc!Cheats /\ <<>> \in Seq(Points0) /\ 1 \in 1 .. 2
    OBVIOUS
  <2> QED
    BY <1>2, <2>1 DEF Sc!Idle, Tracker
<1>5. Sc!Game \in Played /\ Sc!Game.earned # <<>>
  <2>1. <<0>> \in Seq(Nat) /\ <<0>> # <<>> /\ 1 \in 1 .. 2
    OBVIOUS
  <2> QED
    BY <1>2, <2>1 DEF Sc!Game, Played
<1>6. /\ <<>> \in Seq(Entry) /\ <<>> \in Seq(Played) /\ Len(<<>>) = 0 /\ DOMAIN <<>> = {}
      /\ \A i \in 1 .. Len(<<>>) : FALSE
  OBVIOUS
<1>7. Typed
  <2>1. real \in [now : Played, past : Seq(Played)] /\ real.now = Sc!Game
    BY <1>1, <1>5, <1>6
  <2>2. Len(t.ends) < Long
    BY <1>1, <1>2, <1>4, <1>6
  <2>3. log \in Seq(Entry) /\ \A i \in 1 .. Len(log) : Len(log[i].ball_scores) \in 1 .. Long
    BY <1>1, <1>6
  <2> QED
    BY <1>1, <1>3, <1>4, <1>5, <2>1, <2>2, <2>3 DEF Typed
<1>8. Logged
  <2>1. DOMAIN log = {} /\ Len(log) = 0 /\ Len(real.past) = 0
    BY <1>1, <1>6
  <2> QED
    BY <1>2, <2>1 DEF Logged, Sc!RankedWasWon, Sc!WonIsRanked, Sc!BallScoresRight, Sc!CounterTrue
<1>9. ~ Playing /\ ~ Live
  BY <1>1, <1>3, <1>4 DEF Playing, Live
<1> QED
  BY <1>1, <1>3, <1>4, <1>7, <1>8, <1>9
  DEF GInv, Phases, Watching, Following, Counted

LEMMA NextHolds ==
  ASSUME Sc!Constants, GInv, [Sc!Next]_(Sc!vars)
  PROVE  GInv'
<1>1. CASE UNCHANGED Sc!vars
  BY <1>1 DEF Sc!vars, GInv, Typed, Phases, Watching, Following, Counted, Logged, Live, Playing,
     Balls, Now, Marks, Sc!RankedWasWon, Sc!WonIsRanked, Sc!BallScoresRight, Sc!CounterTrue
<1>2. CASE Sc!Exec
  BY <1>2, ExecHolds
<1>3. CASE Sc!Cheat
  BY <1>3, CheatHolds
<1>4. CASE Sc!StartGame
  BY <1>4, StartGameHolds
<1>5. CASE Sc!NewGameReset
  BY <1>5, NewGameResetHolds
<1>6. CASE Sc!ResetVars
  BY <1>6, ResetVarsHolds
<1>7. CASE Sc!Restore
  BY <1>7, RestoreHolds
<1>8. CASE Sc!AddPlayer
  BY <1>8, AddPlayerHolds
<1>9. CASE Sc!Launch
  BY <1>9, LaunchHolds
<1>10. CASE Sc!Points
  BY <1>10, PointsHolds
<1>11. CASE Sc!LoseBall
  BY <1>11, LoseBallHolds
<1>12. CASE Sc!ShootAgain
  BY <1>12, ShootAgainHolds
<1>13. CASE Sc!NextBall
  BY <1>13, NextBallHolds
<1>14. CASE Sc!GameOver
  BY <1>14, GameOverHolds
<1>15. CASE Sc!ZeroScore
  BY <1>15, ZeroScoreHolds
<1>16. CASE Sc!Quit
  BY <1>16, QuitHolds
<1>17. CASE Sc!Poll
  BY <1>17, PollHolds
<1>18. CASE Sc!Finish
  BY <1>18, FinishHolds
<1> QED
  BY <1>1, <1>2, <1>3, <1>4, <1>5, <1>6, <1>7, <1>8, <1>9, <1>10, <1>11, <1>12, <1>13,
     <1>14, <1>15, <1>16, <1>17, <1>18 DEF Sc!Next

LEMMA GInvAlways ==
  ASSUME Sc!Constants
  PROVE  Sc!Spec => []GInv
  BY InitHolds, NextHolds, PTL DEF Sc!Spec

\* The table program, the tracker, the log and the games keep their types; no
\* attempt has more ball ends than a game has balls, and the log never holds
\* more than SC_LOG attempts.
THEOREM ScoreTyped ==
  ASSUME Sc!Constants
  PROVE  Sc!Spec => []Sc!TypeOK
<1>1. ASSUME GInv PROVE Sc!TypeOK
  <2>1. Typed /\ Logged
    BY <1>1 DEF GInv
  <2>2. /\ t.state \in {"idle", "open", "locked"} /\ t.cheats \subseteq Sc!Cheats
        /\ t.edge \in 0 .. Long /\ t.last \in 0 .. MaxScore
    BY <2>1 DEF Typed, Tracker, Points0
  <2>3. g.ball \in 0 .. Long
    BY <2>1 DEF Typed, Table
  <2>4. DOMAIN log = 1 .. Len(log)
    BY <2>1 DEF Typed
  <2> QED
    BY <2>1, <2>2, <2>3, <2>4 DEF Typed, Logged, Sc!TypeOK
<1> QED
  BY <1>1, GInvAlways, PTL

\* An attempt is open exactly while a game is being played or was left at the
\* table, so the polls never meet a demo: fantasies_score_tick's DEMOMODE check
\* ("if it does not, the segmentation is wrong") finds nothing.
THEOREM GamesAreSegmented ==
  ASSUME Sc!Constants
  PROVE  Sc!Spec => []Sc!OpenWhilePlaying
<1>1. ASSUME GInv PROVE Sc!OpenWhilePlaying
  BY <1>1 DEF GInv, Phases, Live, Playing, Sc!OpenWhilePlaying
<1> QED
  BY <1>1, GInvAlways, PTL

\* What is ranked was won: by one player, without a cheat or the trainer, to the
\* game's own end and with the game's own score - whatever games came before,
\* whatever was toggled, joined or left, and wherever the polls fell.
THEOREM RankedGamesWereWon ==
  ASSUME Sc!Constants
  PROVE  Sc!Spec => []Sc!RankedWasWon
<1>1. GInv => Sc!RankedWasWon
  BY DEF GInv, Logged
<1> QED
  BY <1>1, GInvAlways, PTL

\* And every game so won is ranked: no poll takes the score that is rebuilt for
\* a new ball for one that went down (docs/VERIFY-BUG.md).
THEOREM WonGamesAreRanked ==
  ASSUME Sc!Constants
  PROVE  Sc!Spec => []Sc!WonIsRanked
<1>1. GInv => Sc!WonIsRanked
  BY DEF GInv, Logged
<1> QED
  BY <1>1, GInvAlways, PTL

\* The points each ball of a ranked game gets are those made on it, with its
\* bonus, although a ball's end is marked polls later.
THEOREM BallsGetTheirPoints ==
  ASSUME Sc!Constants
  PROVE  Sc!Spec => []Sc!BallScoresRight
<1>1. GInv => Sc!BallScoresRight
  BY DEF GInv, Logged
<1> QED
  BY <1>1, GInvAlways, PTL

\* No attempt claims a ball its game did not have, and the counter is never
\* seen going back, the last game's number that stands until the reset included.
THEOREM CounterIsTrue ==
  ASSUME Sc!Constants
  PROVE  Sc!Spec => []Sc!CounterTrue
<1>1. GInv => Sc!CounterTrue
  BY DEF GInv, Logged
<1> QED
  BY <1>1, GInvAlways, PTL

\* A behaviour of the parts is, for the score, one of its own.
LEMMA ScoreIsPart ==
  Spec => Sc!Spec
<1>1. Init => Sc!Init
  BY DEF Init
<1>2. [Next]_vars => Sc!Next \/ UNCHANGED score
  BY DEF Next, Only, vars
<1>3. UNCHANGED score => UNCHANGED Sc!vars
  BY DEF score, Sc!vars
<1> QED
  BY <1>1, <1>2, <1>3, PTL DEF Spec, Sc!Spec

\* RankedIsWon, the property of the run: all of these at once.
THEOREM ScoresAreTrue ==
  Spec => []RankedIsWon
<1>1. Sc!OpenWhilePlaying /\ Sc!RankedWasWon /\ Sc!WonIsRanked /\ Sc!BallScoresRight
        /\ Sc!CounterTrue => RankedIsWon
  BY DEF RankedIsWon
<1>2. Sc!Spec => [](Sc!OpenWhilePlaying /\ Sc!RankedWasWon /\ Sc!WonIsRanked
                      /\ Sc!BallScoresRight /\ Sc!CounterTrue)
  BY PartsAssumption, GamesAreSegmented, RankedGamesWereWon, WonGamesAreRanked,
     BallsGetTheirPoints, CounterIsTrue, PTL
<1> QED
  BY <1>1, <1>2, ScoreIsPart, PTL

(***************************************************************************)
(* The trainer, for any tables, any sites of theirs that are found and any *)
(* places a table is loaded at. The invariant: what is poked at is the     *)
(* table that runs (Follows), the pause's two phases are seen in their     *)
(* order (Handshake), the ball is held again with every tick (Controlled), *)
(* and what was last said of a site is so (Told).                          *)
(***************************************************************************)

Images == [prog : Tables \cup {Tr!Other}, balls : {"dec", "nop"}, tilt : {"add", "nop"},
           spring : BOOLEAN, paused : BOOLEAN, ion : BOOLEAN, wake : BOOLEAN,
           owed : {"no", "old", "new"}]

\* Nothing was written into a program that is not a table, and only a pause
\* turns the interrupts off or waits for a key.
Sound(m) ==
  /\ m \in [Places -> Images]
  /\ \A p \in Places : m[p].prog = Tr!Other => m[p] = Tr!Image(Tr!Other)
  /\ \A p \in Places : ~ m[p].ion \/ m[p].wake => m[p].paused

\* What is kept of a session is of its kind, places only of sites that were
\* found.
Whole(s) ==
  /\ Sound(s.mem)
  /\ s.running # None => /\ s.running \in [table : Tables, at : Places]
                         /\ s.mem[s.running.at].prog = s.running.table
  /\ s.fix_on \in BOOLEAN /\ s.spring \in BOOLEAN /\ s.table_num \in Tables \cup {None}
  /\ s.addr \in [Tr!Kinds -> [Tables -> Places \cup {None}]]
  /\ \A k \in Tr!Kinds, tb \in Tables : k \notin Sites[tb] => s.addr[k][tb] = None
  /\ s.prev \in [Tables -> BOOLEAN]

\* While a table is poked at, the kept places are in its image, and it is the
\* one that runs.
Follows(s) ==
  /\ s.fix_on =>
       /\ armed /\ s.table_num \in Tables
       /\ \A k \in Tr!Kinds : LET a == s.addr[k][s.table_num] IN
            a # None => s.mem[a].prog = s.table_num
       /\ s.running # None =>
            /\ s.running.table = s.table_num
            /\ \A k \in Sites[s.table_num] : s.addr[k][s.table_num] = s.running.at
  /\ armed /\ s.running # None => s.fix_on

\* A pause is seen by the tick before its end can be, and what was owed before
\* the end is gone with the tick after it.
Handshake(s, now) ==
  s.fix_on => LET a == s.addr["pause"][s.table_num]
                  was == s.prev[s.table_num] IN
    a # None =>
      /\ now => (was <=> s.mem[a].paused)
      /\ s.mem[a].wake => was
      /\ s.mem[a].owed = "new" => ~ s.mem[a].paused /\ ~ was
      /\ s.mem[a].owed = "old" => s.mem[a].paused \/ was

\* Ball control is on again with every tick.
Controlled(s, now) ==
  s.fix_on /\ s.spring /\ now => LET a == s.addr["spring"][s.table_num] IN
    a # None => s.mem[a].spring

\* What the screen says of a poked site.
Told ==
  osd # None =>
    /\ trainer /\ fix_on /\ osd \in {"balls", "tilt", "spring"} \X BOOLEAN
    /\ LET a == addr[osd[1]][table_num] IN
         /\ a # None
         /\ osd[1] = "balls" => (mem[a].balls = "nop" <=> osd[2])
         /\ osd[1] = "tilt" => (mem[a].tilt = "nop" <=> osd[2])
         /\ osd[1] = "spring" => (spring_cheat_on <=> osd[2])

Poked ==
  /\ armed \in BOOLEAN /\ trainer \in BOOLEAN /\ ticked \in BOOLEAN
  /\ Whole(Tr!State) /\ Follows(Tr!State)
  /\ Handshake(Tr!State, ticked) /\ Controlled(Tr!State, ticked)
  /\ Told
  /\ slot # None => armed /\ Whole(slot) /\ Follows(slot) /\ Handshake(slot, TRUE)

LEMMA ImageIs ==
  ASSUME NEW tb \in Tables \cup {Tr!Other}
  PROVE  /\ Tr!Image(tb) \in Images /\ Tr!Image(tb).prog = tb
         /\ Tr!Image(tb).ion /\ ~ Tr!Image(tb).wake /\ ~ Tr!Image(tb).paused
         /\ Tr!Image(tb).owed = "no"
  BY DEF Tr!Image, Images

\* A step that writes into images and leaves whose they are.
LEMMA PokeIsWhole ==
  ASSUME Whole(Tr!State), Follows(Tr!State), Sound(mem'),
         \A q \in Places : mem'[q].prog = mem[q].prog,
         UNCHANGED <<armed, running, fix_on, table_num, addr>>,
         spring_cheat_on' \in BOOLEAN, prev' \in [Tables -> BOOLEAN]
  PROVE  Whole(Tr!State)' /\ Follows(Tr!State)'
<1>1. Whole(Tr!State)'
  BY DEF Whole, Tr!State
<1>2. \A k \in Tr!Kinds : table_num \in Tables => addr[k][table_num] \in Places \cup {None}
  BY DEF Whole, Tr!State
<1>3. Follows(Tr!State)'
  BY <1>2 DEF Follows, Tr!State
<1> QED
  BY <1>1, <1>3

\* The places of a poked table.
LEMMA PlaceIs ==
  ASSUME NEW s, Whole(s), Follows(s), s.fix_on, NEW k \in Tr!Kinds, s.addr[k][s.table_num] # None
  PROVE  /\ s.addr[k][s.table_num] \in Places /\ s.table_num \in Tables
         /\ s.running # None => s.addr[k][s.table_num] = s.running.at
  BY DEF Whole, Follows

LEMMA RunningIs ==
  ASSUME Whole(Tr!State), running # None, PartsAssumption
  PROVE  /\ running.table \in Tables /\ running.at \in Places
         /\ mem \in [Places -> Images] /\ Tr!Mine \in Images
         /\ Tr!Mine = mem[running.at] /\ Tr!Mine.prog = running.table /\ Tr!Mine.prog # Tr!Other
<1>1. /\ running \in [table : Tables, at : Places] /\ mem[running.at].prog = running.table
      /\ mem \in [Places -> Images]
  BY DEF Whole, Sound, Tr!State
<1>2. running.table \in Tables /\ running.at \in Places
  BY <1>1
<1> QED
  BY <1>1, <1>2 DEF PartsAssumption, Tr!Constants, Tr!Mine

\* The running table writes into its own image.
LEMMA BecomesHolds ==
  ASSUME PartsAssumption, Poked, running # None, NEW i \in Images, Tr!Becomes(i),
         i.prog = Tr!Mine.prog, i.balls = Tr!Mine.balls, i.tilt = Tr!Mine.tilt,
         ~ i.ion \/ i.wake => i.paused,
         fix_on /\ addr["pause"][table_num] # None =>
           /\ i.wake => prev[table_num]
           /\ i.owed = "new" => ~ i.paused /\ ~ prev[table_num]
           /\ i.owed = "old" => i.paused \/ prev[table_num]
  PROVE  Poked'
<1>1. Whole(Tr!State) /\ Follows(Tr!State) /\ Told
  BY DEF Poked
<1>2. /\ running.at \in Places /\ mem \in [Places -> Images]
      /\ i.prog = mem[running.at].prog /\ i.balls = mem[running.at].balls
      /\ i.tilt = mem[running.at].tilt /\ i.prog # Tr!Other
  BY <1>1, RunningIs
<1>3. /\ mem' = [mem EXCEPT ![running.at] = i] /\ ~ ticked' /\ ticked' \in BOOLEAN
      /\ UNCHANGED <<armed, trainer, running, fix_on, table_num, spring_cheat_on, addr, prev, osd, slot>>
  BY DEF Tr!Becomes, Tr!fant
<1>4. \A q \in Places : mem'[q] = IF q = running.at THEN i ELSE mem[q]
  BY <1>2, <1>3
<1>5. mem' \in [Places -> Images]
  BY <1>2, <1>3
<1>6. Sound(mem')
  BY <1>1, <1>2, <1>4, <1>5 DEF Sound, Whole, Tr!State
<1>7. Whole(Tr!State)' /\ Follows(Tr!State)'
  BY <1>1, <1>2, <1>3, <1>4, <1>6, PokeIsWhole DEF Whole, Tr!State
<1>8. \A k \in Tr!Kinds : fix_on /\ addr[k][table_num] # None =>
        mem'[addr[k][table_num]] = i /\ addr[k][table_num] = running.at
  <2> SUFFICES ASSUME NEW k \in Tr!Kinds, fix_on, addr[k][table_num] # None
               PROVE  mem'[addr[k][table_num]] = i /\ addr[k][table_num] = running.at
    OBVIOUS
  <2>1. addr[k][table_num] = running.at
    BY <1>1, PlaceIs DEF Tr!State
  <2> QED
    BY <2>1, <1>2, <1>4
<1>9. "pause" \in Tr!Kinds /\ {"balls", "tilt", "spring"} \subseteq Tr!Kinds
  BY DEF Tr!Kinds
<1>10. Handshake(Tr!State, ticked)'
  BY <1>3, <1>8, <1>9 DEF Handshake, Tr!State
<1>11. Controlled(Tr!State, ticked)'
  BY <1>3 DEF Controlled
<1>12. Told'
  <2> SUFFICES ASSUME osd # None PROVE Told'
    BY <1>3 DEF Told
  <2>1. osd[1] \in Tr!Kinds
    BY <1>1, <1>9 DEF Told
  <2>2. fix_on /\ addr[osd[1]][table_num] # None
    BY <1>1 DEF Told
  <2>3. mem'[addr[osd[1]][table_num]] = i /\ addr[osd[1]][table_num] = running.at
    BY <2>1, <2>2, <1>8
  <2> QED
    BY <1>1, <1>2, <1>3, <2>3 DEF Told
<1> QED
  BY <1>3, <1>7, <1>10, <1>11, <1>12 DEF Poked, Follows

\* What is known of the image of the table that runs, where the pause is
\* looked at.
LEMMA MineIs ==
  ASSUME PartsAssumption, Poked, running # None
  PROVE  /\ ~ Tr!Mine.ion \/ Tr!Mine.wake => Tr!Mine.paused
         /\ Tr!Mine.spring \in BOOLEAN
         /\ fix_on /\ addr["pause"][table_num] # None =>
              /\ ticked => (prev[table_num] <=> Tr!Mine.paused)
              /\ Tr!Mine.wake => prev[table_num]
              /\ Tr!Mine.owed = "new" => ~ Tr!Mine.paused /\ ~ prev[table_num]
              /\ Tr!Mine.owed = "old" => Tr!Mine.paused \/ prev[table_num]
              /\ prev[table_num] \in BOOLEAN
<1>1. Whole(Tr!State) /\ Follows(Tr!State) /\ Handshake(Tr!State, ticked)
  BY DEF Poked
<1>2. running.at \in Places /\ Tr!Mine = mem[running.at] /\ Tr!Mine \in Images
  BY <1>1, RunningIs
<1>3. ~ Tr!Mine.ion \/ Tr!Mine.wake => Tr!Mine.paused
  BY <1>1, <1>2 DEF Whole, Sound, Tr!State
<1>4. Tr!Mine.spring \in BOOLEAN
  BY <1>2 DEF Images
<1>5. ASSUME fix_on, addr["pause"][table_num] # None
      PROVE  addr["pause"][table_num] = running.at /\ prev[table_num] \in BOOLEAN
  <2>1. "pause" \in Tr!Kinds
    BY DEF Tr!Kinds
  <2>2. table_num \in Tables /\ addr["pause"][table_num] = running.at
    BY <1>1, <1>5, <2>1, PlaceIs DEF Tr!State
  <2> QED
    BY <1>1, <2>2 DEF Whole, Tr!State
<1> QED
  BY <1>1, <1>2, <1>3, <1>4, <1>5 DEF Handshake, Tr!State

LEMMA PauseKeyHolds ==
  ASSUME PartsAssumption, Poked, Tr!PauseKey
  PROVE  Poked'
<1> DEFINE m == Tr!Mine
           i == [m EXCEPT !.paused = TRUE, !.owed = IF @ = "new" THEN "old" ELSE @]
<1>1. running # None /\ ticked /\ ~ m.paused /\ Tr!Becomes(i)
  BY DEF Tr!PauseKey
<1>2. m \in Images
  BY <1>1, RunningIs DEF Poked
<1> HIDE DEF m
<1>3. /\ i \in Images /\ i.prog = m.prog /\ i.balls = m.balls /\ i.tilt = m.tilt
      /\ i.paused /\ i.wake = m.wake /\ i.owed # "new" /\ (i.owed = "old" => m.owed # "no")
  BY <1>2 DEF Images
<1> HIDE DEF i
<1>4. ~ m.wake
  BY <1>1, MineIs DEF m
<1> QED
  BY <1>1, <1>3, <1>4, BecomesHolds, MineIs DEF m

LEMMA CheckPauseHolds ==
  ASSUME PartsAssumption, Poked, Tr!CheckPause
  PROVE  Poked'
<1> DEFINE m == Tr!Mine
           i == [m EXCEPT !.ion = FALSE]
<1>1. running # None /\ m.paused /\ Tr!Becomes(i)
  BY DEF Tr!CheckPause
<1>2. m \in Images
  BY <1>1, RunningIs DEF Poked
<1> HIDE DEF m
<1>3. /\ i \in Images /\ i.prog = m.prog /\ i.balls = m.balls /\ i.tilt = m.tilt
      /\ i.paused = m.paused /\ i.wake = m.wake /\ i.owed = m.owed
  BY <1>2 DEF Images
<1> HIDE DEF i
<1> QED
  BY <1>1, <1>3, BecomesHolds, MineIs DEF m

LEMMA WakeKeyHolds ==
  ASSUME PartsAssumption, Poked, Tr!WakeKey
  PROVE  Poked'
<1> DEFINE m == Tr!Mine
           i == [m EXCEPT !.wake = TRUE]
<1>1. running # None /\ ticked /\ ~ m.ion /\ Tr!Becomes(i)
  BY DEF Tr!WakeKey
<1>2. m \in Images
  BY <1>1, RunningIs DEF Poked
<1> HIDE DEF m
<1>3. /\ i \in Images /\ i.prog = m.prog /\ i.balls = m.balls /\ i.tilt = m.tilt
      /\ i.paused = m.paused /\ i.owed = m.owed
  BY <1>2 DEF Images
<1> HIDE DEF i
<1>4. m.paused
  BY <1>1, MineIs DEF m
<1> QED
  BY <1>1, <1>3, <1>4, BecomesHolds, MineIs DEF m

LEMMA ResumeFirstHolds ==
  ASSUME PartsAssumption, Poked, Tr!ResumeFirst
  PROVE  Poked'
<1> DEFINE m == Tr!Mine
           i == [m EXCEPT !.ion = TRUE]
<1>1. running # None /\ m.wake /\ Tr!Becomes(i)
  BY DEF Tr!ResumeFirst
<1>2. m \in Images
  BY <1>1, RunningIs DEF Poked
<1> HIDE DEF m
<1>3. /\ i \in Images /\ i.prog = m.prog /\ i.balls = m.balls /\ i.tilt = m.tilt
      /\ i.paused = m.paused /\ i.wake = m.wake /\ i.owed = m.owed
  BY <1>2 DEF Images
<1> HIDE DEF i
<1> QED
  BY <1>1, <1>3, BecomesHolds, MineIs DEF m

LEMMA ResumeLastHolds ==
  ASSUME PartsAssumption, Poked, Tr!ResumeLast
  PROVE  Poked'
<1> DEFINE m == Tr!Mine
           i == [m EXCEPT !.paused = FALSE, !.wake = FALSE]
<1>1. running # None /\ m.wake /\ m.ion /\ Tr!Becomes(i)
  BY DEF Tr!ResumeLast
<1>2. m \in Images
  BY <1>1, RunningIs DEF Poked
<1> HIDE DEF m
<1>3. /\ i \in Images /\ i.prog = m.prog /\ i.balls = m.balls /\ i.tilt = m.tilt
      /\ ~ i.paused /\ ~ i.wake /\ i.ion = m.ion /\ i.owed = m.owed
  BY <1>2 DEF Images
<1> HIDE DEF i
<1> QED
  BY <1>1, <1>3, BecomesHolds, MineIs DEF m

LEMMA BygelHolds ==
  ASSUME PartsAssumption, Poked, Tr!Bygel
  PROVE  Poked'
<1> DEFINE m == Tr!Mine
           i == [m EXCEPT !.spring = ~ @]
<1>1. running # None /\ Tr!Becomes(i)
  BY DEF Tr!Bygel
<1>2. m \in Images
  BY <1>1, RunningIs DEF Poked
<1> HIDE DEF m
<1>3. /\ i \in Images /\ i.prog = m.prog /\ i.balls = m.balls /\ i.tilt = m.tilt
      /\ i.paused = m.paused /\ i.wake = m.wake /\ i.ion = m.ion /\ i.owed = m.owed
  BY <1>2 DEF Images
<1> HIDE DEF i
<1> QED
  BY <1>1, <1>3, BecomesHolds, MineIs DEF m

LEMMA VBlankHolds ==
  ASSUME PartsAssumption, Poked, Tr!VBLANK_INT \/ Tr!LATE_RASTER_INTERRUPT
  PROVE  Poked'
<1> DEFINE m == Tr!Mine
<1>1. PICK w \in {"no", "old", "new"} :
        /\ running # None /\ ticked /\ Tr!Becomes([m EXCEPT !.owed = w])
        /\ w = "old" => m.paused
        /\ w = "new" => ~ m.paused
  BY DEF Tr!VBLANK_INT, Tr!LATE_RASTER_INTERRUPT
<1>2. m \in Images
  BY <1>1, RunningIs DEF Poked
<1> HIDE DEF m
<1> DEFINE i == [m EXCEPT !.owed = w]
<1>3. /\ i \in Images /\ i.prog = m.prog /\ i.balls = m.balls /\ i.tilt = m.tilt
      /\ i.paused = m.paused /\ i.wake = m.wake /\ i.ion = m.ion /\ i.owed = w
  BY <1>2 DEF Images
<1>4. Tr!Becomes(i)
  BY <1>1
<1> HIDE DEF i
<1> QED
  BY <1>1, <1>3, <1>4, BecomesHolds, MineIs DEF m

LEMMA LoadedIs ==
  ASSUME PartsAssumption, NEW tb \in Tables \cup {Tr!Other}, NEW p \in Places
  PROVE  /\ Sound(Tr!Loaded(tb, p))
         /\ \A q \in Places : Tr!Loaded(tb, p)[q] = Tr!Image(IF q = p THEN tb ELSE Tr!Other)
<1>1. \A x \in Tables \cup {Tr!Other} :
        /\ Tr!Image(x) \in Images /\ Tr!Image(x).prog = x
        /\ Tr!Image(x).ion /\ ~ Tr!Image(x).wake
  BY ImageIs
<1>2. \A q \in Places : Tr!Loaded(tb, p)[q] = Tr!Image(IF q = p THEN tb ELSE Tr!Other)
  BY DEF Tr!Loaded
<1>3. Tr!Loaded(tb, p) \in [Places -> Images]
  <2>1. \A q \in Places : Tr!Image(IF q = p THEN tb ELSE Tr!Other) \in Images
    BY <1>1
  <2> QED
    BY <2>1 DEF Tr!Loaded
<1>4. \A q \in Places : Tr!Loaded(tb, p)[q].prog = Tr!Other
         => Tr!Loaded(tb, p)[q] = Tr!Image(Tr!Other)
  BY <1>1, <1>2
<1>5. \A q \in Places : Tr!Loaded(tb, p)[q].ion /\ ~ Tr!Loaded(tb, p)[q].wake
  BY <1>1, <1>2
<1> QED
  BY <1>2, <1>3, <1>4, <1>5 DEF Sound

\* The places kept after a scan.
LEMMA LocatedIs ==
  ASSUME PartsAssumption, Whole(Tr!State), NEW tb \in Tables, NEW p \in Places
  PROVE  /\ Tr!Located(tb, p) \in [Tr!Kinds -> [Tables -> Places \cup {None}]]
         /\ \A k \in Tr!Kinds : Tr!Located(tb, p)[k][tb] = IF k \in Sites[tb] THEN p ELSE None
         /\ \A k \in Tr!Kinds, x \in Tables : k \notin Sites[x] => Tr!Located(tb, p)[k][x] = None
<1>1. /\ addr \in [Tr!Kinds -> [Tables -> Places \cup {None}]]
      /\ \A k \in Tr!Kinds, x \in Tables : k \notin Sites[x] => addr[k][x] = None
  BY DEF Whole, Tr!State
<1> DEFINE l == Tr!Located(tb, p)
           New(k) == IF k \in Sites[tb] THEN [addr[k] EXCEPT ![tb] = p]
                     ELSE [addr[k] EXCEPT ![tb] = None]
<1>2. \A k \in Tr!Kinds : addr[k] \in [Tables -> Places \cup {None}]
  BY <1>1
<1>3. \A k \in Tr!Kinds : k \notin Sites[tb] => addr[k] = [addr[k] EXCEPT ![tb] = None]
  BY <1>1, <1>2
<1>4. /\ l["balls"] = New("balls") /\ l["tilt"] = New("tilt")
      /\ l["spring"] = New("spring") /\ l["pause"] = New("pause")
      /\ DOMAIN l = Tr!Kinds
      /\ l = [k \in Tr!Kinds |-> l[k]]
  <2>0. l = [balls |-> Tr!patch_balls(tb, p), tilt |-> Tr!patch_tilt(tb, p),
             spring |-> Tr!patch_spring(tb, p), pause |-> Tr!patch_pause(tb, p)]
    BY DEF Tr!Located
  <2> HIDE DEF l
  <2>1. l["balls"] = New("balls")
    <3>1. l["balls"] = Tr!patch_balls(tb, p)
      BY <2>0
    <3> QED
      BY <3>1 DEF Tr!patch_balls
  <2>2. l["tilt"] = New("tilt")
    <3>1. l["tilt"] = Tr!patch_tilt(tb, p)
      BY <2>0
    <3> QED
      BY <3>1 DEF Tr!patch_tilt
  <2>3. l["spring"] = New("spring")
    <3>1. l["spring"] = Tr!patch_spring(tb, p)
      BY <2>0
    <3> QED
      BY <3>1, <1>3 DEF Tr!patch_spring, Tr!Kinds
  <2>4. l["pause"] = New("pause")
    <3>1. l["pause"] = Tr!patch_pause(tb, p)
      BY <2>0
    <3> QED
      BY <3>1, <1>3 DEF Tr!patch_pause, Tr!Kinds
  <2>5. DOMAIN l = Tr!Kinds
    BY <2>0 DEF Tr!Kinds
  <2>6. l = [k \in DOMAIN l |-> l[k]]
    BY <2>0
  <2> QED
    BY <2>1, <2>2, <2>3, <2>4, <2>5, <2>6
<1> HIDE DEF l
<1>5. \A k \in Tr!Kinds : l[k] = New(k)
  BY <1>4 DEF Tr!Kinds
<1>6. \A k \in Tr!Kinds : New(k) \in [Tables -> Places \cup {None}]
  BY <1>2
<1>7. \A k \in Tr!Kinds, x \in Tables :
        New(k)[x] = IF x = tb THEN IF k \in Sites[tb] THEN p ELSE None ELSE addr[k][x]
  BY <1>2
<1> HIDE DEF New
<1>8. l \in [Tr!Kinds -> [Tables -> Places \cup {None}]]
  BY <1>4, <1>5, <1>6
<1>9. \A k \in Tr!Kinds : l[k][tb] = IF k \in Sites[tb] THEN p ELSE None
  BY <1>5, <1>7
<1>10. \A k \in Tr!Kinds, x \in Tables : k \notin Sites[x] => l[k][x] = None
  BY <1>1, <1>5, <1>7
<1> QED
  BY <1>8, <1>9, <1>10 DEF l

LEMMA ExecTableHolds ==
  ASSUME PartsAssumption, Poked, NEW tb \in Tables, NEW p \in Places, Tr!ExecTable(tb, p)
  PROVE  Poked'
<1>1. Whole(Tr!State) /\ Follows(Tr!State)
  BY DEF Poked
<1>2. /\ mem' = Tr!Loaded(tb, p) /\ running' = [table |-> tb, at |-> p]
      /\ spring_cheat_on' = FALSE /\ osd' = None
      /\ ticked' = FALSE /\ UNCHANGED <<armed, trainer, slot>>
      /\ IF armed
         THEN /\ addr' = Tr!Located(tb, p)
              /\ prev' = IF "pause" \in Sites[tb] THEN [prev EXCEPT ![tb] = FALSE] ELSE prev
              /\ fix_on' = TRUE /\ table_num' = tb
         ELSE fix_on' = FALSE /\ table_num' = None /\ UNCHANGED <<addr, prev>>
  BY DEF Tr!ExecTable
<1>3. Sound(mem') /\ mem'[p] = Tr!Image(tb)
  BY <1>2, LoadedIs
<1>4. /\ mem'[p].prog = tb /\ mem'[p].owed = "no" /\ ~ mem'[p].wake
  BY <1>3, ImageIs
<1>5. running'.table = tb /\ running'.at = p /\ running' \in [table : Tables, at : Places]
  BY <1>2
<1>6. /\ addr \in [Tr!Kinds -> [Tables -> Places \cup {None}]] /\ prev \in [Tables -> BOOLEAN]
      /\ \A k \in Tr!Kinds, x \in Tables : k \notin Sites[x] => addr[k][x] = None
  BY <1>1 DEF Whole, Tr!State
<1>7. /\ addr' \in [Tr!Kinds -> [Tables -> Places \cup {None}]]
      /\ \A k \in Tr!Kinds, x \in Tables : k \notin Sites[x] => addr'[k][x] = None
  BY <1>1, <1>2, <1>6, LocatedIs
<1>8. prev' \in [Tables -> BOOLEAN]
  BY <1>2, <1>6
<1>9. armed => \A k \in Tr!Kinds : addr'[k][tb] = IF k \in Sites[tb] THEN p ELSE None
  BY <1>1, <1>2, LocatedIs
<1>10. Whole(Tr!State)'
  BY <1>2, <1>3, <1>4, <1>5, <1>7, <1>8 DEF Whole, Tr!State
<1>11. Sites[tb] \subseteq Tr!Kinds
  BY DEF PartsAssumption, Tr!Constants
<1>12. Follows(Tr!State)'
  BY <1>2, <1>4, <1>5, <1>9, <1>11 DEF Follows, Tr!State
<1>13. Handshake(Tr!State, ticked)'
  <2>1. "pause" \in Tr!Kinds
    BY DEF Tr!Kinds
  <2> QED
    BY <1>2, <1>4, <1>9, <2>1 DEF Handshake, Tr!State
<1>14. Controlled(Tr!State, ticked)' /\ Told'
  BY <1>2 DEF Controlled, Told
<1>15. ticked' \in BOOLEAN
  BY <1>2
<1> QED
  BY <1>2, <1>10, <1>12, <1>13, <1>14, <1>15 DEF Poked, Follows

LEMMA ExecOtherHolds ==
  ASSUME PartsAssumption, Poked, NEW p \in Places, Tr!ExecOther(p)
  PROVE  Poked'
<1>1. Whole(Tr!State) /\ Follows(Tr!State)
  BY DEF Poked
<1>2. /\ mem' = Tr!Loaded(Tr!Other, p) /\ running' = None /\ fix_on' = FALSE
      /\ table_num' = None /\ spring_cheat_on' = FALSE /\ osd' = None /\ ticked' = FALSE
      /\ UNCHANGED <<armed, trainer, addr, prev, slot>>
  BY DEF Tr!ExecOther, Tr!LeavesTable
<1>3. Sound(mem')
  BY <1>2, LoadedIs
<1>4. Whole(Tr!State)'
  BY <1>1, <1>2, <1>3 DEF Whole, Tr!State
<1>5. Follows(Tr!State)' /\ Handshake(Tr!State, ticked)' /\ Controlled(Tr!State, ticked)' /\ Told'
  BY <1>2 DEF Follows, Handshake, Controlled, Told, Tr!State
<1>6. ticked' \in BOOLEAN
  BY <1>2
<1> QED
  BY <1>2, <1>4, <1>5, <1>6 DEF Poked, Follows

\* A driver is loaded beside the table that runs, never over it.
LEMMA ExecDriverHolds ==
  ASSUME PartsAssumption, Poked, NEW p \in Places, Tr!ExecDriver(p)
  PROVE  Poked'
<1>1. Whole(Tr!State) /\ Follows(Tr!State) /\ Handshake(Tr!State, ticked) /\ Told
  BY DEF Poked
<1>2. /\ running # None /\ p # running.at
      /\ mem' = [mem EXCEPT ![p] = Tr!Image(Tr!Other)]
      /\ IF armed THEN UNCHANGED <<fix_on, table_num, spring_cheat_on, osd>>
         ELSE fix_on' = FALSE /\ table_num' = None /\ spring_cheat_on' = FALSE /\ osd' = None
      /\ ticked' = FALSE /\ UNCHANGED <<armed, trainer, running, addr, prev, slot>>
  BY DEF Tr!ExecDriver
<1>3. running.at \in Places /\ mem \in [Places -> Images]
  BY <1>1, <1>2, RunningIs
<1>4. /\ Tr!Image(Tr!Other) \in Images /\ Tr!Image(Tr!Other).prog = Tr!Other
      /\ Tr!Image(Tr!Other).ion /\ ~ Tr!Image(Tr!Other).wake
  BY ImageIs
<1>5. \A q \in Places : mem'[q] = IF q = p THEN Tr!Image(Tr!Other) ELSE mem[q]
  BY <1>2, <1>3
<1>6. mem' \in [Places -> Images]
  BY <1>2, <1>3, <1>4
<1>7. Sound(mem')
  BY <1>1, <1>4, <1>5, <1>6 DEF Sound, Whole, Tr!State
<1>8. mem'[running.at] = mem[running.at]
  BY <1>2, <1>3, <1>5
<1>9. Whole(Tr!State)'
  BY <1>1, <1>2, <1>7, <1>8 DEF Whole, Tr!State
<1>10. \A k \in Tr!Kinds : fix_on /\ addr[k][table_num] # None =>
         addr[k][table_num] = running.at /\ mem'[addr[k][table_num]] = mem[addr[k][table_num]]
  BY <1>1, <1>2, <1>8, PlaceIs DEF Tr!State
<1>11. Follows(Tr!State)'
  BY <1>1, <1>2, <1>10 DEF Follows, Tr!State
<1>12. Tr!Kinds = {"balls", "tilt", "spring", "pause"}
  BY DEF Tr!Kinds
<1>13. Handshake(Tr!State, ticked)' /\ Controlled(Tr!State, ticked)'
  BY <1>1, <1>2, <1>10, <1>12 DEF Handshake, Controlled, Tr!State
<1>14. Told'
  <2> SUFFICES ASSUME osd # None, armed PROVE Told'
    BY <1>1, <1>2 DEF Told
  <2>1. osd[1] \in Tr!Kinds /\ fix_on /\ addr[osd[1]][table_num] # None
    BY <1>1, <1>12 DEF Told
  <2>2. mem'[addr[osd[1]][table_num]] = mem[addr[osd[1]][table_num]]
    BY <1>10, <2>1
  <2> QED
    BY <1>1, <1>2, <2>2 DEF Told
<1>15. ticked' \in BOOLEAN
  BY <1>2
<1> QED
  BY <1>2, <1>9, <1>11, <1>13, <1>14, <1>15 DEF Poked, Follows

LEMMA ExitHolds ==
  ASSUME Poked, Tr!Exit
  PROVE  Poked'
<1>1. /\ running' = None /\ ticked' = FALSE
      /\ UNCHANGED <<armed, trainer, mem, fix_on, table_num, spring_cheat_on, addr, prev, osd, slot>>
  BY DEF Tr!Exit, Tr!fant
<1>2. /\ Whole(Tr!State) /\ Follows(Tr!State) /\ Handshake(Tr!State, ticked) /\ Told
  BY DEF Poked
<1>3. Whole(Tr!State)' /\ Follows(Tr!State)' /\ Handshake(Tr!State, ticked)'
  BY <1>1, <1>2 DEF Whole, Follows, Handshake, Tr!State
<1>4. Controlled(Tr!State, ticked)' /\ Told'
  BY <1>1, <1>2 DEF Controlled, Told
<1>5. ticked' \in BOOLEAN
  BY <1>1
<1> QED
  BY <1>1, <1>3, <1>4, <1>5 DEF Poked, Follows

\* A write into the image a poked site is in.
LEMMA ImageWith ==
  ASSUME NEW m, Sound(m), NEW a \in Places, m[a].prog # Tr!Other, NEW i \in Images,
         i.prog = m[a].prog, ~ i.ion \/ i.wake => i.paused
  PROVE  /\ Sound([m EXCEPT ![a] = i])
         /\ \A q \in Places : [m EXCEPT ![a] = i][q] = IF q = a THEN i ELSE m[q]
<1>1. m \in [Places -> Images]
  BY DEF Sound
<1>2. \A q \in Places : [m EXCEPT ![a] = i][q] = IF q = a THEN i ELSE m[q]
  BY <1>1
<1>3. [m EXCEPT ![a] = i] \in [Places -> Images]
  BY <1>1
<1> QED
  BY <1>2, <1>3 DEF Sound

\* What is written there leaves the pause as it is.
LEMMA FieldsOf ==
  ASSUME NEW i \in Images
  PROVE  /\ \A z \in {"dec", "nop"} : LET j == [i EXCEPT !.balls = z] IN
              /\ j \in Images /\ j.balls = z
              /\ j.prog = i.prog /\ j.paused = i.paused /\ j.ion = i.ion /\ j.wake = i.wake
              /\ j.owed = i.owed /\ j.spring = i.spring /\ j.tilt = i.tilt
         /\ \A z \in {"add", "nop"} : LET j == [i EXCEPT !.tilt = z] IN
              /\ j \in Images /\ j.tilt = z
              /\ j.prog = i.prog /\ j.paused = i.paused /\ j.ion = i.ion /\ j.wake = i.wake
              /\ j.owed = i.owed /\ j.spring = i.spring /\ j.balls = i.balls
         /\ \A z \in BOOLEAN : LET j == [i EXCEPT !.spring = z] IN
              /\ j \in Images /\ (j.spring <=> z)
              /\ j.prog = i.prog /\ j.paused = i.paused /\ j.ion = i.ion /\ j.wake = i.wake
              /\ j.owed = i.owed /\ j.balls = i.balls /\ j.tilt = i.tilt
         /\ LET j == [i EXCEPT !.owed = "no"] IN
              /\ j \in Images /\ j.owed = "no"
              /\ j.prog = i.prog /\ j.paused = i.paused /\ j.ion = i.ion /\ j.wake = i.wake
              /\ j.spring = i.spring /\ j.balls = i.balls /\ j.tilt = i.tilt
  BY DEF Images

\* A poked site is in a table's image.
LEMMA SiteIs ==
  ASSUME PartsAssumption, Whole(Tr!State), Follows(Tr!State), fix_on, NEW k \in Tr!Kinds,
         addr[k][table_num] # None
  PROVE  LET a == addr[k][table_num] IN
         /\ a \in Places /\ table_num \in Tables /\ mem[a].prog = table_num
         /\ mem[a].prog # Tr!Other /\ mem[a] \in Images /\ Sound(mem)
         /\ (~ mem[a].ion \/ mem[a].wake => mem[a].paused)
<1>1. addr[k][table_num] \in Places /\ table_num \in Tables
  BY PlaceIs DEF Tr!State
<1>2. mem[addr[k][table_num]].prog = table_num /\ Sound(mem)
  BY DEF Whole, Follows, Tr!State
<1>3. mem \in [Places -> Images]
  BY <1>2 DEF Sound
<1> QED
  BY <1>1, <1>2, <1>3 DEF PartsAssumption, Tr!Constants, Sound

\* The repair of the handshake.
LEMMA AfterPause ==
  ASSUME PartsAssumption, Whole(Tr!State), Follows(Tr!State), fix_on, table_num \in Tables
  PROVE  LET m == Tr!AfterPauseTick(mem)
             a == addr["pause"][table_num] IN
         /\ Sound(m)
         /\ \A q \in Places :
              /\ m[q].prog = mem[q].prog /\ m[q].balls = mem[q].balls /\ m[q].tilt = mem[q].tilt
              /\ m[q].paused = mem[q].paused /\ m[q].ion = mem[q].ion /\ m[q].wake = mem[q].wake
              /\ m[q].owed = IF q = a /\ prev[table_num] /\ ~ mem[q].paused THEN "no" ELSE mem[q].owed
              /\ q # a => m[q] = mem[q]
<1> DEFINE a == addr["pause"][table_num]
           i == [mem[a] EXCEPT !.owed = "no"]
<1>1. "pause" \in Tr!Kinds
  BY DEF Tr!Kinds
<1>2. Sound(mem) /\ None \notin Places
  BY DEF Whole, Tr!State, PartsAssumption, Tr!Constants
<1>3. CASE a = None \/ ~ (prev[table_num] /\ ~ mem[a].paused)
  <2>1. Tr!AfterPauseTick(mem) = mem
    BY <1>3 DEF Tr!AfterPauseTick, Tr!PauseEnded
  <2> QED
    BY <1>2, <1>3, <2>1
<1>4. CASE a # None /\ prev[table_num] /\ ~ mem[a].paused
  <2>1. /\ a \in Places /\ mem[a].prog # Tr!Other /\ mem[a] \in Images
        /\ (~ mem[a].ion \/ mem[a].wake => mem[a].paused)
    BY <1>1, <1>4, SiteIs
  <2>2. mem \in [Places -> Images]
    BY <1>2 DEF Sound
  <2>3. Tr!AfterPauseTick(mem) = [mem EXCEPT ![a] = i]
    BY <1>4, <2>1, <2>2 DEF Tr!AfterPauseTick, Tr!PauseEnded
  <2> HIDE DEF a
  <2>4. /\ i \in Images /\ i.owed = "no"
        /\ i.prog = mem[a].prog /\ i.paused = mem[a].paused /\ i.ion = mem[a].ion
        /\ i.wake = mem[a].wake /\ i.balls = mem[a].balls /\ i.tilt = mem[a].tilt
    BY <2>1, FieldsOf
  <2> HIDE DEF i
  <2>5. /\ Sound([mem EXCEPT ![a] = i])
        /\ \A q \in Places : [mem EXCEPT ![a] = i][q] = IF q = a THEN i ELSE mem[q]
    BY <1>2, <2>1, <2>4, ImageWith
  <2> QED
    BY <1>4, <2>3, <2>4, <2>5 DEF a
<1> QED
  BY <1>3, <1>4

\* And ball control on top of it.
LEMMA AfterSpring ==
  ASSUME PartsAssumption, Whole(Tr!State), Follows(Tr!State), fix_on, table_num \in Tables,
         NEW m, Sound(m), \A q \in Places : m[q].prog = mem[q].prog
  PROVE  LET r == Tr!AfterSpringTick(m)
             a == addr["spring"][table_num] IN
         /\ Sound(r)
         /\ \A q \in Places :
              /\ r[q].prog = m[q].prog /\ r[q].balls = m[q].balls /\ r[q].tilt = m[q].tilt
              /\ r[q].paused = m[q].paused /\ r[q].ion = m[q].ion /\ r[q].wake = m[q].wake
              /\ r[q].owed = m[q].owed
              /\ q # a => r[q] = m[q]
              /\ q = a /\ spring_cheat_on => r[q].spring
<1> DEFINE a == addr["spring"][table_num]
           i == [m[a] EXCEPT !.spring = TRUE]
<1>1. "spring" \in Tr!Kinds
  BY DEF Tr!Kinds
<1>2. None \notin Places
  BY DEF PartsAssumption, Tr!Constants
<1>3. CASE ~ spring_cheat_on \/ a = None
  BY <1>2, <1>3 DEF Tr!AfterSpringTick
<1>4. CASE spring_cheat_on /\ a # None
  <2>1. a \in Places /\ mem[a].prog # Tr!Other
    BY <1>1, <1>4, SiteIs
  <2>2. m \in [Places -> Images] /\ (~ m[a].ion \/ m[a].wake => m[a].paused)
    BY <2>1 DEF Sound
  <2>3. Tr!AfterSpringTick(m) = [m EXCEPT ![a] = i]
    BY <1>4, <2>1, <2>2 DEF Tr!AfterSpringTick
  <2> HIDE DEF a
  <2>4. /\ i \in Images /\ i.spring
        /\ i.prog = m[a].prog /\ i.paused = m[a].paused /\ i.ion = m[a].ion /\ i.wake = m[a].wake
        /\ i.owed = m[a].owed /\ i.balls = m[a].balls /\ i.tilt = m[a].tilt
    <3>1. m[a] \in Images /\ TRUE \in BOOLEAN
      BY <2>1, <2>2
    <3> QED
      BY <3>1, FieldsOf
  <2> HIDE DEF i
  <2>5. /\ Sound([m EXCEPT ![a] = i])
        /\ \A q \in Places : [m EXCEPT ![a] = i][q] = IF q = a THEN i ELSE m[q]
    BY <2>1, <2>2, <2>4, ImageWith
  <2> QED
    BY <2>3, <2>4, <2>5 DEF a
<1> QED
  BY <1>3, <1>4

LEMMA TickHolds ==
  ASSUME PartsAssumption, Poked, Tr!Tick
  PROVE  Poked'
<1>1. Whole(Tr!State) /\ Follows(Tr!State) /\ Handshake(Tr!State, ticked) /\ Told
  BY DEF Poked
<1>2. /\ ~ ticked /\ ticked' = TRUE
      /\ UNCHANGED <<armed, trainer, running, fix_on, table_num, spring_cheat_on, addr, osd, slot>>
  BY DEF Tr!Tick
<1>3. CASE fix_on
  <2> DEFINE a == addr["pause"][table_num]
             b == addr["spring"][table_num]
             m == Tr!AfterPauseTick(mem)
  <2>1. table_num \in Tables /\ armed
    BY <1>1, <1>3 DEF Follows, Tr!State
  <2>2. table_num # None
    BY <2>1 DEF PartsAssumption, Tr!Constants
  <2>3. mem' = Tr!AfterSpringTick(m) /\ prev' = IF a = None THEN prev ELSE [prev EXCEPT ![table_num] = mem[a].paused]
    BY <1>3, <2>1, <2>2 DEF Tr!Tick, Tr!fix_active
  <2>4. /\ Sound(m)
        /\ \A q \in Places :
              /\ m[q].prog = mem[q].prog /\ m[q].balls = mem[q].balls /\ m[q].tilt = mem[q].tilt
              /\ m[q].paused = mem[q].paused /\ m[q].ion = mem[q].ion /\ m[q].wake = mem[q].wake
              /\ m[q].owed = IF q = a /\ prev[table_num] /\ ~ mem[q].paused THEN "no" ELSE mem[q].owed
    BY <1>1, <1>3, <2>1, AfterPause
  <2> HIDE DEF m
  <2>5. /\ Sound(mem')
        /\ \A q \in Places :
              /\ mem'[q].prog = mem[q].prog /\ mem'[q].balls = mem[q].balls
              /\ mem'[q].tilt = mem[q].tilt /\ mem'[q].paused = mem[q].paused
              /\ mem'[q].wake = mem[q].wake
              /\ mem'[q].owed = IF q = a /\ prev[table_num] /\ ~ mem[q].paused THEN "no" ELSE mem[q].owed
              /\ q = b /\ spring_cheat_on => mem'[q].spring
    BY <1>1, <1>3, <2>1, <2>3, <2>4, AfterSpring
  <2>6. Tr!Kinds = {"balls", "tilt", "spring", "pause"}
    BY DEF Tr!Kinds
  <2>7. prev \in [Tables -> BOOLEAN] /\ spring_cheat_on \in BOOLEAN
    BY <1>1 DEF Whole, Tr!State
  <2>8. a # None => a \in Places /\ mem[a].paused \in BOOLEAN
    <3> SUFFICES ASSUME a # None PROVE a \in Places /\ mem[a].paused \in BOOLEAN
      OBVIOUS
    <3>1. a \in Places /\ mem[a] \in Images
      BY <1>1, <1>3, <2>6, SiteIs
    <3> QED
      BY <3>1 DEF Images
  <2>9. b # None => b \in Places
    BY <1>1, <1>3, <2>6, SiteIs
  <2>10. prev' \in [Tables -> BOOLEAN] /\ (a # None => (prev'[table_num] <=> mem[a].paused))
    BY <2>1, <2>3, <2>7, <2>8
  <2>11. Whole(Tr!State)' /\ Follows(Tr!State)'
    BY <1>1, <1>2, <2>5, <2>7, <2>10, PokeIsWhole
  <2>12. Handshake(Tr!State, ticked)'
    <3> SUFFICES ASSUME a # None
                 PROVE  /\ prev'[table_num] <=> mem'[a].paused
                        /\ mem'[a].wake => prev'[table_num]
                        /\ mem'[a].owed = "new" => ~ mem'[a].paused /\ ~ prev'[table_num]
                        /\ mem'[a].owed = "old" => mem'[a].paused \/ prev'[table_num]
      BY <1>2 DEF Handshake, Tr!State
    <3>1. /\ mem[a].wake => mem[a].paused
          /\ mem[a].owed = "new" => ~ mem[a].paused /\ ~ prev[table_num]
          /\ mem[a].owed = "old" => mem[a].paused \/ prev[table_num]
      <4>1. mem[a].wake => mem[a].paused
        BY <1>1, <2>8 DEF Whole, Sound, Tr!State
      <4> QED
        BY <1>1, <1>3, <4>1 DEF Handshake, Tr!State
    <3>2. /\ mem'[a].paused = mem[a].paused /\ mem'[a].wake = mem[a].wake
          /\ mem'[a].owed = IF prev[table_num] /\ ~ mem[a].paused THEN "no" ELSE mem[a].owed
      BY <2>5, <2>8
    <3> QED
      BY <2>10, <3>1, <3>2
  <2>13. Controlled(Tr!State, ticked)'
    BY <1>2, <2>5, <2>9 DEF Controlled, Tr!State
  <2>14. Told'
    <3> SUFFICES ASSUME osd # None PROVE Told'
      BY <1>2 DEF Told
    <3>1. osd[1] \in Tr!Kinds /\ addr[osd[1]][table_num] # None
      BY <1>1, <2>6 DEF Told
    <3>2. addr[osd[1]][table_num] \in Places
      BY <1>1, <1>3, <3>1, SiteIs
    <3> QED
      BY <1>1, <1>2, <2>5, <3>2 DEF Told
  <2> QED
    BY <1>2, <2>11, <2>12, <2>13, <2>14 DEF Poked, Follows
<1>4. CASE ~ fix_on
  <2>1. UNCHANGED <<mem, prev>>
    BY <1>4 DEF Tr!Tick, Tr!fix_active
  <2>2. Whole(Tr!State)' /\ Follows(Tr!State)'
    BY <1>1, <1>2, <2>1 DEF Whole, Follows, Tr!State
  <2>3. Handshake(Tr!State, ticked)' /\ Controlled(Tr!State, ticked)' /\ Told'
    BY <1>1, <1>2, <1>4 DEF Handshake, Controlled, Told, Tr!State
  <2> QED
    BY <1>2, <2>2, <2>3 DEF Poked, Follows
<1>5. fix_on \in BOOLEAN
  BY <1>1 DEF Whole, Tr!State
<1> QED
  BY <1>3, <1>4, <1>5

\* A hotkey writes into the image of the poked table and says so.
LEMMA HotkeyHolds ==
  ASSUME PartsAssumption, Poked, fix_on, NEW k \in {"balls", "tilt", "spring"},
         addr[k][table_num] # None, trainer,
         NEW i \in Images, mem' = [mem EXCEPT ![addr[k][table_num]] = i],
         LET m == mem[addr[k][table_num]] IN
           /\ i.prog = m.prog /\ i.paused = m.paused /\ i.ion = m.ion /\ i.wake = m.wake
           /\ i.owed = m.owed
           /\ k # "spring" => i.spring = m.spring /\ spring_cheat_on' = spring_cheat_on
           /\ k = "spring" => i.spring = spring_cheat_on' /\ spring_cheat_on' \in BOOLEAN,
         UNCHANGED <<armed, trainer, running, fix_on, table_num, addr, prev, ticked, slot>>,
         osd' \in {"balls", "tilt", "spring"} \X BOOLEAN, osd'[1] = k,
         k = "balls" => (i.balls = "nop" <=> osd'[2]),
         k = "tilt" => (i.tilt = "nop" <=> osd'[2]),
         k = "spring" => (spring_cheat_on' <=> osd'[2])
  PROVE  Poked'
<1> DEFINE a == addr[k][table_num]
<1>1. /\ Whole(Tr!State) /\ Follows(Tr!State) /\ Handshake(Tr!State, ticked)
      /\ Controlled(Tr!State, ticked)
  BY DEF Poked
<1>2. Tr!Kinds = {"balls", "tilt", "spring", "pause"}
  BY DEF Tr!Kinds
<1>3. /\ a \in Places /\ table_num \in Tables /\ mem[a].prog # Tr!Other /\ Sound(mem)
      /\ (~ mem[a].ion \/ mem[a].wake => mem[a].paused)
  BY <1>1, <1>2, SiteIs
<1> HIDE DEF a
<1>4. /\ mem' = [mem EXCEPT ![a] = i]
      /\ i.prog = mem[a].prog /\ i.paused = mem[a].paused /\ i.ion = mem[a].ion
      /\ i.wake = mem[a].wake /\ i.owed = mem[a].owed
      /\ k # "spring" => i.spring = mem[a].spring /\ spring_cheat_on' = spring_cheat_on
      /\ k = "spring" => i.spring = spring_cheat_on' /\ spring_cheat_on' \in BOOLEAN
  BY DEF a
<1>5. Sound(mem') /\ \A q \in Places : mem'[q] = IF q = a THEN i ELSE mem[q]
  <2>1. ~ i.ion \/ i.wake => i.paused
    BY <1>3, <1>4
  <2>2. a \in Places /\ mem[a].prog # Tr!Other /\ Sound(mem) /\ i.prog = mem[a].prog
    BY <1>3, <1>4
  <2> DEFINE r == [mem EXCEPT ![a] = i]
  <2>3. Sound(r) /\ \A q \in Places : r[q] = IF q = a THEN i ELSE mem[q]
    BY <2>1, <2>2, ImageWith
  <2>4. mem' = r
    BY <1>4
  <2> HIDE DEF r
  <2> QED
    BY <2>3, <2>4
<1>6. spring_cheat_on \in BOOLEAN /\ prev \in [Tables -> BOOLEAN]
  BY <1>1 DEF Whole, Tr!State
<1>7. Whole(Tr!State)' /\ Follows(Tr!State)'
  <2>1. \A q \in Places : mem'[q].prog = mem[q].prog
    BY <1>4, <1>5
  <2>2. spring_cheat_on' \in BOOLEAN
    BY <1>4, <1>6
  <2> QED
    BY <1>1, <1>5, <1>6, <2>1, <2>2, PokeIsWhole
<1>8. \A c \in Tr!Kinds : addr[c][table_num] # None => addr[c][table_num] \in Places
  BY <1>1, SiteIs
<1>9. Handshake(Tr!State, ticked)'
  <2> SUFFICES ASSUME addr["pause"][table_num] # None
               PROVE  LET b == addr["pause"][table_num] IN
                      /\ mem'[b].paused = mem[b].paused /\ mem'[b].wake = mem[b].wake
                      /\ mem'[b].owed = mem[b].owed
    BY <1>1 DEF Handshake, Tr!State
  <2> QED
    BY <1>2, <1>4, <1>5, <1>8
<1>10. Controlled(Tr!State, ticked)'
  <2> SUFFICES ASSUME addr["spring"][table_num] # None, spring_cheat_on', ticked
               PROVE  mem'[addr["spring"][table_num]].spring
    BY DEF Controlled, Tr!State
  <2>1. CASE k = "spring"
    BY <1>3, <1>4, <1>5, <2>1 DEF a
  <2>2. CASE k # "spring"
    <3>1. mem[addr["spring"][table_num]].spring
      BY <1>1, <1>4, <2>2 DEF Controlled, Tr!State
    <3> QED
      BY <1>2, <1>4, <1>5, <1>8, <2>2, <3>1
  <2> QED
    BY <2>1, <2>2
<1>11. Told'
  <2>1. mem'[a] = i
    BY <1>3, <1>5
  <2> QED
    BY <2>1 DEF Told, a
<1> QED
  BY <1>1, <1>7, <1>9, <1>10, <1>11 DEF Poked, Follows

LEMMA ToggleBallsHolds ==
  ASSUME PartsAssumption, Poked, Tr!ToggleBalls
  PROVE  Poked'
<1> DEFINE a == addr["balls"][table_num]
           z == IF mem[a].balls = "dec" THEN "nop" ELSE "dec"
           i == [mem[a] EXCEPT !.balls = z]
<1>1. /\ trainer /\ fix_on /\ a # None
      /\ osd' = <<"balls", mem[a].balls = "dec">>
      /\ UNCHANGED <<armed, trainer, running, fix_on, table_num, spring_cheat_on, addr, prev, ticked, slot>>
  BY DEF Tr!ToggleBalls, Tr!Hot, Tr!fix_active, Tr!Says, Tr!fant
<1>2. "balls" \in Tr!Kinds /\ Whole(Tr!State) /\ Follows(Tr!State)
  BY DEF Tr!Kinds, Poked
<1>3. a \in Places /\ mem[a] \in Images /\ mem \in [Places -> Images]
  BY <1>1, <1>2, SiteIs DEF Sound
<1>4. mem' = [mem EXCEPT ![a] = i]
  BY <1>3 DEF Tr!ToggleBalls
<1>0. z \in {"dec", "nop"} /\ (z = "nop" <=> mem[a].balls = "dec")
  OBVIOUS
<1> HIDE DEF z
<1>5. /\ i \in Images /\ i.balls = z /\ i.prog = mem[a].prog /\ i.paused = mem[a].paused
      /\ i.ion = mem[a].ion /\ i.wake = mem[a].wake /\ i.owed = mem[a].owed
      /\ i.spring = mem[a].spring
  <2>1. \A m \in Images : LET j == [m EXCEPT !.balls = z] IN
          /\ j \in Images /\ j.balls = z /\ j.prog = m.prog /\ j.paused = m.paused /\ j.ion = m.ion
          /\ j.wake = m.wake /\ j.owed = m.owed /\ j.spring = m.spring
    BY <1>0 DEF Images
  <2> QED
    BY <1>3, <2>1
<1> HIDE DEF i
<1>6. osd' \in {"balls", "tilt", "spring"} \X BOOLEAN /\ osd'[1] = "balls"
      /\ (i.balls = "nop" <=> osd'[2])
  BY <1>0, <1>1, <1>5
<1> QED
  BY <1>1, <1>4, <1>5, <1>6, HotkeyHolds

LEMMA ToggleTiltHolds ==
  ASSUME PartsAssumption, Poked, Tr!ToggleTilt
  PROVE  Poked'
<1> DEFINE a == addr["tilt"][table_num]
           z == Tr!Toggled(mem[a].tilt)
           i == [mem[a] EXCEPT !.tilt = z]
<1>1. /\ trainer /\ fix_on /\ a # None
      /\ osd' = <<"tilt", mem[a].tilt = "add">>
      /\ UNCHANGED <<armed, trainer, running, fix_on, table_num, spring_cheat_on, addr, prev, ticked, slot>>
  BY DEF Tr!ToggleTilt, Tr!Hot, Tr!fix_active, Tr!Says, Tr!fant
<1>2. "tilt" \in Tr!Kinds /\ Whole(Tr!State) /\ Follows(Tr!State)
  BY DEF Tr!Kinds, Poked
<1>3. a \in Places /\ mem[a] \in Images /\ mem \in [Places -> Images]
  BY <1>1, <1>2, SiteIs DEF Sound
<1>4. mem' = [mem EXCEPT ![a] = i]
  BY <1>3 DEF Tr!ToggleTilt
<1>0. z \in {"add", "nop"} /\ (z = "nop" <=> mem[a].tilt = "add")
  BY DEF Tr!Toggled
<1> HIDE DEF z
<1>5. /\ i \in Images /\ i.tilt = z /\ i.prog = mem[a].prog /\ i.paused = mem[a].paused
      /\ i.ion = mem[a].ion /\ i.wake = mem[a].wake /\ i.owed = mem[a].owed
      /\ i.spring = mem[a].spring
  <2>1. \A m \in Images : LET j == [m EXCEPT !.tilt = z] IN
          /\ j \in Images /\ j.tilt = z /\ j.prog = m.prog /\ j.paused = m.paused /\ j.ion = m.ion
          /\ j.wake = m.wake /\ j.owed = m.owed /\ j.spring = m.spring
    BY <1>0 DEF Images
  <2> QED
    BY <1>3, <2>1
<1> HIDE DEF i
<1>6. osd' \in {"balls", "tilt", "spring"} \X BOOLEAN /\ osd'[1] = "tilt"
      /\ (i.tilt = "nop" <=> osd'[2])
  BY <1>0, <1>1, <1>5
<1> QED
  BY <1>1, <1>4, <1>5, <1>6, HotkeyHolds

LEMMA ToggleSpringHolds ==
  ASSUME PartsAssumption, Poked, Tr!ToggleSpring
  PROVE  Poked'
<1> DEFINE a == addr["spring"][table_num]
           z == ~ spring_cheat_on
           i == [mem[a] EXCEPT !.spring = z]
<1>1. /\ trainer /\ fix_on /\ a # None /\ spring_cheat_on' = ~ spring_cheat_on
      /\ osd' = <<"spring", z>> /\ mem' = [mem EXCEPT ![a].spring = z]
      /\ UNCHANGED <<armed, trainer, running, fix_on, table_num, addr, prev, ticked, slot>>
  BY DEF Tr!ToggleSpring, Tr!Hot, Tr!fix_active, Tr!Says
<1>2. "spring" \in Tr!Kinds /\ Whole(Tr!State) /\ Follows(Tr!State)
  BY DEF Tr!Kinds, Poked
<1>3. a \in Places /\ mem[a] \in Images /\ mem \in [Places -> Images] /\ z \in BOOLEAN
  BY <1>1, <1>2, SiteIs DEF Sound
<1>4. mem' = [mem EXCEPT ![a] = i]
  BY <1>1, <1>3
<1>0. z \in BOOLEAN /\ (z <=> spring_cheat_on')
  BY <1>1
<1> HIDE DEF z
<1>5. /\ i \in Images /\ (i.spring <=> z) /\ i.prog = mem[a].prog /\ i.paused = mem[a].paused
      /\ i.ion = mem[a].ion /\ i.wake = mem[a].wake /\ i.owed = mem[a].owed
  <2>1. \A m \in Images : LET j == [m EXCEPT !.spring = z] IN
          /\ j \in Images /\ (j.spring <=> z) /\ j.prog = m.prog /\ j.paused = m.paused /\ j.ion = m.ion
          /\ j.wake = m.wake /\ j.owed = m.owed
    BY <1>0 DEF Images
  <2> QED
    BY <1>3, <2>1
<1> HIDE DEF i
<1>6. i.spring \in BOOLEAN /\ spring_cheat_on' \in BOOLEAN
  BY <1>1, <1>5 DEF Images
<1>7. osd' \in {"balls", "tilt", "spring"} \X BOOLEAN /\ osd'[1] = "spring"
      /\ (spring_cheat_on' <=> osd'[2]) /\ i.spring = spring_cheat_on'
  <2>1. osd'[1] = "spring" /\ osd'[2] = z
    BY <1>1
  <2>2. osd' \in {"balls", "tilt", "spring"} \X BOOLEAN
    BY <1>0, <1>1
  <2> QED
    BY <1>0, <1>5, <1>6, <2>1, <2>2
<1> QED
  BY <1>1, <1>4, <1>5, <1>6, <1>7, HotkeyHolds

\* A snapshot is taken after a tick, and what it puts back was so then.
LEMMA SaveHolds ==
  ASSUME Poked, Tr!Save
  PROVE  Poked'
<1>1. /\ armed /\ ticked /\ slot' = Tr!State
      /\ UNCHANGED <<armed, trainer, mem, running, fix_on, table_num, spring_cheat_on, addr, prev, osd, ticked>>
  BY DEF Tr!Save, Tr!fant
<1>2. UNCHANGED Tr!State
  BY <1>1 DEF Tr!State
<1>3. /\ Whole(Tr!State) /\ Follows(Tr!State) /\ Handshake(Tr!State, TRUE)
      /\ Controlled(Tr!State, ticked) /\ Handshake(Tr!State, ticked) /\ Told
  BY <1>1 DEF Poked, Handshake
<1>4. Whole(slot') /\ Follows(slot)' /\ Handshake(slot', TRUE)
  BY <1>1, <1>3 DEF Follows
<1>5. /\ Whole(Tr!State)' /\ Follows(Tr!State)' /\ Handshake(Tr!State, ticked)'
      /\ Controlled(Tr!State, ticked)' /\ Told'
  BY <1>1, <1>2, <1>3 DEF Follows, Told
<1> QED
  BY <1>1, <1>4, <1>5 DEF Poked

LEMMA LoadHolds ==
  ASSUME Poked, Tr!Load
  PROVE  Poked'
<1>1. /\ ~ trainer /\ slot # None /\ ticked' = FALSE
      /\ mem' = slot.mem /\ running' = slot.running
      /\ fix_on' = slot.fix_on /\ table_num' = slot.table_num /\ spring_cheat_on' = slot.spring
      /\ addr' = slot.addr /\ prev' = slot.prev
      /\ UNCHANGED <<armed, trainer, osd, slot>>
  BY DEF Tr!Load, Tr!LoadedPrev
<1>2. armed /\ Whole(slot) /\ Follows(slot) /\ Handshake(slot, TRUE) /\ Told
  BY <1>1 DEF Poked
<1>3. Whole(Tr!State)' /\ Follows(Tr!State)' /\ Handshake(Tr!State, ticked)'
  BY <1>1, <1>2 DEF Whole, Follows, Handshake, Tr!State
<1>4. osd = None
  BY <1>1, <1>2 DEF Told
<1>5. Controlled(Tr!State, ticked)' /\ Told'
  BY <1>1, <1>4 DEF Controlled, Told
<1>6. ticked' \in BOOLEAN
  BY <1>1
<1> QED
  BY <1>1, <1>2, <1>3, <1>5, <1>6 DEF Poked, Follows

LEMMA PokedInit ==
  ASSUME PartsAssumption, Tr!Init
  PROVE  Poked
<1>1. /\ armed \in BOOLEAN /\ trainer \in BOOLEAN
      /\ mem = [p \in Places |-> Tr!Image(Tr!Other)] /\ running = None
      /\ fix_on = FALSE /\ table_num = None /\ spring_cheat_on = FALSE
      /\ addr = [k \in Tr!Kinds |-> [tb \in Tables |-> None]]
      /\ prev = [tb \in Tables |-> FALSE]
      /\ osd = None /\ ticked = FALSE /\ slot = None
  BY DEF Tr!Init
<1>2. Sound(mem)
  BY <1>1, ImageIs DEF Sound
<1>3. Whole(Tr!State)
  BY <1>1, <1>2 DEF Whole, Tr!State
<1>4. /\ Follows(Tr!State) /\ Handshake(Tr!State, ticked) /\ Controlled(Tr!State, ticked) /\ Told
  BY <1>1 DEF Follows, Handshake, Controlled, Told, Tr!State
<1> QED
  BY <1>1, <1>3, <1>4 DEF Poked

LEMMA PokedStands ==
  ASSUME Poked, UNCHANGED Tr!vars
  PROVE  Poked'
<1>1. UNCHANGED <<armed, trainer, mem, running, fix_on, table_num, spring_cheat_on, addr, prev,
                  osd, ticked, slot>>
  BY DEF Tr!vars, Tr!fant
<1>2. UNCHANGED Tr!State
  BY <1>1 DEF Tr!State
<1> QED
  BY <1>1, <1>2 DEF Poked, Told, Follows

LEMMA PokedNext ==
  ASSUME PartsAssumption, Poked, Tr!Next
  PROVE  Poked'
  BY ExecTableHolds, ExecOtherHolds, ExecDriverHolds, ExitHolds, TickHolds, ToggleBallsHolds,
     ToggleTiltHolds, ToggleSpringHolds, PauseKeyHolds, CheckPauseHolds, WakeKeyHolds,
     ResumeFirstHolds, ResumeLastHolds, BygelHolds, VBlankHolds, SaveHolds, LoadHolds
  DEF Tr!Next

LEMMA PokedAlways ==
  ASSUME PartsAssumption
  PROVE  Tr!Spec => []Poked
<1>1. Tr!Init => Poked
  BY PokedInit
<1>2. Poked /\ [Tr!Next]_(Tr!vars) => Poked'
  BY PokedNext, PokedStands
<1> QED
  BY <1>1, <1>2, PTL DEF Tr!Spec

\* The variables of the trainer have their types.
THEOREM TrainerTyped ==
  ASSUME PartsAssumption
  PROVE  Tr!Spec => []Tr!TypeOK
<1>1. Poked => Tr!TypeOK
  <2> SUFFICES ASSUME Poked PROVE Tr!TypeOK
    OBVIOUS
  <2>1. Whole(Tr!State) /\ Told
    BY DEF Poked
  <2>2. mem \in [Places -> Images]
    BY <2>1 DEF Whole, Sound, Tr!State
  <2>3. \A p \in Places : mem[p] \in Images
    BY <2>2
  <2>4. \A p \in Places :
          /\ mem[p].prog \in Tables \cup {Tr!Other} /\ mem[p].owed \in {"no", "old", "new"}
          /\ mem[p].balls \in {"dec", "nop"} /\ mem[p].tilt \in {"add", "nop"}
    BY <2>3 DEF Images
  <2>5. running = None \/ (running.table \in Tables /\ running.at \in Places)
    BY <2>1 DEF Whole, Tr!State
  <2>6. /\ {fix_on, spring_cheat_on, ticked} \subseteq BOOLEAN /\ table_num \in Tables \cup {None}
        /\ addr \in [Tr!Kinds -> [Tables -> Places \cup {None}]] /\ prev \in [Tables -> BOOLEAN]
    BY <2>1 DEF Whole, Tr!State, Poked
  <2> QED
    BY <2>1, <2>4, <2>5, <2>6 DEF Tr!TypeOK, Told
<1> QED
  BY <1>1, PokedAlways, PTL

\* HandshakeClean: with PAUSEFLAG down and an interrupt to be delivered, the
\* running table is owed no phase 2 from before its pause.
LEMMA OwesNothingOld ==
  ASSUME PartsAssumption, Poked
  PROVE  Tr!HandshakeClean
<1> SUFFICES ASSUME ticked, fix_on, running # None, "pause" \in Sites[running.table],
                    ~ Tr!Mine.paused, Tr!Mine.owed = "old"
             PROVE  FALSE
  BY DEF Tr!HandshakeClean, Tr!fix_active
<1>1. Whole(Tr!State) /\ Follows(Tr!State)
  BY DEF Poked
<1>2. running.table = table_num /\ addr["pause"][table_num] = running.at
  BY <1>1 DEF Follows, Tr!State
<1>3. running.at # None
  BY <1>1, RunningIs DEF PartsAssumption, Tr!Constants
<1> QED
  BY <1>2, <1>3, MineIs

\* SaysWhatHolds: the bytes of the running table are as the screen said.
LEMMA SaysTruth ==
  ASSUME PartsAssumption, Poked
  PROVE  Tr!SaysWhatHolds
<1> SUFFICES ASSUME ticked, osd # None, running # None
             PROVE  CASE osd[1] = "balls"  -> (Tr!Mine.balls = "nop") = osd[2]
                      [] osd[1] = "tilt"   -> (Tr!Mine.tilt = "nop") = osd[2]
                      [] osd[1] = "spring" -> spring_cheat_on = osd[2] /\ (osd[2] => Tr!Mine.spring)
  BY DEF Tr!SaysWhatHolds
<1>1. /\ Whole(Tr!State) /\ Follows(Tr!State) /\ Told /\ Controlled(Tr!State, ticked)
  BY DEF Poked
<1> DEFINE a == addr[osd[1]][table_num]
<1>2. /\ fix_on /\ a # None /\ osd[1] \in {"balls", "tilt", "spring"} /\ osd[2] \in BOOLEAN
      /\ osd[1] = "balls" => (mem[a].balls = "nop" <=> osd[2])
      /\ osd[1] = "tilt" => (mem[a].tilt = "nop" <=> osd[2])
      /\ osd[1] = "spring" => (spring_cheat_on <=> osd[2])
  BY <1>1 DEF Told
<1>3. osd[1] \in Tr!Kinds
  BY <1>2 DEF Tr!Kinds
<1>4. a = running.at
  BY <1>1, <1>2, <1>3, PlaceIs DEF Tr!State
<1>5. Tr!Mine = mem[a]
  BY <1>4 DEF Tr!Mine
<1>6. spring_cheat_on \in BOOLEAN
  BY <1>1 DEF Whole, Tr!State
<1>7. osd[1] = "spring" /\ osd[2] => mem[a].spring
  BY <1>1, <1>2 DEF Controlled, Tr!State
<1> HIDE DEF a
<1>8. CASE osd[1] = "balls"
  BY <1>2, <1>5, <1>8
<1>9. CASE osd[1] = "tilt"
  BY <1>2, <1>5, <1>9
<1>10. CASE osd[1] = "spring"
  BY <1>2, <1>5, <1>6, <1>7, <1>10
<1> QED
  BY <1>2, <1>8, <1>9, <1>10

\* What a tick takes of the handshake is never the phase 1 of the frame in
\* progress.
LEMMA TickTakesOld ==
  ASSUME PartsAssumption, Poked, Tr!Tick, NEW p \in Places, mem[p].owed = "new"
  PROVE  mem'[p].owed = "new"
<1>1. Whole(Tr!State) /\ Follows(Tr!State) /\ Handshake(Tr!State, ticked)
  BY DEF Poked
<1>2. CASE fix_on
  <2> DEFINE m == Tr!AfterPauseTick(mem)
             a == addr["pause"][table_num]
  <2>1. table_num \in Tables /\ armed
    BY <1>1, <1>2 DEF Follows, Tr!State
  <2>2. mem' = Tr!AfterSpringTick(m)
    BY <1>2, <2>1 DEF Tr!Tick, Tr!fix_active, PartsAssumption, Tr!Constants
  <2>3. /\ Sound(m) /\ \A q \in Places : m[q].prog = mem[q].prog
        /\ m[p].owed = IF p = a /\ prev[table_num] /\ ~ mem[p].paused THEN "no" ELSE mem[p].owed
    BY <1>1, <1>2, <2>1, AfterPause
  <2>4. a # p \/ ~ prev[table_num]
    <3> SUFFICES ASSUME a = p PROVE ~ prev[table_num]
      OBVIOUS
    <3>1. a # None
      BY DEF PartsAssumption, Tr!Constants
    <3> QED
      BY <1>1, <1>2, <3>1 DEF Handshake, Tr!State
  <2> HIDE DEF m
  <2>5. mem'[p].owed = m[p].owed
    BY <1>1, <1>2, <2>1, <2>2, <2>3, AfterSpring
  <2> QED
    BY <2>3, <2>4, <2>5
<1>3. CASE ~ fix_on
  BY <1>3 DEF Tr!Tick, Tr!fix_active
<1>4. fix_on \in BOOLEAN
  BY <1>1 DEF Whole, Tr!State
<1> QED
  BY <1>2, <1>3, <1>4

\* A table's trainer is its own specification's too.
LEMMA TrainerIsPart ==
  Spec => Tr!Spec
<1>1. Init => Tr!Init
  BY DEF Init
<1>2. [Next]_vars => Tr!Next \/ UNCHANGED poked
  BY DEF Next, Only, vars
<1>3. UNCHANGED poked => UNCHANGED Tr!vars
  BY DEF poked, Tr!vars, Tr!fant
<1> QED
  BY <1>1, <1>2, <1>3, PTL DEF Spec, Tr!Spec

\* PokesAreClean, the property of the run: after a pause the table finds no
\* phase 2 owed from before it and has lost none of the present one, what the
\* trainer said of the table holds, and no program that is not a table is
\* written into.  For any tables, sites and places.
THEOREM PokesStayClean ==
  Spec => PokesAreClean
<1>1. Spec => Tr!Spec
  BY TrainerIsPart
<1>2. Poked => (which = "trainer" => Tr!HandshakeClean /\ Tr!SaysWhatHolds)
  BY PartsAssumption, OwesNothingOld, SaysTruth
<1>3. Poked /\ Poked' /\ [Tr!Next]_(Tr!vars) =>
        [\A p \in Places : mem[p].owed = "new" /\ mem'[p].owed # "new" => ~ Tr!Tick]_(Tr!vars)
  BY PartsAssumption, TickTakesOld
<1>4. Poked /\ Poked' /\ [Tr!Next]_(Tr!vars) =>
        [\A p \in Places : (mem[p].prog = Tr!Other /\ mem'[p].prog = Tr!Other)
            => mem'[p] = mem[p]]_(Tr!vars)
  <2>1. Poked => \A p \in Places : mem[p].prog = Tr!Other => mem[p] = Tr!Image(Tr!Other)
    BY DEF Poked, Whole, Sound, Tr!State
  <2>2. Poked' => \A p \in Places : mem'[p].prog = Tr!Other => mem'[p] = Tr!Image(Tr!Other)
    BY DEF Poked, Whole, Sound, Tr!State, Tr!Image
  <2> QED
    BY <2>1, <2>2
<1>5. Spec => []Poked
  BY <1>1, PartsAssumption, PokedAlways, PTL
<1>6. Spec => Tr!TakesNothing
  BY <1>1, <1>3, <1>5, PTL DEF Tr!Spec, Tr!TakesNothing
<1>7. Spec => Tr!OthersStand
  BY <1>1, <1>4, <1>5, PTL DEF Tr!Spec, Tr!OthersStand
<1> QED
  BY <1>2, <1>5, <1>6, <1>7, PTL DEF PokesAreClean

(***************************************************************************)
(* The scrolled page, for frames of any length and any number of writes    *)
(* remembered. The invariant: the history's ages fall along it, and the    *)
(* newest write from before the last retrace is what the hardware took     *)
(* over (Latching).                                                        *)
(***************************************************************************)

Entries == [v : Sa!Pairs, age : 0 .. PageVtotal]

Ring ==
  /\ beam \in 0 .. PageVtotal - 1
  /\ cr \in Sa!Pairs /\ displayed \in Sa!Pairs /\ settled \in BOOLEAN
  /\ sa_hist \in Seq(Entries) /\ Len(sa_hist) <= SaHist
  /\ ball \in [v : Sa!Pairs, age : 0 .. BallHold]

\* The writes before the latest retrace are the older ones, and the last of
\* them is what the display took over.
Latching ==
  /\ \A i, j \in 1 .. Len(sa_hist) : i <= j => sa_hist[j].age <= sa_hist[i].age
  /\ sa_hist # <<>> => sa_hist[Len(sa_hist)].v = cr
  /\ \A i \in Sa!Before : (\A j \in Sa!Before : j <= i) => sa_hist[i].v = displayed
  /\ settled /\ Sa!Before = {} => Len(sa_hist) = SaHist

Page == Ring /\ Latching

LEMMA LineIs ==
  ASSUME PartsAssumption, beam \in 0 .. PageVtotal - 1
  PROVE  /\ (beam + 1) % PageVtotal = IF beam + 1 = PageVtotal THEN 0 ELSE beam + 1
         /\ Sa!LatchAge \in 0 .. PageVtotal - 1
<1>1. PageVtotal \in Nat /\ PageVrs \in 0 .. PageVtotal - 1
  BY DEF PartsAssumption, Sa!Constants
<1>2. \A x \in 0 .. PageVtotal - 1 : x % PageVtotal = x
  BY <1>1
<1>3. PageVtotal % PageVtotal = 0
  BY <1>1
<1>4. (beam + 1) % PageVtotal = IF beam + 1 = PageVtotal THEN 0 ELSE beam + 1
  BY <1>1, <1>2, <1>3
<1>5. Sa!LatchAge \in 0 .. PageVtotal - 1
  BY <1>1 DEF Sa!LatchAge
<1> QED
  BY <1>4, <1>5

\* How a line ages the ring: an entry is before the latest retrace exactly when
\* it was, and all are when the retrace starts.
LEMMA Ages ==
  ASSUME PartsAssumption, Ring, Sa!NextLine
  PROVE  /\ Len(sa_hist') = Len(sa_hist) /\ sa_hist' \in Seq(Entries)
         /\ \A i \in 1 .. Len(sa_hist) : sa_hist'[i] = Sa!Aged(sa_hist[i])
         /\ \A i \in 1 .. Len(sa_hist) : Sa!Aged(sa_hist[i]).v = sa_hist[i].v
              /\ Sa!Aged(sa_hist[i]).age
                   = IF sa_hist[i].age < PageVtotal THEN sa_hist[i].age + 1 ELSE sa_hist[i].age
         /\ Sa!Before' = IF beam' = PageVrs THEN 1 .. Len(sa_hist) ELSE Sa!Before
         /\ beam' \in 0 .. PageVtotal - 1
<1>1. PageVtotal \in Nat /\ PageVrs \in 0 .. PageVtotal - 1
  BY DEF PartsAssumption, Sa!Constants
<1>2. /\ beam' = (beam + 1) % PageVtotal
      /\ sa_hist' = [i \in DOMAIN sa_hist |-> Sa!Aged(sa_hist[i])]
  BY DEF Sa!NextLine
<1>3. sa_hist \in Seq(Entries) /\ DOMAIN sa_hist = 1 .. Len(sa_hist) /\ Len(sa_hist) \in Nat
  BY DEF Ring
<1>4. \A i \in 1 .. Len(sa_hist) : sa_hist[i] \in Entries
  BY <1>3
<1>5. ASSUME NEW e \in Entries
      PROVE  /\ Sa!Aged(e) \in Entries /\ Sa!Aged(e).v = e.v
             /\ Sa!Aged(e).age = IF e.age < PageVtotal THEN e.age + 1 ELSE e.age
             /\ e.age \in 0 .. PageVtotal
  BY <1>1 DEF Entries, Sa!Aged
<1>6. sa_hist' \in Seq(Entries) /\ Len(sa_hist') = Len(sa_hist)
  BY <1>2, <1>3, <1>4, <1>5
<1>7. \A i \in 1 .. Len(sa_hist) : sa_hist'[i] = Sa!Aged(sa_hist[i])
  BY <1>2, <1>3
<1>8. beam' = (IF beam + 1 = PageVtotal THEN 0 ELSE beam + 1) /\ beam \in 0 .. PageVtotal - 1
  BY <1>2, LineIs DEF Ring
<1>9. beam' \in 0 .. PageVtotal - 1
  BY <1>1, <1>8
<1>10. Sa!LatchAge' = IF beam' = PageVrs THEN 0 ELSE Sa!LatchAge + 1
  BY <1>1, <1>8 DEF Sa!LatchAge
<1>11. Sa!LatchAge \in 0 .. PageVtotal - 1 /\ (beam' # PageVrs => Sa!LatchAge + 1 \in 0 .. PageVtotal - 1)
  BY <1>1, <1>8 DEF Sa!LatchAge
<1>12. Sa!Before' = {i \in 1 .. Len(sa_hist) : sa_hist'[i].age > Sa!LatchAge'}
  BY <1>6 DEF Sa!Before
<1>13. Sa!Before = {i \in 1 .. Len(sa_hist) : sa_hist[i].age > Sa!LatchAge}
  BY <1>3 DEF Sa!Before
<1>14. \A i \in 1 .. Len(sa_hist) :
         sa_hist'[i].age > Sa!LatchAge' <=> beam' = PageVrs \/ sa_hist[i].age > Sa!LatchAge
  BY <1>1, <1>4, <1>5, <1>7, <1>10, <1>11
<1>15. Sa!Before' = IF beam' = PageVrs THEN 1 .. Len(sa_hist) ELSE Sa!Before
  BY <1>12, <1>13, <1>14
<1> QED
  BY <1>4, <1>5, <1>6, <1>7, <1>9, <1>15

LEMMA NextLineHolds ==
  ASSUME PartsAssumption, Page, Sa!NextLine
  PROVE  Page'
<1>1. Ring /\ Latching
  BY DEF Page
<1>2. /\ ball' = IF ball.age + 1 < BallHold THEN [ball EXCEPT !.age = @ + 1] ELSE Sa!NoBall
      /\ cr' = cr
      /\ IF beam' = PageVrs
         THEN displayed' = cr /\ settled' = (sa_hist # <<>>)
         ELSE displayed' = displayed /\ settled' = settled
  BY DEF Sa!NextLine
<1>3. BallHold \in Nat /\ SaHist \in Nat \ {0} /\ 0 \in Bytes
      /\ PageVtotal \in Nat
  BY DEF PartsAssumption, Sa!Constants
<1>4. Sa!Home \in Sa!Pairs
  BY <1>3 DEF Sa!Home, Sa!Pairs
<1>5. ball' \in [v : Sa!Pairs, age : 0 .. BallHold]
  <2>1. Sa!NoBall \in [v : Sa!Pairs, age : 0 .. BallHold]
    BY <1>3, <1>4 DEF Sa!NoBall, Sa!Home
  <2>2. ball \in [v : Sa!Pairs, age : 0 .. BallHold]
    BY <1>1 DEF Ring
  <2> QED
    BY <1>2, <1>3, <2>1, <2>2
<1>6. Ring'
  BY <1>1, <1>2, <1>5, Ages DEF Ring
<1>7. \A i, j \in 1 .. Len(sa_hist') : i <= j => sa_hist'[j].age <= sa_hist'[i].age
  <2>1. \A i \in 1 .. Len(sa_hist) : sa_hist[i].age \in Nat
    <3> SUFFICES ASSUME NEW i \in 1 .. Len(sa_hist) PROVE sa_hist[i].age \in Nat
      OBVIOUS
    <3>1. sa_hist[i] \in Entries
      BY <1>1 DEF Ring
    <3> QED
      BY <1>3, <3>1 DEF Entries
  <2> QED
    BY <1>1, <1>3, <2>1, Ages DEF Latching
<1>8. Len(sa_hist) \in Nat /\ (sa_hist # <<>> <=> Len(sa_hist) # 0)
      /\ (sa_hist' # <<>> <=> Len(sa_hist') # 0) /\ Len(sa_hist') = Len(sa_hist)
  BY <1>1, Ages DEF Ring
<1>9. sa_hist' # <<>> => sa_hist'[Len(sa_hist')].v = cr'
  BY <1>1, <1>2, <1>8, Ages DEF Latching
<1>10. \A i \in Sa!Before' : (\A j \in Sa!Before' : j <= i) => sa_hist'[i].v = displayed'
  <2>1. CASE beam' = PageVrs
    <3>1. Sa!Before' = 1 .. Len(sa_hist)
      BY <1>1, <2>1, Ages
    <3>2. \A i \in 1 .. Len(sa_hist) : (\A j \in 1 .. Len(sa_hist) : j <= i) => i = Len(sa_hist)
      BY <1>8
    <3>3. displayed' = cr'
      BY <1>2, <2>1
    <3> QED
      BY <1>8, <1>9, <3>1, <3>2, <3>3
  <2>2. CASE beam' # PageVrs
    <3>1. Sa!Before' = Sa!Before /\ displayed' = displayed
      BY <1>1, <1>2, <2>2, Ages
    <3>2. \A i \in Sa!Before : i \in 1 .. Len(sa_hist)
      BY <1>1 DEF Sa!Before, Ring
    <3> QED
      BY <1>1, <3>1, <3>2, Ages DEF Latching
  <2> QED
    BY <2>1, <2>2
<1>11. settled' /\ Sa!Before' = {} => Len(sa_hist') = SaHist
  <2>1. CASE beam' = PageVrs
    <3>1. Sa!Before' = 1 .. Len(sa_hist) /\ (settled' <=> Len(sa_hist) # 0)
      BY <1>1, <1>2, <1>8, <2>1, Ages
    <3>2. Len(sa_hist) # 0 => 1 \in 1 .. Len(sa_hist)
      BY <1>8
    <3> QED
      BY <3>1, <3>2
  <2>2. CASE beam' # PageVrs
    BY <1>1, <1>2, <1>8, <2>2, Ages DEF Latching
  <2> QED
    BY <2>1, <2>2
<1> QED
  BY <1>6, <1>7, <1>9, <1>10, <1>11 DEF Page, Latching

\* A write is noted at the end of the ring, and pushes out at most the oldest.
LEMMA NotedIs ==
  ASSUME PartsAssumption, Ring, Sa!WriteStart
  PROVE  LET k == IF Len(sa_hist) = SaHist THEN 1 ELSE 0 IN
         /\ Len(sa_hist') = Len(sa_hist) + 1 - k /\ Len(sa_hist') \in Nat /\ Len(sa_hist) \in Nat
         /\ sa_hist' \in Seq(Entries) /\ Len(sa_hist') <= SaHist
         /\ cr' \in Sa!Pairs /\ sa_hist'[Len(sa_hist')] = [v |-> cr', age |-> 0]
         /\ \A i \in 1 .. Len(sa_hist') - 1 : i + k \in 1 .. Len(sa_hist) /\ sa_hist'[i] = sa_hist[i + k]
         /\ Sa!Before' = {i \in 1 .. Len(sa_hist') - 1 : i + k \in Sa!Before}
<1> DEFINE e == [v |-> cr', age |-> 0]
           s == Append(sa_hist, e)
           k == IF Len(sa_hist) = SaHist THEN 1 ELSE 0
<1>1. /\ PageVtotal \in Nat /\ SaHist \in Nat \ {0} /\ PageVrs \in 0 .. PageVtotal - 1
  BY DEF PartsAssumption, Sa!Constants
<1>2. sa_hist \in Seq(Entries) /\ Len(sa_hist) \in Nat /\ Len(sa_hist) <= SaHist
      /\ cr \in Sa!Pairs /\ beam \in 0 .. PageVtotal - 1
  BY DEF Ring
<1>3. PICK half \in 1 .. 2, b \in Bytes : cr' = [cr EXCEPT ![half] = b]
  BY DEF Sa!WriteStart
<1>4. cr' \in Sa!Pairs
  BY <1>2, <1>3 DEF Sa!Pairs
<1>5. e \in Entries /\ e.age = 0
  BY <1>1, <1>4 DEF Entries
<1>6. sa_hist' = (IF Len(s) > SaHist THEN Tail(s) ELSE s) /\ beam' = beam
  BY DEF Sa!WriteStart, Sa!sa_note
<1> HIDE DEF e
<1>7. /\ s \in Seq(Entries) /\ Len(s) = Len(sa_hist) + 1 /\ s # <<>>
      /\ \A i \in 1 .. Len(sa_hist) : s[i] = sa_hist[i]
      /\ s[Len(sa_hist) + 1] = e
  BY <1>2, <1>5
<1> HIDE DEF s
<1>10. /\ Len(sa_hist') = Len(sa_hist) + 1 - k /\ Len(sa_hist') \in Nat /\ k \in {0, 1}
       /\ sa_hist' \in Seq(Entries) /\ Len(sa_hist') <= SaHist
       /\ sa_hist'[Len(sa_hist')] = e
       /\ \A i \in 1 .. Len(sa_hist') - 1 : i + k \in 1 .. Len(sa_hist) /\ sa_hist'[i] = sa_hist[i + k]
  <2>1. CASE Len(sa_hist) = SaHist
    <3>1. sa_hist' = Tail(s) /\ k = 1
      BY <1>1, <1>2, <1>6, <1>7, <2>1
    <3>2. /\ sa_hist' \in Seq(Entries) /\ Len(sa_hist') = Len(sa_hist)
          /\ \A i \in 1 .. Len(sa_hist) : sa_hist'[i] = s[i + 1]
      BY <1>2, <1>7, <3>1
    <3> HIDE DEF k
    <3> QED
      BY <1>1, <1>2, <1>7, <2>1, <3>1, <3>2
  <2>2. CASE Len(sa_hist) # SaHist
    <3>1. sa_hist' = s /\ k = 0
      BY <1>1, <1>2, <1>6, <1>7, <2>2
    <3> HIDE DEF k
    <3> QED
      BY <1>1, <1>2, <1>7, <2>2, <3>1
  <2> QED
    BY <2>1, <2>2
<1> HIDE DEF k
<1>11. Sa!LatchAge' = Sa!LatchAge /\ Sa!LatchAge \in Nat
  BY <1>1, <1>2, <1>6 DEF Sa!LatchAge
<1>12. Sa!Before' = {i \in 1 .. Len(sa_hist') : sa_hist'[i].age > Sa!LatchAge}
  BY <1>10, <1>11 DEF Sa!Before
<1>13. Sa!Before = {i \in 1 .. Len(sa_hist) : sa_hist[i].age > Sa!LatchAge}
  BY <1>2 DEF Sa!Before
<1>14. ~ (sa_hist'[Len(sa_hist')].age > Sa!LatchAge)
  BY <1>5, <1>10, <1>11
<1>15. Sa!Before' = {i \in 1 .. Len(sa_hist') - 1 : i + k \in Sa!Before}
  <2>1. \A i \in 1 .. Len(sa_hist') : i \in Sa!Before' <=> i # Len(sa_hist') /\ i + k \in Sa!Before
    <3> SUFFICES ASSUME NEW i \in 1 .. Len(sa_hist')
                 PROVE  i \in Sa!Before' <=> i # Len(sa_hist') /\ i + k \in Sa!Before
      OBVIOUS
    <3>1. CASE i = Len(sa_hist')
      BY <1>12, <1>14, <3>1
    <3>2. CASE i # Len(sa_hist')
      <4>1. i \in 1 .. Len(sa_hist') - 1
        BY <1>10, <3>2
      <4> QED
        BY <1>10, <1>12, <1>13, <3>2, <4>1
    <3> QED
      BY <3>1, <3>2
  <2>2. \A i \in Sa!Before' : i \in 1 .. Len(sa_hist')
    BY <1>12
  <2>3. \A i \in 1 .. Len(sa_hist') - 1 : i \in 1 .. Len(sa_hist') /\ i # Len(sa_hist')
    BY <1>10
  <2>4. \A i \in 1 .. Len(sa_hist') : i # Len(sa_hist') => i \in 1 .. Len(sa_hist') - 1
    BY <1>10
  <2> QED
    BY <2>1, <2>2, <2>3, <2>4
<1> QED
  BY <1>2, <1>4, <1>10, <1>15 DEF k, e

LEMMA WriteStartHolds ==
  ASSUME PartsAssumption, Page, Sa!WriteStart
  PROVE  Page'
<1> DEFINE k == IF Len(sa_hist) = SaHist THEN 1 ELSE 0
           N == Len(sa_hist)
           M == Len(sa_hist')
<1>1. Ring /\ Latching /\ SaHist \in Nat \ {0} /\ PageVtotal \in Nat
  BY DEF Page, PartsAssumption, Sa!Constants
<1>2. UNCHANGED <<beam, ball, displayed, settled>>
  BY DEF Sa!WriteStart
<1>3. k \in {0, 1} /\ (k = 1 <=> N = SaHist)
  OBVIOUS
<1>4. /\ M = N + 1 - k /\ M \in Nat /\ N \in Nat
      /\ sa_hist' \in Seq(Entries) /\ M <= SaHist
      /\ cr' \in Sa!Pairs /\ sa_hist'[M] = [v |-> cr', age |-> 0]
      /\ \A i \in 1 .. M - 1 : i + k \in 1 .. N /\ sa_hist'[i] = sa_hist[i + k]
      /\ Sa!Before' = {i \in 1 .. M - 1 : i + k \in Sa!Before}
  BY <1>1, NotedIs
<1>5. /\ \A i, j \in 1 .. N : i <= j => sa_hist[j].age <= sa_hist[i].age
      /\ \A i \in Sa!Before : (\A j \in Sa!Before : j <= i) => sa_hist[i].v = displayed
      /\ settled /\ Sa!Before = {} => N = SaHist
  BY <1>1 DEF Latching
<1>6. Ring'
  BY <1>1, <1>2, <1>4 DEF Ring
<1>7. \A i \in 1 .. N : sa_hist[i].age \in Nat
  <2> SUFFICES ASSUME NEW i \in 1 .. N PROVE sa_hist[i].age \in Nat
    OBVIOUS
  <2>1. sa_hist[i] \in Entries
    BY <1>1 DEF Ring
  <2> QED
    BY <1>1, <2>1 DEF Entries
<1>8. Sa!Before \subseteq 1 .. N
  BY <1>1 DEF Sa!Before, Ring
<1>9. sa_hist' # <<>> => sa_hist'[M].v = cr'
  BY <1>4
<1> HIDE DEF k, N, M
<1>10. \A i, j \in 1 .. M : i <= j => sa_hist'[j].age <= sa_hist'[i].age
  <2> SUFFICES ASSUME NEW i \in 1 .. M, NEW j \in 1 .. M, i <= j
               PROVE  sa_hist'[j].age <= sa_hist'[i].age
    OBVIOUS
  <2>1. CASE j = M
    <3>1. sa_hist'[j].age = 0
      BY <1>4, <2>1
    <3>2. i = M \/ i \in 1 .. M - 1
      BY <1>4
    <3>3. i \in 1 .. M - 1 => sa_hist'[i].age \in Nat
      BY <1>4, <1>7
    <3> QED
      BY <2>1, <3>1, <3>2, <3>3
  <2>2. CASE j # M
    <3>1. i \in 1 .. M - 1 /\ j \in 1 .. M - 1
      BY <1>4, <2>2
    <3>2. /\ i + k \in 1 .. N /\ j + k \in 1 .. N /\ i + k <= j + k
          /\ sa_hist'[i] = sa_hist[i + k] /\ sa_hist'[j] = sa_hist[j + k]
      BY <1>3, <1>4, <3>1
    <3> QED
      BY <1>5, <3>2
  <2> QED
    BY <2>1, <2>2
<1>11. \A i \in Sa!Before' : (\A j \in Sa!Before' : j <= i) => sa_hist'[i].v = displayed
  <2> SUFFICES ASSUME NEW i \in Sa!Before', \A j \in Sa!Before' : j <= i
               PROVE  sa_hist'[i].v = displayed
    OBVIOUS
  <2>1. i \in 1 .. M - 1 /\ i + k \in Sa!Before /\ sa_hist'[i] = sa_hist[i + k]
    BY <1>4
  <2>2. \A j \in Sa!Before : j <= i + k
    <3> SUFFICES ASSUME NEW j \in Sa!Before, ~ (j <= i + k) PROVE FALSE
      OBVIOUS
    <3>1. j \in 1 .. N
      BY <1>8
    <3>2. j - k \in 1 .. M - 1 /\ (j - k) + k = j
      BY <1>3, <1>4, <2>1, <3>1
    <3>3. j - k \in Sa!Before'
      BY <1>4, <3>2
    <3> QED
      BY <1>3, <2>1, <3>1, <3>3
  <2> QED
    BY <1>5, <2>1, <2>2
<1>12. settled /\ Sa!Before' = {} => M = SaHist
  <2> SUFFICES ASSUME settled, Sa!Before' = {}, k = 0 PROVE FALSE
    BY <1>3, <1>4
  <2>1. \A i \in Sa!Before : i \in 1 .. M - 1 /\ i + k = i
    BY <1>3, <1>4, <1>8
  <2>2. Sa!Before = {}
    BY <1>4, <2>1
  <2> QED
    BY <1>3, <1>5, <2>2
<1> QED
  BY <1>2, <1>6, <1>9, <1>10, <1>11, <1>12 DEF Page, Latching, M

LEMMA BallStartHolds ==
  ASSUME PartsAssumption, Page, Sa!vga_note_ball_start \/ UNCHANGED Sa!vars
  PROVE  Page'
<1>1. Ring /\ Latching /\ BallHold \in Nat
  BY DEF Page, PartsAssumption, Sa!Constants
<1>2. UNCHANGED <<beam, cr, sa_hist, displayed, settled>>
      /\ (ball' = ball \/ ball' = [v |-> cr, age |-> 0])
  BY DEF Sa!vga_note_ball_start, Sa!vars
<1>3. Ring'
  BY <1>1, <1>2 DEF Ring
<1>4. Sa!Before' = Sa!Before
  BY <1>2 DEF Sa!Before, Sa!LatchAge
<1> QED
  BY <1>1, <1>2, <1>3, <1>4 DEF Page, Latching

LEMMA SetModeHolds ==
  ASSUME PartsAssumption, beam' \in 0 .. PageVtotal - 1,
         cr' = Sa!Home, sa_hist' = <<>>, ball' = Sa!NoBall, displayed' = Sa!Home, settled' = FALSE
  PROVE  Page'
<1>1. BallHold \in Nat /\ SaHist \in Nat \ {0} /\ 0 \in Bytes
  BY DEF PartsAssumption, Sa!Constants
<1>2. Sa!Home \in Sa!Pairs /\ Sa!NoBall \in [v : Sa!Pairs, age : 0 .. BallHold]
  BY <1>1 DEF Sa!Home, Sa!Pairs, Sa!NoBall
<1>3. sa_hist' \in Seq(Entries) /\ Len(sa_hist') = 0
  OBVIOUS
<1>4. Ring'
  <2>1. settled' \in BOOLEAN
    OBVIOUS
  <2>2. Len(sa_hist') <= SaHist
    BY <1>1, <1>3
  <2> QED
    BY <1>2, <1>3, <2>1, <2>2 DEF Ring
<1>5. Sa!Before' = {}
  BY <1>3 DEF Sa!Before
<1> QED
  BY <1>3, <1>4, <1>5 DEF Page, Latching

LEMMA PageAlways ==
  ASSUME PartsAssumption
  PROVE  Sa!Spec => []Page
<1>1. Sa!Init => Page
  <2> SUFFICES ASSUME Sa!Init PROVE Page
    OBVIOUS
  <2>1. /\ beam = 0 /\ cr = Sa!Home /\ sa_hist = <<>> /\ ball = Sa!NoBall
        /\ displayed = Sa!Home /\ settled = FALSE
    BY DEF Sa!Init
  <2>2. /\ PageVtotal \in Nat /\ PageVrs \in 0 .. PageVtotal - 1
        /\ BallHold \in Nat /\ SaHist \in Nat \ {0} /\ 0 \in Bytes
    BY DEF PartsAssumption, Sa!Constants
  <2>3. Sa!Home \in Sa!Pairs /\ Sa!NoBall \in [v : Sa!Pairs, age : 0 .. BallHold]
    BY <2>2 DEF Sa!Home, Sa!Pairs, Sa!NoBall
  <2>4. sa_hist \in Seq(Entries) /\ Len(sa_hist) = 0
    BY <2>1
  <2>5. Ring
    <3>1. settled \in BOOLEAN
      BY <2>1
    <3>2. Len(sa_hist) <= SaHist /\ beam \in 0 .. PageVtotal - 1
      BY <2>1, <2>2, <2>4
    <3> QED
      BY <2>1, <2>3, <2>4, <3>1, <3>2 DEF Ring
  <2>6. Sa!Before = {}
    BY <2>4 DEF Sa!Before
  <2> QED
    BY <2>1, <2>4, <2>5, <2>6 DEF Page, Latching
<1>2. Page /\ [Sa!Next]_(Sa!vars) => Page'
  <2> SUFFICES ASSUME Page, [Sa!Next]_(Sa!vars) PROVE Page'
    OBVIOUS
  <2>1. CASE Sa!vga_set_mode_bios
    <3>1. beam' \in 0 .. PageVtotal - 1
      BY <2>1 DEF Sa!vga_set_mode_bios, Page, Ring
    <3> QED
      BY <2>1, <3>1, SetModeHolds DEF Sa!vga_set_mode_bios
  <2> QED
    BY <2>1, NextLineHolds, WriteStartHolds, BallStartHolds DEF Sa!Next
<1> QED
  BY <1>1, <1>2, PTL DEF Sa!Spec

\* The variables of the start address have their types.
THEOREM PageTyped ==
  ASSUME PartsAssumption
  PROVE  Sa!Spec => []Sa!TypeOK
<1>1. Page => Sa!TypeOK
  <2> SUFFICES ASSUME Page PROVE Sa!TypeOK
    OBVIOUS
  <2>1. \A i \in DOMAIN sa_hist : sa_hist[i] \in Entries
    BY DEF Page, Ring
  <2> QED
    BY <2>1 DEF Page, Ring, Entries, Sa!TypeOK
<1> QED
  BY <1>1, PageAlways, PTL

\* ShownIsLatched: whatever line the picture is drawn at, it is the page the
\* hardware took over at the retrace.
LEMMA DrawnIsLatched ==
  ASSUME PartsAssumption, Page
  PROVE  Sa!ShownIsLatched
<1> SUFFICES ASSUME settled, Sa!Since < SaHist PROVE Sa!start_latched = displayed
  BY DEF Sa!ShownIsLatched
<1>1. Ring /\ Latching /\ Len(sa_hist) \in Nat /\ SaHist \in Nat
  BY DEF Page, Ring, PartsAssumption, Sa!Constants
<1>2. Sa!Before # {}
  BY <1>1 DEF Sa!Since, Latching
<1>3. Sa!Before \in SUBSET (0 .. Len(sa_hist))
  BY <1>1 DEF Sa!Before, Ring
<1>4. \E i \in Sa!Before : \A j \in Sa!Before : j <= i
  BY <1>1, <1>2, <1>3, GreatestElement
<1>5. Sa!Newest(Sa!Before) \in Sa!Before /\ \A j \in Sa!Before : j <= Sa!Newest(Sa!Before)
  BY <1>4 DEF Sa!Newest
<1> QED
  BY <1>1, <1>2, <1>5 DEF Latching, Sa!start_latched

\* StepsWithBall: while a ball's drawing stands the camera stands with it.
LEMMA CameraStands ==
  ASSUME PartsAssumption, Page, [Sa!Next]_(Sa!vars), ball'.age < BallHold, ball'.age = ball.age + 1
  PROVE  Sa!vga_display_start' = Sa!vga_display_start
<1>1. ball \in [v : Sa!Pairs, age : 0 .. BallHold] /\ BallHold \in Nat
  BY DEF Page, Ring, PartsAssumption, Sa!Constants
<1>2. ball.age \in 0 .. BallHold
  BY <1>1
<1>3. Sa!NoBall.age = BallHold
  BY DEF Sa!NoBall
<1>4. CASE Sa!NextLine
  <2>1. ball' = [ball EXCEPT !.age = @ + 1]
    BY <1>3, <1>4 DEF Sa!NextLine
  <2>2. ball'.v = ball.v /\ ball.age < BallHold
    BY <1>1, <1>2, <2>1
  <2> QED
    BY <2>2 DEF Sa!vga_display_start
<1>5. CASE Sa!WriteStart \/ UNCHANGED Sa!vars
  <2>1. ball' = ball
    BY <1>5 DEF Sa!WriteStart, Sa!vars
  <2> QED
    BY <1>2, <2>1
<1>6. CASE Sa!vga_note_ball_start
  <2>1. ball'.age = 0
    BY <1>6 DEF Sa!vga_note_ball_start
  <2> QED
    BY <1>2, <2>1
<1>7. CASE Sa!vga_set_mode_bios
  BY <1>1, <1>3, <1>7 DEF Sa!vga_set_mode_bios
<1> QED
  BY <1>4, <1>5, <1>6, <1>7 DEF Sa!Next

(***************************************************************************)
(* The split palette, for frames of any length and any number of switches  *)
(* remembered. The invariant: nothing is younger than the last write       *)
(* (Aging), and in the menu the ring alternates between its two lines, the *)
(* next switch coming before the last clear is three frames old (InMenu).  *)
(***************************************************************************)

Lines3 == 3 * Vtotal
Switches == [val : Ps!Banks, line : 0 .. Vtotal - 1, age : 0 .. Lines3 + 1]
Splits == [line : -1 .. Vtotal - 1, hi : Ps!Banks, lo : Ps!Banks, age : 0 .. Lines3 + 1]

Registers ==
  /\ line \in 0 .. Vtotal - 1 /\ ar14 \in Ps!Banks /\ pal_sw_base \in Ps!Banks
  /\ pal_sw \in Seq(Switches) /\ Len(pal_sw) <= PalSw
  /\ split \in Splits
  /\ screen \in {"menu", "other"} /\ idle \in 0 .. Lines3 + 1 /\ flips \in 0 .. 4

\* Nothing kept is younger than the last write, and no split was taken from
\* fewer than three switches.
Aging ==
  /\ \A i \in 1 .. Len(pal_sw) : pal_sw[i].age >= idle
  /\ split.line >= 0 => split.age >= idle /\ Len(pal_sw) >= 3

\* A switch of the menu: set in the blank, cleared in the picture.  The seam
\* it makes.
OfMenu(e) == IF e.val = 1 THEN e.line = Flip ELSE e.line \in Mid .. Mid + Wander
Seams == Mid - Vrs + Vtotal .. Mid + Wander - Vrs + Vtotal
Until(l) == IF line <= l THEN l - line ELSE l - line + Vtotal

\* In the menu the ring holds its switches alone, back and forth, and its next
\* one comes before the newest clear is three frames old.
InMenu ==
  /\ \A i \in 1 .. Len(pal_sw) : OfMenu(pal_sw[i])
  /\ \A i \in 1 .. Len(pal_sw) - 1 : pal_sw[i + 1].val # pal_sw[i].val
  /\ Len(pal_sw) > 0 => pal_sw[Len(pal_sw)].val = ar14 /\ pal_sw[Len(pal_sw)].age = idle
  /\ Len(pal_sw) = 0 => ar14 = 0
  /\ flips <= Len(pal_sw) \/ Len(pal_sw) = PalSw
  /\ split.line >= 0 => split.line \in Seams
  /\ ar14 = 0 => idle + Until(Flip) < 2 * Vtotal
  /\ ar14 = 1 /\ Len(pal_sw) > 1 =>
       pal_sw[Len(pal_sw) - 1].age + Until(Mid + Wander) < Lines3

Palette ==
  /\ Registers /\ Aging
  /\ screen = "menu" => InMenu
  /\ flips > 0 => screen = "menu"

LEMMA Frame ==
  ASSUME PartsAssumption
  PROVE  /\ Vtotal \in Nat \ {0} /\ Vde \in Nat /\ Vrs \in Nat /\ Flip \in Nat /\ Vde <= Vrs
         /\ Vrs < Vtotal /\ Vde <= Flip /\ Flip < Vtotal
         /\ Mid \in Nat /\ Wander \in Nat /\ Steady \in Nat /\ PalSw \in Nat
         /\ Mid + Wander < Vde /\ Wander <= Steady /\ PalSw >= 3
         /\ Lines3 = Ps!Frame3 /\ Lines3 \in Nat /\ Lines3 = Vtotal + Vtotal + Vtotal
         /\ 2 * Vtotal = Vtotal + Vtotal
  BY DEF PartsAssumption, Ps!Constants, Lines3, Ps!Frame3

LEMMA SwitchIs ==
  ASSUME PartsAssumption, Registers, NEW i \in 1 .. Len(pal_sw)
  PROVE  /\ pal_sw[i] \in Switches /\ pal_sw[i].val \in {0, 1} /\ pal_sw[i].line \in 0 .. Vtotal - 1
         /\ pal_sw[i].age \in 0 .. Lines3 + 1
<1>1. pal_sw[i] \in Switches
  BY DEF Registers
<1> QED
  BY <1>1 DEF Switches, Ps!Banks

\* What vga_render takes from the switches of the menu.
LEMMA VisibleIs ==
  ASSUME PartsAssumption, Registers, Ps!Visible # {}
  PROVE  LET i == CHOOSE i \in Ps!Visible : \A j \in Ps!Visible : j <= i IN
         /\ i \in 1 .. Len(pal_sw) /\ i \in Ps!Visible /\ pal_sw[i].line < Vde
         /\ \A j \in Ps!Visible : j <= i
         /\ Ps!Prev(i) \in Ps!Banks
<1>1. Len(pal_sw) \in Nat /\ DOMAIN pal_sw = 1 .. Len(pal_sw) /\ pal_sw_base \in Ps!Banks
  BY DEF Registers
<1>2. Ps!Visible \in SUBSET (0 .. Len(pal_sw))
  BY <1>1 DEF Ps!Visible
<1>3. \E i \in Ps!Visible : \A j \in Ps!Visible : j <= i
  BY <1>1, <1>2, GreatestElement
<1> DEFINE i == CHOOSE i \in Ps!Visible : \A j \in Ps!Visible : j <= i
<1>4. i \in Ps!Visible /\ \A j \in Ps!Visible : j <= i
  BY <1>3
<1> HIDE DEF i
<1>5. i \in 1 .. Len(pal_sw) /\ pal_sw[i].line < Vde
  BY <1>1, <1>4 DEF Ps!Visible
<1>6. Ps!Prev(i) \in Ps!Banks
  <2>1. CASE i = 1
    BY <1>1, <2>1 DEF Ps!Prev
  <2>2. CASE i # 1
    <3>1. i - 1 \in 1 .. Len(pal_sw)
      BY <1>1, <1>5, <2>2
    <3> QED
      BY <2>2, <3>1, SwitchIs DEF Ps!Prev, Ps!Banks
  <2> QED
    BY <2>1, <2>2
<1> QED
  BY <1>4, <1>5, <1>6 DEF i

LEMMA RasterIs ==
  ASSUME PartsAssumption, NEW l \in 0 .. Vtotal - 1
  PROVE  /\ Ps!Raster(l) \in 0 .. Vtotal - 1
         /\ l \in Mid .. Mid + Wander => Ps!Raster(l) \in Seams
  BY Frame DEF Ps!Raster, Seams

LEMMA SeamIs ==
  ASSUME PartsAssumption, Registers, NEW i \in 1 .. Len(pal_sw)
  PROVE  /\ Ps!Seam(i) \in 0 .. Vtotal - 1
         /\ pal_sw[i].line \in Mid .. Mid + Wander /\ (split.line >= 0 => split.line \in Seams)
              => /\ Ps!Seam(i) \in Seams
                 /\ split.line >= 0 => Ps!Seam(i) = split.line
<1>1. split.line \in -1 .. Vtotal - 1
  BY DEF Registers, Splits
<1> DEFINE l == Ps!Raster(pal_sw[i].line)
<1>2. /\ l \in 0 .. Vtotal - 1
      /\ pal_sw[i].line \in Mid .. Mid + Wander => l \in Seams
  BY SwitchIs, RasterIs
<1>3. Ps!Seam(i) = IF split.line < 0 \/ l - split.line > Steady \/ split.line - l > Steady
                   THEN l ELSE split.line
  BY DEF Ps!Seam
<1> HIDE DEF l
<1>4. \A x, y \in Seams : x - y <= Steady /\ y - x <= Steady
  <2> SUFFICES ASSUME NEW x \in Seams, NEW y \in Seams PROVE x - y <= Steady
    OBVIOUS
  <2>1. /\ x \in Int /\ y \in Int /\ x <= Mid + Wander - Vrs + Vtotal /\ Mid - Vrs + Vtotal <= y
    BY DEF Seams
  <2>2. /\ Mid \in Int /\ Wander \in Int /\ Vrs \in Int /\ Vtotal \in Int /\ Steady \in Int
        /\ Wander <= Steady
    BY Frame
  <2>3. x - y <= Wander
    BY <2>1, <2>2
  <2> QED
    BY <2>1, <2>2, <2>3
<1>5. Seams \subseteq Int
  BY DEF Seams
<1>6. Ps!Seam(i) \in 0 .. Vtotal - 1
  BY <1>1, <1>2, <1>3, Frame
<1>7. ASSUME l \in Seams, split.line >= 0 => split.line \in Seams
      PROVE  Ps!Seam(i) \in Seams /\ (split.line >= 0 => Ps!Seam(i) = split.line)
  <2>1. CASE split.line < 0
    BY <1>1, <1>3, <1>7, <2>1
  <2>2. CASE split.line >= 0
    <3>1. l - split.line <= Steady /\ split.line - l <= Steady
      BY <1>4, <1>7, <2>2
    <3>2. l \in Int /\ split.line \in Int /\ Steady \in Int
      BY <1>1, <1>2, Frame
    <3>3. Ps!Seam(i) = split.line
      BY <1>3, <2>2, <3>1, <3>2
    <3> QED
      BY <1>7, <2>2, <3>3
  <2> QED
    BY <1>1, <2>1, <2>2
<1> QED
  BY <1>2, <1>6, <1>7

\* The split a picture is drawn with.
LEMMA LatchedIs ==
  ASSUME PartsAssumption, Registers, Aging
  PROVE  LET s == Ps!Expire(Ps!Latched) IN
         /\ s \in Splits
         /\ s.line >= 0 => s.age >= idle /\ Len(pal_sw) >= 3
         /\ screen = "menu" /\ InMenu => (s.line >= 0 => s.line \in Seams)
         /\ idle > Lines3 => s.line < 0
<1> DEFINE i == CHOOSE i \in Ps!Visible : \A j \in Ps!Visible : j <= i
           a == [line |-> Ps!Seam(i), hi |-> Ps!Prev(i), lo |-> pal_sw[i].val, age |-> pal_sw[i].age]
           u == Ps!Latched
           s == Ps!Expire(u)
<1>1. split \in Splits /\ idle \in 0 .. Lines3 + 1 /\ Len(pal_sw) \in Nat
  BY DEF Registers
<1>2. Ps!NoSplit \in Splits /\ Ps!NoSplit.line = -1 /\ Ps!NoSplit.age = Lines3 + 1
  BY Frame DEF Ps!NoSplit, Splits, Ps!Banks
<1>3. CASE Ps!Alternating /\ Ps!Visible # {}
  <2>1. u = a
    BY <1>3 DEF Ps!Latched
  <2>2. i \in 1 .. Len(pal_sw) /\ pal_sw[i].line < Vde /\ Ps!Prev(i) \in Ps!Banks
    BY <1>3, VisibleIs
  <2> HIDE DEF i
  <2>3. /\ pal_sw[i].val \in {0, 1} /\ pal_sw[i].line \in 0 .. Vtotal - 1
        /\ pal_sw[i].age \in 0 .. Lines3 + 1 /\ pal_sw[i].age >= idle
    BY <2>2, SwitchIs DEF Aging
  <2>4. Ps!Seam(i) \in 0 .. Vtotal - 1
    BY <2>2, SeamIs
  <2>5. Len(pal_sw) >= 3
    BY <1>3 DEF Ps!Alternating
  <2>6. u \in Splits /\ u.line = Ps!Seam(i) /\ u.age = pal_sw[i].age
    BY <2>1, <2>2, <2>3, <2>4 DEF Splits, Ps!Banks
  <2>7. screen = "menu" /\ InMenu => Ps!Seam(i) \in Seams
    <3> SUFFICES ASSUME InMenu PROVE Ps!Seam(i) \in Seams
      OBVIOUS
    <3>1. pal_sw[i].line # Flip
      BY <2>2, <2>3, Frame
    <3>2. pal_sw[i].line \in Mid .. Mid + Wander
      BY <2>2, <2>3, <3>1 DEF InMenu, OfMenu
    <3> QED
      BY <2>2, <3>2, SeamIs DEF InMenu
  <2>8. s = IF u.age > Lines3 THEN Ps!NoSplit ELSE u
    BY Frame DEF Ps!Expire
  <2> HIDE DEF u, s
  <2>9. s \in Splits
    BY <1>2, <2>6, <2>8
  <2>10. s.line >= 0 => s = u
    BY <1>2, <2>8
  <2>11. idle > Lines3 => s = Ps!NoSplit
    BY <1>1, <2>3, <2>6, <2>8, Frame
  <2> QED
    BY <1>2, <2>3, <2>5, <2>6, <2>7, <2>9, <2>10, <2>11 DEF u, s
<1>4. CASE ~ (Ps!Alternating /\ Ps!Visible # {})
  <2>1. u = split
    BY <1>4 DEF Ps!Latched
  <2>2. s = IF split.age > Lines3 THEN Ps!NoSplit ELSE split
    BY <2>1, Frame DEF Ps!Expire
  <2>3. split.line \in Int /\ split.age \in Int
    BY <1>1, Frame DEF Splits
  <2> HIDE DEF u, s
  <2>4. s \in Splits
    BY <1>1, <1>2, <2>2
  <2>5. s.line >= 0 => s = split
    BY <1>2, <2>2
  <2>6. idle > Lines3 => s.line < 0
    <3> SUFFICES ASSUME idle > Lines3, split.line >= 0 PROVE s = Ps!NoSplit
      BY <1>2, <2>2, <2>3
    <3>1. split.age > Lines3
      BY <1>1, <2>3, Frame DEF Aging
    <3> QED
      BY <2>2, <3>1
  <2>7. screen = "menu" /\ InMenu => (s.line >= 0 => s.line \in Seams)
    BY <2>5 DEF InMenu
  <2>8. s.line >= 0 => s.age >= idle /\ Len(pal_sw) >= 3
    BY <2>5 DEF Aging
  <2> QED
    BY <2>4, <2>6, <2>7, <2>8 DEF u, s
<1> QED
  BY <1>3, <1>4

LEMMA RenderHolds ==
  ASSUME PartsAssumption, Palette, Ps!vga_render
  PROVE  Palette'
<1>1. Registers /\ Aging
  BY DEF Palette
<1>2. split' = Ps!Expire(Ps!Latched)
      /\ UNCHANGED <<line, ar14, pal_sw, pal_sw_base, screen, idle, flips>>
  BY DEF Ps!vga_render
<1>3. /\ split' \in Splits
      /\ split'.line >= 0 => split'.age >= idle /\ Len(pal_sw) >= 3
      /\ screen = "menu" /\ InMenu => (split'.line >= 0 => split'.line \in Seams)
  BY <1>1, <1>2, LatchedIs
<1>4. Registers' /\ Aging'
  BY <1>1, <1>2, <1>3 DEF Registers, Aging
<1>5. screen' = "menu" => InMenu'
  BY <1>2, <1>3 DEF Palette, InMenu, Until
<1> QED
  BY <1>2, <1>4, <1>5 DEF Palette

\* A change of the register is noted at the end of the ring.
LEMMA WrittenIs ==
  ASSUME PartsAssumption, Registers, NEW v \in {0, 1}, v # ar14, Ps!WriteAr14(v)
  PROVE  LET k == IF Len(pal_sw) = PalSw THEN 1 ELSE 0 IN
         /\ Len(pal_sw') = Len(pal_sw) + 1 - k /\ Len(pal_sw') \in Nat /\ Len(pal_sw) \in Nat
         /\ pal_sw' \in Seq(Switches) /\ Len(pal_sw') <= PalSw /\ ar14' = v
         /\ pal_sw'[Len(pal_sw')] = [val |-> v, line |-> line, age |-> 0]
         /\ \A i \in 1 .. Len(pal_sw') - 1 : i + k \in 1 .. Len(pal_sw) /\ pal_sw'[i] = pal_sw[i + k]
         /\ pal_sw_base' \in Ps!Banks
<1> DEFINE e == [val |-> v, line |-> line, age |-> 0]
           s == Append(pal_sw, e)
           k == IF Len(pal_sw) = PalSw THEN 1 ELSE 0
<1>1. PalSw \in Nat /\ PalSw >= 3 /\ Lines3 \in Nat
  BY Frame
<1>2. pal_sw \in Seq(Switches) /\ Len(pal_sw) \in Nat /\ Len(pal_sw) <= PalSw
      /\ line \in 0 .. Vtotal - 1 /\ pal_sw_base \in Ps!Banks
  BY DEF Registers
<1>3. e \in Switches
  BY <1>1, <1>2 DEF Switches, Ps!Banks
<1>4. /\ ar14' = v
      /\ IF Len(pal_sw) = PalSw
         THEN pal_sw' = Tail(s) /\ pal_sw_base' = pal_sw[1].val
         ELSE pal_sw' = s /\ UNCHANGED pal_sw_base
  BY DEF Ps!WriteAr14
<1> HIDE DEF e
<1>5. /\ s \in Seq(Switches) /\ Len(s) = Len(pal_sw) + 1
      /\ \A i \in 1 .. Len(pal_sw) : s[i] = pal_sw[i]
      /\ s[Len(pal_sw) + 1] = e
  BY <1>2, <1>3
<1> HIDE DEF s
<1>6. CASE Len(pal_sw) = PalSw
  <2>1. pal_sw' = Tail(s) /\ k = 1
    BY <1>4, <1>6
  <2>2. /\ pal_sw' \in Seq(Switches) /\ Len(pal_sw') = Len(pal_sw)
        /\ \A i \in 1 .. Len(pal_sw) : pal_sw'[i] = s[i + 1]
    BY <1>2, <1>5, <2>1
  <2>3. pal_sw_base' \in Ps!Banks
    <3>1. 1 \in 1 .. Len(pal_sw)
      BY <1>1, <1>6
    <3> QED
      BY <1>4, <1>6, <3>1, SwitchIs DEF Ps!Banks
  <2> HIDE DEF k
  <2>4. /\ pal_sw'[Len(pal_sw')] = e
        /\ \A i \in 1 .. Len(pal_sw') - 1 : i + k \in 1 .. Len(pal_sw) /\ pal_sw'[i] = pal_sw[i + k]
    BY <1>1, <1>2, <1>5, <1>6, <2>1, <2>2
  <2> QED
    BY <1>1, <1>2, <1>4, <1>6, <2>1, <2>2, <2>3, <2>4 DEF e, k
<1>7. CASE Len(pal_sw) # PalSw
  <2>1. pal_sw' = s /\ k = 0 /\ pal_sw_base' = pal_sw_base
    BY <1>4, <1>7
  <2> HIDE DEF k
  <2>2. /\ pal_sw'[Len(pal_sw')] = e
        /\ \A i \in 1 .. Len(pal_sw') - 1 : i + k \in 1 .. Len(pal_sw) /\ pal_sw'[i] = pal_sw[i + k]
    BY <1>1, <1>2, <1>5, <2>1
  <2> QED
    BY <1>1, <1>2, <1>4, <1>5, <1>7, <2>1, <2>2 DEF e, k
<1> QED
  BY <1>6, <1>7

\* The menu's switch: the ring stays the menu's, and its next switch is no
\* more than a frame, or two, away.
LEMMA MenuFlipHolds ==
  ASSUME PartsAssumption, Palette, Ps!MenuFlip
  PROVE  Palette'
<1> DEFINE k == IF Len(pal_sw) = PalSw THEN 1 ELSE 0
           N == Len(pal_sw)
           M == Len(pal_sw')
<1>1. Registers /\ Aging /\ screen = "menu" /\ InMenu
  BY DEF Palette, Ps!MenuFlip
<1>2. PICK v \in {0, 1} :
        /\ v # ar14 /\ Ps!WriteAr14(v)
        /\ IF v = 1 THEN line = Flip ELSE line \in Mid .. Mid + Wander
  BY DEF Ps!MenuFlip
<1>3. /\ flips' = (IF flips < 4 THEN flips + 1 ELSE flips) /\ idle' = 0
      /\ UNCHANGED <<line, split, screen>>
  BY DEF Ps!MenuFlip
<1>4. /\ k \in {0, 1} /\ (k = 1 <=> N = PalSw)
  OBVIOUS
<1>5. /\ M = N + 1 - k /\ M \in Nat /\ N \in Nat
      /\ pal_sw' \in Seq(Switches) /\ M <= PalSw /\ ar14' = v
      /\ pal_sw'[M] = [val |-> v, line |-> line, age |-> 0]
      /\ \A i \in 1 .. M - 1 : i + k \in 1 .. N /\ pal_sw'[i] = pal_sw[i + k]
      /\ pal_sw_base' \in Ps!Banks
  BY <1>1, <1>2, WrittenIs
<1>6. /\ \A i \in 1 .. N : OfMenu(pal_sw[i])
      /\ \A i \in 1 .. N - 1 : pal_sw[i + 1].val # pal_sw[i].val
      /\ N > 0 => pal_sw[N].val = ar14 /\ pal_sw[N].age = idle
      /\ N = 0 => ar14 = 0
      /\ flips <= N \/ N = PalSw
      /\ split.line >= 0 => split.line \in Seams
      /\ ar14 = 0 => idle + Until(Flip) < 2 * Vtotal
  BY <1>1 DEF InMenu
<1>7. /\ split.line >= 0 => split.age >= idle /\ N >= 3
      /\ \A i \in 1 .. N : pal_sw[i].age >= idle
  BY <1>1 DEF Aging
<1> HIDE DEF k, N, M
<1>8. M > 0 /\ pal_sw'[M].val = v /\ pal_sw'[M].age = 0 /\ pal_sw'[M].line = line
  BY <1>4, <1>5, <1>1, Frame DEF Registers, N
<1>9. flips \in 0 .. 4 /\ line \in 0 .. Vtotal - 1 /\ N <= PalSw /\ idle \in 0 .. Lines3 + 1
      /\ ar14 \in {0, 1} /\ split \in Splits
  BY <1>1 DEF Registers, N, Ps!Banks
<1>10. Registers'
  <2>1. ar14' \in Ps!Banks
    BY <1>5 DEF Ps!Banks
  <2>2. flips' \in 0 .. 4
    BY <1>3, <1>9
  <2>3. idle' \in 0 .. Lines3 + 1
    BY <1>3, Frame
  <2> QED
    BY <1>1, <1>3, <1>5, <2>1, <2>2, <2>3 DEF Registers, M
<1>11. Aging'
  <2>1. \A i \in 1 .. Len(pal_sw') : pal_sw'[i].age \in Int /\ pal_sw'[i].age >= 0
    <3> SUFFICES ASSUME NEW i \in 1 .. Len(pal_sw')
                 PROVE  pal_sw'[i].age \in Int /\ pal_sw'[i].age >= 0
      OBVIOUS
    <3>1. pal_sw'[i] \in Switches
      BY <1>5
    <3> QED
      BY <3>1, Frame DEF Switches
  <2>2. split.line >= 0 => split.age >= 0 /\ M >= 3
    BY <1>4, <1>5, <1>7, <1>9, Frame DEF Splits
  <2> QED
    BY <1>3, <2>1, <2>2 DEF Aging, M
<1>12. \A i \in 1 .. M : OfMenu(pal_sw'[i])
  <2> SUFFICES ASSUME NEW i \in 1 .. M PROVE OfMenu(pal_sw'[i])
    OBVIOUS
  <2>1. CASE i = M
    BY <1>2, <1>8, <2>1 DEF OfMenu
  <2>2. CASE i # M
    <3>1. i \in 1 .. M - 1
      BY <1>5, <2>2
    <3> QED
      BY <1>5, <1>6, <3>1
  <2> QED
    BY <2>1, <2>2
<1>13. M > 1 => M - 1 \in 1 .. N /\ M - 1 + k = N /\ pal_sw'[M - 1] = pal_sw[N]
               /\ N > 0 /\ pal_sw[N].val = ar14
  BY <1>4, <1>5, <1>6
<1>14. \A i \in 1 .. M - 1 : pal_sw'[i + 1].val # pal_sw'[i].val
  <2> SUFFICES ASSUME NEW i \in 1 .. M - 1 PROVE pal_sw'[i + 1].val # pal_sw'[i].val
    OBVIOUS
  <2>1. CASE i = M - 1
    BY <1>2, <1>5, <1>8, <1>13, <2>1
  <2>2. CASE i # M - 1
    <3>1. i + 1 \in 1 .. M - 1
      BY <1>5, <2>2
    <3>2. i + k \in 1 .. N /\ (i + 1) + k \in 1 .. N /\ (i + 1) + k = (i + k) + 1
          /\ pal_sw'[i] = pal_sw[i + k] /\ pal_sw'[i + 1] = pal_sw[(i + 1) + k]
      BY <1>4, <1>5, <3>1
    <3>3. i + k \in 1 .. N - 1
      BY <1>5, <3>2
    <3>4. pal_sw[(i + k) + 1].val # pal_sw[i + k].val
      BY <1>6, <3>3
    <3> QED
      BY <3>2, <3>4
  <2> QED
    BY <2>1, <2>2
<1>15. flips' <= M \/ M = PalSw
  <2>1. CASE k = 1
    BY <1>4, <1>5, <2>1
  <2>2. CASE k = 0
    <3>1. M = N + 1 /\ N \in Nat /\ flips <= N
      BY <1>4, <1>5, <1>6, <2>2
    <3> QED
      BY <1>3, <1>9, <3>1
  <2> QED
    BY <1>4, <2>1, <2>2
<1>16. v = 0 => Until(Flip) + 0 < 2 * Vtotal
  BY <1>9, Frame DEF Until
<1>17. v = 1 /\ M > 1 => pal_sw'[M - 1].age + Until(Mid + Wander) < Lines3
  <2> SUFFICES ASSUME v = 1, M > 1 PROVE pal_sw'[M - 1].age + Until(Mid + Wander) < Lines3
    OBVIOUS
  <2>1. pal_sw'[M - 1].age = idle
    BY <1>6, <1>13
  <2>2. ar14 = 0 /\ line = Flip
    BY <1>2, <1>9
  <2>3. idle + Until(Flip) < 2 * Vtotal /\ Until(Flip) = 0
    BY <1>6, <1>9, <2>2, Frame DEF Until
  <2>4. Until(Mid + Wander) \in 0 .. Vtotal - 1
    BY <1>9, <2>2, Frame DEF Until
  <2> QED
    BY <1>9, <2>1, <2>3, <2>4, Frame
<1>18. InMenu'
  <2>1. \A l : Until(l)' = Until(l)
    BY <1>3 DEF Until
  <2>2. M > 0 => pal_sw'[M].val = ar14' /\ pal_sw'[M].age = idle'
    BY <1>3, <1>5, <1>8
  <2>3. ar14' = 0 => idle' + Until(Flip)' < 2 * Vtotal
    <3>1. Until(Flip) \in Nat
      BY <1>9, Frame DEF Until
    <3>2. Until(Flip)' = Until(Flip)
      BY <2>1
    <3> QED
      BY <1>3, <1>5, <1>16, <3>1, <3>2
  <2>4. ar14' = 1 /\ M > 1 => pal_sw'[M - 1].age + Until(Mid + Wander)' < Lines3
    BY <1>5, <1>17, <2>1
  <2>5. split'.line >= 0 => split'.line \in Seams
    BY <1>3, <1>6
  <2> QED
    BY <1>5, <1>8, <1>12, <1>14, <1>15, <2>2, <2>3, <2>4, <2>5 DEF InMenu, M
<1> QED
  BY <1>1, <1>3, <1>10, <1>11, <1>18 DEF Palette

LEMMA OldIs ==
  ASSUME PartsAssumption, NEW x \in 0 .. Lines3 + 1
  PROVE  /\ Ps!Old(x) \in 0 .. Lines3 + 1 /\ Ps!Old(x) <= x + 1 /\ x <= Ps!Old(x)
         /\ \A y \in 0 .. Lines3 + 1 : y <= x => Ps!Old(y) <= Ps!Old(x)
  BY Frame DEF Ps!Old

LEMMA LinePassed ==
  ASSUME PartsAssumption, line \in 0 .. Vtotal - 1, Ps!NextLine
  PROVE  /\ line' \in 0 .. Vtotal - 1
         /\ \A l \in 0 .. Vtotal - 1 :
              /\ Until(l) \in 0 .. Vtotal - 1 /\ Until(l)' \in 0 .. Vtotal - 1
              /\ Until(l)' = IF line = l THEN Vtotal - 1 ELSE Until(l) - 1
<1>1. Vtotal \in Nat \ {0} /\ line' = (line + 1) % Vtotal
  BY Frame DEF Ps!NextLine
<1>2. \A x \in 0 .. Vtotal - 1 : x % Vtotal = x
  BY <1>1
<1>3. Vtotal % Vtotal = 0
  BY <1>1
<1>4. line' = IF line + 1 = Vtotal THEN 0 ELSE line + 1
  BY <1>1, <1>2, <1>3
<1>5. \A l : Until(l)' = IF line' <= l THEN l - line' ELSE l - line' + Vtotal
  BY DEF Until
<1>6. line' \in 0 .. Vtotal - 1
  BY <1>1, <1>4
<1> SUFFICES ASSUME NEW l \in 0 .. Vtotal - 1
             PROVE  /\ Until(l) \in 0 .. Vtotal - 1 /\ Until(l)' \in 0 .. Vtotal - 1
                    /\ Until(l)' = IF line = l THEN Vtotal - 1 ELSE Until(l) - 1
  BY <1>6
<1>7. Until(l) \in 0 .. Vtotal - 1
  BY <1>1 DEF Until
<1>8. Until(l)' = IF line' <= l THEN l - line' ELSE l - line' + Vtotal
  BY <1>5
<1>9. Until(l)' \in 0 .. Vtotal - 1
  BY <1>1, <1>6, <1>8
<1>10. Until(l)' = IF line = l THEN Vtotal - 1 ELSE Until(l) - 1
  <2>1. CASE line + 1 = Vtotal
    BY <1>1, <1>4, <1>8, <2>1 DEF Until
  <2>2. CASE line + 1 # Vtotal
    BY <1>1, <1>4, <1>8, <2>2 DEF Until
  <2> QED
    BY <2>1, <2>2
<1> QED
  BY <1>7, <1>9, <1>10

\* The sums of the counting lines.
LEMMA SumBelow ==
  ASSUME NEW v \in Nat, NEW a \in Nat, NEW b \in Int, a <= v, b = v - 1
  PROVE  a + b < v + v
  OBVIOUS

LEMMA SumKept ==
  ASSUME NEW a \in Nat, NEW b \in Nat, NEW c \in Nat, NEW d \in Int, NEW z \in Int,
         a <= b + 1, d = c - 1, b + c < z
  PROVE  a + d < z
  OBVIOUS

LEMMA PassHolds ==
  ASSUME PartsAssumption, Palette, Ps!NextLine
  PROVE  Palette'
<1> DEFINE N == Len(pal_sw)
<1>1. Registers /\ Aging
  BY DEF Palette
<1>2. /\ ~ Ps!Due
      /\ pal_sw' = [i \in DOMAIN pal_sw |-> [pal_sw[i] EXCEPT !.age = Ps!Old(@)]]
      /\ split' = IF split.line < 0 THEN split ELSE [split EXCEPT !.age = Ps!Old(@)]
      /\ idle' = Ps!Old(idle)
      /\ UNCHANGED <<ar14, pal_sw_base, screen, flips>>
  BY DEF Ps!NextLine
<1>3. /\ line \in 0 .. Vtotal - 1 /\ idle \in 0 .. Lines3 + 1 /\ split \in Splits
      /\ pal_sw \in Seq(Switches) /\ N \in Nat /\ N <= PalSw /\ DOMAIN pal_sw = 1 .. N
      /\ ar14 \in {0, 1}
  BY <1>1 DEF Registers, Ps!Banks
<1>4. ASSUME NEW i \in 1 .. N
      PROVE  /\ pal_sw[i] \in Switches /\ pal_sw'[i] = [pal_sw[i] EXCEPT !.age = Ps!Old(@)]
             /\ pal_sw'[i] \in Switches /\ pal_sw'[i].val = pal_sw[i].val
             /\ pal_sw'[i].line = pal_sw[i].line /\ pal_sw'[i].age = Ps!Old(pal_sw[i].age)
             /\ pal_sw[i].age \in 0 .. Lines3 + 1
  <2>1. pal_sw[i] \in Switches /\ pal_sw[i].age \in 0 .. Lines3 + 1
    BY <1>1, SwitchIs
  <2>2. pal_sw'[i] = [pal_sw[i] EXCEPT !.age = Ps!Old(@)]
    BY <1>2, <1>3
  <2>3. Ps!Old(pal_sw[i].age) \in 0 .. Lines3 + 1
    BY <2>1, OldIs
  <2> QED
    BY <2>1, <2>2, <2>3 DEF Switches
<1>5. pal_sw' \in Seq(Switches) /\ Len(pal_sw') = N
  <2>1. \A i \in 1 .. N : pal_sw[i] \in Switches /\ [pal_sw[i] EXCEPT !.age = Ps!Old(@)] \in Switches
    BY <1>4
  <2> QED
    BY <1>2, <1>3, <2>1
<1>6. /\ split' \in Splits /\ split'.line = split.line
      /\ split.line >= 0 => split'.age = Ps!Old(split.age)
      /\ split.age \in 0 .. Lines3 + 1
  <2>1. split.age \in 0 .. Lines3 + 1 /\ split.line \in -1 .. Vtotal - 1
    BY <1>3 DEF Splits
  <2>2. Ps!Old(split.age) \in 0 .. Lines3 + 1
    BY <2>1, OldIs
  <2>3. CASE split.line < 0
    BY <1>2, <1>3, <2>1, <2>3
  <2>4. CASE ~ (split.line < 0)
    <3>1. split' = [split EXCEPT !.age = Ps!Old(split.age)]
      BY <1>2, <2>4
    <3> QED
      BY <1>3, <2>1, <2>2, <3>1 DEF Splits
  <2> QED
    BY <2>3, <2>4
<1>7. idle' \in 0 .. Lines3 + 1 /\ line' \in 0 .. Vtotal - 1
  BY <1>2, <1>3, OldIs, LinePassed
<1>8. Registers'
  BY <1>1, <1>2, <1>3, <1>5, <1>6, <1>7 DEF Registers
<1>9. \A i \in 1 .. N : pal_sw'[i].age >= idle'
  <2> SUFFICES ASSUME NEW i \in 1 .. N PROVE pal_sw'[i].age >= idle'
    OBVIOUS
  <2>1. idle <= pal_sw[i].age
    BY <1>1, <1>3, <1>4 DEF Aging
  <2> QED
    BY <1>2, <1>3, <1>4, <2>1, OldIs
<1>10. split'.line >= 0 => split'.age >= idle' /\ N >= 3
  <2> SUFFICES ASSUME split.line >= 0 PROVE split'.age >= idle' /\ N >= 3
    BY <1>6
  <2>1. idle <= split.age /\ N >= 3
    BY <1>1, <1>3, <1>6 DEF Aging
  <2>2. Ps!Old(idle) <= Ps!Old(split.age)
    BY <1>3, <1>6, <2>1, OldIs
  <2>3. Ps!Old(idle) \in Int /\ Ps!Old(split.age) \in Int
    BY <1>3, <1>6, OldIs
  <2> QED
    BY <1>2, <1>6, <2>1, <2>2, <2>3
<1>11. Aging'
  BY <1>5, <1>9, <1>10 DEF Aging
<1>12. ASSUME screen = "menu" PROVE InMenu'
  <2>1. InMenu
    BY <1>12 DEF Palette
  <2>2. \A i \in 1 .. N : OfMenu(pal_sw'[i])
    BY <1>4, <2>1 DEF InMenu, OfMenu
  <2>3. \A i \in 1 .. N - 1 : pal_sw'[i + 1].val # pal_sw'[i].val
    <3> SUFFICES ASSUME NEW i \in 1 .. N - 1 PROVE pal_sw'[i + 1].val # pal_sw'[i].val
      OBVIOUS
    <3>1. i \in 1 .. N /\ i + 1 \in 1 .. N
      BY <1>3
    <3> QED
      BY <1>4, <2>1, <3>1 DEF InMenu
  <2>4. N > 0 => pal_sw'[N].val = ar14 /\ pal_sw'[N].age = idle'
    <3> SUFFICES ASSUME N > 0 PROVE pal_sw'[N].val = ar14 /\ pal_sw'[N].age = idle'
      OBVIOUS
    <3>1. N \in 1 .. N
      BY <1>3
    <3> QED
      BY <1>2, <1>4, <2>1, <3>1 DEF InMenu
  <2>5. ar14 = 0 => idle' + Until(Flip)' < 2 * Vtotal
    <3> SUFFICES ASSUME ar14 = 0 PROVE idle' + Until(Flip)' < 2 * Vtotal
      OBVIOUS
    <3>0. Flip \in 0 .. Vtotal - 1 /\ Vtotal \in Nat /\ 2 * Vtotal = Vtotal + Vtotal /\ Lines3 \in Nat
      BY Frame
    <3>1. /\ Until(Flip) \in 0 .. Vtotal - 1 /\ Until(Flip)' \in 0 .. Vtotal - 1
          /\ Until(Flip)' = IF line = Flip THEN Vtotal - 1 ELSE Until(Flip) - 1
      BY <1>3, <3>0, LinePassed
    <3>2. idle' <= idle + 1 /\ idle' \in 0 .. Lines3 + 1
      BY <1>2, <1>3, OldIs
    <3>3. idle + Until(Flip) < 2 * Vtotal
      BY <2>1 DEF InMenu
    <3>4. CASE line = Flip
      <4>1. ~ (idle >= Vtotal)
        BY <1>2, <1>12, <3>4 DEF Ps!Due
      <4>2. idle' <= Vtotal /\ Until(Flip)' = Vtotal - 1
        BY <1>3, <3>0, <3>1, <3>2, <3>4, <4>1
      <4>3. idle' \in Nat /\ Until(Flip)' \in Int
        BY <3>0, <3>1, <3>2
      <4>4. idle' + Until(Flip)' < Vtotal + Vtotal
        BY <3>0, <4>2, <4>3, SumBelow
      <4> QED
        BY <3>0, <4>4
    <3>5. CASE line # Flip
      <4>1. Until(Flip)' = Until(Flip) - 1
        BY <3>1, <3>5
      <4> QED
        BY <1>3, <3>0, <3>1, <3>2, <3>3, <4>1, SumKept
    <3> QED
      BY <3>4, <3>5
  <2>6. ar14 = 1 /\ N > 1 => pal_sw'[N - 1].age + Until(Mid + Wander)' < Lines3
    <3> SUFFICES ASSUME ar14 = 1, N > 1 PROVE pal_sw'[N - 1].age + Until(Mid + Wander)' < Lines3
      OBVIOUS
    <3>1. Mid + Wander \in 0 .. Vtotal - 1
      BY Frame
    <3>2. line # Mid + Wander
      BY <1>2, <1>12 DEF Ps!Due
    <3>3. Until(Mid + Wander)' = Until(Mid + Wander) - 1 /\ Until(Mid + Wander) \in 0 .. Vtotal - 1
      BY <1>3, <3>1, <3>2, LinePassed
    <3>4. N - 1 \in 1 .. N
      BY <1>3
    <3>5. /\ pal_sw'[N - 1].age = Ps!Old(pal_sw[N - 1].age)
          /\ pal_sw[N - 1].age \in 0 .. Lines3 + 1
      BY <1>4, <3>4
    <3>6. pal_sw'[N - 1].age <= pal_sw[N - 1].age + 1 /\ pal_sw'[N - 1].age \in 0 .. Lines3 + 1
      BY <3>5, OldIs
    <3>7. pal_sw[N - 1].age + Until(Mid + Wander) < Lines3
      BY <2>1 DEF InMenu
    <3>8. Lines3 \in Nat /\ Vtotal \in Nat
      BY Frame
    <3> QED
      BY <3>3, <3>5, <3>6, <3>7, <3>8, SumKept
  <2> HIDE DEF N
  <2> QED
    BY <1>2, <1>5, <1>6, <2>1, <2>2, <2>3, <2>4, <2>5, <2>6 DEF InMenu, N
<1> QED
  BY <1>2, <1>8, <1>11, <1>12 DEF Palette

LEMMA LeaveHolds ==
  ASSUME Palette, Ps!LeaveMenu \/ UNCHANGED Ps!vars
  PROVE  Palette'
<1>1. CASE Ps!LeaveMenu
  <2>1. /\ screen' = "other" /\ flips' = 0
        /\ UNCHANGED <<line, ar14, pal_sw, pal_sw_base, split, idle>>
    BY <1>1 DEF Ps!LeaveMenu
  <2> QED
    BY <2>1 DEF Palette, Registers, Aging
<1>2. CASE UNCHANGED Ps!vars
  BY <1>2 DEF Ps!vars, Palette, Registers, Aging, InMenu, Until
<1> QED
  BY <1>1, <1>2

LEMMA OtherWriteHolds ==
  ASSUME PartsAssumption, Palette, Ps!OtherWrite
  PROVE  Palette'
<1>1. Registers /\ Aging /\ flips = 0
  BY Frame DEF Palette, Registers, Ps!OtherWrite
<1>2. screen = "other" /\ idle' = 0 /\ UNCHANGED <<line, split, screen, flips>>
  BY DEF Ps!OtherWrite
<1>3. PICK v \in {0, 1} : Ps!WriteAr14(v)
  BY DEF Ps!OtherWrite
<1>4. /\ pal_sw' \in Seq(Switches) /\ Len(pal_sw') <= PalSw /\ ar14' \in Ps!Banks
      /\ pal_sw_base' \in Ps!Banks /\ Len(pal_sw) \in Nat /\ Len(pal_sw') \in Nat
      /\ Len(pal_sw) >= 3 => Len(pal_sw') >= 3
  <2>1. CASE v = ar14
    BY <1>1, <1>3, <2>1 DEF Ps!WriteAr14, Registers
  <2>2. CASE v # ar14
    BY <1>1, <1>3, <2>2, WrittenIs DEF Ps!Banks
  <2> QED
    BY <2>1, <2>2
<1>5. Registers'
  <2>1. idle' \in 0 .. Lines3 + 1
    BY <1>2, Frame
  <2> QED
    BY <1>1, <1>2, <1>4, <2>1 DEF Registers
<1>6. Aging'
  <2>1. \A i \in 1 .. Len(pal_sw') : pal_sw'[i].age >= 0
    <3> SUFFICES ASSUME NEW i \in 1 .. Len(pal_sw') PROVE pal_sw'[i].age >= 0
      OBVIOUS
    <3>1. pal_sw'[i] \in Switches
      BY <1>4
    <3> QED
      BY <3>1, Frame DEF Switches
  <2>2. split.line >= 0 => split.age >= 0
    BY <1>1, Frame DEF Registers, Splits
  <2> QED
    BY <1>1, <1>2, <1>4, <2>1, <2>2 DEF Aging
<1> QED
  BY <1>1, <1>2, <1>5, <1>6 DEF Palette

\* A mode set, and the start.
LEMMA ModeHolds ==
  ASSUME PartsAssumption, line' \in 0 .. Vtotal - 1, ar14' = 0, pal_sw' = <<>>, pal_sw_base' = 0,
         split' = Ps!NoSplit, screen' \in {"menu", "other"}, flips' = 0, idle' = 0
  PROVE  Palette'
<1>1. Ps!NoSplit \in Splits /\ Ps!NoSplit.line = -1
  BY Frame DEF Ps!NoSplit, Splits, Ps!Banks
<1>2. pal_sw' \in Seq(Switches) /\ Len(pal_sw') = 0
  OBVIOUS
<1>3. ar14' \in Ps!Banks /\ pal_sw_base' \in Ps!Banks /\ flips' \in 0 .. 4
  BY DEF Ps!Banks
<1>4. idle' \in 0 .. Lines3 + 1 /\ Len(pal_sw') <= PalSw
  BY <1>2, Frame
<1>5. Registers'
  BY <1>1, <1>2, <1>3, <1>4 DEF Registers
<1>6. Aging'
  BY <1>1, <1>2 DEF Aging
<1>7. idle' + Until(Flip)' < 2 * Vtotal
  <2>1. Until(Flip)' = IF line' <= Flip THEN Flip - line' ELSE Flip - line' + Vtotal
    BY DEF Until
  <2> QED
    BY <2>1, Frame
<1>8. InMenu'
  BY <1>1, <1>2, <1>7 DEF InMenu
<1> QED
  BY <1>5, <1>6, <1>8 DEF Palette

LEMMA PaletteAlways ==
  ASSUME PartsAssumption
  PROVE  Ps!Spec => []Palette
<1>1. Ps!Init => Palette
  <2> SUFFICES ASSUME Ps!Init PROVE Palette
    OBVIOUS
  <2>0. /\ line = 0 /\ ar14 = 0 /\ pal_sw = <<>> /\ pal_sw_base = 0
        /\ split = Ps!NoSplit /\ screen = "menu" /\ idle = 0 /\ flips = 0
    BY DEF Ps!Init
  <2>1. Ps!NoSplit \in Splits /\ Ps!NoSplit.line = -1
    BY Frame DEF Ps!NoSplit, Splits, Ps!Banks
  <2>2. pal_sw \in Seq(Switches) /\ Len(pal_sw) = 0
    BY <2>0
  <2>3. ar14 \in Ps!Banks /\ pal_sw_base \in Ps!Banks /\ flips \in 0 .. 4
    BY <2>0 DEF Ps!Banks
  <2>4. idle \in 0 .. Lines3 + 1 /\ Len(pal_sw) <= PalSw /\ line \in 0 .. Vtotal - 1
    BY <2>0, <2>2, Frame
  <2>5. Registers
    BY <2>0, <2>1, <2>2, <2>3, <2>4 DEF Registers
  <2>6. Aging
    BY <2>0, <2>1, <2>2 DEF Aging
  <2>7. idle + Until(Flip) < 2 * Vtotal
    BY <2>0, Frame DEF Until
  <2>8. InMenu
    BY <2>0, <2>1, <2>2, <2>7 DEF InMenu
  <2> QED
    BY <2>0, <2>5, <2>6, <2>8 DEF Palette
<1>2. Palette /\ [Ps!Next]_(Ps!vars) => Palette'
  <2> SUFFICES ASSUME Palette, [Ps!Next]_(Ps!vars) PROVE Palette'
    OBVIOUS
  <2>1. CASE Ps!apply_regs
    <3>1. line' \in 0 .. Vtotal - 1
      BY <2>1 DEF Ps!apply_regs, Palette, Registers
    <3> QED
      BY <2>1, <3>1, ModeHolds DEF Ps!apply_regs
  <2> QED
    BY <2>1, RenderHolds, MenuFlipHolds, PassHolds, LeaveHolds, OtherWriteHolds DEF Ps!Next
<1> QED
  BY <1>1, <1>2, PTL DEF Ps!Spec

\* The variables of the split palette have their types.
THEOREM PaletteTyped ==
  ASSUME PartsAssumption
  PROVE  Ps!Spec => []Ps!TypeOK
<1>1. Palette => Ps!TypeOK
  <2> SUFFICES ASSUME Palette PROVE Ps!TypeOK
    OBVIOUS
  <2>1. Registers
    BY DEF Palette
  <2>2. \A i \in DOMAIN pal_sw : pal_sw[i] \in Switches
    BY <2>1 DEF Registers
  <2>3. Lines3 = Ps!Frame3
    BY Frame
  <2> QED
    BY <2>1, <2>2, <2>3 DEF Registers, Switches, Splits, Ps!TypeOK
<1> QED
  BY <1>1, PaletteAlways, PTL

\* MenuSteady: once the menu has gone back and forth twice, any picture has bank 1
\* above the seam and bank 0 below.
LEMMA SplitShown ==
  ASSUME PartsAssumption, Palette, flips = 4
  PROVE  LET s == Ps!Expire(Ps!Latched) IN
         /\ s.line >= 0 /\ s.hi = 1 /\ s.lo = 0
         /\ split.line >= 0 => s.line = split.line
<1> DEFINE N == Len(pal_sw)
           c == IF ar14 = 0 THEN N ELSE N - 1
           i == CHOOSE i \in Ps!Visible : \A j \in Ps!Visible : j <= i
<1>1. Registers /\ InMenu
  BY DEF Palette
<1>2. N \in Nat /\ N >= 3 /\ DOMAIN pal_sw = 1 .. N /\ ar14 \in {0, 1}
  BY <1>1, Frame DEF Registers, InMenu, Ps!Banks
<1>3. /\ \A j \in 1 .. N : OfMenu(pal_sw[j])
      /\ \A j \in 1 .. N - 1 : pal_sw[j + 1].val # pal_sw[j].val
      /\ pal_sw[N].val = ar14 /\ pal_sw[N].age = idle
      /\ ar14 = 0 => idle + Until(Flip) < 2 * Vtotal
      /\ ar14 = 1 => pal_sw[N - 1].age + Until(Mid + Wander) < Lines3
      /\ split.line >= 0 => split.line \in Seams
  BY <1>1, <1>2 DEF InMenu
<1>4. \A j \in 1 .. N : /\ pal_sw[j].val \in {0, 1} /\ pal_sw[j].line \in 0 .. Vtotal - 1
                        /\ pal_sw[j].age \in 0 .. Lines3 + 1
  BY <1>1, SwitchIs
<1>5. \A j \in 1 .. N : \A z \in 1 .. N : z = j + 1 => pal_sw[z].val = 1 - pal_sw[j].val
  <2> SUFFICES ASSUME NEW j \in 1 .. N, j + 1 \in 1 .. N PROVE pal_sw[j + 1].val = 1 - pal_sw[j].val
    OBVIOUS
  <2>1. j \in 1 .. N - 1
    BY <1>2
  <2>2. pal_sw[j + 1].val # pal_sw[j].val
    BY <1>3, <2>1
  <2> QED
    BY <1>4, <2>2
<1> HIDE DEF N
<1>6. N - 2 \in 1 .. N /\ N - 1 \in 1 .. N /\ N \in 1 .. N /\ N = (N - 1) + 1 /\ N - 1 = (N - 2) + 1
  BY <1>2
<1>7. /\ pal_sw[N].val = 1 - pal_sw[N - 1].val /\ pal_sw[N - 1].val = 1 - pal_sw[N - 2].val
  BY <1>5, <1>6
<1>8. /\ pal_sw[N].val # pal_sw[N - 1].val /\ pal_sw[N].val = pal_sw[N - 2].val
  BY <1>4, <1>6, <1>7
<1>9. Ps!Alternating
  BY <1>2, <1>8 DEF Ps!Alternating, N
<1>10. c \in 2 .. N /\ pal_sw[c].val = 0 /\ pal_sw[c - 1].val = 1 /\ c - 1 \in 1 .. N
  <2>1. CASE ar14 = 0
    BY <1>2, <1>3, <1>4, <1>6, <1>7, <2>1
  <2>2. CASE ar14 = 1
    <3>1. c = N - 1 /\ c - 1 = N - 2
      BY <1>2, <2>2
    <3> QED
      BY <1>2, <1>3, <1>4, <1>6, <1>7, <2>2, <3>1
  <2> QED
    BY <1>2, <2>1, <2>2
<1>11. pal_sw[c].line \in Mid .. Mid + Wander /\ Ps!Prev(c) = 1
  BY <1>2, <1>3, <1>10 DEF OfMenu, Ps!Prev
<1>12. c \in Ps!Visible
  <2>1. c \in 1 .. N /\ pal_sw[c].line \in Mid .. Mid + Wander
    BY <1>2, <1>10, <1>11
  <2>2. pal_sw[c].line < Vde
    <3>1. Mid \in Int /\ Wander \in Int /\ Vde \in Int /\ Mid + Wander < Vde
      BY Frame
    <3> HIDE DEF c
    <3> QED
      BY <2>1, <3>1
  <2>3. pal_sw[c].val # Ps!Prev(c)
    BY <1>10, <1>11
  <2> HIDE DEF c
  <2> QED
    BY <1>2, <2>1, <2>2, <2>3 DEF Ps!Visible
<1>13. c # N => c = N - 1 /\ N \notin Ps!Visible
  <2> SUFFICES ASSUME c # N PROVE c = N - 1 /\ N \notin Ps!Visible
    OBVIOUS
  <2>1. ar14 = 1 /\ c = N - 1
    BY <1>2
  <2>2. pal_sw[N].line = Flip
    BY <1>3, <1>6, <2>1 DEF OfMenu
  <2> QED
    BY <2>1, <2>2, Frame DEF Ps!Visible
<1>14. pal_sw[c].age <= Lines3
  <2>1. CASE ar14 = 0
    <3>0. Flip \in 0 .. Vtotal - 1 /\ line \in 0 .. Vtotal - 1 /\ Vtotal \in Nat /\ Lines3 = Vtotal + Vtotal + Vtotal
      BY <1>1, Frame DEF Registers
    <3>1. Until(Flip) \in Nat
      BY <3>0 DEF Until
    <3>2. idle \in 0 .. Lines3 + 1 /\ 2 * Vtotal = Vtotal + Vtotal
      BY <1>1, Frame DEF Registers
    <3>3. idle + Until(Flip) < Vtotal + Vtotal
      BY <1>3, <2>1, <3>2
    <3>4. pal_sw[c].age = idle
      BY <1>2, <1>3, <2>1
    <3> HIDE DEF c
    <3> QED
      BY <3>0, <3>1, <3>2, <3>3, <3>4
  <2>2. CASE ar14 = 1
    <3>0. Mid + Wander \in 0 .. Vtotal - 1 /\ line \in 0 .. Vtotal - 1 /\ Vtotal \in Nat /\ Lines3 \in Nat
      BY <1>1, Frame DEF Registers
    <3>1. Until(Mid + Wander) \in Nat
      BY <3>0 DEF Until
    <3>2. c = N - 1 /\ pal_sw[N - 1].age \in 0 .. Lines3 + 1
      BY <1>2, <1>4, <1>6, <2>2
    <3>3. pal_sw[N - 1].age + Until(Mid + Wander) < Lines3
      BY <1>3, <2>2
    <3> HIDE DEF c
    <3> QED
      BY <3>0, <3>1, <3>2, <3>3
  <2> QED
    BY <1>2, <2>1, <2>2
<1> HIDE DEF c
<1>15. i \in 1 .. N /\ i \in Ps!Visible /\ \A j \in Ps!Visible : j <= i
  BY <1>1, <1>12, VisibleIs DEF N
<1> HIDE DEF i
<1>16. i = c
  BY <1>2, <1>10, <1>12, <1>13, <1>15
<1> DEFINE a == [line |-> Ps!Seam(i), hi |-> Ps!Prev(i), lo |-> pal_sw[i].val, age |-> pal_sw[i].age]
<1>17. Ps!Latched = a
  BY <1>9, <1>12 DEF Ps!Latched, i
<1>18. Ps!Seam(c) \in 0 .. Vtotal - 1 /\ (split.line >= 0 => Ps!Seam(c) = split.line)
  <2>1. c \in 1 .. N
    BY <1>2, <1>10
  <2> QED
    BY <1>1, <1>3, <1>11, <2>1, SeamIs DEF N
<1>19. a.line = Ps!Seam(c) /\ a.hi = 1 /\ a.lo = 0 /\ a.age = pal_sw[c].age
  BY <1>10, <1>11, <1>16
<1> HIDE DEF a
<1>20. Ps!Expire(a) = a
  <2>1. pal_sw[c].age \in 0 .. Lines3 + 1
    BY <1>2, <1>4, <1>10
  <2> QED
    BY <1>14, <1>19, <2>1, Frame DEF Ps!Expire
<1> QED
  BY <1>17, <1>18, <1>19, <1>20, Frame

\* SeamLeaves: three frames after the last write, or with fewer switches than a
\* split is taken from, there is no seam.
LEMMA SeamGone ==
  ASSUME PartsAssumption, Palette
  PROVE  Ps!SeamLeaves
<1>1. Registers /\ Aging
  BY DEF Palette
<1> DEFINE s == Ps!Expire(Ps!Latched)
<1>2. /\ s \in Splits
      /\ s.line >= 0 => s.age >= idle /\ Len(pal_sw) >= 3
      /\ idle > Lines3 => s.line < 0
  BY <1>1, LatchedIs
<1> HIDE DEF s
<1>3. Len(pal_sw) \in Nat /\ s.line \in Int
  BY <1>1, <1>2, Frame DEF Registers, Splits
<1> QED
  BY <1>2, <1>3, Frame DEF Ps!SeamLeaves, s

\* SeamStands: while the menu is up its seam does not move.
LEMMA SeamKept ==
  ASSUME PartsAssumption, Palette, [Ps!Next]_(Ps!vars), flips = 4, flips' = 4, split.line >= 0
  PROVE  split'.line = split.line
<1>1. CASE Ps!vga_render
  BY <1>1, SplitShown DEF Ps!vga_render
<1>2. CASE Ps!NextLine
  <2>1. split' = IF split.line < 0 THEN split ELSE [split EXCEPT !.age = Ps!Old(@)]
    BY <1>2 DEF Ps!NextLine
  <2>2. split \in Splits
    BY DEF Palette, Registers
  <2> QED
    BY <2>1, <2>2 DEF Splits
<1>3. CASE Ps!MenuFlip \/ Ps!LeaveMenu \/ Ps!OtherWrite \/ UNCHANGED Ps!vars
  BY <1>3 DEF Ps!MenuFlip, Ps!LeaveMenu, Ps!OtherWrite, Ps!vars
<1>4. CASE Ps!apply_regs
  BY <1>4 DEF Ps!apply_regs
<1> QED
  BY <1>1, <1>2, <1>3, <1>4 DEF Ps!Next

(***************************************************************************)
(* Numbers: the least of some, and remainders by any modulus.              *)
(***************************************************************************)

\* Numbers have a least.
LEMMA LeastElement ==
  ASSUME NEW T \in SUBSET Nat, T # {}
  PROVE  \E x \in T : \A u \in T : x <= u
<1>1. PICK x \in T : \A u \in T : ~ (<<u, x>> \in OpToRel(<, Nat))
  BY NatLessThanWellFounded, WFMin
<1>2. \A u \in T : ~ (u < x)
  BY <1>1 DEF OpToRel
<1> QED
  BY <1>2

\* Division leaves a remainder, there is only one, and it is the same one turn
\* further on.
LEMMA Quotients ==
  ASSUME NEW W \in Nat \ {0}, NEW x \in Int
  PROVE  \E q \in Int : x - q * W \in 0 .. W - 1
<1> DEFINE T == {u \in Nat : \E q \in Int : u = x - q * W}
<1>1. T # {}
  <2>1. CASE x >= 0
    <3>1. x = x - 0 * W
      OBVIOUS
    <3>2. x \in T
      BY <2>1, <3>1
    <3> QED
      BY <3>2
  <2>2. CASE x < 0
    <3> DEFINE z == - x
    <3>0. z \in Nat /\ z * W >= z
      BY <2>2
    <3>1. x - x * W >= 0
      <4>1. x * W = - (z * W)
        OBVIOUS
      <4>2. z * W \in Nat
        BY <3>0
      <4> QED
        BY <3>0, <4>1, <4>2
    <3>2. x - x * W \in Nat
      BY <3>1
    <3>3. x - x * W \in T
      BY <3>2
    <3> QED
      BY <3>3
  <2> HIDE DEF T
  <2> QED
    BY <2>1, <2>2
<1>2. PICK r \in T : \A u \in T : r <= u
  <2>1. T \in SUBSET Nat
    OBVIOUS
  <2> HIDE DEF T
  <2> QED
    BY <1>1, <2>1, LeastElement
<1>3. PICK q \in Int : r = x - q * W
  BY <1>2
<1>4. r < W
  <2> SUFFICES ASSUME r >= W PROVE FALSE
    BY <1>2
  <2>1. r - W = x - (q + 1) * W
    <3>1. (q + 1) * W = q * W + W
      OBVIOUS
    <3>2. q * W \in Int
      OBVIOUS
    <3> QED
      BY <1>3, <3>1, <3>2
  <2>2. r - W \in T
    BY <1>2, <2>1
  <2>3. r \in Nat /\ r <= r - W
    BY <1>2, <2>2
  <2> QED
    BY <2>3
<1> QED
  BY <1>2, <1>3, <1>4

LEMMA Remainder ==
  ASSUME NEW W \in Nat \ {0}, NEW q \in Int, NEW r \in 0 .. W - 1
  PROVE  (q * W + r) % W = r
  OBVIOUS

LEMMA Around ==
  ASSUME NEW W \in Nat \ {0}, NEW x \in Int
  PROVE  (x + W) % W = x % W
<1>1. PICK q \in Int : x - q * W \in 0 .. W - 1
  BY Quotients
<1> DEFINE r == x - q * W
<1>2. q * W \in Int /\ (q + 1) * W = q * W + W
  OBVIOUS
<1>3. x = q * W + r /\ x + W = (q + 1) * W + r
  BY <1>2
<1>4. r \in 0 .. W - 1 /\ q + 1 \in Int
  BY <1>1
<1> HIDE DEF r
<1>5. (q * W + r) % W = r /\ ((q + 1) * W + r) % W = r
  BY <1>4, Remainder
<1> QED
  BY <1>3, <1>5



\* A remainder may be taken on the way.
LEMMA Onward ==
  ASSUME NEW W \in Nat \ {0}, NEW x \in Int, NEW y \in Int
  PROVE  ((x % W) + y) % W = (x + y) % W
<1>1. PICK q \in Int : x - q * W \in 0 .. W - 1
  BY Quotients
<1> DEFINE r == x - q * W
<1>2. r \in 0 .. W - 1
  BY <1>1
<1>3. q * W \in Int /\ x = q * W + r
  OBVIOUS
<1> HIDE DEF r
<1>4. x % W = r
  BY <1>2, <1>3, Remainder
<1>5. r + y \in Int
  BY <1>2
<1>6. PICK p \in Int : (r + y) - p * W \in 0 .. W - 1
  BY <1>5, Quotients
<1> DEFINE s == (r + y) - p * W
<1>7. s \in 0 .. W - 1
  BY <1>6
<1>8. p * W \in Int /\ r + y = p * W + s
  BY <1>5
<1> HIDE DEF s
<1>9. (p + q) * W = p * W + q * W /\ p + q \in Int
  OBVIOUS
<1>10. x + y = (p + q) * W + s
  BY <1>2, <1>3, <1>7, <1>8, <1>9
<1>11. (p * W + s) % W = s /\ ((p + q) * W + s) % W = s
  BY <1>7, <1>9, Remainder
<1> QED
  BY <1>4, <1>8, <1>10, <1>11

(***************************************************************************)
(* The display memory, for bytes of any width, planes of any length, any   *)
(* register settings and any screen whose playfield fits in a plane. The   *)
(* invariant is the memory's type; the properties are about what one       *)
(* access does.                                                            *)
(***************************************************************************)

Kinds == [chain : BOOLEAN, oddeven : BOOLEAN, map : 0 .. 3, wm : 0 .. 3, rm : 0 .. 1,
          readmap : Vr!Plane, fn : {"put", "and", "or", "xor"}, rot : Vr!Bits,
          esr : SUBSET Vr!Plane, sr : SUBSET Vr!Plane, bm : Vr!Byte, planes : SUBSET Vr!Plane,
          care : SUBSET Vr!Plane, compare : SUBSET Vr!Plane, boot : BOOLEAN]
Column == [Vr!Plane -> Vr!Byte]
Memory ==
  /\ vram \in [0 .. Cells - 1 -> Column] /\ latch \in Column
  /\ regs \in Kinds /\ start \in 0 .. Cells - 1

LEMMA Sizes ==
  ASSUME PartsAssumption
  PROVE  /\ Width \in Nat \ {0} /\ Cells \in Nat \ {0} /\ Addrs \subseteq Nat
         /\ Values \subseteq Vr!Byte /\ Settings \subseteq Kinds
         /\ Screen \in [columns : Nat, rows : Nat, rowh : Nat \ {0}, lc : Nat, offset : Nat, pel : Nat]
         /\ \A c \in 0 .. Cells - 1, p \in Vr!Plane : Pattern(c, p) \in Vr!Byte
         /\ Vr!Plane = 0 .. 3 /\ Vr!Bits = 0 .. Width - 1 /\ Vr!Byte = SUBSET Vr!Bits
  BY DEF PartsAssumption, Vr!Constants, Vr!Plane, Vr!Bits, Vr!Byte, Kinds

\* Where an access goes is a place of the memory.
LEMMA CellIs ==
  ASSUME PartsAssumption, Memory, NEW a \in Nat, Vr!Inside(a)
  PROVE  /\ Vr!Off(a) \in Nat /\ Vr!Off(a) < Cells + Cells
         /\ Vr!CellOf(a) \in 0 .. Cells - 1
         /\ regs.chain => Vr!CellOf(a) = Vr!Off(a) \div 4 /\ Vr!PlaneOf(a) = Vr!Off(a) % 4
         /\ ~ regs.chain /\ regs.oddeven =>
              Vr!CellOf(a) = Vr!Off(a) \div 2 /\ Vr!PlaneOf(a) = Vr!Off(a) % 2
         /\ Vr!Direct => Vr!PlaneOf(a) \in Vr!Plane
<1>1. Cells \in Nat \ {0} /\ Vr!Plane = 0 .. 3
  BY Sizes
<1>2. regs.map \in 0 .. 3 /\ regs.chain \in BOOLEAN /\ regs.oddeven \in BOOLEAN
  BY DEF Memory, Kinds
<1>3. Vr!vga_base \in Nat /\ Vr!vga_size \in Nat /\ Vr!vga_size <= Cells + Cells
  <2>1. Cells \div 2 \in Nat /\ Cells \div 2 <= Cells
    BY <1>1
  <2>2. Vr!Span = Cells + Cells
    BY <1>1 DEF Vr!Span
  <2>3. Vr!vga_base \in {0, Cells, Cells + (Cells \div 2)}
    BY <1>2 DEF Vr!vga_base
  <2>4. Vr!vga_size \in {Cells + Cells, Cells, Cells \div 2}
    BY <1>2, <2>2 DEF Vr!vga_size
  <2> QED
    BY <1>1, <2>1, <2>3, <2>4
<1>4. Vr!Off(a) \in Nat /\ Vr!Off(a) < Vr!vga_size
  BY <1>3 DEF Vr!Off, Vr!Inside
<1> DEFINE o == Vr!Off(a)
<1>5. o \in Nat /\ o < Cells + Cells
  BY <1>1, <1>3, <1>4
<1>6. Vr!CellOf(a) = IF regs.chain THEN (o \div 4) % Cells
                     ELSE IF regs.oddeven THEN (o \div 2) % Cells ELSE o % Cells
  BY DEF Vr!CellOf
<1>7. Vr!PlaneOf(a) = o % (IF regs.chain THEN 4 ELSE 2)
  BY DEF Vr!PlaneOf
<1>8. Vr!Direct <=> regs.chain \/ regs.oddeven
  BY DEF Vr!Direct
<1> HIDE DEF o
<1>9. /\ o \div 4 \in Nat /\ o \div 4 < Cells /\ o \div 2 \in Nat /\ o \div 2 < Cells
      /\ o % 4 \in 0 .. 3 /\ o % 2 \in 0 .. 3
  BY <1>1, <1>5
<1>10. \A z \in Nat : z < Cells => z % Cells = z
  BY <1>1
<1>11. \A z \in Nat : z % Cells \in 0 .. Cells - 1
  BY <1>1
<1>12. (o \div 4) % Cells = o \div 4 /\ (o \div 2) % Cells = o \div 2
  BY <1>9, <1>10
<1>13. Vr!CellOf(a) \in 0 .. Cells - 1
  BY <1>5, <1>6, <1>9, <1>11
<1> QED
  BY <1>1, <1>5, <1>6, <1>7, <1>8, <1>9, <1>12, <1>13 DEF o

\* A byte turned is a byte, and a bit of it is the one the turn brings there.
LEMMA RorIs ==
  ASSUME PartsAssumption, NEW v \in Vr!Byte, NEW k \in Vr!Bits
  PROVE  /\ Vr!Ror(v, k) \in Vr!Byte
         /\ \A b \in Vr!Bits : b \in Vr!Ror(v, k) <=> ((b + k) % Width) \in v
<1>1. Width \in Nat \ {0} /\ Vr!Bits = 0 .. Width - 1 /\ Vr!Byte = SUBSET Vr!Bits
  BY Sizes
<1>2. k \in 0 .. Width - 1 /\ v \in SUBSET (0 .. Width - 1)
  BY <1>1
<1>3. \A z \in Nat : z < Width => z % Width = z
  BY <1>1
<1>4. \A z \in Nat : z >= Width /\ z < Width + Width => z % Width = z - Width
  <2> SUFFICES ASSUME NEW z \in Nat, z >= Width, z < Width + Width PROVE z % Width = z - Width
    OBVIOUS
  <2>1. z - Width \in 0 .. Width - 1 /\ z = 1 * Width + (z - Width)
    BY <1>1
  <2>2. (1 * Width + (z - Width)) % Width = z - Width
    BY <1>1, <2>1, Remainder
  <2> QED
    BY <2>1, <2>2
<1>5. \A c \in 0 .. Width - 1 :
        (c + Width - k) % Width = IF c >= k THEN c - k ELSE c + Width - k
  <2> SUFFICES ASSUME NEW c \in 0 .. Width - 1
               PROVE (c + Width - k) % Width = IF c >= k THEN c - k ELSE c + Width - k
    OBVIOUS
  <2>1. c + Width - k \in Nat /\ c + Width - k < Width + Width
    BY <1>1, <1>2
  <2>2. CASE c >= k
    <3>1. c + Width - k >= Width /\ (c + Width - k) - Width = c - k
      BY <1>1, <1>2, <2>2
    <3> QED
      BY <1>4, <2>1, <2>2, <3>1
  <2>3. CASE c < k
    <3>1. c + Width - k < Width
      BY <1>1, <1>2, <2>3
    <3> QED
      BY <1>2, <1>3, <2>1, <2>3, <3>1
  <2> QED
    BY <1>2, <2>2, <2>3
<1>6. \A b \in 0 .. Width - 1 : (b + k) % Width = IF b + k < Width THEN b + k ELSE b + k - Width
  <2> SUFFICES ASSUME NEW b \in 0 .. Width - 1
               PROVE (b + k) % Width = IF b + k < Width THEN b + k ELSE b + k - Width
    OBVIOUS
  <2>1. b + k \in Nat /\ b + k < Width + Width
    BY <1>1, <1>2
  <2>2. CASE b + k < Width
    BY <1>3, <2>1, <2>2
  <2>3. CASE b + k >= Width
    BY <1>1, <1>4, <2>1, <2>3
  <2> QED
    BY <1>1, <2>1, <2>2, <2>3
<1>7. Vr!Ror(v, k) = {(c + Width - k) % Width : c \in v}
  BY DEF Vr!Ror
<1>8. \A c \in v : c \in 0 .. Width - 1
  BY <1>2
<1>9. Vr!Ror(v, k) \in Vr!Byte
  <2>1. \A c \in v : (c + Width - k) % Width \in 0 .. Width - 1
    BY <1>1, <1>2, <1>5, <1>8
  <2> QED
    BY <1>1, <1>7, <2>1
<1>10. ASSUME NEW b \in Vr!Bits, b \in Vr!Ror(v, k) PROVE ((b + k) % Width) \in v
  <2>1. PICK c \in v : b = (c + Width - k) % Width
    BY <1>7, <1>10
  <2>2. c \in 0 .. Width - 1 /\ b \in 0 .. Width - 1
    BY <1>1, <1>8
  <2>3. b = IF c >= k THEN c - k ELSE c + Width - k
    BY <1>5, <2>1, <2>2
  <2>4. (IF b + k < Width THEN b + k ELSE b + k - Width) = c
    BY <1>1, <1>2, <2>2, <2>3
  <2> QED
    BY <1>6, <2>2, <2>4
<1>11. ASSUME NEW b \in Vr!Bits, ((b + k) % Width) \in v PROVE b \in Vr!Ror(v, k)
  <2> DEFINE c == (b + k) % Width
  <2>1. b \in 0 .. Width - 1 /\ c \in v
    BY <1>1, <1>11
  <2>2. c = IF b + k < Width THEN b + k ELSE b + k - Width
    BY <1>6, <2>1
  <2> HIDE DEF c
  <2>3. c \in 0 .. Width - 1
    BY <1>8, <2>1
  <2>4. (IF c >= k THEN c - k ELSE c + Width - k) = b
    BY <1>1, <1>2, <2>1, <2>2, <2>3
  <2>5. (c + Width - k) % Width = b
    BY <1>5, <2>3, <2>4
  <2> QED
    BY <1>7, <2>1, <2>5
<1> QED
  BY <1>9, <1>10, <1>11

\* What a write puts on a plane is a byte.
LEMMA DataIs ==
  ASSUME PartsAssumption, Memory, NEW v \in Vr!Byte, NEW p \in Vr!Plane
  PROVE  /\ Vr!Data(v, p) \in Vr!Byte /\ Vr!MaskOf(v) \in Vr!Byte
         /\ \A l \in Vr!Byte : Vr!alu_fn(v, l) \in Vr!Byte
<1>1. /\ Vr!Byte = SUBSET Vr!Bits /\ regs.rot \in Vr!Bits /\ regs.bm \in Vr!Byte /\ latch[p] \in Vr!Byte
  BY Sizes DEF Memory, Kinds, Column
<1>2. Vr!Ror(v, regs.rot) \in Vr!Byte
  BY <1>1, RorIs
<1>3. Vr!Full(TRUE) \in Vr!Byte /\ Vr!Full(FALSE) \in Vr!Byte
  BY <1>1 DEF Vr!Full
<1>4. \A w, l \in Vr!Byte : Vr!alu_fn(w, l) \in Vr!Byte
  BY <1>1 DEF Vr!alu_fn, Vr!Xor
<1>5. \A q : Vr!Full(p \in q) \in Vr!Byte
  BY <1>1 DEF Vr!Full
<1>6. Vr!MaskOf(v) \in Vr!Byte
  <2>1. regs.bm \cap Vr!Ror(v, regs.rot) \in Vr!Byte /\ Vr!Bits \in Vr!Byte
    BY <1>1
  <2> QED
    BY <1>1, <2>1 DEF Vr!MaskOf
<1>7. (IF p \in regs.esr THEN Vr!Full(p \in regs.sr) ELSE Vr!Ror(v, regs.rot)) \in Vr!Byte
  BY <1>2, <1>5
<1>8. Vr!Data(v, p) \in Vr!Byte
  BY <1>1, <1>4, <1>5, <1>7 DEF Vr!Data
<1> QED
  BY <1>4, <1>6, <1>8

LEMMA StoredIs ==
  ASSUME PartsAssumption, Memory, NEW a \in Nat, NEW v \in Vr!Byte
  PROVE  Vr!Stored(a, v) \in [0 .. Cells - 1 -> Column]
<1>1. vram \in [0 .. Cells - 1 -> Column] /\ Vr!Byte = SUBSET Vr!Bits
  BY Sizes DEF Memory
<1>2. CASE ~ Vr!Inside(a)
  BY <1>1, <1>2 DEF Vr!Stored
<1>3. CASE Vr!Inside(a)
  <2> DEFINE c == Vr!CellOf(a)
  <2>1. c \in 0 .. Cells - 1 /\ (Vr!Direct => Vr!PlaneOf(a) \in Vr!Plane)
    BY <1>3, CellIs
  <2> HIDE DEF c
  <2>2. vram[c] \in Column
    BY <1>1, <2>1
  <2>3. CASE Vr!Direct
    <3>1. [vram[c] EXCEPT ![Vr!PlaneOf(a)] = v] \in Column
      BY <2>1, <2>2, <2>3 DEF Column
    <3>2. [vram EXCEPT ![c] = [vram[c] EXCEPT ![Vr!PlaneOf(a)] = v]] \in [0 .. Cells - 1 -> Column]
      BY <1>1, <2>1, <3>1
    <3>3. Vr!Stored(a, v) = IF Vr!PlaneOf(a) \in regs.planes
                            THEN [vram EXCEPT ![c] = [vram[c] EXCEPT ![Vr!PlaneOf(a)] = v]] ELSE vram
      BY <1>1, <1>3, <2>1, <2>3 DEF Vr!Stored, c
    <3> QED
      BY <1>1, <3>2, <3>3
  <2>4. CASE ~ Vr!Direct
    <3> DEFINE w == Vr!write_planes(vram[c], v)
    <3>1. w \in Column
      <4>1. ASSUME NEW p \in Vr!Plane
            PROVE  (vram[c][p] \ Vr!MaskOf(v)) \cup (Vr!Data(v, p) \cap Vr!MaskOf(v)) \in Vr!Byte
        <5>1. vram[c][p] \in Vr!Byte
          BY <2>2 DEF Column
        <5>2. Vr!Data(v, p) \in Vr!Byte /\ Vr!MaskOf(v) \in Vr!Byte
          BY DataIs
        <5> QED
          BY <1>1, <5>1, <5>2
      <4>2. \A p \in Vr!Plane : vram[c][p] \in Vr!Byte
        BY <2>2 DEF Column
      <4> QED
        BY <4>1, <4>2 DEF Vr!write_planes, Column
    <3> HIDE DEF w
    <3>2. Vr!Stored(a, v) = [vram EXCEPT ![c] = w]
      BY <1>1, <1>3, <2>1, <2>4 DEF Vr!Stored, c, w
    <3> QED
      BY <1>1, <2>1, <3>1, <3>2
  <2> QED
    BY <2>3, <2>4
<1> QED
  BY <1>2, <1>3

LEMMA Turned ==
  ASSUME PartsAssumption, NEW x \in Int
  PROVE  x % Cells \in 0 .. Cells - 1
<1>1. Cells \in Nat \ {0}
  BY Sizes
<1> QED
  BY <1>1

LEMMA MemoryAlways ==
  ASSUME PartsAssumption
  PROVE  Vr!Spec => []Memory
<1>0. /\ Cells \in Nat \ {0} /\ Addrs \subseteq Nat /\ Values \subseteq Vr!Byte
      /\ Settings \subseteq Kinds /\ {} \in Vr!Byte
  BY Sizes
<1>1. Vr!Init => Memory
  <2> SUFFICES ASSUME Vr!Init PROVE Memory
    OBVIOUS
  <2>1. \A c \in 0 .. Cells - 1 : [p \in Vr!Plane |-> Pattern(c, p)] \in Column
    BY Sizes DEF Column
  <2>2. vram \in [0 .. Cells - 1 -> Column]
    BY <2>1 DEF Vr!Init
  <2>3. latch \in Column /\ regs \in Kinds /\ start \in 0 .. Cells - 1
    BY <1>0 DEF Vr!Init, Column
  <2> QED
    BY <2>2, <2>3 DEF Memory
<1>2. Memory /\ [Vr!Next]_(Vr!vars) => Memory'
  <2> SUFFICES ASSUME Memory, [Vr!Next]_(Vr!vars) PROVE Memory'
    OBVIOUS
  <2>0. /\ vram \in [0 .. Cells - 1 -> Column] /\ latch \in Column
        /\ regs \in Kinds /\ start \in 0 .. Cells - 1
    BY DEF Memory
  <2>1. CASE \E a \in Addrs : Vr!Read(a)
    <3> PICK a \in Addrs : Vr!Read(a)
      BY <2>1
    <3>1. latch' \in Column
      <4>1. CASE Vr!Inside(a)
        BY <1>0, <2>0, <4>1, CellIs DEF Vr!Read
      <4>2. CASE ~ Vr!Inside(a)
        BY <2>0, <4>2 DEF Vr!Read
      <4> QED
        BY <4>1, <4>2
    <3> QED
      BY <2>0, <3>1 DEF Vr!Read, Memory
  <2>2. CASE \E a \in Addrs, v \in Values : Vr!Write(a, v)
    <3> PICK a \in Addrs, v \in Values : Vr!Write(a, v)
      BY <2>2
    <3>1. vram' \in [0 .. Cells - 1 -> Column]
      BY <1>0, StoredIs DEF Vr!Write
    <3> QED
      BY <2>0, <3>1 DEF Vr!Write, Memory
  <2>3. CASE \E rows \in {-1, 1, 2} : Vr!Scroll(rows)
    <3> PICK rows \in {-1, 1, 2} : Vr!Scroll(rows)
      BY <2>3
    <3>1. start' \in 0 .. Cells - 1
      <4>1. Screen.offset \in Nat
        BY Sizes
      <4>2. start + (rows * Screen.offset) \in Int
        BY <2>0, <4>1
      <4> QED
        BY <4>2, Turned DEF Vr!Scroll
    <3> QED
      BY <2>0, <3>1 DEF Vr!Scroll, Memory
  <2>4. CASE \E r \in Settings : r.boot /\ Vr!SetMode(r)
    <3> PICK r \in Settings : Vr!SetMode(r)
      BY <2>4
    <3>1. vram' \in [0 .. Cells - 1 -> Column]
      BY <1>0 DEF Vr!SetMode, Column
    <3>2. latch' = latch /\ regs' = r /\ start' = 0
      BY DEF Vr!SetMode
    <3> QED
      BY <1>0, <2>0, <3>1, <3>2 DEF Memory
  <2>5. CASE UNCHANGED Vr!vars
    BY <2>5 DEF Vr!vars, Memory
  <2> QED
    BY <2>1, <2>2, <2>3, <2>4, <2>5 DEF Vr!Next
<1> QED
  BY <1>1, <1>2, PTL DEF Vr!Spec

\* The display memory, the latches and the registers have their types.
THEOREM MemoryTyped ==
  ASSUME PartsAssumption
  PROVE  Vr!Spec => []Vr!TypeOK
<1>1. Memory => Vr!TypeOK
  <2> SUFFICES ASSUME Memory PROVE Vr!TypeOK
    OBVIOUS
  <2>1. \A c \in 0 .. Cells - 1 : vram[c] \in [Vr!Plane -> Vr!Byte]
    BY DEF Memory, Column
  <2>2. latch \in [Vr!Plane -> Vr!Byte] /\ start \in 0 .. Cells - 1 /\ regs \in Kinds
    BY DEF Memory, Column
  <2> QED
    BY <2>1, <2>2 DEF Kinds, Vr!TypeOK
<1> QED
  BY <1>1, MemoryAlways, PTL

\* Exclusive or of a source bit and the latch's.
LEMMA XorOf ==
  ASSUME NEW b, NEW l, NEW p, NEW v, regs.fn = "xor", regs.wm # 3
  PROVE  Vr!Combined(Vr!Source(v, p, b), b \in l) <=> ~ (Vr!Source(v, p, b) <=> b \in l)
<1>1. (b \in l) \in BOOLEAN
  OBVIOUS
<1>2. Vr!Source(v, p, b) \in BOOLEAN
  <2>1. /\ (p \in v) \in BOOLEAN /\ (p \in regs.sr) \in BOOLEAN
        /\ (((b + regs.rot) % Width) \in v) \in BOOLEAN
    OBVIOUS
  <2>2. \/ Vr!Source(v, p, b) = (p \in v)
        \/ Vr!Source(v, p, b) = (p \in regs.sr)
        \/ Vr!Source(v, p, b) = (((b + regs.rot) % Width) \in v)
    BY Zenon DEF Vr!Source
  <2> QED
    BY <2>1, <2>2
<1> QED
  BY <1>1, <1>2 DEF Vr!Combined

\* ReadModifyWrite, of a write.
LEMMA WrittenBits ==
  ASSUME PartsAssumption, Memory, NEW a \in Addrs, NEW v \in Values,
         Vr!Write(a, v), Vr!Inside(a), ~ Vr!Direct, latch = vram[Vr!CellOf(a)],
         NEW p \in Vr!Plane, NEW b \in Vr!Bits
  PROVE  b \in vram'[Vr!CellOf(a)][p] <=>
           IF p \in regs.planes /\ regs.wm # 1 /\ Vr!Passes(v, b)
           THEN Vr!Combined(Vr!Source(v, p, b), b \in latch[p])
           ELSE b \in vram[Vr!CellOf(a)][p]
<1> DEFINE c == Vr!CellOf(a)
<1>1. a \in Nat /\ v \in Vr!Byte /\ c \in 0 .. Cells - 1
  BY Sizes, CellIs
<1>2. /\ vram \in [0 .. Cells - 1 -> Column] /\ latch[p] \subseteq Vr!Bits
      /\ regs.rot \in Vr!Bits /\ regs.wm \in 0 .. 3 /\ regs.fn \in {"put", "and", "or", "xor"}
  BY Sizes DEF Memory, Kinds, Column
<1>3. vram'[c] = Vr!write_planes(vram[c], v)
  <2>1. vram' = [vram EXCEPT ![c] = Vr!write_planes(vram[c], v)]
    BY <1>1, <1>2 DEF Vr!Write, Vr!Stored
  <2> HIDE DEF c
  <2> QED
    BY <1>1, <1>2, <2>1
<1>4. vram[c] = latch
  OBVIOUS
<1> HIDE DEF c
<1>5. vram'[c][p] = IF p \in regs.planes
                    THEN (latch[p] \ Vr!MaskOf(v)) \cup (Vr!Data(v, p) \cap Vr!MaskOf(v)) ELSE latch[p]
  BY <1>3, <1>4 DEF Vr!write_planes
<1>0. /\ b \in vram'[Vr!CellOf(a)][p] <=>
           IF p \in regs.planes
           THEN (b \in latch[p] /\ b \notin Vr!MaskOf(v)) \/ (b \in Vr!Data(v, p) /\ b \in Vr!MaskOf(v))
           ELSE b \in latch[p]
      /\ b \in vram[Vr!CellOf(a)][p] <=> b \in latch[p]
  BY <1>4, <1>5 DEF c
<1>6. b \in Vr!Ror(v, regs.rot) <=> ((b + regs.rot) % Width) \in v
  BY <1>1, <1>2, RorIs
<1>7. \A w : b \in Vr!alu_fn(w, latch[p]) <=>
              CASE regs.fn = "and" -> b \in w /\ b \in latch[p]
                [] regs.fn = "or"  -> b \in w \/ b \in latch[p]
                [] regs.fn = "xor" -> ~ (b \in w <=> b \in latch[p])
                [] OTHER -> b \in w
  <2> SUFFICES ASSUME NEW w
               PROVE  b \in Vr!alu_fn(w, latch[p]) <=>
                        CASE regs.fn = "and" -> b \in w /\ b \in latch[p]
                          [] regs.fn = "or"  -> b \in w \/ b \in latch[p]
                          [] regs.fn = "xor" -> ~ (b \in w <=> b \in latch[p])
                          [] OTHER -> b \in w
    OBVIOUS
  <2>1. CASE regs.fn = "and"
    BY <2>1 DEF Vr!alu_fn
  <2>2. CASE regs.fn = "or"
    BY <2>2 DEF Vr!alu_fn
  <2>3. CASE regs.fn = "xor"
    BY <2>3 DEF Vr!alu_fn, Vr!Xor
  <2>4. CASE regs.fn = "put"
    BY <2>4 DEF Vr!alu_fn
  <2> QED
    BY <1>2, <2>1, <2>2, <2>3, <2>4
<1>8. \A z \in BOOLEAN : b \in Vr!Full(z) <=> z
  BY DEF Vr!Full
<1>9. CASE regs.wm = 1
  <2>1. Vr!MaskOf(v) = Vr!Bits /\ Vr!Data(v, p) = latch[p]
    BY <1>9 DEF Vr!MaskOf, Vr!Data
  <2> QED
    BY <1>0, <1>2, <1>9, <2>1
<1>10. CASE regs.wm = 3
  <2>1. Vr!MaskOf(v) = regs.bm \cap Vr!Ror(v, regs.rot) /\ Vr!Data(v, p) = Vr!Full(p \in regs.sr)
    BY <1>10 DEF Vr!MaskOf, Vr!Data
  <2>2. Vr!Passes(v, b) <=> b \in regs.bm /\ ((b + regs.rot) % Width) \in v
    BY <1>10 DEF Vr!Passes
  <2>3. Vr!Source(v, p, b) <=> p \in regs.sr
    BY <1>10 DEF Vr!Source
  <2>4. Vr!Combined(Vr!Source(v, p, b), b \in latch[p]) = Vr!Source(v, p, b)
    BY <1>10 DEF Vr!Combined
  <2>5. b \in Vr!Data(v, p) <=> p \in regs.sr
    BY <2>1 DEF Vr!Full
  <2>6. b \in Vr!MaskOf(v) <=> Vr!Passes(v, b)
    BY <1>6, <2>1, <2>2
  <2>7. regs.wm # 1
    BY <1>10
  <2> QED
    BY <1>0, <2>3, <2>4, <2>5, <2>6, <2>7
<1>11. CASE regs.wm = 0 \/ regs.wm = 2
  <2> DEFINE w == IF regs.wm = 2 THEN Vr!Full(p \in v)
                  ELSE IF p \in regs.esr THEN Vr!Full(p \in regs.sr) ELSE Vr!Ror(v, regs.rot)
  <2>1. Vr!MaskOf(v) = regs.bm /\ Vr!Data(v, p) = Vr!alu_fn(w, latch[p])
    BY <1>11 DEF Vr!MaskOf, Vr!Data
  <2>2. Vr!Passes(v, b) <=> b \in regs.bm
    BY <1>11 DEF Vr!Passes
  <2>3. b \in w <=> Vr!Source(v, p, b)
    BY <1>6, <1>11 DEF Vr!Source, Vr!Full
  <2> HIDE DEF w
  <2>4. b \in Vr!Data(v, p) <=> Vr!Combined(Vr!Source(v, p, b), b \in latch[p])
    <3>1. regs.wm # 3
      BY <1>11
    <3>2. CASE regs.fn = "and"
      BY <1>7, <2>1, <2>3, <3>1, <3>2 DEF Vr!Combined
    <3>3. CASE regs.fn = "or"
      BY <1>7, <2>1, <2>3, <3>1, <3>3 DEF Vr!Combined
    <3>4. CASE regs.fn = "xor"
      <4>4. Vr!Combined(Vr!Source(v, p, b), b \in latch[p])
              <=> ~ (Vr!Source(v, p, b) <=> b \in latch[p])
        BY <3>1, <3>4, XorOf
      <4>5. b \in Vr!Data(v, p) <=> ~ (b \in w <=> b \in latch[p])
        BY <1>7, <2>1, <3>4
      <4> QED
        BY <2>3, <4>4, <4>5
    <3>5. CASE regs.fn = "put"
      BY <1>7, <2>1, <2>3, <3>1, <3>5 DEF Vr!Combined
    <3> QED
      BY <1>2, <3>2, <3>3, <3>4, <3>5
  <2>5. regs.wm # 1
    BY <1>11
  <2> QED
    BY <1>0, <2>1, <2>2, <2>4, <2>5
<1> QED
  BY <1>2, <1>9, <1>10, <1>11 DEF c

\* Two addresses of the window do not lead to one place.
LEMMA OnePlace ==
  ASSUME PartsAssumption, Memory, Vr!Direct, NEW a \in Nat, NEW b \in Nat, Vr!Inside(a), Vr!Inside(b),
         Vr!CellOf(a) = Vr!CellOf(b), Vr!PlaneOf(a) = Vr!PlaneOf(b)
  PROVE  a = b
<1>1. Vr!Off(a) \in Nat /\ Vr!Off(b) \in Nat /\ regs.map \in 0 .. 3 /\ Cells \in Nat \ {0}
  BY CellIs, Sizes DEF Memory, Kinds
<1>2. Vr!Off(a) = Vr!Off(b)
  <2> DEFINE i == Vr!Off(a)
             j == Vr!Off(b)
  <2>1. CASE regs.chain
    <3>1. i \div 4 = j \div 4 /\ i % 4 = j % 4
      BY <2>1, CellIs
    <3> HIDE DEF i, j
    <3>2. i \in Nat /\ j \in Nat
      BY <1>1 DEF i, j
    <3> QED
      BY <3>1, <3>2 DEF i, j
  <2>2. CASE ~ regs.chain /\ regs.oddeven
    <3>1. i \div 2 = j \div 2 /\ i % 2 = j % 2
      BY <2>2, CellIs
    <3> HIDE DEF i, j
    <3>2. i \in Nat /\ j \in Nat
      BY <1>1 DEF i, j
    <3> QED
      BY <3>1, <3>2 DEF i, j
  <2> QED
    BY <2>1, <2>2 DEF Vr!Direct
<1>3. Vr!vga_base \in Int
  BY <1>1 DEF Vr!vga_base
<1> QED
  BY <1>2, <1>3 DEF Vr!Off

\* WindowIsMemory, of a write.
LEMMA WindowKeeps ==
  ASSUME PartsAssumption, Memory, NEW a \in Addrs, NEW v \in Values, Vr!Write(a, v), Vr!Direct,
         NEW b \in 0 .. Vr!Span - 1, Vr!Inside(b)
  PROVE  Vr!ReadBack(b)' = IF b = a /\ Vr!PlaneOf(a) \in regs.planes THEN v ELSE Vr!ReadBack(b)
<1>1. a \in Nat /\ b \in Nat /\ v \in Vr!Byte /\ vram \in [0 .. Cells - 1 -> Column]
  BY Sizes DEF Memory
<1>2. /\ Vr!ReadBack(b) = vram[Vr!CellOf(b)][Vr!PlaneOf(b)]
      /\ Vr!ReadBack(b)' = vram'[Vr!CellOf(b)][Vr!PlaneOf(b)]
  <2>1. regs' = regs
    BY DEF Vr!Write
  <2> QED
    BY <2>1 DEF Vr!ReadBack, Vr!Direct, Vr!CellOf, Vr!PlaneOf, Vr!Off, Vr!vga_base
<1>3. Vr!CellOf(b) \in 0 .. Cells - 1 /\ Vr!PlaneOf(b) \in Vr!Plane
  BY <1>1, CellIs
<1>4. CASE ~ Vr!Inside(a) \/ Vr!PlaneOf(a) \notin regs.planes
  <2>1. vram' = vram
    BY <1>4 DEF Vr!Write, Vr!Stored
  <2> QED
    BY <1>2, <1>4, <2>1
<1>5. CASE Vr!Inside(a) /\ Vr!PlaneOf(a) \in regs.planes
  <2>1. Vr!CellOf(a) \in 0 .. Cells - 1 /\ Vr!PlaneOf(a) \in Vr!Plane
    BY <1>1, <1>5, CellIs
  <2> DEFINE c == Vr!CellOf(a)
             k == Vr!PlaneOf(a)
             d == Vr!CellOf(b)
             m == Vr!PlaneOf(b)
  <2>2. d = c /\ m = k => b = a
    BY <1>1, <1>5, OnePlace
  <2>3. vram' = [vram EXCEPT ![c] = [vram[c] EXCEPT ![k] = v]]
    BY <1>1, <1>5, <2>1 DEF Vr!Write, Vr!Stored
  <2>4. b = a => d = c /\ m = k
    OBVIOUS
  <2> HIDE DEF c, k, d, m
  <2>5. c \in 0 .. Cells - 1 /\ k \in Vr!Plane /\ d \in 0 .. Cells - 1 /\ m \in Vr!Plane
    BY <1>3, <2>1 DEF c, k, d, m
  <2>6. vram[c] \in Column /\ vram[d] \in Column
    BY <1>1, <2>5
  <2>7. vram'[d][m] = IF d = c /\ m = k THEN v ELSE vram[d][m]
    <3>1. vram'[d] = IF d = c THEN [vram[c] EXCEPT ![k] = v] ELSE vram[d]
      BY <1>1, <2>3, <2>5
    <3> QED
      BY <2>5, <2>6, <3>1 DEF Column
  <2> QED
    BY <1>2, <1>5, <2>2, <2>4, <2>7 DEF c, k, d, m
<1> QED
  BY <1>4, <1>5

\* CompareFinds, of a read.
LEMMA ComparedRight ==
  ASSUME PartsAssumption, Memory, NEW a \in Addrs, Vr!Read(a), Vr!Inside(a), ~ Vr!Direct,
         regs.rm = 1, regs.care = Vr!Plane
  PROVE  /\ vram' = vram
         /\ Vr!ReadBack(a) =
              {b \in Vr!Bits : {p \in Vr!Plane : b \in vram[Vr!CellOf(a)][p]} = regs.compare}
<1>1. regs.compare \subseteq Vr!Plane
  BY DEF Memory, Kinds
<1> DEFINE l == vram[Vr!CellOf(a)]
<1>2. Vr!ReadBack(a) = Vr!Matching(l)
  BY DEF Vr!ReadBack
<1> HIDE DEF l
<1>3. \A b \in Vr!Bits : (\A p \in Vr!Plane : b \in l[p] <=> p \in regs.compare)
                           <=> {p \in Vr!Plane : b \in l[p]} = regs.compare
  BY <1>1
<1>4. Vr!Matching(l) = {b \in Vr!Bits : {p \in Vr!Plane : b \in l[p]} = regs.compare}
  BY <1>3 DEF Vr!Matching
<1> QED
  BY <1>2, <1>4 DEF Vr!Read, l

LEMMA ScreenIs ==
  ASSUME PartsAssumption
  PROVE  /\ Screen.columns \in Nat /\ Screen.rows \in Nat /\ Screen.offset \in Nat /\ Screen.pel \in Nat
         /\ Vr!split \in Nat
         /\ Vr!Rows = 0 .. Screen.rows - 1 /\ Vr!Columns = 0 .. Screen.columns - 1
<1>1. /\ Screen.columns \in Nat /\ Screen.rows \in Nat /\ Screen.offset \in Nat /\ Screen.pel \in Nat
      /\ Screen.rowh \in Nat \ {0} /\ Screen.lc \in Nat
  BY Sizes
<1>2. Vr!split \in Nat
  BY <1>1 DEF Vr!split
<1> QED
  BY <1>1, <1>2 DEF Vr!Rows, Vr!Columns

\* PanelStands, of a scroll.
LEMMA PanelKept ==
  ASSUME PartsAssumption, Memory, NEW rows \in {-1, 1, 2}, Vr!Scroll(rows), NEW y \in Vr!Rows
  PROVE  IF y >= Vr!split THEN Vr!Row(y)' = Vr!Row(y)
         ELSE y + rows \in 0 .. Vr!split - 1 => Vr!Row(y)' = Vr!Row(y + rows)
<1>1. /\ Screen.columns \in Nat /\ Screen.rows \in Nat /\ Screen.offset \in Nat /\ Screen.pel \in Nat
      /\ Vr!split \in Nat /\ y \in 0 .. Screen.rows - 1 /\ Vr!Columns = 0 .. Screen.columns - 1
      /\ Cells \in Nat \ {0} /\ Width \in Nat \ {0} /\ start \in 0 .. Cells - 1
  BY ScreenIs, Sizes DEF Memory
<1>2. vram' = vram /\ start' = (start + (rows * Screen.offset)) % Cells
  BY DEF Vr!Scroll
\* A row is what is shown from its first address on.
<1>3. \A z \in Int, w \in Int :
        (\A k \in Int : (Vr!RowStart(z)' + k) % Cells = (Vr!RowStart(w) + k) % Cells)
          => Vr!Row(z)' = Vr!Row(w)
  <2> SUFFICES ASSUME NEW z \in Int, NEW w \in Int,
                      \A k \in Int : (Vr!RowStart(z)' + k) % Cells = (Vr!RowStart(w) + k) % Cells
               PROVE  Vr!Row(z)' = Vr!Row(w)
    OBVIOUS
  <2>1. \A x \in Vr!Columns : Vr!Dot256(x, z)' = Vr!Dot256(x, w)
    <3> SUFFICES ASSUME NEW x \in Vr!Columns PROVE Vr!Dot256(x, z)' = Vr!Dot256(x, w)
      OBVIOUS
    <3>1. (x + (Screen.pel \div 2)) \div 4 \in Int
      BY <1>1
    <3> QED
      BY <1>2, <3>1 DEF Vr!Dot256
  <2>2. \A x \in Vr!Columns : Vr!Dot16(x, z)' = Vr!Dot16(x, w)
    <3> SUFFICES ASSUME NEW x \in Vr!Columns PROVE Vr!Dot16(x, z)' = Vr!Dot16(x, w)
      OBVIOUS
    <3>1. (x + Screen.pel) \div Width \in Int
      BY <1>1
    <3> QED
      BY <1>2, <3>1 DEF Vr!Dot16, Vr!BitOf
  <2> QED
    BY <2>1, <2>2 DEF Vr!Row
<1>4. CASE y >= Vr!split
  <2>1. Vr!split < Screen.rows
    BY <1>1, <1>4
  <2>2. Vr!RowStart(y)' = Vr!RowStart(y)
    BY <1>4, <2>1 DEF Vr!RowStart
  <2>3. y \in Int
    BY <1>1
  <2> QED
    BY <1>3, <1>4, <2>2, <2>3
<1>5. ASSUME ~ (y >= Vr!split), y + rows \in 0 .. Vr!split - 1 PROVE Vr!Row(y)' = Vr!Row(y + rows)
  <2>1. Vr!RowStart(y)' = start' + (y * Screen.offset)
    BY <1>5 DEF Vr!RowStart
  <2>2. ~ (y + rows >= Vr!split)
    BY <1>1, <1>5
  <2>3. Vr!RowStart(y + rows) = start + ((y + rows) * Screen.offset)
    BY <2>2 DEF Vr!RowStart
  <2> DEFINE f == rows * Screen.offset
             u == y * Screen.offset
  <2>4. f \in Int /\ u \in Int /\ y \in Int /\ rows \in Int
    BY <1>1
  <2>5. (y + rows) * Screen.offset = u + f
    BY <1>1, <2>4
  <2> HIDE DEF f, u
  <2>6. \A k \in Int : (Vr!RowStart(y)' + k) % Cells = (Vr!RowStart(y + rows) + k) % Cells
    <3> SUFFICES ASSUME NEW k \in Int
                 PROVE  (Vr!RowStart(y)' + k) % Cells = (Vr!RowStart(y + rows) + k) % Cells
      OBVIOUS
    <3>1. start + f \in Int /\ u + k \in Int /\ start' = (start + f) % Cells
      BY <1>1, <1>2, <2>4 DEF f
    <3>2. (((start + f) % Cells) + (u + k)) % Cells = ((start + f) + (u + k)) % Cells
      BY <1>1, <3>1, Onward
    <3>3. start' \in Int
      BY <1>1, <3>1
    <3>4. Vr!RowStart(y)' + k = start' + (u + k)
      BY <2>1, <2>4, <3>3 DEF u
    <3>5. Vr!RowStart(y + rows) + k = (start + f) + (u + k)
      BY <1>1, <2>3, <2>4, <2>5
    <3> QED
      BY <3>1, <3>2, <3>4, <3>5
  <2>7. y + rows \in Int
    BY <2>4
  <2> QED
    BY <1>3, <2>4, <2>6, <2>7
<1> QED
  BY <1>4, <1>5

\* PlotsWhereMeant, of a write.
LEMMA PlotSeen ==
  ASSUME PartsAssumption, Memory, NEW a \in Addrs, NEW v \in Values, Vr!Write(a, v), Vr!Inside(a),
         start = 0, regs.chain, Vr!PlaneOf(a) \in regs.planes,
         NEW y \in Vr!Rows, y < Vr!split, NEW x \in Vr!Columns
  PROVE  Vr!Dot256(x, y)' = IF (4 * Screen.offset * y) + x + (Screen.pel \div 2) = Vr!Off(a)
                            THEN v ELSE Vr!Dot256(x, y)
<1>1. /\ Screen.columns \in Nat /\ Screen.offset \in Nat /\ Screen.pel \in Nat
      /\ y \in Nat /\ x \in Nat /\ Cells \in Nat \ {0} /\ a \in Nat
  BY ScreenIs, Sizes
<1> DEFINE c == Vr!CellOf(a)
           k == Vr!PlaneOf(a)
           o == Vr!Off(a)
           f == y * Screen.offset
           px == x + (Screen.pel \div 2)
<1>2. /\ o \in Nat /\ c \in 0 .. Cells - 1 /\ c = o \div 4 /\ k = o % 4
  <2>1. Vr!Direct
    BY DEF Vr!Direct
  <2> QED
    BY <1>1, CellIs
<1>3. px \in Nat /\ f \in Nat /\ 4 * Screen.offset * y = 4 * f
  BY <1>1
<1>4. f + (px \div 4) < Cells
  BY DEF PartsAssumption, Vr!Constants
<1>5. Vr!RowStart(y) = f /\ Vr!RowStart(y)' = f
  <2>1. ~ (y >= Vr!split) /\ start' = 0
    BY <1>1, ScreenIs DEF Vr!Write
  <2> QED
    BY <1>3, <2>1 DEF Vr!RowStart
<1>6. vram' = [vram EXCEPT ![c] = [vram[c] EXCEPT ![k] = v]]
  <2>1. Vr!Direct /\ vram \in [0 .. Cells - 1 -> Column]
    BY DEF Vr!Direct, Memory
  <2>2. vram' = [vram EXCEPT ![c][k] = v]
    BY <2>1 DEF Vr!Write, Vr!Stored
  <2> HIDE DEF c, k
  <2> QED
    BY <1>2, <2>1, <2>2
<1>7. /\ Vr!Dot256(x, y) = vram[(f + (px \div 4)) % Cells][px % 4]
      /\ Vr!Dot256(x, y)' = vram'[(f + (px \div 4)) % Cells][px % 4]
  BY <1>5 DEF Vr!Dot256
<1>8. Vr!PlaneOf(a) \in Vr!Plane /\ Vr!Plane = 0 .. 3 /\ vram \in [0 .. Cells - 1 -> Column]
  <2>1. Vr!Direct
    BY DEF Vr!Direct
  <2> QED
    BY <1>1, <2>1, CellIs, Sizes DEF Memory
<1> HIDE DEF c, k, o, f, px
<1> DEFINE d == f + (px \div 4)
           m == px % 4
<1>9. d \in 0 .. Cells - 1 /\ m \in 0 .. 3
  BY <1>1, <1>3, <1>4
<1>10. d % Cells = d
  <2>1. \A z \in 0 .. Cells - 1 : z % Cells = z
    BY <1>1
  <2> QED
    BY <1>9, <2>1
<1>11. 4 * f + px = o <=> d = c /\ m = k
  BY <1>2, <1>3
<1> HIDE DEF d, m
<1>12. vram'[d][m] = IF d = c /\ m = k THEN v ELSE vram[d][m]
  <2>1. vram'[d] = IF d = c THEN [vram[c] EXCEPT ![k] = v] ELSE vram[d]
    BY <1>2, <1>6, <1>8, <1>9
  <2>2. vram[c] \in Column /\ vram[d] \in Column
    BY <1>2, <1>8, <1>9
  <2>3. k \in Vr!Plane /\ m \in Vr!Plane
    BY <1>8, <1>9 DEF k
  <2> QED
    BY <2>1, <2>2, <2>3 DEF Column
<1>13. Vr!Dot256(x, y)' = IF 4 * f + px = o THEN v ELSE Vr!Dot256(x, y)
  BY <1>7, <1>10, <1>11, <1>12 DEF d, m
<1>14. (4 * Screen.offset * y) + x + (Screen.pel \div 2) = 4 * f + px
  BY <1>1, <1>3 DEF px
<1> QED
  BY <1>13, <1>14 DEF o

(***************************************************************************)
(* The moment a frame is presented, for any number of buckets and any      *)
(* margins. The invariant is the window's type; the properties are about   *)
(* what one redraw may adopt.                                              *)
(***************************************************************************)

\* Buckets are counted round the frame.

LEMMA Round ==
  ASSUME PartsAssumption, NEW x \in Int
  PROVE  /\ Pw!At(x) \in Pw!Ring
         /\ x \in Pw!Ring => Pw!At(x) = x
         /\ Pw!At(x + Buckets) = Pw!At(x)
         /\ \A y \in Int : Pw!At(Pw!At(x) + y) = Pw!At(x + y)
<1>1. Buckets \in Nat \ {0}
  BY DEF PartsAssumption, Pw!Constants
<1>2. \A z \in Int : Pw!At(z) = z % Buckets
  BY DEF Pw!At
<1>3. Pw!Ring = 0 .. Buckets - 1
  BY DEF Pw!Ring
<1>4. PICK q \in Int : x - q * Buckets \in 0 .. Buckets - 1
  BY <1>1, Quotients
<1> DEFINE r == x - q * Buckets
<1>5. r \in 0 .. Buckets - 1
  BY <1>4
<1>6. q * Buckets \in Int /\ x = q * Buckets + r
  BY <1>1
<1> HIDE DEF r
<1>7. Pw!At(x) = r
  BY <1>1, <1>2, <1>5, <1>6, Remainder
<1>8. x \in Pw!Ring => Pw!At(x) = x
  <2> SUFFICES ASSUME x \in 0 .. Buckets - 1 PROVE x % Buckets = x
    BY <1>2, <1>3
  <2> QED
    BY <1>1
<1>9. Pw!At(x + Buckets) = Pw!At(x)
  <2>1. x + Buckets \in Int
    BY <1>1
  <2>2. (x + Buckets) % Buckets = x % Buckets
    BY <1>1, Around
  <2> QED
    BY <1>2, <2>1, <2>2
<1>10. ASSUME NEW y \in Int PROVE Pw!At(r + y) = Pw!At(x + y)
  <2>1. ((x % Buckets) + y) % Buckets = (x + y) % Buckets
    BY <1>1, Onward
  <2>2. r + y \in Int /\ x + y \in Int /\ x % Buckets = r
    BY <1>2, <1>5, <1>7
  <2> QED
    BY <1>2, <2>1, <2>2
<1> QED
  BY <1>3, <1>5, <1>7, <1>8, <1>9, <1>10

Window ==
  /\ occ \subseteq Pw!Ring /\ redraws \in 0 .. Warmup + Every
  /\ vt \in Pw!Timings \cup {Pw!NoTiming} /\ crtc \in Pw!Timings
  /\ win \in [valid : BOOLEAN, lo : Pw!Ring, hi : 0 .. Buckets]
  /\ (redraws = 0) = (vt = Pw!NoTiming) /\ (win.valid => redraws > 0)

LEMMA BandIs ==
  ASSUME PartsAssumption, NEW a \in Pw!Ring, NEW b \in Pw!Ring
  PROVE  a \in Pw!Band(a, b) /\ Pw!Band(a, b) \subseteq Pw!Ring
<1>1. Buckets \in Nat
  BY DEF PartsAssumption, Pw!Constants
<1> QED
  BY <1>1 DEF Pw!Band, Pw!Ring

\* What pw_derive looks for is there: a first quiet bucket when not all are
\* covered, and how far the quiet runs from it.
LEMMA QuietIs ==
  ASSUME PartsAssumption, crtc \in Pw!Timings, NEW o \in SUBSET Pw!Ring, o # Pw!Ring
  PROVE  /\ Retrace[crtc] \in Pw!Ring /\ Pw!FirstQuiet(o) \in Pw!Ring
         /\ Pw!At(Retrace[crtc] + Pw!FirstQuiet(o)) \notin o
         /\ \A j \in 0 .. Pw!FirstQuiet(o) - 1 : Pw!At(Retrace[crtc] + j) \in o
<1>1. Buckets \in Nat \ {0} /\ Retrace[crtc] \in Pw!Ring
  BY DEF PartsAssumption, Pw!Constants, Pw!Timings, Pw!Ring
<1> DEFINE r == Retrace[crtc]
           T == {i \in Pw!Ring : Pw!At(r + i) \notin o}
<1>2. Pw!Ring = 0 .. Buckets - 1
  BY DEF Pw!Ring
<1>3. r \in 0 .. Buckets - 1
  BY <1>1, <1>2
<1> HIDE DEF r
<1>4. PICK x \in Pw!Ring : x \notin o
  OBVIOUS
<1>5. \E i \in Pw!Ring : Pw!At(r + i) = x
  <2>0. x \in 0 .. Buckets - 1 /\ x \in Int
    BY <1>2, <1>4
  <2>1. CASE x >= r
    <3>1. x - r \in Pw!Ring /\ r + (x - r) = x
      BY <1>1, <1>2, <1>3, <2>0, <2>1
    <3> QED
      BY <1>4, <2>0, <3>1, Round
  <2>2. CASE x < r
    <3>1. x - r + Buckets \in Pw!Ring /\ r + (x - r + Buckets) = x + Buckets
      BY <1>1, <1>2, <1>3, <2>0, <2>2
    <3>2. Pw!At(x + Buckets) = x
      BY <1>4, <2>0, Round
    <3> QED
      BY <3>1, <3>2
  <2> QED
    BY <1>3, <2>0, <2>1, <2>2
<1>6. T # {} /\ T \subseteq Nat
  BY <1>2, <1>4, <1>5
<1>7. PICK i \in T : \A j \in T : i <= j
  BY <1>6, LeastElement
<1>8. i \in Pw!Ring /\ Pw!At(r + i) \notin o
  BY <1>7
<1>9. \A j \in 0 .. i - 1 : Pw!At(r + j) \in o
  <2> SUFFICES ASSUME NEW j \in 0 .. i - 1, Pw!At(r + j) \notin o PROVE FALSE
    OBVIOUS
  <2>1. j \in Pw!Ring /\ j < i
    BY <1>1, <1>2, <1>8
  <2>2. j \in T
    BY <2>1
  <2> QED
    BY <1>2, <1>7, <1>8, <2>1, <2>2
<1>10. /\ Pw!FirstQuiet(o) \in Pw!Ring /\ Pw!At(r + Pw!FirstQuiet(o)) \notin o
       /\ \A j \in 0 .. Pw!FirstQuiet(o) - 1 : Pw!At(r + j) \in o
  BY <1>8, <1>9 DEF Pw!FirstQuiet, r
<1> QED
  BY <1>1, <1>10 DEF r

LEMMA LengthIs ==
  ASSUME PartsAssumption, NEW o \in SUBSET Pw!Ring, NEW s \in Pw!Ring
  PROVE  /\ Pw!Length(o, s) \in 0 .. Buckets
         /\ \A i \in 0 .. Pw!Length(o, s) - 1 : Pw!At(s + i) \notin o
         /\ Pw!Length(o, s) = Buckets \/ Pw!At(s + Pw!Length(o, s)) \in o
<1>1. Buckets \in Nat \ {0}
  BY DEF PartsAssumption, Pw!Constants
<1> DEFINE T == {l \in 0 .. Buckets : l = Buckets \/ Pw!At(s + l) \in o}
<1>2. T # {} /\ T \subseteq Nat
  <2>1. Buckets \in 0 .. Buckets /\ 0 .. Buckets \subseteq Nat
    BY <1>1
  <2>2. Buckets \in T /\ T \subseteq 0 .. Buckets
    BY <2>1
  <2> QED
    BY <2>1, <2>2
<1>3. PICK l \in T : \A k \in T : l <= k
  BY <1>2, LeastElement
<1>4. l \in 0 .. Buckets /\ (l = Buckets \/ Pw!At(s + l) \in o)
  BY <1>3
<1>5. \A i \in 0 .. l - 1 : Pw!At(s + i) \notin o
  <2> SUFFICES ASSUME NEW i \in 0 .. l - 1, Pw!At(s + i) \in o PROVE FALSE
    OBVIOUS
  <2>1. i \in 0 .. Buckets /\ i < l
    BY <1>1, <1>4
  <2>2. i \in T
    BY <2>1
  <2> QED
    BY <1>3, <1>4, <2>1, <2>2
<1> QED
  BY <1>4, <1>5 DEF Pw!Length

\* All the ring is not quiet once a redraw has been seen, so the quiet ends.
LEMMA QuietEnds ==
  ASSUME PartsAssumption, NEW o \in SUBSET Pw!Ring, o # {}, NEW s \in Pw!Ring
  PROVE  Pw!Length(o, s) < Buckets
<1>1. Buckets \in Nat \ {0} /\ Pw!Ring = 0 .. Buckets - 1
  BY DEF PartsAssumption, Pw!Constants, Pw!Ring
<1> DEFINE l == Pw!Length(o, s)
<1>2. l \in 0 .. Buckets /\ \A i \in 0 .. l - 1 : Pw!At(s + i) \notin o
  BY LengthIs
<1> HIDE DEF l
<1>3. PICK x \in o : x \in Pw!Ring
  OBVIOUS
<1>4. s \in 0 .. Buckets - 1 /\ x \in 0 .. Buckets - 1
  BY <1>1, <1>3
<1>5. \E i \in 0 .. Buckets - 1 : Pw!At(s + i) = x
  <2>1. CASE x >= s
    <3>1. x - s \in 0 .. Buckets - 1 /\ s + (x - s) = x /\ x \in Int
      BY <1>1, <1>4, <2>1
    <3> QED
      BY <1>3, <3>1, Round
  <2>2. CASE x < s
    <3>1. x - s + Buckets \in 0 .. Buckets - 1 /\ s + (x - s + Buckets) = x + Buckets /\ x \in Int
      BY <1>1, <1>4, <2>2
    <3>2. Pw!At(x + Buckets) = x
      BY <1>3, <3>1, Round
    <3> QED
      BY <3>1, <3>2
  <2> QED
    BY <1>4, <2>1, <2>2
<1>6. l # Buckets
  BY <1>2, <1>3, <1>5
<1> QED
  BY <1>1, <1>2, <1>6 DEF l

\* What a redraw that sees a window has found: quiet from a first bucket on, for
\* more than both margins, and redraws all the way to it from the retrace.
LEMMA AdoptedIs ==
  ASSUME PartsAssumption, Window, NEW a \in Pw!Ring, NEW b \in Pw!Ring, Pw!Redraw(a, b),
         win' # win, win'.valid
  PROVE  \E s \in Pw!Ring, l \in 0 .. Buckets - 1, f \in Pw!Ring :
           /\ win' = Pw!Placed(s, l) /\ l >= Margin + Margin + 1
           /\ \A i \in 0 .. l - 1 : Pw!At(s + i) \notin occ'
           /\ s = Pw!At(Retrace[crtc] + f)
           /\ \A j \in 0 .. f - 1 : Pw!At(Retrace[crtc] + j) \in occ'
<1> DEFINE o == Pw!Kept(crtc) \cup Pw!Band(a, b)
           seen == Pw!Seen(crtc) + 1
           s == Pw!QuietFrom(o)
           l == Pw!Length(o, s)
<1>1. Buckets \in Nat \ {0} /\ MinW \in Nat \ {0} /\ Margin \in Nat /\ 2 * Margin = Margin + Margin
  BY DEF PartsAssumption, Pw!Constants
<1>2. o \in SUBSET Pw!Ring /\ o # {}
  BY BandIs DEF Pw!Kept, Window
<1>3. /\ occ' = o
      /\ win' = IF seen % Every = 0
                THEN IF vt = crtc THEN Pw!pw_derive(o, seen) ELSE Pw!Unlearned
                ELSE IF vt = crtc THEN win ELSE Pw!Unlearned
  BY DEF Pw!Redraw
<1>4. win' # Pw!Unlearned
  BY DEF Pw!Unlearned
<1> HIDE DEF o, seen
<1>5. win' = Pw!pw_derive(o, seen)
  BY <1>3, <1>4
<1>6. /\ ~ (seen < Warmup \/ o = Pw!Ring) /\ ~ (l < (2 * Margin) + MinW)
      /\ win' = Pw!Placed(s, l)
  BY <1>5 DEF Pw!pw_derive
<1>7. crtc \in Pw!Timings
  BY DEF Window
<1> DEFINE f == Pw!FirstQuiet(o)
<1>8. /\ Retrace[crtc] \in Pw!Ring /\ f \in Pw!Ring /\ s = Pw!At(Retrace[crtc] + f)
      /\ s \notin o /\ \A j \in 0 .. f - 1 : Pw!At(Retrace[crtc] + j) \in o
  BY <1>2, <1>6, <1>7, QuietIs DEF Pw!QuietFrom
<1> HIDE DEF f
<1>9. s \in Pw!Ring
  <2>1. Retrace[crtc] + f \in Int
    BY <1>1, <1>8 DEF Pw!Ring
  <2> QED
    BY <1>8, <2>1, Round
<1> HIDE DEF s
<1>10. /\ l \in 0 .. Buckets /\ l < Buckets
       /\ \A i \in 0 .. l - 1 : Pw!At(s + i) \notin o
  BY <1>2, <1>9, LengthIs, QuietEnds
<1> HIDE DEF l
<1>11. l \in 0 .. Buckets - 1 /\ l >= Margin + Margin + 1
  BY <1>1, <1>6, <1>10
<1> QED
  BY <1>3, <1>6, <1>8, <1>9, <1>10, <1>11

\* The buckets of the window it places, counted on from the retrace's side and
\* not round the end of the frame.
Within(w, k) == IF w.lo <= w.hi THEN k >= w.lo /\ k < w.hi ELSE k >= w.lo \/ k < w.hi

LEMMA PlacedIs ==
  ASSUME PartsAssumption, NEW s \in Pw!Ring, NEW l \in 0 .. Buckets - 1, l >= Margin + Margin + 1,
         NEW w, w = Pw!Placed(s, l)
  PROVE  /\ w.lo \in Pw!Ring /\ w.hi \in 0 .. Buckets /\ w.valid /\ Within(w, w.lo)
         /\ w.lo = Pw!At(s + Margin)
         /\ \A k \in Pw!Ring : Within(w, k) =>
              \E j \in s + Margin .. s + l - 1 - Margin : j = k \/ j = k + Buckets
<1> DEFINE c == s + Margin
           e == s + l - 1 - Margin
<1>1. /\ Buckets \in Nat \ {0} /\ Margin \in Nat /\ Pw!Ring = 0 .. Buckets - 1
      /\ s \in 0 .. Buckets - 1 /\ l \in Nat /\ l < Buckets
  BY DEF PartsAssumption, Pw!Constants, Pw!Ring
<1>2. /\ c \in Nat /\ e \in Nat /\ c <= e /\ e < c + Buckets - 1 /\ e < Buckets + Buckets
  BY <1>1
<1>3. w = [valid |-> TRUE, lo |-> Pw!At(c), hi |-> Pw!At(e) + 1]
  BY DEF Pw!Placed
<1>4. w.valid /\ w.lo = Pw!At(c) /\ w.hi = Pw!At(e) + 1
  BY <1>3
<1> HIDE DEF c, e
<1>5. \A x \in Nat : x < Buckets => Pw!At(x) = x
  BY <1>1, Round
<1>6. \A x \in Nat : x >= Buckets /\ x < Buckets + Buckets => Pw!At(x) = x - Buckets
  <2> SUFFICES ASSUME NEW x \in Nat, x >= Buckets, x < Buckets + Buckets PROVE Pw!At(x) = x - Buckets
    OBVIOUS
  <2>1. x - Buckets \in Pw!Ring /\ x - Buckets \in Int /\ (x - Buckets) + Buckets = x
    BY <1>1
  <2> QED
    BY <2>1, Round
<1>7. \A k : Within(w, k) <=> IF w.lo <= w.hi THEN k >= w.lo /\ k < w.hi
                              ELSE k >= w.lo \/ k < w.hi
  BY DEF Within
<1>8. CASE e < Buckets
  <2>1. w.lo = c /\ w.hi = e + 1 /\ c < Buckets
    BY <1>1, <1>2, <1>4, <1>5, <1>8
  <2>2. \A k \in Pw!Ring : Within(w, k) => k \in c .. e
    BY <1>1, <1>2, <1>7, <2>1
  <2>3. Within(w, w.lo) /\ w.lo \in Pw!Ring /\ w.hi \in 0 .. Buckets
    BY <1>1, <1>2, <1>7, <1>8, <2>1
  <2> QED
    BY <1>4, <2>2, <2>3 DEF c, e
<1>9. CASE e >= Buckets /\ c < Buckets
  <2>1. w.lo = c /\ w.hi = e - Buckets + 1
    BY <1>1, <1>2, <1>4, <1>5, <1>6, <1>9
  <2>2. w.lo > w.hi
    BY <1>1, <1>2, <2>1
  <2>3. \A k \in Pw!Ring : Within(w, k) => k \in c .. e \/ k + Buckets \in c .. e
    BY <1>1, <1>2, <1>7, <1>9, <2>1, <2>2
  <2>4. Within(w, w.lo) /\ w.lo \in Pw!Ring /\ w.hi \in 0 .. Buckets
    BY <1>1, <1>2, <1>7, <1>9, <2>1, <2>2
  <2> QED
    BY <1>4, <2>3, <2>4 DEF c, e
<1>10. CASE c >= Buckets
  <2>1. w.lo = c - Buckets /\ w.hi = e - Buckets + 1
    BY <1>1, <1>2, <1>4, <1>6, <1>10
  <2>2. \A k \in Pw!Ring : Within(w, k) => k + Buckets \in c .. e
    BY <1>1, <1>2, <1>7, <1>10, <2>1
  <2>3. Within(w, w.lo) /\ w.lo \in Pw!Ring /\ w.hi \in 0 .. Buckets
    BY <1>1, <1>2, <1>7, <1>10, <2>1
  <2> QED
    BY <1>4, <2>2, <2>3 DEF c, e
<1> QED
  BY <1>1, <1>2, <1>8, <1>9, <1>10

\* A picture is in the window when its bucket is.
LEMMA PhaseIs ==
  ASSUME win'.valid, NEW k
  PROVE  Pw!PhaseIn(k)' <=> Within(win', k)
  BY DEF Pw!PhaseIn, Within

\* AdoptsQuiet, of a redraw.
LEMMA QuietAdopted ==
  ASSUME PartsAssumption, Window, [Pw!Next]_(Pw!vars), win' # win, win'.valid
  PROVE  /\ \E k \in Pw!Ring : Pw!PhaseIn(k)'
         /\ \A k \in Pw!Ring : Pw!PhaseIn(k)' =>
              \A d \in (-Margin) .. Margin : Pw!At(k + d + Buckets) \notin occ'
<1>1. PICK a \in Pw!Ring, b \in Pw!Ring : Pw!Redraw(a, b)
  BY DEF Pw!Next, Pw!vars, Pw!Load, Pw!pw_reset, Pw!Unlearned, Pw!SetTiming
<1>2. PICK s \in Pw!Ring, l \in 0 .. Buckets - 1 :
        /\ win' = Pw!Placed(s, l) /\ l >= Margin + Margin + 1
        /\ \A i \in 0 .. l - 1 : Pw!At(s + i) \notin occ'
  BY <1>1, AdoptedIs
<1>3. /\ win'.lo \in Pw!Ring /\ Within(win', win'.lo)
      /\ \A k \in Pw!Ring : Within(win', k) =>
           \E j \in s + Margin .. s + l - 1 - Margin : j = k \/ j = k + Buckets
  BY <1>2, PlacedIs
<1>4. \E k \in Pw!Ring : Pw!PhaseIn(k)'
  BY <1>3, PhaseIs
<1>5. ASSUME NEW k \in Pw!Ring, Within(win', k), NEW d \in (-Margin) .. Margin
      PROVE  Pw!At(k + d + Buckets) \notin occ'
  <2>1. PICK j \in s + Margin .. s + l - 1 - Margin : j = k \/ j = k + Buckets
    BY <1>3, <1>5
  <2>2. /\ Buckets \in Nat /\ Margin \in Nat /\ s \in Nat /\ l \in Nat /\ k \in Nat
        /\ d \in Int /\ j \in Int
    BY DEF PartsAssumption, Pw!Constants, Pw!Ring
  <2> DEFINE i == j + d - s
  <2>3. i \in 0 .. l - 1 /\ s + i = j + d
    BY <2>2
  <2> HIDE DEF i
  <2>4. Pw!At(j + d) \notin occ'
    BY <1>2, <2>3
  <2>5. j + d \in Int /\ Pw!At((j + d) + Buckets) = Pw!At(j + d)
    BY <2>2, Round
  <2>6. k + d + Buckets = (j + d) + Buckets \/ k + d + Buckets = j + d
    BY <2>1, <2>2
  <2> QED
    BY <2>4, <2>5, <2>6
<1> QED
  BY <1>4, <1>5, PhaseIs

\* FollowsRetrace, of a redraw.
LEMMA RetraceFollowed ==
  ASSUME PartsAssumption, Window, [Pw!Next]_(Pw!vars), win' # win, win'.valid
  PROVE  \A i, j \in 0 .. Pw!FromRetrace(win'.lo) :
           i < j /\ Pw!At(Retrace[crtc] + i) \notin occ' => Pw!At(Retrace[crtc] + j) \notin occ'
<1> DEFINE r == Retrace[crtc]
           T == {i \in 0 .. Buckets : Pw!At(r + i) = win'.lo}
           First(i) == i \in 0 .. Buckets /\ Pw!At(r + i) = win'.lo
                       /\ \A j \in 0 .. i - 1 : Pw!At(r + j) # win'.lo
           until == Pw!FromRetrace(win'.lo)
<1>1. PICK a \in Pw!Ring, b \in Pw!Ring : Pw!Redraw(a, b)
  BY DEF Pw!Next, Pw!vars, Pw!Load, Pw!pw_reset, Pw!Unlearned, Pw!SetTiming
<1>2. PICK s \in Pw!Ring, l \in 0 .. Buckets - 1, f \in Pw!Ring :
        /\ win' = Pw!Placed(s, l) /\ l >= Margin + Margin + 1
        /\ \A i \in 0 .. l - 1 : Pw!At(s + i) \notin occ'
        /\ s = Pw!At(r + f)
        /\ \A j \in 0 .. f - 1 : Pw!At(r + j) \in occ'
  BY <1>1, AdoptedIs
<1>3. win'.lo = Pw!At(s + Margin) /\ win'.lo \in Pw!Ring
  BY <1>2, PlacedIs
<1>4. /\ Buckets \in Nat \ {0} /\ Margin \in Nat /\ Pw!Ring = 0 .. Buckets - 1
      /\ f \in 0 .. Buckets - 1 /\ l \in Nat /\ l < Buckets /\ s \in Nat
  BY DEF PartsAssumption, Pw!Constants, Pw!Ring
<1>5. r \in 0 .. Buckets - 1
  BY <1>4 DEF Window, Pw!Timings, PartsAssumption, Pw!Constants
<1> HIDE DEF r
<1>6. \A y \in Int : Pw!At(s + y) = Pw!At(r + (f + y))
  <2> SUFFICES ASSUME NEW y \in Int PROVE Pw!At(s + y) = Pw!At(r + (f + y))
    OBVIOUS
  <2>1. r + f \in Int /\ (r + f) + y = r + (f + y)
    BY <1>4, <1>5
  <2> QED
    BY <1>2, <2>1, Round
<1>7. win'.lo = Pw!At(r + (f + Margin))
  BY <1>3, <1>4, <1>6
<1> DEFINE m == IF f + Margin <= Buckets THEN f + Margin ELSE f + Margin - Buckets
<1>8. m \in 0 .. Buckets /\ m <= f + Margin /\ Pw!At(r + m) = win'.lo
  <2>1. CASE f + Margin <= Buckets
    BY <1>4, <1>7, <2>1
  <2>2. CASE f + Margin > Buckets
    <3>1. m = f + Margin - Buckets /\ m \in 0 .. Buckets /\ m <= f + Margin
      BY <1>2, <1>4, <2>2
    <3>2. r + m \in Int /\ (r + m) + Buckets = r + (f + Margin)
      BY <1>4, <1>5, <3>1
    <3>3. Pw!At((r + m) + Buckets) = Pw!At(r + m)
      BY <3>2, Round
    <3> QED
      BY <1>7, <3>1, <3>2, <3>3
  <2> QED
    BY <1>4, <2>1, <2>2
<1> HIDE DEF m
<1>9. m \in T /\ T \in SUBSET Nat
  BY <1>8
<1>10. PICK x \in T : \A y \in T : x <= y
  BY <1>9, LeastElement
<1>11. x \in 0 .. Buckets /\ Pw!At(r + x) = win'.lo
  BY <1>10
<1>12. \A j \in 0 .. x - 1 : Pw!At(r + j) # win'.lo
  <2> SUFFICES ASSUME NEW j \in 0 .. x - 1, Pw!At(r + j) = win'.lo PROVE FALSE
    OBVIOUS
  <2>1. j \in 0 .. Buckets /\ j < x
    BY <1>4, <1>11
  <2>2. j \in T
    BY <2>1
  <2> QED
    BY <1>10, <1>11, <2>1, <2>2
<1>13. First(until)
  BY <1>11, <1>12 DEF Pw!FromRetrace, r
<1> HIDE DEF until
<1>14. until \in Nat /\ until <= Buckets /\ until <= f + Margin
  <2>1. until \in 0 .. Buckets
    BY <1>13
  <2>2. ~ (m < until)
    <3> SUFFICES ASSUME m < until PROVE FALSE
      OBVIOUS
    <3>1. m \in 0 .. until - 1
      BY <1>4, <1>8, <2>1
    <3> QED
      BY <1>8, <1>13, <3>1
  <2> QED
    BY <1>4, <1>8, <2>1, <2>2
<1>15. ASSUME NEW i \in 0 .. until, NEW j \in 0 .. until, i < j, Pw!At(r + i) \notin occ'
       PROVE  Pw!At(r + j) \notin occ'
  <2>1. i >= f
    <3> SUFFICES ASSUME i < f PROVE FALSE
      BY <1>4
    <3>1. i \in 0 .. f - 1
      BY <1>4
    <3> QED
      BY <1>2, <1>15, <3>1
  <2> DEFINE k == j - f
  <2>2. k \in 0 .. l - 1 /\ f + k = j /\ k \in Int
    BY <1>2, <1>4, <1>14, <1>15, <2>1
  <2> HIDE DEF k
  <2> QED
    BY <1>2, <1>6, <2>2
<1> QED
  BY <1>15 DEF until, r

LEMMA WindowAlways ==
  ASSUME PartsAssumption
  PROVE  Pw!Spec => []Window
<1>0. /\ {Buckets, Warmup, Every, MinW} \subseteq Nat \ {0} /\ Pw!Ring = 0 .. Buckets - 1
      /\ Pw!NoTiming \notin Pw!Timings
  BY DEF PartsAssumption, Pw!Constants, Pw!Ring, Pw!NoTiming, Pw!Timings
<1>1. Pw!Unlearned \in [valid : BOOLEAN, lo : Pw!Ring, hi : 0 .. Buckets] /\ ~ Pw!Unlearned.valid
  BY <1>0 DEF Pw!Unlearned
<1>2. Pw!Init => Window
  BY <1>0, <1>1 DEF Pw!Init, Window
<1>3. Window /\ [Pw!Next]_(Pw!vars) => Window'
  <2> SUFFICES ASSUME Window, [Pw!Next]_(Pw!vars) PROVE Window'
    OBVIOUS
  <2>1. CASE \E a, b \in Pw!Ring : Pw!Redraw(a, b)
    <3> PICK a \in Pw!Ring, b \in Pw!Ring : Pw!Redraw(a, b)
      BY <2>1
    <3>1. occ' \subseteq Pw!Ring /\ vt' = crtc /\ crtc' = crtc
      BY BandIs DEF Pw!Redraw, Pw!Kept, Window
    <3>2. redraws' \in 1 .. Warmup + Every
      <4>1. Pw!Seen(crtc) \in 0 .. Warmup + Every
        BY <1>0 DEF Pw!Seen, Window
      <4> DEFINE seen == Pw!Seen(crtc) + 1
      <4>2. redraws' = IF seen >= Warmup + Every THEN seen - Every ELSE seen
        BY DEF Pw!Redraw
      <4>3. seen \in 1 .. Warmup + Every + 1
        BY <1>0, <4>1
      <4> HIDE DEF seen
      <4> QED
        BY <1>0, <4>2, <4>3
    <3>3. win' \in [valid : BOOLEAN, lo : Pw!Ring, hi : 0 .. Buckets]
      <4>1. CASE win' = win \/ win' = Pw!Unlearned
        BY <1>1, <4>1 DEF Window
      <4>2. CASE win' # win /\ win' # Pw!Unlearned
        <5>1. win' \in {Pw!Placed(s, l) : s \in Pw!Ring, l \in 0 .. Buckets - 1}
                \/ win' = win \/ win' = Pw!Unlearned
          <6>1. CASE win'.valid
            BY <4>2, <6>1, AdoptedIs
          <6>2. CASE ~ win'.valid
            <7>1. \A o, seen : Pw!pw_derive(o, seen) = win \/ Pw!pw_derive(o, seen).valid
              BY DEF Pw!pw_derive, Pw!Placed
            <7>2. win' = win \/ win' = Pw!Unlearned \/ \E o, seen : win' = Pw!pw_derive(o, seen)
              BY DEF Pw!Redraw
            <7> QED
              BY <6>2, <7>1, <7>2
          <6> QED
            BY <6>1, <6>2
        <5>2. win'.valid
          BY <4>2, <5>1 DEF Pw!Placed
        <5>3. PICK s \in Pw!Ring, l \in 0 .. Buckets - 1 :
                win' = Pw!Placed(s, l) /\ l >= Margin + Margin + 1
          BY <4>2, <5>2, AdoptedIs
        <5>4. win'.lo \in Pw!Ring /\ win'.hi \in 0 .. Buckets
          BY <5>3, PlacedIs
        <5> QED
          BY <5>3, <5>4 DEF Pw!Placed
      <4> QED
        BY <4>1, <4>2
    <3>4. redraws' # 0 /\ redraws' > 0 /\ redraws' \in 0 .. Warmup + Every
      BY <1>0, <3>2
    <3> QED
      BY <1>0, <3>1, <3>3, <3>4 DEF Window
  <2>2. CASE Pw!Load
    BY <1>0, <1>1, <2>2 DEF Pw!Load, Pw!pw_reset, Window
  <2>3. CASE \E z \in Pw!Timings : Pw!SetTiming(z)
    BY <2>3 DEF Pw!SetTiming, Window
  <2>4. CASE UNCHANGED Pw!vars
    BY <2>4 DEF Pw!vars, Window
  <2> QED
    BY <2>1, <2>2, <2>3, <2>4 DEF Pw!Next
<1> QED
  BY <1>2, <1>3, PTL DEF Pw!Spec

\* The variables of the window have their types.
THEOREM WindowTyped ==
  ASSUME PartsAssumption
  PROVE  Pw!Spec => []Pw!TypeOK
<1>1. Window => Pw!TypeOK
  BY DEF Window, Pw!TypeOK
<1> QED
  BY <1>1, WindowAlways, PTL

(***************************************************************************)
(* The properties of the run.                                              *)
(***************************************************************************)

\* The other parts of a table's behaviour are their own specifications' too.
LEMMA PageIsPart ==
  Spec => Sa!Spec
<1>1. Init => Sa!Init
  BY DEF Init
<1>2. [Next]_vars => Sa!Next \/ UNCHANGED page
  BY DEF Next, Only, vars
<1>3. UNCHANGED page => UNCHANGED Sa!vars
  BY DEF page, Sa!vars
<1> QED
  BY <1>1, <1>2, <1>3, PTL DEF Spec, Sa!Spec

LEMMA PaletteIsPart ==
  Spec => Ps!Spec
<1>1. Init => Ps!Init
  BY DEF Init
<1>2. [Next]_vars => Ps!Next \/ UNCHANGED palette
  BY DEF Next, Only, vars
<1>3. UNCHANGED palette => UNCHANGED Ps!vars
  BY DEF palette, Ps!vars
<1> QED
  BY <1>1, <1>2, <1>3, PTL DEF Spec, Ps!Spec

LEMMA MemoryIsPart ==
  Spec => Vr!Spec
<1>1. Init => Vr!Init
  BY DEF Init
<1>2. [Next]_vars => Vr!Next \/ UNCHANGED memory
  BY DEF Next, Only, vars
<1>3. UNCHANGED memory => UNCHANGED Vr!vars
  BY DEF memory, Vr!vars
<1> QED
  BY <1>1, <1>2, <1>3, PTL DEF Spec, Vr!Spec

LEMMA WindowIsPart ==
  Spec => Pw!Spec
<1>1. Init => Pw!Init
  BY DEF Init
<1>2. [Next]_vars => Pw!Next \/ UNCHANGED window
  BY DEF Next, Only, vars
<1>3. UNCHANGED window => UNCHANGED Pw!vars
  BY DEF window, Pw!vars
<1> QED
  BY <1>1, <1>2, <1>3, PTL DEF Spec, Pw!Spec

\* PictureSteady, the property of the run: a picture drawn at any line is the page
\* latched at the retrace or the one its ball was drawn for, a seam stands with its
\* menu and leaves with it, and a frame is presented in a quiet span, the one that
\* follows the retrace's band.  For frames of any size, any length of the two
\* histories and any number of buckets.
THEOREM PictureIsSteady ==
  Spec => PictureSteady
<1>1. Page => (which = "page" => Sa!ShownIsLatched)
  BY PartsAssumption, DrawnIsLatched
<1>2. Page /\ [Sa!Next]_(Sa!vars) =>
        [ball'.age < BallHold /\ ball'.age = ball.age + 1
           => Sa!vga_display_start' = Sa!vga_display_start]_(Sa!vars)
  BY PartsAssumption, CameraStands
<1>3. Palette => (which = "palette" => Ps!MenuSteady /\ Ps!SeamLeaves)
  BY PartsAssumption, SplitShown, SeamGone DEF Ps!MenuSteady
<1>4. Palette /\ [Ps!Next]_(Ps!vars) =>
        [flips = 4 /\ flips' = 4 /\ split.line >= 0 => split'.line = split.line]_(Ps!vars)
  BY PartsAssumption, SeamKept
<1>5. Window /\ [Pw!Next]_(Pw!vars) =>
        [win' # win /\ win'.valid =>
           /\ \E k \in Pw!Ring : Pw!PhaseIn(k)'
           /\ \A k \in Pw!Ring : Pw!PhaseIn(k)' =>
                \A d \in (-Margin) .. Margin : Pw!At(k + d + Buckets) \notin occ']_(Pw!vars)
  BY PartsAssumption, QuietAdopted
<1>6. Window /\ [Pw!Next]_(Pw!vars) =>
        [win' # win /\ win'.valid =>
           \A i, j \in 0 .. Pw!FromRetrace(win'.lo) :
             i < j /\ Pw!At(Retrace[crtc] + i) \notin occ'
               => Pw!At(Retrace[crtc] + j) \notin occ']_(Pw!vars)
  BY PartsAssumption, RetraceFollowed
<1>7. Spec => []Page /\ []Palette /\ []Window
  BY PartsAssumption, PageIsPart, PaletteIsPart, WindowIsPart, PageAlways, PaletteAlways,
     WindowAlways, PTL
<1>8. Spec => Sa!StepsWithBall
  BY <1>2, <1>7, PageIsPart, PTL DEF Sa!Spec, Sa!StepsWithBall
<1>9. Spec => Ps!SeamStands
  BY <1>4, <1>7, PaletteIsPart, PTL DEF Ps!Spec, Ps!SeamStands
<1>10. Spec => Pw!AdoptsQuiet
  BY <1>5, <1>7, WindowIsPart, PTL DEF Pw!Spec, Pw!AdoptsQuiet
<1>11. Spec => Pw!FollowsRetrace
  BY <1>6, <1>7, WindowIsPart, PTL DEF Pw!Spec, Pw!FollowsRetrace
<1> QED
  BY <1>1, <1>3, <1>7, <1>8, <1>9, <1>10, <1>11, PTL DEF PictureSteady

\* PlanesRight, the property of the run: a write is its operation on what the read
\* before it latched, the window is memory, a compare finds its colour, the panel
\* stands while the field scrolls and a plotted byte comes up where it was meant.
\* For bytes, planes, register settings and screens of any size.
THEOREM PlanesAreRight ==
  Spec => PlanesRight
<1>1. Memory /\ [Vr!Next]_(Vr!vars) =>
        [\A a \in Addrs, v \in Values :
           Vr!Write(a, v) /\ Vr!Inside(a) /\ ~ Vr!Direct /\ latch = vram[Vr!CellOf(a)] =>
             \A p \in Vr!Plane, b \in Vr!Bits :
               b \in vram'[Vr!CellOf(a)][p] <=>
                 IF p \in regs.planes /\ regs.wm # 1 /\ Vr!Passes(v, b)
                 THEN Vr!Combined(Vr!Source(v, p, b), b \in latch[p])
                 ELSE b \in vram[Vr!CellOf(a)][p]]_(Vr!vars)
  BY PartsAssumption, WrittenBits
<1>2. Memory /\ [Vr!Next]_(Vr!vars) =>
        [\A a \in Addrs, v \in Values :
           Vr!Write(a, v) /\ Vr!Direct =>
             \A b \in {c \in 0 .. (Vr!Span - 1) : Vr!Inside(c)} :
               Vr!ReadBack(b)' = IF b = a /\ Vr!PlaneOf(a) \in regs.planes
                                 THEN v ELSE Vr!ReadBack(b)]_(Vr!vars)
  BY PartsAssumption, WindowKeeps
<1>3. Memory /\ [Vr!Next]_(Vr!vars) =>
        [\A a \in Addrs :
           Vr!Read(a) /\ Vr!Inside(a) /\ ~ Vr!Direct /\ regs.rm = 1 /\ regs.care = Vr!Plane =>
             /\ vram' = vram
             /\ Vr!ReadBack(a) =
                  {b \in Vr!Bits : {p \in Vr!Plane : b \in vram[Vr!CellOf(a)][p]} = regs.compare}]_(Vr!vars)
  BY PartsAssumption, ComparedRight
<1>4. Memory /\ [Vr!Next]_(Vr!vars) =>
        [\A rows \in {-1, 1, 2} : Vr!Scroll(rows) =>
           \A y \in Vr!Rows :
             IF y >= Vr!split THEN Vr!Row(y)' = Vr!Row(y)
             ELSE y + rows \in 0 .. (Vr!split - 1) => Vr!Row(y)' = Vr!Row(y + rows)]_(Vr!vars)
  BY PartsAssumption, PanelKept
<1>5. Memory /\ [Vr!Next]_(Vr!vars) =>
        [\A a \in Addrs, v \in Values :
           Vr!Write(a, v) /\ Vr!Inside(a) /\ start = 0 /\ regs.chain /\ Vr!PlaneOf(a) \in regs.planes =>
             \A y \in {row \in Vr!Rows : row < Vr!split}, x \in Vr!Columns :
               Vr!Dot256(x, y)' =
                 IF (4 * Screen.offset * y) + x + (Screen.pel \div 2) = Vr!Off(a)
                 THEN v ELSE Vr!Dot256(x, y)]_(Vr!vars)
  BY PartsAssumption, PlotSeen
<1>6. Spec => []Memory /\ [][Vr!Next]_(Vr!vars)
  BY PartsAssumption, MemoryIsPart, MemoryAlways, PTL DEF Vr!Spec
<1>7. Spec => Vr!ReadModifyWrite
  BY <1>1, <1>6, PTL DEF Vr!ReadModifyWrite
<1>8. Spec => Vr!WindowIsMemory
  BY <1>2, <1>6, PTL DEF Vr!WindowIsMemory
<1>9. Spec => Vr!CompareFinds
  BY <1>3, <1>6, PTL DEF Vr!CompareFinds
<1>10. Spec => Vr!PanelStands
  BY <1>4, <1>6, PTL DEF Vr!PanelStands
<1>11. Spec => Vr!PlotsWhereMeant
  BY <1>5, <1>6, PTL DEF Vr!PlotsWhereMeant
<1> QED
  BY <1>7, <1>8, <1>9, <1>10, <1>11, PTL DEF PlanesRight

\* TypeOK, of every part.
THEOREM TableTyped ==
  Spec => []TypeOK
<1> DEFINE Whose == which \in {"score", "trainer", "page", "palette", "vram", "window"}
<1>1. Init => Whose
  BY DEF Init
<1>2. Whose /\ [Next]_vars => Whose'
  BY DEF Next, Only, vars
<1>3. Spec => []Whose
  BY <1>1, <1>2, PTL DEF Spec
<1>4. /\ Whose /\ Sc!TypeOK /\ Tr!TypeOK /\ Sa!TypeOK /\ Ps!TypeOK /\ Vr!TypeOK /\ Pw!TypeOK
      => TypeOK
  BY DEF TypeOK
<1>5. Sc!Constants
  BY PartsAssumption DEF PartsAssumption
<1>6. Spec => [](Sc!TypeOK /\ Tr!TypeOK /\ Sa!TypeOK /\ Ps!TypeOK /\ Vr!TypeOK /\ Pw!TypeOK)
  BY <1>5, PartsAssumption, ScoreIsPart, TrainerIsPart, PageIsPart, PaletteIsPart, MemoryIsPart,
     WindowIsPart, ScoreTyped, TrainerTyped, PageTyped, PaletteTyped, MemoryTyped, WindowTyped, PTL
<1> QED
  BY <1>3, <1>4, <1>6, PTL
=============================================================================
