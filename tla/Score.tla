-------------------------------- MODULE Score --------------------------------
(***************************************************************************)
(* The games of a session, cut out of it and scored by watching the guest  *)
(* (fantasies_score_exec and fantasies_score_tick, src/fantasies.c): five  *)
(* instructions of the table program are hooked, and its memory is polled  *)
(* in between.  The table program is the one the comments describe: it     *)
(* scores, loses balls, passes them from player to player, rebuilds the    *)
(* live score for a new ball, and takes its cheats in attract mode.        *)
(*                                                                         *)
(* The score's digits are where the locators found them, so no poll reads  *)
(* a byte above nine, and the two ends of a score transaction are          *)
(* microseconds apart, so the half-second watchdog never ends one.         *)
(***************************************************************************)
EXTENDS Naturals, Sequences, FiniteSets

CONSTANTS
  Short, Long,  \* NO_OF_BALLS, as the options have it: 3 and 5
  SCLog,        \* SC_LOG: attempts the log holds
  Setups,       \* the installs a session may run on
  MaxGames,     \* bound: games of a session
  MaxScore      \* bound: points the score ever shows

\* What the proofs assume of them.
Constants ==
  /\ Short \in Nat \ {0} /\ Long \in Nat /\ Short <= Long
  /\ {SCLog, MaxGames, MaxScore} \subseteq Nat
  /\ Setups \subseteq [five : BOOLEAN, hires : BOOLEAN, trainer : BOOLEAN]

VARIABLES
  setup,  \* five (the option S_BALLS), hires (HI_RES), trainer
  g,      \* the table program: step, demo, ball, score, saved, player, players, off, first, seen
  t,      \* the tracker: see Idle
  log,    \* sc_log
  games,  \* games begun
  real    \* what really happened: now, the game at hand, and past ones in the log's order

vars == <<setup, g, t, log, games, real>>

Attract == [step |-> "attract", demo |-> TRUE, ball |-> 0, score |-> 0, saved |-> <<0, 0>>,
            player |-> 1, players |-> 1, off |-> {}, first |-> TRUE, seen |-> FALSE]
Other   == [Attract EXCEPT !.step = "other", !.demo = FALSE]
Game    == [earned |-> <<0>>, honest |-> TRUE, players |-> 1, final |-> 0]

Cheats == {"tilt", "speed", "balls"}
NoOfBalls == IF setup.five = ("balls" \notin g.off) THEN Long ELSE Short

\* state     sc_state
\* have      sc_have_ball; prev, edge: sc_ball_prev, sc_ball_edge, 0 for none
\* unstable  sc_unstable; last: sc_last_score; rewound: sc_rewind_warned
\* the rest  sc_cur
Idle == [state |-> "idle", have |-> FALSE, prev |-> 0, edge |-> 0, unstable |-> FALSE,
         last |-> 0, rewound |-> FALSE,
         players |-> 1, nballs |-> 0, cheats |-> {}, reached |-> 0, decreased |-> FALSE,
         score |-> 0, ends |-> <<>>]

-----------------------------------------------------------------------------
\* sc_mark_balls, sc_split_balls and sc_close.
\* Mutant: the edge is not forgotten and its ball is marked again.
MarksTwice(s, v) == [s EXCEPT !.ends = IF s.edge > 1 THEN Append(@, v) ELSE @]

Marked(s, v) == [s EXCEPT !.edge = 0,
  !.ends = @ \o [i \in 1 .. IF s.edge > Len(@) THEN s.edge - 1 - Len(@) ELSE 0 |-> v]]

HighBefore(ends, i) ==
  LET before == {0} \cup {ends[j] : j \in 1 .. i - 1}
  IN  CHOOSE m \in before : \A x \in before : x <= m

Split(ends, final) ==
  LET all == Append(ends, final)
  IN  [i \in 1 .. Len(all) |->
         IF all[i] > HighBefore(all, i) THEN all[i] - HighBefore(all, i) ELSE 0]

Rankable(s, how) ==
  /\ how = "attract" /\ s.state = "locked"
  /\ ~setup.trainer /\ s.cheats = {} /\ s.players = 1 /\ ~s.decreased

Attempt(s, how) ==
  LET final == IF how = "attract" THEN s.score ELSE s.last
  IN  [how |-> how, score |-> final, reached |-> s.reached, rewound |-> s.rewound,
       rankable |-> Rankable(s, how),
       ball_scores |-> Split(Marked(s, final).ends, final)]

\* What an idle tracker still holds of the last attempt.
Rest(s) == [Idle EXCEPT !.have = s.have, !.prev = s.prev, !.edge = s.edge,
                        !.unstable = s.unstable, !.rewound = s.rewound]

Close(s, how) ==
  IF s.state = "idle" THEN t' = s /\ UNCHANGED <<log, real>>
  ELSE /\ log' = IF Len(log) < SCLog THEN Append(log, Attempt(s, how)) ELSE log
       /\ t' = Rest(s)
       /\ real' = [now |-> Game, past |-> Append(real.past, real.now)]

Sampled(s) == [s EXCEPT !.cheats = @ \cup g.off]

\* fantasies_score_exec at GO_GAME_MODE.
Began == Sampled([Idle EXCEPT !.state = "open", !.players = g.players,
                              !.nballs = NoOfBalls, !.last = g.score])

\* ... at RESET_VARS and past P_STRUC_2_VARS.
Cleared(s) == IF s.state # "idle" THEN [s EXCEPT !.unstable = TRUE] ELSE s

Restored(s, v) ==
  IF s.state # "idle" /\ s.unstable
  THEN [s EXCEPT !.unstable = FALSE, !.decreased = @ \/ v < s.last, !.last = v] ELSE s

\* ... at SPRINGUP.  Mutant: the players are those of the game's start.
LockedEarly(s) ==
  IF s.state = "open" /\ g.ball = 1 THEN [Sampled(s) EXCEPT !.state = "locked"] ELSE s

Launched(s) ==
  IF s.state = "idle" THEN s
  ELSE IF s.state = "open" /\ g.ball = 1
       THEN [Sampled(s) EXCEPT !.state = "locked", !.players = g.players] ELSE Sampled(s)

\* fantasies_score_tick.
Tracks(s) == s.have \/ g.ball = 1

Watched(s) ==
  LET up == s.prev > 0 /\ g.ball > s.prev /\ g.ball > s.edge
  IN  [s EXCEPT !.have = TRUE, !.prev = g.ball,
                !.reached = IF g.ball > @ THEN g.ball ELSE @,
                !.edge = IF up THEN g.ball ELSE @,
                !.rewound = @ \/ g.ball < s.prev]

Polled(s) ==
  IF s.state = "idle" \/ ~Tracks(s) THEN s
  ELSE LET w == Watched(s) IN
       IF w.unstable THEN w
       ELSE [Marked(w, g.score) EXCEPT !.decreased = @ \/ g.score < s.last, !.last = g.score]

-----------------------------------------------------------------------------
Step(from, to) == g.step = from /\ g' = [g EXCEPT !.step = to]
Quiet == UNCHANGED <<t, log, games, real, setup>>

\* EXEC of a table, or of another program of the release.
Leave(how) == Close(t, how)

Exec ==
  /\ g.step \in {"off", "other"} /\ UNCHANGED <<setup, games>>
  /\ g' \in {Attract, Other}
  /\ Leave("abandoned")

\* EARTHQUAKE; SNAIL, PgDn and PgUp; EXTRA BALLS; FAIR PLAY, which sets the
\* plain values whatever the options and the resolution had set up.
Cheat ==
  /\ g.step = "attract" /\ Quiet
  /\ \E off \in { g.off \cup {"tilt"}, g.off \cup {"speed"}, g.off \ {"speed"},
                  IF setup.five THEN g.off \ {"balls"} ELSE g.off \cup {"balls"},
                  (IF setup.five THEN {"balls"} ELSE {}) \cup (IF setup.hires THEN {"speed"} ELSE {}) } :
       off # g.off /\ g' = [g EXCEPT !.off = off]

\* GO_GAME_MODE; the last game's ball number stands until the reset.
StartGame ==
  /\ g.step = "attract" /\ games < MaxGames /\ games' = games + 1
  /\ g' = [g EXCEPT !.step = "reset", !.demo = FALSE]
  /\ t' = Began
  /\ real' = [real EXCEPT !.now = [Game EXCEPT !.honest = (g.off = {})]]
  /\ UNCHANGED <<log, setup>>

NewGameReset ==
  /\ g.step = "reset" /\ Quiet
  /\ g' = [g EXCEPT !.step = "ready", !.ball = 1, !.saved = <<0, 0>>, !.seen = FALSE]

ResetVars ==
  /\ g.step = "ready" /\ g' = [g EXCEPT !.step = "cleared", !.score = 0]
  /\ t' = Cleared(t) /\ UNCHANGED <<log, games, real, setup>>

Restore ==
  /\ g.step = "cleared" /\ g' = [g EXCEPT !.step = "lane", !.score = g.saved[g.player]]
  /\ t' = Restored(t, g.saved[g.player]) /\ UNCHANGED <<log, games, real, setup>>

AddPlayer ==
  /\ g.step = "lane" /\ g.first /\ g.players = 1
  /\ g' = [g EXCEPT !.players = 2] /\ real' = [real EXCEPT !.now.players = 2]
  /\ UNCHANGED <<t, log, games, setup>>

\* The plunger takes longer than the two milliseconds between polls.
Launch ==
  /\ g.step = "lane" /\ g.seen
  /\ g' = [g EXCEPT !.step = "play", !.first = FALSE]
  /\ t' = Launched(t) /\ UNCHANGED <<log, games, real, setup>>

\* Points in play, and the bonus once the ball is lost.
Points ==
  /\ g.step \in {"play", "gone"} /\ g.score < MaxScore
  /\ g' = [g EXCEPT !.score = @ + 1]
  /\ real' = [real EXCEPT !.now.earned[g.ball] = @ + 1]
  /\ UNCHANGED <<t, log, games, setup>>

LoseBall == Step("play", "gone") /\ Quiet

\* An extra ball or the match: the number stays.
ShootAgain ==
  /\ g.step = "gone" /\ Quiet
  /\ g' = [g EXCEPT !.step = "ready", !.saved[g.player] = g.score]

\* Tables reset the score for a new ball or leave it alone.
NextBall ==
  /\ g.step = "gone" /\ UNCHANGED <<t, log, games, setup>>
  /\ LET kept == [g EXCEPT !.saved[g.player] = g.score, !.step = "ready"]
     IN  \/ g.player < g.players /\ g' = [kept EXCEPT !.player = @ + 1] /\ UNCHANGED real
         \/ /\ g.player = g.players /\ g.ball < NoOfBalls
            /\ \E step \in IF g.players = 1 THEN {"ready", "lane"} ELSE {"ready"} :
                 g' = [kept EXCEPT !.player = 1, !.ball = @ + 1, !.seen = FALSE, !.step = step]
            /\ real' = [real EXCEPT !.now.earned = Append(@, 0)]

\* GO_DEMO_MODE, and zeroscore some instructions later.
GameOver ==
  /\ g.step = "gone" /\ g.player = g.players /\ g.ball = NoOfBalls
  /\ g' = [Attract EXCEPT !.step = "zero", !.ball = g.ball, !.score = g.score, !.off = g.off]
  /\ LET s == Sampled([t EXCEPT !.score = g.score])
     IN  /\ t' = Rest(s)
         /\ log' = IF Len(log) < SCLog THEN Append(log, Attempt(s, "attract")) ELSE log
         /\ real' = [now |-> Game, past |-> Append(real.past, [real.now EXCEPT !.final = g.score])]
  /\ UNCHANGED <<games, setup>>

ZeroScore ==
  /\ g.step = "zero" /\ g' = [g EXCEPT !.step = "attract", !.score = 0] /\ Quiet

\* The player leaves the table; its memory stays as it is until an EXEC.
Quit ==
  /\ g.step \notin {"off", "other", "over", "cleared"}
  /\ g' = [g EXCEPT !.step = "off"] /\ Quiet

Poll ==
  /\ t.state # "idle"
  /\ g' = [g EXCEPT !.seen = g.step # "cleared"]
  /\ t' = Polled(t) /\ UNCHANGED <<log, games, real, setup>>

\* fantasies_score_report.
Finish ==
  /\ g.step # "over" /\ g' = [g EXCEPT !.step = "over"]
  /\ Close(t, "unfinished") /\ UNCHANGED <<setup, games>>

Init ==
  /\ setup \in Setups
  /\ g = Other /\ t = Idle /\ log = <<>> /\ games = 0
  /\ real = [now |-> Game, past |-> <<>>]

Next ==
  \/ Exec \/ Cheat \/ StartGame \/ NewGameReset \/ ResetVars \/ Restore \/ AddPlayer
  \/ Launch \/ Points \/ LoseBall \/ ShootAgain \/ NextBall \/ GameOver \/ ZeroScore
  \/ Quit \/ Poll \/ Finish

Spec == Init /\ [][Next]_vars

-----------------------------------------------------------------------------
TypeOK ==
  /\ t.state \in {"idle", "open", "locked"} /\ t.cheats \subseteq Cheats /\ t.edge \in 0 .. Long
  /\ t.last \in 0 .. MaxScore /\ Len(log) <= SCLog /\ g.ball \in 0 .. Long
  /\ t.state # "idle" => Len(t.ends) < Long
  /\ \A i \in DOMAIN log : Len(log[i].ball_scores) \in 1 .. Long

\* An attempt is open exactly while the game on the screen is being played
\* and its program is in memory: the DEMOMODE flag reads FALSE whenever a
\* poll looks ("if it does not, the segmentation is wrong").
OpenWhilePlaying ==
  /\ t.state # "idle" => ~g.demo /\ g.step # "other"
  /\ g.step \in {"reset", "ready", "cleared", "lane", "play", "gone"} => t.state # "idle"

\* What is ranked was won: by one player, without a cheat, to the game's own
\* end, and with the score the game had then.
RankedWasWon ==
  \A i \in DOMAIN log : log[i].rankable =>
    /\ real.past[i].players = 1 /\ real.past[i].honest /\ ~setup.trainer
    /\ log[i].score = real.past[i].final

\* And what was won is ranked: however the polls fall around the new ball's
\* score transaction, no honest game is refused for a score that went down
\* (the failure of docs/VERIFY-BUG.md).
WonIsRanked ==
  \A i \in DOMAIN log :
    log[i].how = "attract" /\ real.past[i].players = 1 /\ real.past[i].honest /\ ~setup.trainer
      => log[i].rankable

\* The points of each ball are those made while the counter showed it, the
\* bonus included, wherever the polls fell.
BallScoresRight ==
  \A i \in DOMAIN log : log[i].rankable => log[i].ball_scores = real.past[i].earned

\* The counter is never seen going back, which the verdict would carry as a
\* warning, and no attempt claims a ball of the game before it.
CounterTrue ==
  \A i \in DOMAIN log : ~log[i].rewound /\ log[i].reached <= Len(real.past[i].earned)
=============================================================================
