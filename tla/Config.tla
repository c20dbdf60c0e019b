-------------------------------- MODULE Config --------------------------------
(***************************************************************************)
(* One install's settings (src/cfg.c): PFEMU-STATE/pfemu.cfg, the six old  *)
(* files it replaces, the sound's SOUND.CFG and the window positions     *)
(* beside the program.  The launcher shows them, writes them all at Launch *)
(* and stays open; the game changes the volume with its keys and saves it  *)
(* on its way out.  Either may die while it writes.                        *)
(***************************************************************************)
EXTENDS Integers, Sequences

CONSTANTS
  Volumes,      \* levels, the default one among them
  Vol0,         \* AUDIO_VOLUME_DEFAULT
  Notches,      \* sound quality, 0 the default
  Opts,         \* everything else one file holds, as one value
  Opt0,         \* its defaults
  None,
  MaxLaunches,  \* bound: games started
  MaxCrashes    \* bound: writers that die

VARIABLES
  file,      \* pfemu.cfg: None, or the settings its lines hold so far
  legacy,    \* the old files' settings, None when they are gone
  sound,     \* SOUND.CFG in force, the overlay's before the installed one:
             \* None, NoSound, or its quality notch
  ui,        \* what the launcher shows, None when it is closed
  game,      \* the running game's level, and whether its keys changed it
  wins,      \* pfemu-winpos.cfg, line by line
  set,       \* the notch and the rest the player last chose
  launches, crashes

NoSound == -1   \* NOSOUND.SDR

vars == <<file, legacy, sound, ui, game, wins, set, launches, crashes>>

Defaults == [vol |-> Vol0, quality |-> 0, opts |-> Opt0]

\* The order cfg_write prints them in; a line that is not there reads as the
\* default.
Keys == <<"vol", "quality", "opts">>
\* The first n lines of a file written for c.
Cut(c, n) ==
  [vol |-> IF n >= 1 THEN c.vol ELSE Defaults.vol,
   quality |-> IF n >= 2 THEN c.quality ELSE Defaults.quality,
   opts |-> IF n >= 3 THEN c.opts ELSE Defaults.opts]

\* cfg_read: the old files count only while there is no pfemu.cfg.
cfg_read == IF file # None THEN file ELSE IF legacy # None THEN legacy ELSE Defaults

\* cfg_write, to the end or cut short after n lines; only a whole one drops the
\* old files.
cfg_write(c, n) ==
  /\ file' = Cut(c, n)
  /\ legacy' = IF n = Len(Keys) THEN None ELSE legacy

\* read_sound_quality: SOUND.CFG's notch, else the mirror.
SoundQuality(cfg, c) == IF cfg \in Notches THEN cfg ELSE c.quality

\* write_sound_cfg
SoundCfg(on, q) == IF on THEN q ELSE NoSound

Dies(n) == n < Len(Keys)
Counted(n) == crashes' = crashes + (IF Dies(n) THEN 1 ELSE 0) /\ (Dies(n) => crashes < MaxCrashes)

-----------------------------------------------------------------------------
\* run_launcher and reload_for_dir.
Loaded ==
  [vol |-> cfg_read.vol, opts |-> cfg_read.opts,
   sound |-> sound \in Notches, quality |-> SoundQuality(sound, cfg_read)]

Open ==
  /\ ui = None /\ ui' = Loaded
  /\ UNCHANGED <<file, legacy, sound, game, wins, set, launches, crashes>>

Change(u) ==
  /\ ui # None /\ u # ui /\ ui' = u
  /\ UNCHANGED <<file, legacy, sound, game, wins, set, launches, crashes>>

\* Launch in play or record mode: SOUND.CFG, then every setting of the window
\* over what the file has, then the game with the level just written.
Written(u) == [cfg_read EXCEPT !.vol = u.vol, !.quality = u.quality, !.opts = u.opts]

Launch(n) ==
  /\ ui # None /\ game = None /\ launches < MaxLaunches
  /\ launches' = launches + 1 /\ Counted(n)
  /\ sound' = SoundCfg(ui.sound, ui.quality)
  /\ cfg_write(Written(ui), n)
  /\ IF Dies(n) THEN ui' = None /\ UNCHANGED <<game, set>>
     ELSE /\ game' = [vol |-> ui.vol, dirty |-> FALSE]
          /\ set' = [quality |-> ui.quality, opts |-> ui.opts]
          /\ UNCHANGED ui
  /\ UNCHANGED wins

\* A game started with no launcher, -vol or not.
Start(v) ==
  /\ ui = None /\ game = None /\ launches < MaxLaunches
  /\ launches' = launches + 1
  /\ v \in {cfg_read.vol} \cup Volumes
  /\ game' = [vol |-> v, dirty |-> FALSE]
  /\ UNCHANGED <<file, legacy, sound, ui, wins, set, crashes>>

\* SETSOUND, run in the emulator with -setup; choosing no sound there leaves
\* only the mirror to remember a notch.
Setsound(q) ==
  /\ game # None
  /\ sound' = q
  /\ set' = [set EXCEPT !.quality = SoundQuality(q, cfg_read)]
  /\ UNCHANGED <<file, legacy, ui, game, wins, launches, crashes>>

\* -/+ in the game's window.
VolumeKey(v) ==
  /\ game # None /\ game' = [vol |-> v, dirty |-> TRUE]
  /\ UNCHANGED <<file, legacy, sound, ui, wins, set, launches, crashes>>

\* write_volume_cfg, on the way out.  Mutant: it does not read first.
NotRead(v) == [Defaults EXCEPT !.vol = v]
WithVolume(v) == [cfg_read EXCEPT !.vol = v]

GameEnds(n) ==
  /\ game # None /\ game' = None
  /\ IF game.dirty
     THEN cfg_write(WithVolume(game.vol), n) /\ Counted(n)
     ELSE UNCHANGED <<file, legacy, crashes>>
  /\ UNCHANGED <<sound, ui, wins, set, launches>>

Close ==
  /\ ui # None /\ ui' = None
  /\ UNCHANGED <<file, legacy, sound, game, wins, set, launches, crashes>>

-----------------------------------------------------------------------------
(* Window positions: two pairs in one file, each program saving its own.   *)

Owners == {"win", "launch"}

\* winpos_read: <<x, y>> of an owner, None unless both lines are there.

Position(lines, o) ==
  LET at(k) == {i \in DOMAIN lines : lines[i].owner = o /\ lines[i].axis = k}
  IN IF at("x") = {} \/ at("y") = {} THEN None
     ELSE <<lines[CHOOSE i \in at("x") : TRUE].of, lines[CHOOSE i \in at("y") : TRUE].of>>

\* winpos_write, of is the save a line comes from.
PairLines(o, p) ==
  IF p = None THEN <<>>
  ELSE <<[owner |-> o, axis |-> "x", of |-> p[1]], [owner |-> o, axis |-> "y", of |-> p[2]]>>

\* last_save_winpos and last_save_launchpos, of a window that is open, cut after
\* n lines.
SavePosition(o, n) ==
  LET new == PairLines("win", IF o = "win" THEN <<launches, launches>> ELSE Position(wins, "win"))
             \o PairLines("launch", IF o = "launch" THEN <<launches, launches>>
                                    ELSE Position(wins, "launch"))
  IN /\ IF o = "win" THEN game # None ELSE ui # None
     /\ n <= Len(new) /\ wins' = SubSeq(new, 1, n)
     /\ n < Len(new) => crashes < MaxCrashes
     /\ crashes' = crashes + (IF n < Len(new) THEN 1 ELSE 0)
     /\ UNCHANGED <<file, legacy, sound, ui, game, set, launches>>

-----------------------------------------------------------------------------
Settings == [vol : Volumes, quality : Notches, opts : Opts]

\* What the proofs assume of the constants: the defaults are choices, and
\* nothing that can be chosen is no choice.
Constants ==
  /\ Vol0 \in Volumes /\ 0 \in Notches /\ Notches \subseteq Nat /\ Opt0 \in Opts
  /\ None \notin Settings \cup Nat /\ {MaxLaunches, MaxCrashes} \subseteq Nat

Init ==
  /\ file = None /\ legacy \in Settings \cup {None}
  /\ sound \in Notches \cup {None, NoSound}
  /\ ui = None /\ game = None /\ wins = <<>>
  /\ set = [quality |-> SoundQuality(sound, cfg_read), opts |-> cfg_read.opts]
  /\ launches = 0 /\ crashes = 0

Next ==
  \/ Open \/ Close
  \/ \E v \in Volumes : Change([ui EXCEPT !.vol = v]) \/ Start(v) \/ VolumeKey(v)
  \/ \E q \in Notches : Change([ui EXCEPT !.quality = q])
  \/ \E q \in Notches \cup {NoSound} : Setsound(q)
  \/ \E o \in Opts : Change([ui EXCEPT !.opts = o])
  \/ Change([ui EXCEPT !.sound = ~@])
  \/ \E n \in 0 .. Len(Keys) : Launch(n) \/ GameEnds(n)
  \/ \E o \in Owners, n \in 0 .. 4 : SavePosition(o, n)

Spec == Init /\ [][Next]_vars

-----------------------------------------------------------------------------
\* Every variable keeps its type.
TypeOK ==
  /\ file \in Settings \cup {None} /\ legacy \in Settings \cup {None}
  /\ sound \in Notches \cup {None, NoSound}
  /\ ui = None \/ ui \in [vol : Volumes, opts : Opts, sound : BOOLEAN, quality : Notches]
  /\ game = None \/ game \in [vol : Volumes, dirty : BOOLEAN]
  /\ Len(wins) <= 4

\* What the launcher set is still what is read, whatever the game wrote since
\* and whichever file held it, unless a writer died.
SettingsStay == crashes = 0 => cfg_read.opts = set.opts

\* The quality notch last in force is the one offered next, also after sound
\* was turned off, when SOUND.CFG has no place for it.
QualityStays == crashes = 0 => SoundQuality(sound, cfg_read) = set.quality

\* A writer that dies before its file is whole leaves the old files where
\* they were: the settings are never in neither.
LegacyOutlivesCut == [][crashes' # crashes => legacy' = legacy]_vars

\* The position a window is given is one it was saved at, never an x and a y
\* of two saves or half of one.
PairsTogether ==
  \A o \in Owners : LET p == Position(wins, o) IN p # None => p[2] # None /\ p[1] = p[2]
=============================================================================
