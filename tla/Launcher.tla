------------------------------- MODULE Launcher -------------------------------
(***************************************************************************)
(* The launcher window (src/launch.c): the mode row, the file field, the   *)
(* install picker and what Launch writes, with the games it starts as      *)
(* processes of their own.  The window may be closed and opened again      *)
(* while a game runs.                                                      *)
(***************************************************************************)
EXTENDS Integers, FiniteSets

CONSTANTS
  Installs,     \* the runnable installations the scan found
  Elsewhere,    \* an install that recorded some files and is not here any more
  Release,      \* Release[i]: the release an install holds
  Names,        \* 1 .. n: names of recordings
  Kept,         \* Kept[f]: what is on disk under f when the launcher first opens
  MaxLaunches   \* bound: games started

NoPath == 0

\* What the proofs assume of them: a name is a name, and the clock still has
\* one that no recording has.
Constants ==
  /\ MaxLaunches \in Nat /\ IsFiniteSet(Names) /\ NoPath \notin Names /\ "file" \notin Installs
  /\ Kept \in [Names -> [st : {"none", "part", "whole"}, ranked : BOOLEAN,
                         inst : Installs \cup {Elsewhere}]]
  /\ \E f \in Names : Kept[f].st = "none"

NoFile == [st |-> "none", ranked |-> FALSE, inst |-> Elsewhere]
NoHeader == [ok |-> FALSE, rec |-> NoFile]

VARIABLES
  ui,        \* the window's LaunchState: see Opened
  cfg,       \* cfg[i]: trainer, session, and whose settings its files hold
  disk,      \* disk[f]: the recording under that name
  games,     \* the game processes
  last_rec,  \* the finished ranked recording Submit would send
  origin,    \* how the path in the field came there: see Origins
  launches   \* games started

vars == <<ui, cfg, disk, games, last_rec, origin, launches>>

\* "own" chosen by the launcher, "user" typed or saved under in record mode,
\* "kept" come from another mode, "stale" given to a game nobody waits for.
Origins == {"own", "user", "kept", "stale"}

Exists(f) == f # NoPath /\ disk[f].st # "none"
Child == {g \in games : g.tracked}
Modes == {"play", "record", "replay"}

\* launch_record_path: the clock gives every recording a name of its own,
\* and one already on disk is passed over.
Taken == {g.path : g \in {h \in games : h.mode = "record"}}
Fresh == CHOOSE f \in Names : ~Exists(f) /\ f \notin Taken

-----------------------------------------------------------------------------
\* same_vector and replay_check: the recording is this install's.
SameVector(rec, i) == rec.inst = i

ReplayOk(u) ==
  /\ u.hdr.ok
  /\ SameVector(u.hdr.rec, u.sel)
  /\ ~cfg[u.sel].trainer

SetPath(u, f) == [u EXCEPT !.path = f]

\* reload_for_dir: the install's settings into the window, then what the
\* mode overrides.  "file" stands for the loaded recording's settings.
\* Mutant: the file's settings stay shown.
KeepsShown(u) ==
  LET own == [u EXCEPT !.cheat = cfg[u.sel].trainer] IN
  IF u.mode = "play" THEN own
  ELSE IF u.mode = "record"
       THEN [own EXCEPT !.cheat = FALSE, !.path = IF u.custom THEN @ ELSE Fresh]
       ELSE [own EXCEPT !.cheat = FALSE, !.settings = IF u.hdr.ok THEN "file" ELSE @]

ReloadForDir(u) ==
  LET own == [u EXCEPT !.settings = cfg[u.sel].settings, !.cheat = cfg[u.sel].trainer] IN
  IF u.mode = "play" THEN own
  ELSE IF u.mode = "record"
       THEN [own EXCEPT !.cheat = FALSE, !.path = IF u.custom THEN @ ELSE Fresh]
       ELSE [own EXCEPT !.cheat = FALSE, !.settings = IF u.hdr.ok THEN "file" ELSE @]

\* replay_autorestore: an install with the recorded programs, else the
\* first of the same release, else the selection stays.
Autorestore(u) ==
  LET exact == {i \in Installs : SameVector(u.hdr.rec, i)}
      alike == {i \in Installs : Release[i] = Release[u.hdr.rec.inst]}
  IN IF exact # {} THEN ReloadForDir([u EXCEPT !.sel = CHOOSE i \in exact : TRUE])
     ELSE IF alike # {} THEN ReloadForDir([u EXCEPT !.sel = CHOOSE i \in alike : TRUE])
     ELSE u

\* replay_load_file
LoadFile(u) ==
  IF ~Exists(u.path) THEN [u EXCEPT !.hdr = NoHeader]
  ELSE Autorestore([u EXCEPT !.hdr = [ok |-> TRUE, rec |-> disk[u.path]]])

\* restore_session_path, on mode entry.

RestorePath(u) ==
  IF u.custom THEN u
  ELSE IF u.mode = "record" THEN SetPath(u, Fresh)
  ELSE LoadFile(SetPath(u, cfg[u.sel].session))

\* apply_mode_ui
ApplyMode(u) ==
  LET back == IF u.shown = "replay" /\ u.mode # "replay" THEN ReloadForDir(u) ELSE u
      v == [back EXCEPT !.shown = u.mode]
  IN IF u.mode = "play" THEN [v EXCEPT !.cheat = cfg[u.sel].trainer]
     ELSE RestorePath([v EXCEPT !.cheat = FALSE])

\* run_launcher: last_restore's install, its settings, and Play.
Opened(i) ==
  [mode |-> "play", shown |-> "play", sel |-> i, path |-> NoPath, custom |-> FALSE,
   hdr |-> NoHeader, cheat |-> cfg[i].trainer, settings |-> cfg[i].settings]

Idle == UNCHANGED <<games, launches>>

-----------------------------------------------------------------------------
\* The mode row (ID_MODE_*).
SetMode(m) ==
  /\ ui' = ApplyMode([ui EXCEPT !.mode = m])
  /\ origin' = IF ~ui.custom THEN "own" ELSE IF m = ui.mode THEN origin ELSE "kept"
  /\ UNCHANGED <<cfg, disk, last_rec>> /\ Idle

\* The install picker (ID_INSTALL).
PickInstall(i) ==
  /\ ui' = ReloadForDir([ui EXCEPT !.sel = i])
  /\ origin' = IF ui.mode = "record" /\ ~ui.custom THEN "own" ELSE origin
  /\ UNCHANGED <<cfg, disk, last_rec>> /\ Idle

\* The trainer's box is enabled in Play alone (ID_CHEAT_ENABLE).
TickTrainer ==
  /\ ui.mode = "play"
  /\ ui' = [ui EXCEPT !.cheat = ~@]
  /\ UNCHANGED <<cfg, disk, last_rec, origin>> /\ Idle

\* A path typed (ID_REPLAY_PATH), or saved under in record mode (ID_BROWSE).
TypePath(f) ==
  /\ ui.mode # "play"
  /\ LET u == [ui EXCEPT !.path = f, !.custom = TRUE] IN
     ui' = IF u.mode = "replay" THEN LoadFile(u) ELSE u
  /\ origin' = IF ui.mode = "record" THEN "user" ELSE "kept"
  /\ UNCHANGED <<cfg, disk, last_rec>> /\ Idle

\* show_replays, ended by Replay or Other file...
PickReplay(f) ==
  /\ ui.mode # "record" /\ Exists(f)
  /\ LET u == [ui EXCEPT !.path = f, !.custom = TRUE, !.mode = "replay"] IN
     ui' = LoadFile(IF ui.mode = "replay" THEN u ELSE ApplyMode(u))
  /\ origin' = "kept"
  /\ UNCHANGED <<cfg, disk, last_rec>> /\ Idle

\* rl_busy: the running game's own recording.
Busy(f) == \E g \in Child : g.mode = "record" /\ g.path = f

\* rl_delete

Delete(f) ==
  /\ ui.mode # "record" /\ Exists(f) /\ ~Busy(f)
  /\ disk' = [disk EXCEPT ![f] = NoFile]
  /\ last_rec' = IF last_rec = f THEN NoPath ELSE last_rec
  /\ LET u == [ui EXCEPT !.path = NoPath] IN
     ui' = IF ui.path # f THEN ui
           ELSE IF ui.mode = "replay" THEN [u EXCEPT !.hdr = NoHeader] ELSE u
  /\ UNCHANGED <<cfg, origin>> /\ Idle

-----------------------------------------------------------------------------
\* ID_LAUNCH: what may be launched, and what it writes to the install.
\* Mutant: Launch works while a game runs.
SecondGame ==
  /\ launches < MaxLaunches
  /\ ui.mode = "replay" => ReplayOk(ui)
  /\ ui.mode = "record" => ui.path # NoPath

MayLaunch ==
  /\ Child = {} /\ launches < MaxLaunches
  /\ ui.mode = "replay" => ReplayOk(ui)
  /\ ui.mode = "record" => ui.path # NoPath

Writes ==
  [cfg EXCEPT ![ui.sel] =
     IF ui.mode = "replay" THEN [@ EXCEPT !.session = ui.path]
     ELSE [trainer |-> ui.mode # "record" /\ ui.cheat,
           settings |-> ui.settings,
           session |-> IF ui.mode = "record" THEN ui.path ELSE @.session]]

\* spawn_game.  Without a thread to wait for it the game is not tracked and
\* Launch stays usable.
Launch ==
  /\ MayLaunch /\ cfg' = Writes /\ launches' = launches + 1
  /\ ui.mode = "record" =>
       \E f \in Names \ {ui.path} : ~Exists(f) /\ f \notin Taken
  /\ \/ UNCHANGED <<games, origin>>      \* CreateProcess failed
     \/ \E tracked \in BOOLEAN :
          /\ origin' = IF tracked THEN origin ELSE "stale"
          /\ games' = games \cup
            {[mode |-> ui.mode, inst |-> ui.sel, tracked |-> tracked, phase |-> "starts",
              path |-> IF ui.mode = "play" THEN NoPath ELSE ui.path, id |-> launches]}
  /\ UNCHANGED <<ui, disk, last_rec>>

\* The game truncates its file as it starts to record, and may be refused
\* before that; it ends whole or is killed.
GameRuns(g) ==
  /\ g \in games
  /\ \/ /\ g.phase = "starts"
        /\ games' = (games \ {g}) \cup {[g EXCEPT !.phase = "runs"]}
        /\ \E ranked \in BOOLEAN :
             disk' = IF g.mode # "record" THEN disk
                     ELSE [disk EXCEPT ![g.path] = [st |-> "part", ranked |-> ranked, inst |-> g.inst]]
     \/ /\ g.phase \in {"starts", "runs"}
        /\ games' = (games \ {g}) \cup (IF g.tracked THEN {[g EXCEPT !.phase = "gone"]} ELSE {})
        /\ disk' \in IF g.mode = "record" /\ g.phase = "runs" /\ Exists(g.path)
                     THEN {disk, [disk EXCEPT ![g.path].st = "whole"]} ELSE {disk}
  /\ UNCHANGED <<ui, cfg, last_rec, origin, launches>>

\* on_child_done, from the wait thread's message.

ChildDone(g) ==
  /\ games' = games \ {g}
  /\ last_rec' = IF g.mode # "record" \/ disk[g.path].st # "whole" THEN last_rec
                 ELSE IF disk[g.path].ranked THEN g.path ELSE NoPath
  /\ LET again == g.mode = "record" /\ ui.mode = "record" IN
     /\ ui' = IF again THEN RestorePath([ui EXCEPT !.custom = FALSE]) ELSE ui
     /\ origin' = IF again THEN "own" ELSE origin
  /\ UNCHANGED <<cfg, disk, launches>>

\* Quit and open again: the game goes on, and nobody waits for it.
Reopen(i) ==
  /\ ui' = Opened(i)
  /\ games' = {[g EXCEPT !.tracked = FALSE] : g \in {h \in games : h.phase # "gone"}}
  /\ last_rec' = NoPath /\ origin' = "own"
  /\ UNCHANGED <<cfg, disk, launches>>

\* on_net_done: the server answered that it has what last_rec names.
Submitted ==
  /\ last_rec # NoPath
  /\ last_rec' = NoPath
  /\ UNCHANGED <<ui, cfg, disk, origin>> /\ Idle

Done(g) == g \in games /\ g.phase = "gone" /\ ChildDone(g)

Init ==
  /\ cfg = [i \in Installs |-> [trainer |-> FALSE, session |-> NoPath, settings |-> i]]
  /\ ui \in {Opened(i) : i \in Installs}
  /\ disk = Kept /\ games = {} /\ last_rec = NoPath
  /\ origin = "own" /\ launches = 0

User ==
  \/ \E m \in Modes : SetMode(m)
  \/ \E i \in Installs : PickInstall(i) \/ Reopen(i)
  \/ TickTrainer
  \/ \E f \in Names \cup {NoPath} : TypePath(f)
  \/ \E f \in Names : PickReplay(f) \/ Delete(f)
  \/ Launch

Next == User \/ Submitted \/ \E g \in games : GameRuns(g) \/ Done(g)

Spec == Init /\ [][Next]_vars

-----------------------------------------------------------------------------
TypeOK ==
  /\ ui \in [mode : Modes, shown : Modes, sel : Installs, path : Names \cup {NoPath},
             custom : BOOLEAN, hdr : [ok : BOOLEAN, rec : {NoFile}
               \cup [st : {"part", "whole"}, ranked : BOOLEAN, inst : Installs \cup {Elsewhere}]],
             cheat : BOOLEAN, settings : Installs \cup {"file"}]
  /\ cfg \in [Installs -> [trainer : BOOLEAN, session : Names \cup {NoPath},
                           settings : Installs \cup {"file"}]]
  /\ origin \in Origins /\ Cardinality(Child) <= 1 /\ last_rec \in Names \cup {NoPath}

\* Launch never writes to an install the settings of another one, nor those
\* a replayed file put on show, through any order of mode, install and file
\* changes (reload_for_dir, apply_mode_ui).
SettingsStayOwn == \A i \in Installs : cfg[i].settings = i

\* While a game the launcher waits for records or replays, its install's
\* trainer is off.
TrainerOffInSession == \A g \in Child : g.mode # "play" => ~cfg[g.inst].trainer

\* Submit never points at a recording that is gone (rl_delete), whatever
\* was deleted, recorded over or still running.
LastRecExists == last_rec # NoPath => Exists(last_rec)

\* What a finished game offers for submission was whole and ranked.
OffersRanked ==
  [][last_rec' # last_rec /\ last_rec' # NoPath =>
       disk[last_rec'].st = "whole" /\ disk[last_rec'].ranked]_vars

\* A record target the launcher chose itself never names a recording that
\* exists when Launch is there to press: it is fresh on every entry into
\* record mode, every install switch and every finished recording.
OwnTargetsFresh ==
  ui.mode = "record" /\ origin = "own" /\ Child = {} => ~Exists(ui.path)

\* Violated: what docs/REPLAY.md says a new record target is for.  A
\* recording that exists is recorded over only if the user named it while
\* recording was what he was setting up.
OverwritesOnlyNamed ==
  [][launches' # launches =>
       \A g \in games' : g.id = launches /\ g.mode = "record" /\ disk[g.path].st = "whole"
         => origin = "user"]_vars

\* Violated: submit_candidate's own comment.  What Submit would send is a
\* complete ranked recording.
Candidate ==
  IF ui.mode = "replay"
  THEN IF ui.hdr.ok /\ ui.path # NoPath /\ ui.hdr.rec.ranked /\ ui.hdr.rec.st = "whole"
       THEN ui.path ELSE NoPath
  ELSE last_rec

CandidateQualifies ==
  Candidate # NoPath => disk[Candidate].st = "whole" /\ disk[Candidate].ranked
=============================================================================
