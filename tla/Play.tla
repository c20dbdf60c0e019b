-------------------------------- MODULE Play ---------------------------------
(***************************************************************************)
(* One process of the emulator from its arguments to its exit code         *)
(* (emu_main, src/run.c), with what it leaves on disk: the verdict         *)
(* (src/verify.c), the recording, the .games file, the overlay copies and  *)
(* the install's own PFEMU-STATE.  The process may die at any point, and   *)
(* another one finds the disk as the last one left it.                     *)
(***************************************************************************)
EXTENDS Integers

CONSTANTS
  Inputs,   \* the sets of flags a process may be started with
  MaxRuns   \* bound: processes, one after the other

VARIABLES
  pc,     \* the part of emu_main that runs next, "off" between processes
  opts,   \* the flags of this process
  p,      \* this process: see Fresh
  disk,   \* pfr, games, verdict, litter, state: see Init
  runs    \* processes started

vars == <<pc, opts, p, disk, runs>>

\* mode       "play", "record" or "replay", once armed
\* canonical  the session runs on the canonical state
\* overlay    the temporary copy this process made, "stuck" when it would not
\*            be removed, or "none"
\* guestdir   where the guest's writes go: "install" or "temp"
\* trainer    the install's trainer is on
\* emitted    "written" once a verdict is out, "lost" if its file did not open
\* code       what verify_exit_code() will say; exit_code: what main returns
\* ended      how the loop ended: on the very cycle of the recording's footer
\*            ("end"), "past" it, or for any other reason ("early")
\* wav        -1 no hash to compare, 0 it differs, 1 it is the same
\* dirty      the volume was changed
Fresh == [mode |-> "play", canonical |-> FALSE, overlay |-> "none", guestdir |-> "install",
          trainer |-> FALSE, emitted |-> "no", code |-> 0, exit_code |-> 0,
          ended |-> "no", wav |-> 0, dirty |-> FALSE]

On(flag) == flag \in opts

\* verify_fail and verify_report: the object is written once, into a file
\* that may turn out not to open.
CanEmit == On("-verify") /\ p.emitted = "no"

Verdict(q, status, code) ==
  \/ ~CanEmit /\ p' = q /\ UNCHANGED disk
  \/ CanEmit /\ p' = [q EXCEPT !.emitted = "written", !.code = code]
             /\ disk' = [disk EXCEPT !.verdict = status]
  \/ CanEmit /\ p' = [q EXCEPT !.emitted = "lost", !.code = code] /\ UNCHANGED disk

\* fail_msg and return 1.
Refuse(q) == Verdict([q EXCEPT !.exit_code = 1], "refused", 1) /\ pc' = "done"
Return(code) == p' = [p EXCEPT !.exit_code = code] /\ pc' = "done" /\ UNCHANGED disk
GoOn(next, q) == pc' = next /\ p' = q /\ UNCHANGED disk

\* replay_cleanup_overlay: a directory that will not go is left, with a
\* warning on stderr.
CleanedUp(made) == IF made = "none" THEN {"none"} ELSE {"none", "stuck"}

Same == UNCHANGED <<opts, runs>>

-----------------------------------------------------------------------------
Start ==
  /\ pc = "off" /\ runs < MaxRuns
  /\ opts' \in Inputs
  /\ p' = Fresh /\ pc' = "args" /\ runs' = runs + 1
  /\ UNCHANGED disk

\* A resolution that is none ("-res low") is refused while the arguments are
\* still read: in an object only if -verify stood before it.
ParseArgs ==
  /\ pc = "args" /\ Same
  /\ IF On("-res low") THEN Refuse(p) \/ Return(1) ELSE GoOn("video", p)

OpenVideo ==
  /\ pc = "video" /\ Same
  /\ \/ On("-videowav") /\ ~On("-video") /\ Refuse(p)
     \/ On("-video") /\ Return(1)
     \/ (On("-videowav") => On("-video")) /\ GoOn("combos", p)

Session == On("-record") \/ On("-replay")
Program == On("-p") \/ On("-setup")

Nonsense ==
  \/ On("-record") /\ On("-replay")
  \/ On("-setup") /\ Session
  \/ On("-p") /\ On("-replay")
  \/ On("-res") /\ On("-replay")
  \/ On("-load") /\ (Session \/ Program)
  \/ On("-table 9")    \* a table that is none
  \/ On("-table") /\ (Program \/ On("-load"))
  \/ On("-snapsave") /\ Session
  \/ On("-ranked") /\ ~On("-record")

\* Mutant: a combination is refused without a word.
QuietCombos ==
  /\ pc = "combos" /\ Same
  /\ IF Nonsense THEN Return(1) ELSE GoOn("file", p)

Combos ==
  /\ pc = "combos" /\ Same
  /\ IF Nonsense THEN Refuse(p) ELSE GoOn("file", p)

\* replay_begin_replay and what -strict asks of the file's state.
ReadFile ==
  /\ pc = "file" /\ Same
  /\ \/ ~On("-replay") /\ GoOn("leave", p)
     \/ On("-replay") /\ Refuse(p)
     \/ /\ On("-replay")
        /\ \E canonical \in BOOLEAN :
             LET q == [p EXCEPT !.mode = "replay", !.canonical = canonical] IN
             IF On("-strict") /\ ~canonical THEN Refuse(q) ELSE GoOn("leave", q)

\* -import and -releases do their work and return; a run that names nothing
\* is the launcher's.
Leave ==
  /\ pc = "leave" /\ Same
  /\ IF On("-import") \/ On("-releases") THEN \E code \in {0, 1} : Return(code)
     ELSE IF ~On("-nolauncher") /\ ~Program /\ ~On("-secs") /\ ~Session THEN Return(0)
     ELSE GoOn("install", p)

\* release_detect, or the release forced on it, the trainer of that install,
\* and replay_verify_install.

TrainerRefused(trainer) == trainer /\ Session

Install ==
  /\ pc = "install" /\ Same
  /\ \E runnable, trainer, matches \in BOOLEAN :
       LET q == [p EXCEPT !.trainer = trainer] IN
       /\ trainer \/ On("-release") => runnable
       /\ IF \/ On("-release") /\ ~matches
             \/ TrainerRefused(trainer)
             \/ On("-record") /\ ~runnable
             \/ On("-replay") /\ ~(runnable /\ matches)
          THEN Refuse(q) ELSE GoOn("record", q)

\* replay_begin_record: the canonical state is built before the file is
\* opened, and should go away again if either fails.
RecordsOn == IF On("-ranked") THEN "canonical" ELSE "none"

BeginRecord ==
  /\ pc = "record" /\ Same
  /\ \/ ~On("-record") /\ GoOn("overlay", p)
     \/ /\ On("-record")
        /\ \E left \in CleanedUp(RecordsOn) : Refuse([p EXCEPT !.overlay = left])
     \/ /\ On("-record") /\ pc' = "overlay"
        /\ p' = [p EXCEPT !.mode = "record", !.canonical = On("-ranked"),
                          !.overlay = RecordsOn]
        /\ disk' = [disk EXCEPT !.pfr = "header"]

\* The copy a replay works on, or the canonical state it builds; either way
\* the guest's writes leave the install.
Mapped(q) == IF q.overlay = "none" THEN "install" ELSE "temp"

Isolate ==
  /\ pc = "overlay" /\ Same
  /\ LET made == IF p.mode # "replay" THEN p.overlay
                 ELSE IF p.canonical THEN "canonical" ELSE "copy"
         q    == [p EXCEPT !.overlay = made]
     IN  \/ GoOn("exec", [q EXCEPT !.guestdir = Mapped(q)])
         \/ /\ p.mode = "replay" /\ p.canonical
            /\ \E left \in CleanedUp("canonical") : Refuse([p EXCEPT !.overlay = left])

\* dos_exec or snapshot_load; neither refusal takes back what is armed.
Exec ==
  /\ pc = "exec" /\ Same
  /\ \/ GoOn("loop", p)
     \/ /\ Verdict([p EXCEPT !.exit_code = 1], "refused", 1)
        /\ pc' = "done"

-----------------------------------------------------------------------------
\* The loop, with what matters of it here: the guest writes files, the
\* volume keys work in every mode, and it ends at the recording's end or, its
\* clock having left the recorded one, past it; by the guest or the window,
\* -secs or -untilemu.
GuestWrites ==
  /\ pc = "loop" /\ Same
  /\ disk' = IF p.guestdir = "install" THEN [disk EXCEPT !.state = @ \cup {"guest"}] ELSE disk
  /\ UNCHANGED <<pc, p>>

VolumeKey == pc = "loop" /\ Same /\ GoOn("loop", [p EXCEPT !.dirty = TRUE])

LoopEnds ==
  /\ pc = "loop" /\ Same
  /\ \E how \in {"end", "past", "early"}, wav \in {-1, 0, 1} :
       /\ how # "early" => p.mode = "replay"
       /\ wav # 0 => p.mode = "replay"
       /\ GoOn("volume", [p EXCEPT !.ended = how, !.wav = wav])

VolumeSaved == p.dirty /\ p.mode # "replay"

SaveVolume ==
  /\ pc = "volume" /\ Same /\ pc' = "snapsave" /\ UNCHANGED p
  /\ disk' = IF VolumeSaved THEN [disk EXCEPT !.state = @ \cup {"volume"}] ELSE disk

SnapSave ==
  /\ pc = "snapsave" /\ Same /\ pc' = "footer"
  /\ \/ p' = p /\ UNCHANGED disk
     \/ On("-snapsave") /\ Verdict([p EXCEPT !.exit_code = 1], "refused", 1)

EndRecord ==
  /\ pc = "footer" /\ Same /\ pc' = "games" /\ UNCHANGED p
  /\ disk' = IF p.mode = "record" THEN [disk EXCEPT !.pfr = "closed"] ELSE disk

\* The games of a recording; a replay writes them only for a file that has
\* none, after playing it to its end, or past it, from the launcher
\* (replay_completed).
Completed == p.ended \in {"end", "past"}

GamesDue ==
  \/ p.mode = "record"
  \/ p.mode = "replay" /\ On("-launched") /\ Completed /\ disk.games = "none"

Games ==
  /\ pc = "games" /\ Same /\ pc' = "verdict" /\ UNCHANGED p
  /\ \/ GamesDue /\ disk' = [disk EXCEPT !.games = p.mode]
     \/ UNCHANGED disk

\* verify_report: the cycles must be the footer's, not at least those.
Reproduced == p.ended = "end" /\ p.wav # 0 /\ (p.wav = -1 => ~On("-strict"))

Report ==
  /\ pc = "verdict" /\ Same /\ pc' = "leaving"
  /\ IF p.mode # "replay" THEN Verdict(p, "refused", 1)
     ELSE IF Reproduced THEN Verdict(p, "verified", 0) ELSE Verdict(p, "mismatch", 2)

\* The exit code, and the end of the temporary overlay.

ExitCode(video) ==
  IF On("-verify") THEN p.code ELSE IF p.exit_code = 0 THEN video ELSE p.exit_code
OverlayLeft == IF On("-keepoverlay") THEN {p.overlay} ELSE CleanedUp(p.overlay)

CleanUp ==
  /\ pc = "leaving" /\ Same /\ pc' = "done" /\ UNCHANGED disk
  /\ \E video \in {0, 1}, left \in OverlayLeft :
       /\ video = 1 => On("-video")
       /\ p' = [p EXCEPT !.exit_code = ExitCode(video), !.overlay = left]

-----------------------------------------------------------------------------
Running == pc \notin {"off", "done"}

\* What the process leaves of its overlay is litter once it is gone.
Gone ==
  /\ pc' = "off" /\ p' = Fresh /\ opts' = {} /\ UNCHANGED runs
  /\ disk' = IF p.overlay = "none" THEN disk ELSE [disk EXCEPT !.litter = TRUE]

Exit  == pc = "done" /\ Gone
Crash == Running /\ Gone

Init ==
  /\ pc = "off" /\ opts = {} /\ p = Fresh /\ runs = 0
  /\ disk \in [pfr : {"none"}, games : {"none", "own"}, verdict : {"none"},
               litter : {FALSE}, state : {{}}]

Next ==
  \/ Start \/ ParseArgs \/ OpenVideo \/ Combos \/ ReadFile \/ Leave \/ Install \/ BeginRecord
  \/ Isolate \/ Exec \/ GuestWrites \/ VolumeKey \/ LoopEnds \/ SaveVolume
  \/ SnapSave \/ EndRecord \/ Games \/ Report \/ CleanUp \/ Exit \/ Crash

Spec == Init /\ [][Next]_vars

-----------------------------------------------------------------------------
TypeOK ==
  /\ p.mode \in {"play", "record", "replay"} /\ p.exit_code \in 0 .. 2 /\ p.code \in 0 .. 2
  /\ p.overlay \in {"none", "copy", "canonical", "stuck"}
  /\ disk.pfr \in {"none", "header", "closed"}
  /\ disk.verdict \in {"none", "refused", "mismatch", "verified"}
  /\ p.overlay = "canonical" => p.mode # "play" /\ p.canonical

\* "The exit code follows it (0 / 2 / 1)": whatever fails before, after or
\* beside the verdict, the object on disk and the exit code say the same.
CodeOf == [verified |-> 0, refused |-> 1, mismatch |-> 2]
ExitFollowsVerdict ==
  pc = "done" /\ p.emitted = "written" => p.exit_code = CodeOf[disk.verdict]

\* "Every refusal funnels through fail_msg": a verification that ends with
\* something other than a verdict on its run has said so in an object, but
\* for an encoder's FIFO that did not open and a resolution that is none, which
\* may come before -verify.
RefusalsSpeak ==
  pc = "done" /\ {"-verify", "-replay"} \subseteq opts
     /\ opts \cap {"-import", "-releases", "-video", "-res low"} = {} => p.emitted # "no"

\* An exit code of zero means the recording was reproduced: to its end, with
\* no sound that differs and, under -strict, from the canonical state with
\* the sound compared.  It means that even if the object could not be
\* written.
ZeroMeansReproduced ==
  pc = "done" /\ p.exit_code = 0 /\ {"-verify", "-replay"} \subseteq opts
     /\ opts \cap {"-import", "-releases"} = {} =>
       /\ p.ended = "end" /\ p.wav # 0 /\ ~p.trainer
       /\ On("-strict") => p.canonical /\ p.wav = 1

\* A replay never writes the install's PFEMU-STATE, by the guest or by the
\* volume keys, and the guest of a ranked recording does not either.
StateUntouched ==
  [][disk'.state # disk.state => /\ p.mode # "replay"
                                 /\ p.canonical => "guest" \notin disk'.state \ disk.state]_vars

\* No session that is recorded or replayed runs with the trainer on.
TrainerNever == pc = "loop" /\ p.trainer => p.mode = "play"

\* A .games file that is there is the recording's own and stays; a replay
\* adds one only when it has counted every game.
GamesStay ==
  [][disk'.games # disk.games =>
       \/ p.mode = "record"
       \/ disk.games = "none" /\ Completed /\ On("-launched")]_vars

\* A session that ran takes its overlay copy with it, unless it was asked
\* not to or the directory would not go.
NoCopyLeft ==
  pc = "done" /\ p.ended # "no" /\ ~On("-keepoverlay") => p.overlay \in {"none", "stuck"}

\* A process ends as its verdict says: a refusal speaks, zero means reproduced,
\* no session ran with the trainer on, and it leaves neither its private copy,
\* if that can be removed, nor a trace in the install's state or in the games
\* counted before.
EndsAsItSays ==
  /\ [](ExitFollowsVerdict /\ RefusalsSpeak /\ ZeroMeansReproduced /\ TrainerNever /\ NoCopyLeft)
  /\ StateUntouched
  /\ GamesStay

\* "A refused attempt still removes its copy", and a header-only record file
\* with it (docs/REPLAY.md 236-250, of replay_abort).
RefusedLeavesNothing ==
  pc = "done" /\ p.ended = "no" => p.overlay \in {"none", "stuck"} /\ p.mode # "record"
=============================================================================
