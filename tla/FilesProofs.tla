----------------------------- MODULE FilesProofs -----------------------------
(***************************************************************************)
(* Proofs about what is kept on disk (module Files), for every value of    *)
(* the constants of the parts, a part a section: the processes (module     *)
(* Play), the settings (Config), the folders of the game (Release), the    *)
(* import of one (Install), the window that lists the recordings (Replays) *)
(* and a recording as a file (ReplayFile).  The last section is of the     *)
(* module: its behaviours are the parts'.                                  *)
(***************************************************************************)
EXTENDS Files, TLAPS, WellFoundedInduction, SequenceTheorems, FiniteSetTheorems

\* The parts of emu_main up to the loop, and behind it.
Before == {"args", "video", "combos", "file", "leave", "install", "record", "overlay", "exec"}
After  == {"volume", "snapsave", "footer", "games", "verdict", "leaving"}
Stages == {"off", "loop", "done"} \cup Before \cup After

Process == [mode : {"play", "record", "replay"}, canonical : BOOLEAN,
            overlay : {"none", "copy", "canonical", "stuck"}, guestdir : {"install", "temp"},
            trainer : BOOLEAN, emitted : {"no", "written", "lost"}, code : 0 .. 2,
            exit_code : 0 .. 2, ended : {"no", "end", "past", "early"}, wav : {-1, 0, 1}, dirty : BOOLEAN]

Disk == [pfr : {"none", "header", "closed"}, games : {"none", "own", "record", "replay"},
         verdict : {"none", "refused", "mismatch", "verified"}, litter : BOOLEAN,
         state : SUBSET {"guest", "volume"}]

Typed == running \in Stages /\ process \in Process /\ disk \in Disk

\* What is armed was asked for.
Armed ==
  /\ process.mode = "replay" => Pl!On("-replay")
  /\ process.mode = "record" => Pl!On("-record")
  /\ process.canonical => process.mode # "play"
  /\ process.overlay = "canonical" => process.canonical
  /\ running \in {"args", "video", "combos", "file"} => process.mode = "play"

\* What each check has settled for the parts behind it: no recording of a
\* replay, a replay that was asked for is armed, and on the canonical state
\* under -strict, and no session with the trainer on.
Checked ==
  /\ running \in (Stages \ {"off", "done", "args", "video", "combos"}) => ~ (Pl!On("-record") /\ Pl!On("-replay"))
  /\ running \in (Stages \ {"off", "done", "args", "video", "combos", "file"}) =>
       (Pl!On("-replay") => process.mode = "replay" /\ (Pl!On("-strict") => process.canonical))
  /\ running \in {"record", "overlay", "exec", "loop"} \cup After => (process.trainer => ~ Pl!Session)

\* A replay and a canonical recording have their own directory, the
\* recording's since it was begun.
Isolated ==
  /\ running = "overlay" => (process.mode = "record" /\ process.canonical => process.overlay # "none")
  /\ running \in {"exec", "loop"} => (process.guestdir = "install" => process.mode # "replay" /\ ~ process.canonical)

\* What has been said: nothing up to the loop, what the disk has, and
\* "verified" only of a session that was reproduced; and before the process
\* leaves, something.
Spoken ==
  /\ running \in {"off", "loop", "volume", "snapsave"} \cup Before => process.emitted = "no"
  /\ process.emitted # "no" => Pl!On("-verify")
  /\ process.emitted = "written" => process.code = Pl!CodeOf[disk.verdict]
  /\ process.emitted # "no" /\ process.code = 0 =>
       process.mode = "replay" /\ process.ended = "end" /\ process.wav # 0 /\ (Pl!On("-strict") => process.wav = 1)
  /\ running = "leaving" /\ Pl!On("-verify") => process.emitted # "no"

Ended == process.ended # "no" => running \in After \cup {"done"}

\* The inductive invariant.
PInv ==
  /\ Typed /\ Armed /\ Checked /\ Isolated /\ Spoken /\ Ended
  /\ Pl!ExitFollowsVerdict /\ Pl!RefusalsSpeak /\ Pl!ZeroMeansReproduced /\ Pl!NoCopyLeft

-----------------------------------------------------------------------------
(***************************************************************************)
(* The process's record, field by field.                                   *)
(***************************************************************************)
\* Two processes that differ in what they have said and will say at most.
Alike(a, b) ==
  /\ a.mode = b.mode /\ a.canonical = b.canonical /\ a.overlay = b.overlay
  /\ a.guestdir = b.guestdir /\ a.trainer = b.trainer /\ a.ended = b.ended /\ a.wav = b.wav

\* A process that has spoken is the same process.
LEMMA WithVerdict ==
  ASSUME NEW q \in Process, NEW e \in {"written", "lost"}, NEW c \in 0 .. 2
  PROVE  LET r == [q EXCEPT !.emitted = e, !.code = c] IN
         /\ r \in Process /\ Alike(r, q) /\ r.exit_code = q.exit_code
         /\ r.emitted = e /\ r.code = c
  BY DEF Process, Alike

\* What verify_fail and verify_report leave.
LEMMA Verdicts ==
  ASSUME Typed, NEW q \in Process, NEW status \in {"refused", "mismatch", "verified"},
         NEW c \in 0 .. 2, Pl!Verdict(q, status, c)
  PROVE  /\ process' \in Process /\ disk' \in Disk /\ Alike(process', q) /\ process'.exit_code = q.exit_code
         /\ disk'.state = disk.state /\ disk'.games = disk.games
         /\ \/ ~ Pl!CanEmit /\ process'.emitted = q.emitted /\ process'.code = q.code /\ disk' = disk
            \/ Pl!CanEmit /\ process'.emitted = "written" /\ process'.code = c /\ disk'.verdict = status
            \/ Pl!CanEmit /\ process'.emitted = "lost" /\ process'.code = c
<1>1. CASE ~ Pl!CanEmit /\ process' = q /\ UNCHANGED disk
  BY <1>1 DEF Typed, Alike
<1>2. CASE /\ Pl!CanEmit /\ process' = [q EXCEPT !.emitted = "written", !.code = c]
           /\ disk' = [disk EXCEPT !.verdict = status]
  <2>1. /\ process' \in Process /\ Alike(process', q) /\ process'.exit_code = q.exit_code
        /\ process'.emitted = "written" /\ process'.code = c
    BY <1>2, WithVerdict
  <2>2. /\ disk' \in Disk /\ disk'.state = disk.state /\ disk'.games = disk.games
        /\ disk'.verdict = status
    BY <1>2 DEF Typed, Disk
  <2> QED
    BY <1>2, <2>1, <2>2
<1>3. CASE Pl!CanEmit /\ process' = [q EXCEPT !.emitted = "lost", !.code = c] /\ UNCHANGED disk
  <2>1. /\ process' \in Process /\ Alike(process', q) /\ process'.exit_code = q.exit_code
        /\ process'.emitted = "lost" /\ process'.code = c
    BY <1>3, WithVerdict
  <2> QED
    BY <1>3, <2>1 DEF Typed
<1> QED
  BY <1>1, <1>2, <1>3 DEF Pl!Verdict

-----------------------------------------------------------------------------
(***************************************************************************)
(* Each part of emu_main.                                                  *)
(***************************************************************************)
\* A refusal before the loop has spoken, with the code it says.
LEMMA RefuseHolds ==
  ASSUME PInv, running \in Before, UNCHANGED <<opts, runs>>,
         NEW q \in Process, q.emitted = process.emitted, q.code = process.code, q.ended = process.ended,
         q.mode = "replay" => Pl!On("-replay"), q.mode = "record" => Pl!On("-record"),
         q.canonical => q.mode # "play", q.overlay = "canonical" => q.canonical,
         Pl!Refuse(q)
  PROVE  PInv'
<1> DEFINE r == [q EXCEPT !.exit_code = 1]
<1>1. r \in Process /\ Alike(r, q) /\ r.exit_code = 1 /\ r.emitted = q.emitted /\ r.code = q.code
  BY DEF Process, Alike
<1>2. running' = "done" /\ Pl!Verdict(r, "refused", 1)
  BY DEF Pl!Refuse
<1>3. Typed /\ process.emitted = "no" /\ process.ended = "no"
  BY DEF PInv, Spoken, Ended, Before, After
<1> HIDE DEF r
<1>4. /\ process' \in Process /\ disk' \in Disk /\ Alike(process', r) /\ process'.exit_code = 1
      /\ \/ ~ Pl!CanEmit /\ process'.emitted = r.emitted /\ process'.code = r.code /\ disk' = disk
         \/ Pl!CanEmit /\ process'.emitted = "written" /\ process'.code = 1 /\ disk'.verdict = "refused"
         \/ Pl!CanEmit /\ process'.emitted = "lost" /\ process'.code = 1
  BY <1>1, <1>2, <1>3, Verdicts
<1>5. process'.ended = "no" /\ process'.mode = q.mode /\ process'.canonical = q.canonical /\ process'.overlay = q.overlay
  BY <1>1, <1>3, <1>4 DEF Alike
<1>6. /\ process'.emitted # "no" => Pl!On("-verify") /\ process'.code = 1
      /\ process'.emitted = "written" => disk'.verdict = "refused"
      /\ Pl!On("-verify") => process'.emitted # "no"
  BY <1>1, <1>3, <1>4 DEF Pl!CanEmit
<1>7. Typed' /\ Armed'
  BY <1>2, <1>4, <1>5 DEF Typed, Stages, Armed, Pl!On
<1>8. Checked' /\ Isolated' /\ Ended'
  BY <1>2, <1>5 DEF Checked, Isolated, Ended, After
<1>9. Spoken'
  BY <1>2, <1>5, <1>6 DEF Spoken, Pl!On, Before, Pl!CodeOf
<1>10. Pl!ExitFollowsVerdict'
  BY <1>4, <1>6 DEF Pl!ExitFollowsVerdict, Pl!CodeOf
<1>11. Pl!RefusalsSpeak'
  BY <1>6 DEF Pl!RefusalsSpeak, Pl!On
<1>12. Pl!ZeroMeansReproduced' /\ Pl!NoCopyLeft'
  BY <1>4, <1>5 DEF Pl!ZeroMeansReproduced, Pl!NoCopyLeft
<1> QED
  BY <1>7, <1>8, <1>9, <1>10, <1>11, <1>12 DEF PInv

\* A return before the loop says nothing, and need not: there is no replay, or
\* what was asked for is something else.
LEMMA ReturnHolds ==
  ASSUME PInv, running \in Before, UNCHANGED <<opts, runs>>, NEW c \in {0, 1}, Pl!Return(c),
         \/ Pl!On("-import") \/ Pl!On("-releases") \/ ~ Pl!On("-replay")
         \/ (Pl!On("-video") \/ Pl!On("-res low")) /\ c = 1
  PROVE  PInv'
<1>1. Typed /\ Armed /\ process.emitted = "no" /\ process.ended = "no"
  BY DEF PInv, Spoken, Ended, Before, After
<1>2. running' = "done" /\ disk' = disk /\ process' \in Process /\ Alike(process', process) /\ process'.exit_code = c
      /\ process'.emitted = process.emitted /\ process'.code = process.code
  <2>1. running' = "done" /\ disk' = disk /\ process' = [process EXCEPT !.exit_code = c]
    BY DEF Pl!Return
  <2>2. process \in Process
    BY <1>1 DEF Typed
  <2>3. c \in 0 .. 2
    BY ONLY c \in {0, 1}
  <2> QED
    BY ONLY <2>1, <2>2, <2>3 DEF Process, Alike
<1>3. process'.ended = "no" /\ process'.mode = process.mode /\ process'.canonical = process.canonical /\ process'.overlay = process.overlay
  BY <1>1, <1>2 DEF Alike
<1>4. Typed' /\ Armed'
  BY <1>1, <1>2, <1>3 DEF Typed, Stages, Armed, Pl!On
<1>5. Checked' /\ Isolated' /\ Ended' /\ Spoken'
  BY <1>1, <1>2, <1>3 DEF Checked, Isolated, Ended, Spoken, Before, After
<1>6. Pl!ExitFollowsVerdict' /\ Pl!NoCopyLeft'
  BY <1>1, <1>2, <1>3 DEF Pl!ExitFollowsVerdict, Pl!NoCopyLeft
<1>7. Pl!RefusalsSpeak'
  BY DEF Pl!RefusalsSpeak, Pl!On
<1>8. Pl!ZeroMeansReproduced'
  BY <1>2 DEF Pl!ZeroMeansReproduced, Pl!On
<1> QED
  BY <1>4, <1>5, <1>6, <1>7, <1>8 DEF PInv

\* What holds of a process that is done holds while it is not.
LEMMA NotDone ==
  ASSUME running' # "done"
  PROVE  Pl!ExitFollowsVerdict' /\ Pl!RefusalsSpeak' /\ Pl!ZeroMeansReproduced' /\ Pl!NoCopyLeft'
  BY DEF Pl!ExitFollowsVerdict, Pl!RefusalsSpeak, Pl!ZeroMeansReproduced, Pl!NoCopyLeft

\* A process starts with nothing armed and nothing said.
LEMMA StartHolds == ASSUME PInv, Pl!Start PROVE PInv'
<1>1. running' = "args" /\ process' = Pl!Fresh /\ disk' = disk /\ Typed
  BY DEF Pl!Start, PInv
<1>2. Typed'
  BY <1>1 DEF Typed, Pl!Fresh, Process, Stages, Before
<1>3. Armed' /\ Checked' /\ Isolated' /\ Spoken' /\ Ended'
  BY <1>1 DEF Armed, Checked, Isolated, Spoken, Ended, Pl!Fresh, After
<1> QED
  BY <1>1, <1>2, <1>3, NotDone DEF PInv

\* It goes, and the next finds what it left.
LEMMA GoneHolds == ASSUME PInv, Pl!Gone PROVE PInv'
<1>1. running' = "off" /\ process' = Pl!Fresh /\ Typed
      /\ disk' = IF process.overlay = "none" THEN disk ELSE [disk EXCEPT !.litter = TRUE]
  BY DEF Pl!Gone, PInv
<1>2. disk' \in Disk
  BY <1>1 DEF Typed, Disk
<1>3. Typed'
  BY <1>1, <1>2 DEF Typed, Pl!Fresh, Process, Stages
<1>4. Armed' /\ Checked' /\ Isolated' /\ Spoken' /\ Ended'
  BY <1>1 DEF Armed, Checked, Isolated, Spoken, Ended, Pl!Fresh, After
<1> QED
  BY <1>1, <1>3, <1>4, NotDone DEF PInv

\* The process goes on to its next part, armed further.
LEMMA GoOnHolds ==
  ASSUME PInv, UNCHANGED <<opts, runs>>, NEW next \in Stages \ {"off", "done", "leaving"},
         NEW q \in Process, Pl!GoOn(next, q), q.emitted = process.emitted, q.code = process.code,
         running \in Before \cup {"loop"},
         next \in Before \cup {"loop"} => q.ended = "no",
         next \in Before \cup {"loop", "volume"},
         q.mode = "replay" => Pl!On("-replay"), q.mode = "record" => Pl!On("-record"),
         q.canonical => q.mode # "play", q.overlay = "canonical" => q.canonical,
         next \in {"args", "video", "combos", "file"} => q.mode = "play",
         next \notin {"args", "video", "combos"} => ~ (Pl!On("-record") /\ Pl!On("-replay")),
         next \notin {"args", "video", "combos", "file"} =>
           (Pl!On("-replay") => q.mode = "replay" /\ (Pl!On("-strict") => q.canonical)),
         next \in {"record", "overlay", "exec", "loop", "volume"} => (q.trainer => ~ Pl!Session),
         next = "overlay" => (q.mode = "record" /\ q.canonical => q.overlay # "none"),
         next \in {"exec", "loop"} => (q.guestdir = "install" => q.mode # "replay" /\ ~ q.canonical)
  PROVE  PInv'
<1>1. running' = next /\ process' = q /\ disk' = disk /\ Typed /\ process.emitted = "no"
  BY DEF Pl!GoOn, PInv, Spoken
<1>2. Typed' /\ Armed'
  BY <1>1 DEF Typed, Armed, Pl!On
<1>3. Checked'
  BY <1>1 DEF Checked, Pl!On, Pl!Session, After, Before
<1>4. Isolated' /\ Ended'
  BY <1>1 DEF Isolated, Ended, Stages, After, Before
<1>5. Spoken'
  BY <1>1 DEF Spoken, Pl!On, Before
<1> QED
  BY <1>1, <1>2, <1>3, <1>4, <1>5, NotDone DEF PInv

\* What is known before the loop.
LEMMA BeforeLoop ==
  ASSUME PInv, running \in Before \cup {"loop"}
  PROVE  /\ process \in Process /\ process.emitted = "no" /\ process.ended = "no" /\ running \in Stages
         /\ process.mode = "replay" => Pl!On("-replay")
         /\ process.mode = "record" => Pl!On("-record")
         /\ process.canonical => process.mode # "play"
         /\ process.overlay = "canonical" => process.canonical
         /\ running \in {"args", "video", "combos", "file"} => process.mode = "play"
  BY DEF PInv, Typed, Spoken, Ended, Armed, Before, After

\* The arguments.
LEMMA ParseArgsHolds == ASSUME PInv, Pl!ParseArgs PROVE PInv'
<1>1. running = "args" /\ UNCHANGED <<opts, runs>> /\ running \in Before
  BY DEF Pl!ParseArgs, Pl!Same, Before
<1>2. CASE Pl!Refuse(process)
  BY <1>1, <1>2, BeforeLoop, RefuseHolds
<1>3. CASE Pl!On("-res low") /\ Pl!Return(1)
  BY <1>1, <1>3, ReturnHolds
<1>4. CASE Pl!GoOn("video", process)
  BY <1>1, <1>4, BeforeLoop, GoOnHolds DEF Before, Stages
<1> QED
  BY <1>2, <1>3, <1>4 DEF Pl!ParseArgs

\* The encoder.
LEMMA OpenVideoHolds == ASSUME PInv, Pl!OpenVideo PROVE PInv'
<1>1. running = "video" /\ UNCHANGED <<opts, runs>> /\ running \in Before
  BY DEF Pl!OpenVideo, Pl!Same, Before
<1>2. CASE Pl!Refuse(process)
  BY <1>1, <1>2, BeforeLoop, RefuseHolds
<1>3. CASE Pl!On("-video") /\ Pl!Return(1)
  BY <1>1, <1>3, ReturnHolds
<1>4. CASE Pl!GoOn("combos", process)
  BY <1>1, <1>4, BeforeLoop, GoOnHolds DEF Before, Stages
<1> QED
  BY <1>2, <1>3, <1>4 DEF Pl!OpenVideo

\* The combinations that are refused, a recording of a replay among them.
LEMMA CombosHolds == ASSUME PInv, Pl!Combos PROVE PInv'
<1>1. running = "combos" /\ UNCHANGED <<opts, runs>> /\ running \in Before
  BY DEF Pl!Combos, Pl!Same, Before
<1>2. CASE Pl!Nonsense
  BY <1>1, <1>2, BeforeLoop, RefuseHolds DEF Pl!Combos
<1>3. CASE ~ Pl!Nonsense
  <2>1. Pl!GoOn("file", process) /\ ~ (Pl!On("-record") /\ Pl!On("-replay"))
    BY <1>3 DEF Pl!Combos, Pl!Nonsense
  <2> QED
    BY <1>1, <2>1, BeforeLoop, GoOnHolds DEF Before, Stages
<1> QED
  BY <1>2, <1>3

\* The recording is read: a replay is armed, or refused.
LEMMA ReadFileHolds == ASSUME PInv, Pl!ReadFile PROVE PInv'
<1>1. running = "file" /\ UNCHANGED <<opts, runs>> /\ running \in Before
  BY DEF Pl!ReadFile, Pl!Same, Before
<1>2. ~ (Pl!On("-record") /\ Pl!On("-replay"))
  BY <1>1 DEF PInv, Checked, Stages, Before
<1>3. CASE ~ Pl!On("-replay") /\ Pl!GoOn("leave", process)
  BY <1>1, <1>2, <1>3, BeforeLoop, GoOnHolds DEF Before, Stages
<1>4. CASE Pl!On("-replay") /\ Pl!Refuse(process)
  BY <1>1, <1>4, BeforeLoop, RefuseHolds
<1>5. ASSUME Pl!On("-replay"), NEW canonical \in BOOLEAN,
             LET q == [process EXCEPT !.mode = "replay", !.canonical = canonical] IN
             IF Pl!On("-strict") /\ ~canonical THEN Pl!Refuse(q) ELSE Pl!GoOn("leave", q)
      PROVE  PInv'
  <2> DEFINE q == [process EXCEPT !.mode = "replay", !.canonical = canonical]
  <2>1. /\ q \in Process /\ q.mode = "replay" /\ (q.canonical <=> canonical) /\ q.emitted = "no"
        /\ q.emitted = process.emitted /\ q.code = process.code /\ q.ended = "no" /\ q.ended = process.ended
        /\ q.overlay = process.overlay
    BY <1>1, BeforeLoop DEF Process
  <2>2. q.overlay # "canonical"
    BY <1>1, <2>1, BeforeLoop
  <2> HIDE DEF q
  <2>3. CASE Pl!On("-strict") /\ ~canonical
    <3>1. Pl!Refuse(q)
      BY <1>5, <2>3 DEF q
    <3> QED
      BY <1>1, <1>5, <2>1, <2>2, <3>1, RefuseHolds
  <2>4. CASE ~ (Pl!On("-strict") /\ ~canonical)
    <3>1. Pl!GoOn("leave", q)
      BY <1>5, <2>4 DEF q
    <3> QED
      BY <1>1, <1>2, <1>5, <2>1, <2>2, <2>4, <3>1, GoOnHolds DEF Before, Stages
  <2> QED
    BY <2>3, <2>4
<1> QED
  BY <1>3, <1>4, <1>5 DEF Pl!ReadFile

\* -import, -releases and the launcher's own runs leave here.
LEMMA LeaveHolds == ASSUME PInv, Pl!Leave PROVE PInv'
<1>1. running = "leave" /\ UNCHANGED <<opts, runs>> /\ running \in Before
  BY DEF Pl!Leave, Pl!Same, Before
<1>2. CASE Pl!On("-import") \/ Pl!On("-releases")
  <2>1. PICK code \in {0, 1} : Pl!Return(code)
    BY <1>2 DEF Pl!Leave
  <2> QED
    BY <1>1, <1>2, <2>1, ReturnHolds
<1>3. CASE /\ ~ (Pl!On("-import") \/ Pl!On("-releases"))
           /\ ~Pl!On("-nolauncher") /\ ~Pl!Program /\ ~Pl!On("-secs") /\ ~Pl!Session
  <2>1. Pl!Return(0) /\ ~ Pl!On("-replay")
    BY <1>3 DEF Pl!Leave, Pl!Session
  <2> QED
    BY <1>1, <2>1, ReturnHolds
<1>4. CASE Pl!GoOn("install", process)
  <2>1. /\ ~ (Pl!On("-record") /\ Pl!On("-replay"))
        /\ Pl!On("-replay") => process.mode = "replay" /\ (Pl!On("-strict") => process.canonical)
    BY <1>1 DEF PInv, Checked, Stages, Before
  <2> QED
    BY <1>1, <1>4, <2>1, BeforeLoop, GoOnHolds DEF Before, Stages
<1> QED
  BY <1>2, <1>3, <1>4 DEF Pl!Leave

\* The install: no session with the trainer on.
LEMMA InstallHolds == ASSUME PInv, Pl!Install PROVE PInv'
<1>1. running = "install" /\ UNCHANGED <<opts, runs>> /\ running \in Before
  BY DEF Pl!Install, Pl!Same, Before
<1>2. /\ ~ (Pl!On("-record") /\ Pl!On("-replay"))
      /\ Pl!On("-replay") => process.mode = "replay" /\ (Pl!On("-strict") => process.canonical)
  BY <1>1 DEF PInv, Checked, Stages, Before
<1>3. PICK trainer \in BOOLEAN :
        LET q == [process EXCEPT !.trainer = trainer] IN
        Pl!Refuse(q) \/ (Pl!GoOn("record", q) /\ ~ Pl!TrainerRefused(trainer))
  BY DEF Pl!Install
<1> DEFINE q == [process EXCEPT !.trainer = trainer]
<1>4. /\ q \in Process /\ q.mode = process.mode /\ (q.canonical <=> process.canonical)
      /\ q.emitted = process.emitted /\ q.code = process.code /\ q.ended = process.ended
      /\ q.overlay = process.overlay /\ (q.trainer <=> trainer)
  BY <1>1, BeforeLoop DEF Process
<1>5. Pl!Refuse(q) \/ (Pl!GoOn("record", q) /\ ~ Pl!TrainerRefused(trainer))
  BY <1>3
<1> HIDE DEF q
<1>6. CASE Pl!Refuse(q)
  BY <1>1, <1>4, <1>6, BeforeLoop, RefuseHolds
<1>7. CASE Pl!GoOn("record", q) /\ ~ Pl!TrainerRefused(trainer)
  <2>1. q.trainer => ~ Pl!Session
    BY <1>4, <1>7 DEF Pl!TrainerRefused
  <2> QED
    BY <1>1, <1>2, <1>4, <1>7, <2>1, BeforeLoop, GoOnHolds DEF Before, Stages
<1> QED
  BY <1>5, <1>6, <1>7

\* What a directory leaves that should be gone is that directory, which no
\* session has for its own.
LEMMA LeftHolds ==
  ASSUME PInv, running \in Before, UNCHANGED <<opts, runs>>,
         NEW left \in {"none", "stuck"}, Pl!Refuse([process EXCEPT !.overlay = left])
  PROVE  PInv'
<1> DEFINE q == [process EXCEPT !.overlay = left]
<1>1. /\ q \in Process /\ q.mode = process.mode /\ (q.canonical <=> process.canonical)
      /\ q.overlay # "canonical" /\ q.emitted = process.emitted /\ q.code = process.code
      /\ q.ended = process.ended
  BY BeforeLoop DEF Process
<1>2. Pl!Refuse(q)
  OBVIOUS
<1> HIDE DEF q
<1> QED
  BY <1>1, <1>2, BeforeLoop, RefuseHolds

\* What the checks have settled once the recording was read.
LEMMA Settled ==
  ASSUME PInv, running \in {"record", "overlay", "exec", "loop"}
  PROVE  /\ ~ (Pl!On("-record") /\ Pl!On("-replay"))
         /\ Pl!On("-replay") => process.mode = "replay" /\ (Pl!On("-strict") => process.canonical)
         /\ process.trainer => ~ Pl!Session
  BY DEF PInv, Checked, Stages, Before

\* A recording is begun: on the canonical state, with a directory of its own,
\* when it is to be ranked.
LEMMA BeginRecordHolds == ASSUME PInv, Pl!BeginRecord PROVE PInv'
<1>1. running = "record" /\ UNCHANGED <<opts, runs>> /\ running \in Before
  BY DEF Pl!BeginRecord, Pl!Same, Before
<1>2. CASE ~Pl!On("-record") /\ Pl!GoOn("overlay", process)
  <2>1. process.mode # "record"
    BY <1>1, <1>2, BeforeLoop
  <2> QED
    BY <1>1, <1>2, <2>1, BeforeLoop, Settled, GoOnHolds DEF Before, Stages
<1>3. CASE \E left \in Pl!CleanedUp(Pl!RecordsOn) : Pl!Refuse([process EXCEPT !.overlay = left])
  <2>1. PICK left \in {"none", "stuck"} : Pl!Refuse([process EXCEPT !.overlay = left])
    BY <1>3 DEF Pl!CleanedUp
  <2> QED
    BY <1>1, <2>1, LeftHolds
<1>4. CASE /\ Pl!On("-record") /\ running' = "overlay"
           /\ process' = [process EXCEPT !.mode = "record", !.canonical = Pl!On("-ranked"), !.overlay = Pl!RecordsOn]
           /\ disk' = [disk EXCEPT !.pfr = "header"]
  <2>1. /\ process \in Process /\ process.emitted = "no" /\ process.ended = "no" /\ Typed
        /\ ~ Pl!On("-replay") /\ (process.trainer => ~ Pl!Session)
    BY <1>1, <1>4, BeforeLoop, Settled DEF PInv
  <2>2. Pl!On("-ranked") \in BOOLEAN /\ Pl!RecordsOn \in {"none", "canonical"}
        /\ (Pl!RecordsOn = "canonical" <=> Pl!On("-ranked"))
    BY DEF Pl!On, Pl!RecordsOn
  <2>3. /\ process' \in Process /\ process'.mode = "record" /\ (process'.canonical <=> Pl!On("-ranked"))
        /\ process'.overlay = Pl!RecordsOn /\ process'.emitted = "no" /\ process'.ended = "no"
        /\ (process'.trainer <=> process.trainer)
    BY <1>4, <2>1, <2>2 DEF Process
  <2>4. disk' \in Disk
    BY <1>4, <2>1 DEF Typed, Disk
  <2>5. Typed'
    BY <1>4, <2>3, <2>4 DEF Typed, Stages, Before
  <2>6. Armed' /\ Isolated'
    BY <1>1, <1>4, <2>2, <2>3 DEF Armed, Isolated, Pl!On
  <2>7. Checked'
    BY <1>1, <1>4, <2>1, <2>3 DEF Checked, Pl!On, Pl!Session
  <2>8. Spoken' /\ Ended'
    BY <1>4, <2>3 DEF Spoken, Ended, Before
  <2> QED
    BY <1>4, <2>5, <2>6, <2>7, <2>8, NotDone DEF PInv
<1> QED
  BY <1>2, <1>3, <1>4 DEF Pl!BeginRecord

\* The copy of a replay, and where the guest's writes go.
LEMMA IsolateHolds == ASSUME PInv, Pl!Isolate PROVE PInv'
<1> DEFINE made == IF process.mode # "replay" THEN process.overlay
                   ELSE IF process.canonical THEN "canonical" ELSE "copy"
           q    == [process EXCEPT !.overlay = made]
           r    == [q EXCEPT !.guestdir = Pl!Mapped(q)]
<1>1. running = "overlay" /\ UNCHANGED <<opts, runs>> /\ running \in Before
  BY DEF Pl!Isolate, Pl!Same, Before
<1>2. process \in Process /\ (process.mode = "record" /\ process.canonical => process.overlay # "none")
  BY <1>1, BeforeLoop DEF PInv, Isolated
<1>3. /\ made \in {"none", "copy", "canonical", "stuck"}
      /\ made = "canonical" => process.canonical
      /\ made = "none" => process.mode # "replay" /\ ~ process.canonical
  BY <1>1, <1>2, BeforeLoop DEF Process
<1>4. Pl!GoOn("exec", r) \/ \E left \in {"none", "stuck"} : Pl!Refuse([process EXCEPT !.overlay = left])
  BY DEF Pl!Isolate, Pl!CleanedUp
<1> HIDE DEF made
<1>5. /\ q \in Process /\ q.mode = process.mode /\ (q.canonical <=> process.canonical) /\ q.overlay = made
      /\ q.emitted = process.emitted /\ q.code = process.code /\ q.ended = process.ended
      /\ (q.trainer <=> process.trainer)
  BY <1>2, <1>3 DEF Process
<1> HIDE DEF q
<1>6. Pl!Mapped(q) \in {"install", "temp"} /\ (Pl!Mapped(q) = "install" => made = "none")
  BY <1>5 DEF Pl!Mapped
<1>7. /\ r \in Process /\ r.mode = process.mode /\ (r.canonical <=> process.canonical) /\ r.overlay = made
      /\ r.emitted = process.emitted /\ r.code = process.code /\ r.ended = process.ended
      /\ (r.trainer <=> process.trainer) /\ r.guestdir = Pl!Mapped(q)
  BY <1>5, <1>6 DEF Process
<1> HIDE DEF r
<1>8. CASE Pl!GoOn("exec", r)
  BY <1>1, <1>3, <1>6, <1>7, <1>8, BeforeLoop, Settled, GoOnHolds DEF Before, Stages
<1>9. CASE \E left \in {"none", "stuck"} : Pl!Refuse([process EXCEPT !.overlay = left])
  BY <1>1, <1>9, LeftHolds
<1> QED
  BY <1>4, <1>8, <1>9

\* The program is loaded, or refused.
LEMMA ExecHolds == ASSUME PInv, Pl!Exec PROVE PInv'
<1>1. running = "exec" /\ UNCHANGED <<opts, runs>> /\ running \in Before
  BY DEF Pl!Exec, Pl!Same, Before
<1>2. process.guestdir = "install" => process.mode # "replay" /\ ~ process.canonical
  BY <1>1 DEF PInv, Isolated
<1>3. CASE Pl!GoOn("loop", process)
  BY <1>1, <1>2, <1>3, BeforeLoop, Settled, GoOnHolds DEF Before, Stages
<1>4. CASE Pl!Verdict([process EXCEPT !.exit_code = 1], "refused", 1) /\ running' = "done"
  BY <1>1, <1>4, BeforeLoop, RefuseHolds DEF Pl!Refuse
<1> QED
  BY <1>3, <1>4 DEF Pl!Exec

-----------------------------------------------------------------------------
(***************************************************************************)
(* The loop, and what comes behind it.                                     *)
(***************************************************************************)
\* A step that only touches the disk, and not what it says of the verdict.
LEMMA DiskHolds ==
  ASSUME PInv, UNCHANGED <<opts, runs, process>>, disk' \in Disk, disk'.verdict = disk.verdict,
         <<running, running'>> \in {<<"loop", "loop">>, <<"volume", "snapsave">>, <<"footer", "games">>,
                         <<"games", "verdict">>}
  PROVE  PInv'
<1>1. running' \in Stages /\ running' \notin {"off", "done", "leaving", "exec", "overlay", "record"}
      /\ running' \notin {"args", "video", "combos", "file"} /\ (running' = "loop" => running = "loop")
      /\ (running' \in {"loop", "volume", "snapsave"} \cup Before => running \in {"loop", "volume", "snapsave"} \cup Before)
      /\ running \in Stages \ {"off", "done", "args", "video", "combos", "file"}
      /\ running \in {"record", "overlay", "exec", "loop"} \cup After
      /\ (running # "loop" => running' \in After \cup {"done"})
      /\ (running \in After \cup {"done"} => running # "loop")
  BY DEF Stages, Before, After
<1>2. Typed'
  BY <1>1 DEF PInv, Typed
<1>3. Armed' /\ Checked'
  BY <1>1 DEF PInv, Armed, Checked, Pl!On, Pl!Session
<1>4. Isolated' /\ Ended'
  BY <1>1 DEF PInv, Isolated, Ended
<1>5. Spoken'
  BY <1>1 DEF PInv, Spoken, Pl!On
<1> QED
  BY <1>1, <1>2, <1>3, <1>4, <1>5, NotDone DEF PInv

\* What the guest writes.
LEMMA GuestWritesHolds == ASSUME PInv, Pl!GuestWrites PROVE PInv'
<1>1. /\ running = "loop" /\ running' = running /\ UNCHANGED <<opts, runs, process>>
      /\ disk' = IF process.guestdir = "install" THEN [disk EXCEPT !.state = disk.state \cup {"guest"}] ELSE disk
  BY DEF Pl!GuestWrites, Pl!Same
<1>2. disk \in Disk
  BY DEF PInv, Typed
<1>3. disk' \in Disk /\ disk'.verdict = disk.verdict
  BY <1>1, <1>2 DEF Disk
<1> QED
  BY <1>1, <1>3, DiskHolds

\* The volume keys.
LEMMA VolumeKeyHolds == ASSUME PInv, Pl!VolumeKey PROVE PInv'
<1> DEFINE q == [process EXCEPT !.dirty = TRUE]
<1>1. running = "loop" /\ UNCHANGED <<opts, runs>> /\ Pl!GoOn("loop", q)
  BY DEF Pl!VolumeKey, Pl!Same
<1>2. process.guestdir = "install" => process.mode # "replay" /\ ~ process.canonical
  BY <1>1 DEF PInv, Isolated
<1>3. /\ q \in Process /\ q.mode = process.mode /\ (q.canonical <=> process.canonical) /\ q.overlay = process.overlay
      /\ q.emitted = process.emitted /\ q.code = process.code /\ q.ended = process.ended
      /\ (q.trainer <=> process.trainer) /\ q.guestdir = process.guestdir
  BY <1>1, BeforeLoop DEF Process
<1> HIDE DEF q
<1> QED
  BY <1>1, <1>2, <1>3, BeforeLoop, Settled, GoOnHolds DEF Before, Stages

\* The loop ends, at the recording's end or before.
LEMMA LoopEndsHolds == ASSUME PInv, Pl!LoopEnds PROVE PInv'
<1>1. running = "loop" /\ UNCHANGED <<opts, runs>>
  BY DEF Pl!LoopEnds, Pl!Same
<1>2. PICK how \in {"end", "past", "early"}, wav \in {-1, 0, 1} :
        Pl!GoOn("volume", [process EXCEPT !.ended = how, !.wav = wav])
  BY DEF Pl!LoopEnds
<1> DEFINE q == [process EXCEPT !.ended = how, !.wav = wav]
<1>3. /\ q \in Process /\ q.mode = process.mode /\ (q.canonical <=> process.canonical) /\ q.overlay = process.overlay
      /\ q.emitted = process.emitted /\ q.code = process.code
      /\ (q.trainer <=> process.trainer) /\ q.guestdir = process.guestdir
  BY <1>1, BeforeLoop DEF Process
<1>4. Pl!GoOn("volume", q)
  BY <1>2
<1> HIDE DEF q
<1>5. /\ "volume" \in Stages \ {"off", "done", "leaving"}
      /\ "volume" \notin Before \cup {"loop"} /\ running \in Before \cup {"loop"}
  BY <1>1 DEF Before, After, Stages
<1>6. /\ q.mode = "replay" => Pl!On("-replay")
      /\ q.mode = "record" => Pl!On("-record")
      /\ q.canonical => q.mode # "play"
      /\ q.overlay = "canonical" => q.canonical
  BY <1>3, <1>5, BeforeLoop
<1>7. /\ ~ (Pl!On("-record") /\ Pl!On("-replay"))
      /\ Pl!On("-replay") => q.mode = "replay" /\ (Pl!On("-strict") => q.canonical)
      /\ q.trainer => ~ Pl!Session
  BY <1>1, <1>3, Settled
<1> QED
  BY <1>1, <1>3, <1>4, <1>5, <1>6, <1>7, GoOnHolds

\* The volume, the footer and the games that were counted.
LEMMA KeptHolds == ASSUME PInv, Pl!SaveVolume \/ Pl!EndRecord \/ Pl!Games PROVE PInv'
<1>1. disk \in Disk /\ process \in Process
  BY DEF PInv, Typed
<1>2. CASE Pl!SaveVolume
  <2>1. /\ running = "volume" /\ running' = "snapsave" /\ UNCHANGED <<opts, runs, process>>
        /\ disk' = IF Pl!VolumeSaved THEN [disk EXCEPT !.state = disk.state \cup {"volume"}] ELSE disk
    BY <1>2 DEF Pl!SaveVolume, Pl!Same
  <2>2. disk' \in Disk /\ disk'.verdict = disk.verdict
    BY <1>1, <2>1 DEF Disk
  <2> QED
    BY <2>1, <2>2, DiskHolds
<1>3. CASE Pl!EndRecord
  <2>1. /\ running = "footer" /\ running' = "games" /\ UNCHANGED <<opts, runs, process>>
        /\ disk' = IF process.mode = "record" THEN [disk EXCEPT !.pfr = "closed"] ELSE disk
    BY <1>3 DEF Pl!EndRecord, Pl!Same
  <2>2. disk' \in Disk /\ disk'.verdict = disk.verdict
    BY <1>1, <2>1 DEF Disk
  <2> QED
    BY <2>1, <2>2, DiskHolds
<1>4. CASE Pl!Games
  <2>1. /\ running = "games" /\ running' = "verdict" /\ UNCHANGED <<opts, runs, process>>
        /\ (Pl!GamesDue /\ disk' = [disk EXCEPT !.games = process.mode]) \/ disk' = disk
    BY <1>4 DEF Pl!Games, Pl!Same
  <2>2. Pl!GamesDue => process.mode \in {"record", "replay"}
    BY DEF Pl!GamesDue
  <2>3. disk' \in Disk /\ disk'.verdict = disk.verdict
    BY <1>1, <2>1, <2>2 DEF Disk
  <2> QED
    BY <2>1, <2>3, DiskHolds
<1> QED
  BY <1>2, <1>3, <1>4

\* A snapshot that fails to be saved at the end is a refusal, though the
\* process goes on to its report.
LEMMA SnapSaveHolds == ASSUME PInv, Pl!SnapSave PROVE PInv'
<1>1. running = "snapsave" /\ running' = "footer" /\ UNCHANGED <<opts, runs>>
  BY DEF Pl!SnapSave, Pl!Same
<1>2. Typed /\ Armed /\ Checked /\ Spoken /\ process.emitted = "no"
  BY <1>1 DEF PInv, Spoken
<1> DEFINE q == [process EXCEPT !.exit_code = 1]
<1>3. q \in Process /\ Alike(q, process) /\ q.emitted = process.emitted /\ q.code = process.code
  BY <1>2 DEF Typed, Process, Alike
<1>4. (process' = process /\ disk' = disk) \/ Pl!Verdict(q, "refused", 1)
  BY DEF Pl!SnapSave
<1> HIDE DEF q
<1>5. /\ process' \in Process /\ disk' \in Disk /\ Alike(process', process)
      /\ \/ process'.emitted = "no"
         \/ Pl!On("-verify") /\ process'.code = 1 /\ process'.emitted = "written" /\ disk'.verdict = "refused"
         \/ Pl!On("-verify") /\ process'.code = 1 /\ process'.emitted = "lost"
  <2>1. CASE process' = process /\ disk' = disk
    BY <1>2, <2>1 DEF Typed, Alike
  <2>2. CASE Pl!Verdict(q, "refused", 1)
    <3>1. /\ process' \in Process /\ disk' \in Disk /\ Alike(process', q)
          /\ \/ ~ Pl!CanEmit /\ process'.emitted = q.emitted /\ process'.code = q.code /\ disk' = disk
             \/ Pl!CanEmit /\ process'.emitted = "written" /\ process'.code = 1 /\ disk'.verdict = "refused"
             \/ Pl!CanEmit /\ process'.emitted = "lost" /\ process'.code = 1
      BY <1>2, <1>3, <2>2, Verdicts
    <3> QED
      BY <1>2, <1>3, <3>1 DEF Pl!CanEmit, Alike
  <2> QED
    BY <1>4, <2>1, <2>2
<1>6. Typed' /\ Armed' /\ Checked'
  BY <1>1, <1>2, <1>5 DEF Typed, Armed, Checked, Pl!On, Pl!Session, Stages, After, Before, Alike
<1>7. Isolated' /\ Ended'
  BY <1>1 DEF Isolated, Ended, After
<1>8. Spoken'
  BY <1>1, <1>5 DEF Spoken, Pl!On, Before, Pl!CodeOf
<1> QED
  BY <1>1, <1>6, <1>7, <1>8, NotDone DEF PInv

\* The report: verified is said of a session that was reproduced, and of no
\* other; a verification that has not spoken yet speaks.
LEMMA ReportHolds == ASSUME PInv, Pl!Report PROVE PInv'
<1>1. running = "verdict" /\ running' = "leaving" /\ UNCHANGED <<opts, runs>>
  BY DEF Pl!Report, Pl!Same
<1>2. Typed /\ Armed /\ Checked /\ Spoken /\ process \in Process
  BY DEF PInv, Typed
<1>3. \E status \in {"refused", "mismatch", "verified"}, c \in 0 .. 2 :
        /\ Pl!Verdict(process, status, c) /\ c = Pl!CodeOf[status]
        /\ c = 0 => process.mode = "replay" /\ Pl!Reproduced
  <2>1. CASE process.mode # "replay"
    BY <2>1 DEF Pl!Report, Pl!CodeOf
  <2>2. CASE process.mode = "replay" /\ Pl!Reproduced
    BY <2>2 DEF Pl!Report, Pl!CodeOf
  <2>3. CASE process.mode = "replay" /\ ~ Pl!Reproduced
    BY <2>3 DEF Pl!Report, Pl!CodeOf
  <2> QED
    BY <2>1, <2>2, <2>3
<1>4. PICK status \in {"refused", "mismatch", "verified"}, c \in 0 .. 2 :
        /\ Pl!Verdict(process, status, c) /\ c = Pl!CodeOf[status]
        /\ c = 0 => process.mode = "replay" /\ Pl!Reproduced
  BY <1>3
<1>5. /\ process' \in Process /\ disk' \in Disk /\ Alike(process', process)
      /\ \/ ~ Pl!CanEmit /\ process'.emitted = process.emitted /\ process'.code = process.code /\ disk' = disk
         \/ Pl!CanEmit /\ process'.emitted = "written" /\ process'.code = c /\ disk'.verdict = status
         \/ Pl!CanEmit /\ process'.emitted = "lost" /\ process'.code = c
  BY <1>2, <1>4, Verdicts
<1>6. Typed' /\ Armed' /\ Checked'
  BY <1>1, <1>2, <1>5 DEF Typed, Armed, Checked, Pl!On, Pl!Session, Stages, After, Before, Alike
<1>7. Isolated' /\ Ended'
  BY <1>1 DEF Isolated, Ended, After
<1>8. c = 0 => process.mode = "replay" /\ process.ended = "end" /\ process.wav # 0 /\ (Pl!On("-strict") => process.wav = 1)
  BY <1>2, <1>4 DEF Pl!Reproduced, Process
<1>9. Spoken'
  <2>1. process'.mode = process.mode /\ process'.ended = process.ended /\ process'.wav = process.wav
    BY <1>5 DEF Alike
  <2>2. Pl!On("-verify")' <=> Pl!On("-verify")
    BY <1>1 DEF Pl!On
  <2>3. Pl!On("-strict")' <=> Pl!On("-strict")
    BY <1>1 DEF Pl!On
  <2>4. process'.emitted = "no" => ~ Pl!On("-verify")
    BY <1>5 DEF Pl!CanEmit
  <2>5. process'.emitted # "no" => Pl!On("-verify")
    BY <1>2, <1>5 DEF Pl!CanEmit, Spoken
  <2>6. process'.emitted = "written" => process'.code = Pl!CodeOf[disk'.verdict]
    BY <1>2, <1>4, <1>5 DEF Spoken
  <2>7. process'.emitted # "no" /\ process'.code = 0 =>
          process.mode = "replay" /\ process.ended = "end" /\ process.wav # 0 /\ (Pl!On("-strict") => process.wav = 1)
    BY <1>2, <1>5, <1>8 DEF Spoken
  <2> QED
    BY <1>1, <2>1, <2>2, <2>3, <2>4, <2>5, <2>6, <2>7 DEF Spoken, Before
<1> QED
  BY <1>1, <1>6, <1>7, <1>9, NotDone DEF PInv

\* The process returns what it said, and takes its copy with it or tries to.
LEMMA CleanUpHolds == ASSUME PInv, Pl!CleanUp PROVE PInv'
<1>1. running = "leaving" /\ running' = "done" /\ UNCHANGED <<opts, runs, disk>>
  BY DEF Pl!CleanUp, Pl!Same
<1>2. Typed /\ Armed /\ Checked /\ Spoken /\ process \in Process
  BY DEF PInv, Typed
<1>3. PICK video \in {0, 1}, left \in Pl!OverlayLeft :
        process' = [process EXCEPT !.exit_code = Pl!ExitCode(video), !.overlay = left]
  BY DEF Pl!CleanUp
<1>4. /\ Pl!ExitCode(video) \in 0 .. 2 /\ (Pl!On("-verify") => Pl!ExitCode(video) = process.code)
      /\ left \in {"none", "stuck", process.overlay} /\ left \in {"none", "copy", "canonical", "stuck"}
      /\ (~ Pl!On("-keepoverlay") => left \in {"none", "stuck"})
  BY <1>2 DEF Pl!ExitCode, Pl!OverlayLeft, Pl!CleanedUp, Process
<1>5. /\ process' \in Process /\ process'.mode = process.mode /\ (process'.canonical <=> process.canonical)
      /\ process'.overlay = left /\ (process'.trainer <=> process.trainer) /\ process'.emitted = process.emitted
      /\ process'.code = process.code /\ process'.exit_code = Pl!ExitCode(video) /\ process'.ended = process.ended /\ process'.wav = process.wav
  BY <1>2, <1>3, <1>4 DEF Process
<1>6. Typed' /\ Armed'
  BY <1>1, <1>2, <1>4, <1>5 DEF Typed, Armed, Pl!On, Stages
<1>7. Checked' /\ Isolated' /\ Ended'
  BY <1>1 DEF Checked, Isolated, Ended, After
<1>8. Spoken'
  BY <1>1, <1>2, <1>5 DEF Spoken, Pl!On, Before
<1>9. Pl!ExitFollowsVerdict'
  BY <1>1, <1>2, <1>4, <1>5 DEF Pl!ExitFollowsVerdict, Spoken
<1>10. Pl!RefusalsSpeak'
  BY <1>1, <1>2, <1>5 DEF Pl!RefusalsSpeak, Spoken, Pl!On
<1>11. Pl!ZeroMeansReproduced'
  <2> SUFFICES ASSUME process'.exit_code = 0, Pl!On("-verify"), Pl!On("-replay")
               PROVE  /\ process'.ended = "end" /\ process'.wav # 0 /\ ~ process'.trainer
                      /\ Pl!On("-strict") => process'.canonical /\ process'.wav = 1
    BY <1>1 DEF Pl!ZeroMeansReproduced, Pl!On
  <2>1. process.code = 0 /\ process.emitted # "no"
    BY <1>1, <1>2, <1>4, <1>5 DEF Spoken
  <2>2. process.mode = "replay" /\ process.ended = "end" /\ process.wav # 0 /\ (Pl!On("-strict") => process.wav = 1)
    BY <1>2, <2>1 DEF Spoken
  <2>3. (Pl!On("-strict") => process.canonical) /\ (process.trainer => ~ Pl!Session)
    BY <1>1, <1>2 DEF Checked, Stages, Before, After
  <2>4. ~ process.trainer
    BY <2>3 DEF Pl!Session
  <2> QED
    BY <1>5, <2>2, <2>3, <2>4
<1>12. Pl!NoCopyLeft'
  BY <1>1, <1>4, <1>5 DEF Pl!NoCopyLeft, Pl!On
<1> QED
  BY <1>6, <1>7, <1>8, <1>9, <1>10, <1>11, <1>12 DEF PInv

-----------------------------------------------------------------------------
(***************************************************************************)
(* The theorems.                                                           *)
(***************************************************************************)
\* The first state.
LEMMA PlayInit == Pl!Init => PInv
<1> SUFFICES ASSUME Pl!Init PROVE PInv
  OBVIOUS
<1>1. running = "off" /\ process = Pl!Fresh /\ disk \in Disk
  BY DEF Pl!Init, Disk
<1>2. Typed
  BY <1>1 DEF Typed, Pl!Fresh, Process, Stages
<1>3. Armed /\ Checked /\ Isolated /\ Spoken /\ Ended
  BY <1>1 DEF Armed, Checked, Isolated, Spoken, Ended, Pl!Fresh, After
<1> QED
  BY <1>1, <1>2, <1>3
     DEF PInv, Pl!ExitFollowsVerdict, Pl!RefusalsSpeak, Pl!ZeroMeansReproduced, Pl!NoCopyLeft

\* Every part of emu_main, and the end of a process at any of them, keeps the
\* invariant.
LEMMA PlayNext == PInv /\ [Pl!Next]_(Pl!vars) => PInv'
<1> SUFFICES ASSUME PInv, [Pl!Next]_(Pl!vars) PROVE PInv'
  OBVIOUS
<1>1. CASE Pl!Start \/ Pl!ParseArgs \/ Pl!OpenVideo \/ Pl!Combos \/ Pl!ReadFile \/ Pl!Leave \/ Pl!Install \/ Pl!BeginRecord
  BY <1>1, StartHolds, ParseArgsHolds, OpenVideoHolds, CombosHolds, ReadFileHolds, LeaveHolds, InstallHolds,
     BeginRecordHolds
<1>2. CASE Pl!Isolate \/ Pl!Exec \/ Pl!GuestWrites \/ Pl!VolumeKey \/ Pl!LoopEnds \/ Pl!SaveVolume
  BY <1>2, IsolateHolds, ExecHolds, GuestWritesHolds, VolumeKeyHolds, LoopEndsHolds, KeptHolds
<1>3. CASE Pl!SnapSave \/ Pl!EndRecord \/ Pl!Games \/ Pl!Report \/ Pl!CleanUp \/ Pl!Exit \/ Pl!Crash
  BY <1>3, SnapSaveHolds, KeptHolds, ReportHolds, CleanUpHolds, GoneHolds DEF Pl!Exit, Pl!Crash
<1>4. CASE UNCHANGED Pl!vars
  <2>1. UNCHANGED <<running, opts, process, disk, runs>>
    BY <1>4 DEF Pl!vars
  <2>2. Typed' /\ Armed' /\ Checked' /\ Isolated' /\ Spoken' /\ Ended'
    BY <2>1 DEF PInv, Typed, Armed, Checked, Isolated, Spoken, Ended, Pl!On, Pl!Session
  <2>3. Pl!ExitFollowsVerdict' /\ Pl!RefusalsSpeak' /\ Pl!ZeroMeansReproduced' /\ Pl!NoCopyLeft'
    BY <2>1 DEF PInv, Pl!On, Pl!ExitFollowsVerdict, Pl!RefusalsSpeak, Pl!ZeroMeansReproduced,
       Pl!NoCopyLeft
  <2> QED
    BY <2>2, <2>3 DEF PInv
<1> QED
  BY <1>1, <1>2, <1>3, <1>4 DEF Pl!Next

\* The invariant holds in every state.
LEMMA PInvAlways == Pl!Spec => []PInv
  BY PlayInit, PlayNext, PTL DEF Pl!Spec

\* The record of a process and the disk it leaves have their types, and only an
\* armed session has the canonical state's directory.
THEOREM PlayTyped == Pl!Spec => []Pl!TypeOK
<1>1. PInv => Pl!TypeOK
  BY DEF PInv, Typed, Armed, Process, Disk, Pl!TypeOK
<1> QED
  BY <1>1, PInvAlways, PTL

\* A verification that returns zero has reproduced its recording: to its end, on
\* the canonical state and with the sound compared where -strict asks for it,
\* without the trainer, and even when the verdict could not be written.
THEOREM ZeroIsReproduced == Pl!Spec => []Pl!ZeroMeansReproduced
<1>1. PInv => Pl!ZeroMeansReproduced
  BY DEF PInv
<1> QED
  BY <1>1, PInvAlways, PTL

-----------------------------------------------------------------------------
(***************************************************************************)
(* What a process leaves on disk.                                          *)
(***************************************************************************)
\* A verdict touches neither the install's state nor the games.
LEMMA VerdictKeeps ==
  ASSUME disk \in Disk, NEW q, NEW status, NEW c, Pl!Verdict(q, status, c)
  PROVE  disk'.state = disk.state /\ disk'.games = disk.games
<1>1. disk' = disk \/ disk' = [disk EXCEPT !.verdict = status]
  BY DEF Pl!Verdict
<1> QED
  BY <1>1 DEF Disk

\* Only the guest, the volume and the games reach them.
LEMMA OthersKeep ==
  ASSUME disk \in Disk, [Pl!Next]_(Pl!vars)
  PROVE  /\ disk'.state = disk.state \/ Pl!GuestWrites \/ Pl!SaveVolume
         /\ disk'.games = disk.games \/ Pl!Games
<1> DEFINE Stand == disk'.state = disk.state /\ disk'.games = disk.games
<1>1. ASSUME NEW q, Pl!Refuse(q) PROVE Stand
  BY <1>1, VerdictKeeps DEF Pl!Refuse
<1>2. ASSUME NEW c, Pl!Return(c) PROVE Stand
  BY <1>2 DEF Pl!Return
<1>3. ASSUME NEW next, NEW q, Pl!GoOn(next, q) PROVE Stand
  BY <1>3 DEF Pl!GoOn
<1>4. CASE Pl!ParseArgs \/ Pl!OpenVideo
  BY <1>1, <1>2, <1>3, <1>4 DEF Pl!ParseArgs, Pl!OpenVideo
<1>5. CASE Pl!Combos
  BY <1>1, <1>3, <1>5 DEF Pl!Combos
<1>6. CASE Pl!ReadFile
  <2>1. \/ Pl!GoOn("leave", process) \/ Pl!Refuse(process)
        \/ \E canonical \in BOOLEAN :
             LET q == [process EXCEPT !.mode = "replay", !.canonical = canonical] IN
             IF Pl!On("-strict") /\ ~canonical THEN Pl!Refuse(q) ELSE Pl!GoOn("leave", q)
    BY <1>6 DEF Pl!ReadFile
  <2> QED
    BY <1>1, <1>3, <2>1
<1>7. CASE Pl!Leave
  <2>1. (\E code \in {0, 1} : Pl!Return(code)) \/ Pl!GoOn("install", process)
    BY <1>7 DEF Pl!Leave
  <2> QED
    BY <1>2, <1>3, <2>1
<1>8. CASE Pl!Install
  <2>1. \E trainer \in BOOLEAN :
          \/ Pl!Refuse([process EXCEPT !.trainer = trainer])
          \/ Pl!GoOn("record", [process EXCEPT !.trainer = trainer])
    BY <1>8 DEF Pl!Install
  <2> QED
    BY <1>1, <1>3, <2>1
<1>9. CASE Pl!BeginRecord
  <2>1. Pl!GoOn("overlay", process) \/ (\E q : Pl!Refuse(q)) \/ disk' = [disk EXCEPT !.pfr = "header"]
    BY <1>9 DEF Pl!BeginRecord
  <2> QED
    BY <1>1, <1>3, <2>1 DEF Disk
<1>10. CASE Pl!Isolate
  <2>1. (\E q : Pl!GoOn("exec", q)) \/ (\E q : Pl!Refuse(q))
    BY <1>10 DEF Pl!Isolate
  <2> QED
    BY <1>1, <1>3, <2>1
<1>11. CASE Pl!Exec
  BY <1>3, <1>11, VerdictKeeps DEF Pl!Exec
<1>12. CASE Pl!VolumeKey \/ Pl!LoopEnds \/ Pl!CleanUp \/ Pl!Start
  BY <1>3, <1>12 DEF Pl!VolumeKey, Pl!LoopEnds, Pl!CleanUp, Pl!Start
<1>13. CASE Pl!SnapSave
  BY <1>13, VerdictKeeps DEF Pl!SnapSave
<1>14. CASE Pl!EndRecord
  BY <1>14 DEF Pl!EndRecord, Disk
<1>15. CASE Pl!Report
  BY <1>15, VerdictKeeps DEF Pl!Report
<1>16. CASE Pl!Exit \/ Pl!Crash
  BY <1>16 DEF Pl!Exit, Pl!Crash, Pl!Gone, Disk
<1>17. CASE UNCHANGED Pl!vars
  BY <1>17 DEF Pl!vars
<1>18. CASE Pl!GuestWrites \/ Pl!SaveVolume
  BY <1>18 DEF Pl!GuestWrites, Pl!SaveVolume, Disk
<1>19. CASE Pl!Games
  BY <1>19 DEF Pl!Games, Disk
<1> QED
  BY <1>4, <1>5, <1>6, <1>7, <1>8, <1>9, <1>10, <1>11, <1>12, <1>13, <1>14, <1>15, <1>16,
     <1>17, <1>18, <1>19 DEF Pl!Next

\* A replay's guest writes to its own copy and its volume is not saved; the
\* canonical state's guest writes to that.
LEMMA StateStays ==
  ASSUME PInv, [Pl!Next]_(Pl!vars), disk'.state # disk.state
  PROVE  process.mode # "replay" /\ (process.canonical => "guest" \notin disk'.state \ disk.state)
<1>1. disk \in Disk /\ Isolated
  BY DEF PInv, Typed
<1>2. CASE Pl!GuestWrites
  <2>1. running = "loop" /\ process.guestdir = "install"
    BY <1>2 DEF Pl!GuestWrites
  <2> QED
    BY <1>1, <2>1 DEF Isolated
<1>3. CASE Pl!SaveVolume
  <2>1. Pl!VolumeSaved /\ disk' = [disk EXCEPT !.state = disk.state \cup {"volume"}]
    BY <1>3 DEF Pl!SaveVolume
  <2> QED
    BY <1>1, <2>1 DEF Pl!VolumeSaved, Disk
<1> QED
  BY <1>1, <1>2, <1>3, OthersKeep

\* A replay writes the install's state under no name, and a ranked recording's
\* guest does not either: theirs is a directory that goes with the process.
THEOREM StateKept == Pl!Spec => Pl!StateUntouched
<1>1. PInv /\ [Pl!Next]_(Pl!vars) =>
        [disk'.state # disk.state => /\ process.mode # "replay"
                                     /\ process.canonical => "guest" \notin disk'.state \ disk.state]_(Pl!vars)
  BY StateStays
<1> QED
  BY <1>1, PInvAlways, PTL DEF Pl!Spec, Pl!StateUntouched

\* The games are counted once: by the recording, or by the launcher's replay to
\* the end of a recording that has none.
THEOREM GamesKept == Pl!Spec => Pl!GamesStay
<1>1. ASSUME PInv, [Pl!Next]_(Pl!vars), disk'.games # disk.games
      PROVE  \/ process.mode = "record"
             \/ disk.games = "none" /\ Pl!Completed /\ Pl!On("-launched")
  <2>1. Pl!Games
    BY <1>1, OthersKeep DEF PInv, Typed
  <2>2. Pl!GamesDue
    BY <1>1, <2>1 DEF Pl!Games
  <2> QED
    BY <2>2 DEF Pl!GamesDue
<1>2. PInv /\ [Pl!Next]_(Pl!vars) =>
        [disk'.games # disk.games =>
           \/ process.mode = "record"
           \/ disk.games = "none" /\ Pl!Completed /\ Pl!On("-launched")]_(Pl!vars)
  BY <1>1
<1> QED
  BY <1>2, PInvAlways, PTL DEF Pl!Spec, Pl!GamesStay

\* A process ends as its verdict says, whatever it was asked to do and wherever
\* the processes before it died.
THEOREM EndsAsSaid == Pl!Spec => Pl!EndsAsItSays
<1>1. PInv => Pl!ExitFollowsVerdict /\ Pl!RefusalsSpeak /\ Pl!ZeroMeansReproduced /\ Pl!TrainerNever /\ Pl!NoCopyLeft
  <2> SUFFICES ASSUME PInv, running = "loop", process.trainer PROVE process.mode = "play"
    BY DEF PInv, Pl!TrainerNever
  <2>1. ~ Pl!Session
    BY DEF PInv, Checked
  <2> QED
    BY <2>1 DEF PInv, Typed, Process, Armed, Pl!Session
<1> QED
  BY <1>1, PInvAlways, StateKept, GamesKept, PTL DEF Pl!EndsAsItSays

\* A behaviour of the parts is, for the processes, one of their own.
LEMMA PlayIsPart ==
  Spec => Pl!Spec
<1>1. Init => Pl!Init
  BY DEF Init
<1>2. [Next]_vars => Pl!Next \/ UNCHANGED play
  BY DEF Next, Only, vars
<1>3. UNCHANGED play => UNCHANGED Pl!vars
  BY DEF play, Pl!vars
<1> QED
  BY <1>1, <1>2, <1>3, PTL DEF Spec, Pl!Spec

\* EndsAsItSays, the property of the run.
THEOREM ProcessEndsAsItSays ==
  Spec => EndsAsItSays
  BY PlayIsPart, EndsAsSaid, PTL DEF EndsAsItSays

(***************************************************************************)
(* The settings (module Config): what the files and the programs hold, for *)
(* any settings, any number of programs and any cut in a write.            *)
(***************************************************************************)

\* What the files and the programs hold, and the window's and the game's.
Shows   == [vol : Volumes, opts : Opts, sound : BOOLEAN, quality : Notches]
Playing == [vol : Volumes, dirty : BOOLEAN]
Kinds   == [owner : Cf!Owners, axis : {"x", "y"}, of : Nat]

CfTyped ==
  /\ settings \in Cf!Settings \cup {None} /\ legacy \in Cf!Settings \cup {None}
  /\ sound \in Notches \cup {None, Cf!NoSound}
  /\ ui = None \/ ui \in Shows
  /\ game = None \/ game \in Playing
  /\ set \in [quality : Notches, opts : Opts]
  /\ launches \in Nat /\ crashes \in Nat

\* What the player chose is what would be read.
Chosen ==
  crashes = 0 =>
    Cf!cfg_read.opts = set.opts /\ Cf!SoundQuality(sound, Cf!cfg_read) = set.quality

\* A window's lines are of one save.
Lines(s) ==
  /\ DOMAIN s = 1 .. Len(s) /\ Len(s) \in 0 .. 4
  /\ \A i \in DOMAIN s : s[i] \in Kinds
  /\ \A i, k \in DOMAIN s : s[i].owner = s[k].owner => s[i].of = s[k].of
Configured == CfTyped /\ Chosen /\ Lines(wins)

LEMMA CfConstants ==
  /\ Vol0 \in Volumes /\ 0 \in Notches /\ Notches \subseteq Nat /\ Opt0 \in Opts
  /\ None \notin Cf!Settings /\ None \notin Nat /\ None \notin Notches /\ Cf!NoSound \notin Notches
  /\ MaxLaunches \in Nat /\ MaxCrashes \in Nat
<1>1. Cf!NoSound \notin Nat
  BY DEF Cf!NoSound
<1> QED
  BY <1>1, PartsAssumption DEF Cf!Constants

LEMMA SettingsTyped ==
  ASSUME NEW c \in Cf!Settings
  PROVE  c.vol \in Volumes /\ c.quality \in Notches /\ c.opts \in Opts
  BY DEF Cf!Settings

LEMMA ReadTyped ==
  ASSUME CfTyped
  PROVE  Cf!cfg_read \in Cf!Settings /\ Cf!SoundQuality(sound, Cf!cfg_read) \in Notches
<1>1. Cf!Defaults \in Cf!Settings
  BY CfConstants DEF Cf!Defaults, Cf!Settings
<1>2. Cf!cfg_read \in Cf!Settings
  BY <1>1 DEF Cf!cfg_read, CfTyped
<1> QED
  BY <1>2, SettingsTyped DEF Cf!SoundQuality

\* What a file says that was written for c, to the end or in part.
LEMMA CutTyped ==
  ASSUME NEW c \in Cf!Settings, NEW n \in 0 .. 3
  PROVE  Cf!Cut(c, n) \in Cf!Settings /\ (n = 3 => Cf!Cut(c, n) = c)
<1>1. c.vol \in Volumes /\ c.quality \in Notches /\ c.opts \in Opts
  BY SettingsTyped
<1>2. Cf!Defaults.vol \in Volumes /\ Cf!Defaults.quality \in Notches /\ Cf!Defaults.opts \in Opts
  BY CfConstants DEF Cf!Defaults
<1>3. Cf!Cut(c, n) \in Cf!Settings
  BY <1>1, <1>2 DEF Cf!Cut, Cf!Settings
<1>4. CASE n = 3
  BY <1>4, <1>3 DEF Cf!Cut, Cf!Settings
<1> QED
  BY <1>3, <1>4

LEMMA KeysThree == Len(Cf!Keys) = 3
  BY DEF Cf!Keys

\* cfg_write: a whole file is what is read then, and the old files go only
\* with a whole one.
LEMMA Wrote ==
  ASSUME CfTyped, NEW c \in Cf!Settings, NEW n \in 0 .. 3, Cf!cfg_write(c, n)
  PROVE  /\ settings' \in Cf!Settings \cup {None} /\ legacy' \in Cf!Settings \cup {None}
         /\ n = 3 => Cf!cfg_read' = c
         /\ n # 3 => legacy' = legacy
<1>1. /\ settings' = Cf!Cut(c, n) /\ legacy' = IF n = 3 THEN None ELSE legacy
  BY KeysThree DEF Cf!cfg_write
<1>2. settings' \in Cf!Settings /\ settings' # None /\ (n = 3 => settings' = c)
  BY <1>1, CutTyped, CfConstants
<1>3. Cf!cfg_read' = settings'
  BY <1>2 DEF Cf!cfg_read
<1> QED
  BY <1>1, <1>2, <1>3 DEF CfTyped

LEMMA CountedSays ==
  ASSUME CfTyped, NEW n \in 0 .. 3, Cf!Counted(n)
  PROVE  /\ crashes' \in Nat /\ (n = 3 => crashes' = crashes) /\ (n # 3 => crashes' # 0)
<1>1. crashes' = crashes + (IF n < 3 THEN 1 ELSE 0) /\ crashes \in Nat
  BY KeysThree DEF Cf!Counted, Cf!Dies, CfTyped
<1> QED
  BY <1>1

\* A step that leaves the files and the choice.
LEMMA FilesStay ==
  ASSUME Configured, UNCHANGED <<settings, legacy, sound, set, crashes>>, launches' \in Nat,
         ui' = None \/ ui' \in Shows, game' = None \/ game' \in Playing, Lines(wins')
  PROVE  Configured'
<1>1. Cf!cfg_read' = Cf!cfg_read
  BY DEF Cf!cfg_read
<1>2. Chosen'
  BY <1>1 DEF Configured, Chosen, Cf!SoundQuality
<1>3. CfTyped'
  BY DEF Configured, CfTyped
<1>4. Lines(wins)'
  BY DEF Lines
<1> QED
  BY <1>2, <1>3, <1>4 DEF Configured

LEMMA OpenConfigured ==
  ASSUME Configured, Cf!Open \/ Cf!Close
  PROVE  Configured'
<1>1. Cf!Loaded \in Shows
  <2>1. (sound \in Notches) \in BOOLEAN
    OBVIOUS
  <2>2. Cf!cfg_read.vol \in Volumes /\ Cf!cfg_read.opts \in Opts
    BY ReadTyped, SettingsTyped DEF Configured
  <2> QED
    BY <2>1, <2>2, ReadTyped DEF Cf!Loaded, Shows, Configured
<1>2. /\ UNCHANGED <<settings, legacy, sound, set, crashes, game, wins, launches>>
      /\ ui' = None \/ ui' \in Shows
  BY <1>1 DEF Cf!Open, Cf!Close
<1> QED
  BY <1>2, FilesStay DEF Configured, CfTyped

LEMMA ChangeConfigured ==
  ASSUME Configured,
         \/ \E v \in Volumes : Cf!Change([ui EXCEPT !.vol = v])
         \/ \E q \in Notches : Cf!Change([ui EXCEPT !.quality = q])
         \/ \E o \in Opts : Cf!Change([ui EXCEPT !.opts = o])
         \/ Cf!Change([ui EXCEPT !.sound = ~@])
  PROVE  Configured'
<1>1. /\ ui # None /\ UNCHANGED <<settings, legacy, sound, set, crashes, game, wins, launches>>
      /\ \/ \E v \in Volumes : ui' = [ui EXCEPT !.vol = v]
         \/ \E q \in Notches : ui' = [ui EXCEPT !.quality = q]
         \/ \E o \in Opts : ui' = [ui EXCEPT !.opts = o]
         \/ ui' = [ui EXCEPT !.sound = ~ui.sound]
  BY DEF Cf!Change
<1>2. ui \in Shows
  BY <1>1 DEF Configured, CfTyped
<1>3. (~ ui.sound) \in BOOLEAN
  OBVIOUS
<1>4. \A b \in BOOLEAN : [ui EXCEPT !.sound = b] \in Shows
  BY <1>2 DEF Shows
<1>5. ui' \in Shows
  <2>1. ui' = [ui EXCEPT !.sound = ~ui.sound] => ui' \in Shows
    BY <1>3, <1>4
  <2> QED
    BY <1>1, <1>2, <2>1 DEF Shows
<1> QED
  BY <1>1, <1>5, FilesStay DEF Configured, CfTyped

LEMMA LaunchConfigured ==
  ASSUME Configured, NEW n \in 0 .. 3, Cf!Launch(n)
  PROVE  Configured'
<1> DEFINE c == Cf!Written(ui)
<1>1. /\ ui # None /\ launches' = launches + 1 /\ Cf!Counted(n)
      /\ sound' = (IF ui.sound THEN ui.quality ELSE Cf!NoSound)
      /\ Cf!cfg_write(c, n) /\ UNCHANGED wins
      /\ IF n < 3 THEN ui' = None /\ UNCHANGED <<game, set>>
         ELSE /\ game' = [vol |-> ui.vol, dirty |-> FALSE]
              /\ set' = [quality |-> ui.quality, opts |-> ui.opts]
              /\ UNCHANGED ui
  BY KeysThree DEF Cf!Launch, Cf!Dies, Cf!SoundCfg
<1>2. /\ ui \in Shows /\ ui.vol \in Volumes /\ ui.quality \in Notches /\ ui.opts \in Opts
      /\ CfTyped /\ launches \in Nat
  BY <1>1 DEF Configured, CfTyped, Shows
<1>3. c \in Cf!Settings /\ c.quality = ui.quality /\ c.opts = ui.opts
  <2>1. Cf!cfg_read \in Cf!Settings
    BY ReadTyped DEF Configured
  <2> QED
    BY <1>2, <2>1 DEF Cf!Written, Cf!Settings
<1> HIDE DEF c
<1>4. /\ settings' \in Cf!Settings \cup {None} /\ legacy' \in Cf!Settings \cup {None}
      /\ n = 3 => Cf!cfg_read' = c
  BY <1>1, <1>2, <1>3, Wrote
<1>5. crashes' \in Nat /\ (n # 3 => crashes' # 0)
  BY <1>1, <1>2, CountedSays
<1>6. sound' \in Notches \cup {Cf!NoSound} /\ launches' \in Nat
  BY <1>1, <1>2
<1>7. CASE n = 3
  <2>1. /\ game' = [vol |-> ui.vol, dirty |-> FALSE]
        /\ set' = [quality |-> ui.quality, opts |-> ui.opts] /\ ui' = ui
    BY <1>1, <1>7
  <2>2. CfTyped'
    BY <1>2, <1>4, <1>5, <1>6, <2>1 DEF CfTyped, Playing
  <2>3. Cf!SoundQuality(sound, Cf!cfg_read)' = ui.quality
    BY <1>1, <1>2, <1>3, <1>4, <1>7, CfConstants DEF Cf!SoundQuality
  <2>4. Chosen'
    BY <1>3, <1>4, <1>7, <2>1, <2>3 DEF Chosen
  <2> QED
    BY <1>1, <2>2, <2>4 DEF Configured, Lines
<1>8. CASE n # 3
  <2>1. ui' = None /\ game' = game /\ set' = set
    BY <1>1, <1>8
  <2>2. CfTyped'
    BY <1>2, <1>4, <1>5, <1>6, <2>1 DEF CfTyped
  <2>3. Chosen'
    BY <1>5, <1>8 DEF Chosen
  <2> QED
    BY <1>1, <2>2, <2>3 DEF Configured, Lines
<1> QED
  BY <1>7, <1>8

LEMMA GameConfigured ==
  ASSUME Configured,
         \/ \E v \in Volumes : Cf!Start(v) \/ Cf!VolumeKey(v)
         \/ \E q \in Notches \cup {Cf!NoSound} : Cf!Setsound(q)
  PROVE  Configured'
<1>1. CASE \E v \in Volumes : Cf!Start(v)
  <2>1. PICK v \in Volumes : Cf!Start(v)
    BY <1>1
  <2>2. /\ launches' = launches + 1 /\ game' = [vol |-> v, dirty |-> FALSE]
        /\ UNCHANGED <<settings, legacy, sound, ui, wins, set, crashes>>
    BY <2>1 DEF Cf!Start
  <2>3. game' \in Playing /\ launches' \in Nat
    BY <2>2 DEF Playing, Configured, CfTyped
  <2> QED
    BY <2>2, <2>3, FilesStay DEF Configured, CfTyped
<1>2. CASE \E v \in Volumes : Cf!VolumeKey(v)
  <2>1. PICK v \in Volumes : Cf!VolumeKey(v)
    BY <1>2
  <2>2. /\ game' = [vol |-> v, dirty |-> TRUE]
        /\ UNCHANGED <<settings, legacy, sound, ui, wins, set, launches, crashes>>
    BY <2>1 DEF Cf!VolumeKey
  <2>3. game' \in Playing /\ launches' \in Nat
    BY <2>2 DEF Playing, Configured, CfTyped
  <2> QED
    BY <2>2, <2>3, FilesStay DEF Configured, CfTyped
<1>3. CASE \E q \in Notches \cup {Cf!NoSound} : Cf!Setsound(q)
  <2>1. PICK q \in Notches \cup {Cf!NoSound} : Cf!Setsound(q)
    BY <1>3
  <2> DEFINE r == Cf!SoundQuality(q, Cf!cfg_read)
  <2>2. /\ sound' = q /\ set' = [set EXCEPT !.quality = r]
        /\ UNCHANGED <<settings, legacy, ui, game, wins, launches, crashes>>
    BY <2>1 DEF Cf!Setsound
  <2>3. Cf!cfg_read' = Cf!cfg_read /\ Cf!cfg_read \in Cf!Settings
    BY <2>2, ReadTyped DEF Cf!cfg_read, Configured
  <2>4. r \in Notches
    BY <2>3, SettingsTyped DEF Cf!SoundQuality
  <2>5. Cf!SoundQuality(sound, Cf!cfg_read)' = r
    BY <2>2, <2>3 DEF Cf!SoundQuality
  <2> HIDE DEF r
  <2>6. set \in [quality : Notches, opts : Opts]
    BY DEF Configured, CfTyped
  <2>7. set' \in [quality : Notches, opts : Opts] /\ set'.quality = r /\ set'.opts = set.opts
    BY <2>2, <2>4, <2>6
  <2>8. CfTyped'
    BY <2>2, <2>7 DEF Configured, CfTyped
  <2>9. Chosen'
    BY <2>2, <2>3, <2>5, <2>7 DEF Configured, Chosen
  <2> QED
    BY <2>2, <2>8, <2>9 DEF Configured, Lines
<1> QED
  BY <1>1, <1>2, <1>3

LEMMA EndConfigured ==
  ASSUME Configured, NEW n \in 0 .. 3, Cf!GameEnds(n)
  PROVE  Configured'
<1>1. /\ game # None /\ game' = None /\ UNCHANGED <<sound, ui, wins, set, launches>>
  BY DEF Cf!GameEnds
<1>2. CASE ~ game.dirty
  <2>1. UNCHANGED <<settings, legacy, crashes>>
    BY <1>2 DEF Cf!GameEnds
  <2> QED
    BY <1>1, <2>1, FilesStay DEF Configured, CfTyped
<1>3. CASE game.dirty
  <2> DEFINE c == Cf!WithVolume(game.vol)
  <2>1. Cf!cfg_write(c, n) /\ Cf!Counted(n)
    BY <1>3 DEF Cf!GameEnds
  <2>2. game.vol \in Volumes /\ CfTyped
    BY <1>1 DEF Configured, CfTyped, Playing
  <2>3. c \in Cf!Settings /\ c.opts = Cf!cfg_read.opts /\ c.quality = Cf!cfg_read.quality
    <3>1. Cf!cfg_read \in Cf!Settings
      BY ReadTyped DEF Configured
    <3> QED
      BY <2>2, <3>1 DEF Cf!WithVolume, Cf!Settings
  <2> HIDE DEF c
  <2>4. /\ settings' \in Cf!Settings \cup {None} /\ legacy' \in Cf!Settings \cup {None}
        /\ n = 3 => Cf!cfg_read' = c
    BY <2>1, <2>2, <2>3, Wrote
  <2>5. crashes' \in Nat /\ (n = 3 => crashes' = crashes) /\ (n # 3 => crashes' # 0)
    BY <2>1, <2>2, CountedSays
  <2>6. CfTyped'
    BY <1>1, <2>2, <2>4, <2>5 DEF CfTyped
  <2>7. Chosen'
    <3>1. CASE n # 3
      BY <2>5, <3>1 DEF Chosen
    <3>2. CASE n = 3
      <4>1. Cf!SoundQuality(sound, Cf!cfg_read)' = Cf!SoundQuality(sound, Cf!cfg_read)
        BY <1>1, <2>3, <2>4, <3>2 DEF Cf!SoundQuality
      <4> QED
        BY <1>1, <2>3, <2>4, <2>5, <3>2, <4>1 DEF Configured, Chosen
    <3> QED
      BY <3>1, <3>2
  <2> QED
    BY <1>1, <2>6, <2>7 DEF Configured, Lines
<1> QED
  BY <1>2, <1>3

-----------------------------------------------------------------------------
\* Window positions: an x and a y of one save.
IsPair(p) == p = None \/ \E k \in Nat : p = <<k, k>>

LEMMA PositionPairs ==
  ASSUME Lines(wins), NEW o \in Cf!Owners
  PROVE  IsPair(Cf!Position(wins, o))
<1> DEFINE at_(a) == {i \in DOMAIN wins : wins[i].owner = o /\ wins[i].axis = a}
<1>1. CASE at_("x") = {} \/ at_("y") = {}
  BY <1>1 DEF Cf!Position, IsPair
<1>2. CASE at_("x") # {} /\ at_("y") # {}
  <2> DEFINE i == CHOOSE i \in at_("x") : TRUE
             k == CHOOSE k \in at_("y") : TRUE
  <2>1. i \in at_("x") /\ k \in at_("y")
    BY <1>2
  <2>2. Cf!Position(wins, o) = <<wins[i].of, wins[k].of>>
    BY <1>2 DEF Cf!Position
  <2> HIDE DEF i, k
  <2>3. wins[i].of = wins[k].of /\ wins[i].of \in Nat
    BY <2>1 DEF Lines, Kinds
  <2> QED
    BY <2>2, <2>3 DEF IsPair
<1> QED
  BY <1>1, <1>2

LEMMA PairWritten ==
  ASSUME NEW o \in Cf!Owners, NEW p, IsPair(p)
  PROVE  LET s == Cf!PairLines(o, p) IN
         /\ s \in Seq(Kinds) /\ Len(s) <= 2
         /\ \A i \in 1 .. Len(s) : s[i].owner = o
         /\ \A i, k \in 1 .. Len(s) : s[i].of = s[k].of
<1>1. CASE p = None
  BY <1>1 DEF Cf!PairLines
<1>2. CASE p # None
  <2>1. PICK k \in Nat : p = <<k, k>>
    BY <1>2 DEF IsPair
  <2> DEFINE x == [owner |-> o, axis |-> "x", of |-> k]
             y == [owner |-> o, axis |-> "y", of |-> k]
  <2>2. x \in Kinds /\ y \in Kinds /\ x.owner = o /\ y.owner = o /\ x.of = k /\ y.of = k
    BY DEF Kinds
  <2>3. Cf!PairLines(o, p) = <<x, y>>
    BY <1>2, <2>1 DEF Cf!PairLines
  <2> HIDE DEF x, y
  <2> QED
    BY <2>2, <2>3
<1> QED
  BY <1>1, <1>2

LEMMA LinesJoined ==
  ASSUME NEW s \in Seq(Kinds), NEW t \in Seq(Kinds), Len(s) <= 2, Len(t) <= 2,
         \A i \in 1 .. Len(s) : s[i].owner = "win",
         \A i \in 1 .. Len(t) : t[i].owner = "launch",
         \A i, k \in 1 .. Len(s) : s[i].of = s[k].of,
         \A i, k \in 1 .. Len(t) : t[i].of = t[k].of,
         NEW n \in Nat, n <= Len(s \o t)
  PROVE  Lines(SubSeq(s \o t, 1, n))
<1> DEFINE c == s \o t
           r == SubSeq(c, 1, n)
<1>1. /\ c \in Seq(Kinds) /\ Len(c) = Len(s) + Len(t) /\ Len(s) \in Nat /\ Len(t) \in Nat
      /\ \A i \in 1 .. Len(c) : c[i] = IF i <= Len(s) THEN s[i] ELSE t[i - Len(s)]
  OBVIOUS
<1> HIDE DEF c
<1>2. \A i, k \in 1 .. Len(c) : c[i].owner = c[k].owner => c[i].of = c[k].of
  <2> SUFFICES ASSUME NEW i \in 1 .. Len(c), NEW k \in 1 .. Len(c), c[i].owner = c[k].owner
               PROVE  c[i].of = c[k].of
    OBVIOUS
  <2>1. i <= Len(s) => c[i] = s[i] /\ i \in 1 .. Len(s)
    BY <1>1
  <2>2. ~ (i <= Len(s)) => c[i] = t[i - Len(s)] /\ i - Len(s) \in 1 .. Len(t)
    BY <1>1
  <2>3. k <= Len(s) => c[k] = s[k] /\ k \in 1 .. Len(s)
    BY <1>1
  <2>4. ~ (k <= Len(s)) => c[k] = t[k - Len(s)] /\ k - Len(s) \in 1 .. Len(t)
    BY <1>1
  <2>5. (i <= Len(s)) <=> (k <= Len(s))
    BY <2>1, <2>2, <2>3, <2>4
  <2> QED
    BY <2>1, <2>2, <2>3, <2>4, <2>5
<1>3. /\ r \in Seq(Kinds) /\ Len(r) = n /\ DOMAIN r = 1 .. n
      /\ \A i \in 1 .. n : r[i] = c[i]
  BY <1>1
<1>4. n \in 0 .. 4 /\ \A i \in 1 .. n : i \in 1 .. Len(c) /\ c[i] \in Kinds
  BY <1>1 DEF c
<1> HIDE DEF r
<1>5. Lines(r)
  BY <1>2, <1>3, <1>4 DEF Lines
<1> QED
  BY <1>5 DEF r, c

LEMMA PositionConfigured ==
  ASSUME Configured, NEW o \in Cf!Owners, NEW n \in 0 .. 4, Cf!SavePosition(o, n)
  PROVE  Configured'
<1> DEFINE now == <<launches, launches>>
           s == Cf!PairLines("win", IF o = "win" THEN now ELSE Cf!Position(wins, "win"))
           t == Cf!PairLines("launch", IF o = "launch" THEN now ELSE Cf!Position(wins, "launch"))
<1>1. /\ n <= Len(s \o t) /\ wins' = SubSeq(s \o t, 1, n)
      /\ crashes' = crashes + (IF n < Len(s \o t) THEN 1 ELSE 0)
      /\ UNCHANGED <<settings, legacy, sound, ui, game, set, launches>>
  BY DEF Cf!SavePosition
<1>2. IsPair(now) /\ crashes \in Nat /\ Lines(wins)
  BY DEF Configured, CfTyped, IsPair
<1>3. "win" \in Cf!Owners /\ "launch" \in Cf!Owners
  BY DEF Cf!Owners
<1>4. IsPair(Cf!Position(wins, "win")) /\ IsPair(Cf!Position(wins, "launch"))
  BY <1>2, <1>3, PositionPairs
<1> HIDE DEF now
<1>5. /\ s \in Seq(Kinds) /\ Len(s) <= 2 /\ \A i \in 1 .. Len(s) : s[i].owner = "win"
      /\ \A i, k \in 1 .. Len(s) : s[i].of = s[k].of
  BY <1>2, <1>3, <1>4, PairWritten
<1>6. /\ t \in Seq(Kinds) /\ Len(t) <= 2 /\ \A i \in 1 .. Len(t) : t[i].owner = "launch"
      /\ \A i, k \in 1 .. Len(t) : t[i].of = t[k].of
  BY <1>2, <1>3, <1>4, PairWritten
<1> HIDE DEF s, t
<1>7. Lines(wins')
  BY <1>1, <1>5, <1>6, LinesJoined
<1>8. crashes' \in Nat /\ (crashes' = 0 => crashes = 0)
  BY <1>1, <1>2
<1>9. Cf!cfg_read' = Cf!cfg_read
  BY <1>1 DEF Cf!cfg_read
<1>10. Chosen'
  BY <1>1, <1>8, <1>9 DEF Configured, Chosen, Cf!SoundQuality
<1>11. CfTyped'
  BY <1>1, <1>8 DEF Configured, CfTyped
<1> QED
  BY <1>7, <1>10, <1>11 DEF Configured, Lines

LEMMA ConfigInit == ASSUME Cf!Init PROVE Configured
<1>1. /\ settings = None /\ legacy \in Cf!Settings \cup {None}
      /\ sound \in Notches \cup {None, Cf!NoSound}
      /\ ui = None /\ game = None /\ wins = <<>> /\ launches = 0 /\ crashes = 0
      /\ set = [quality |-> Cf!SoundQuality(sound, Cf!cfg_read), opts |-> Cf!cfg_read.opts]
  BY DEF Cf!Init
<1>2. Cf!Defaults \in Cf!Settings
  BY CfConstants DEF Cf!Defaults, Cf!Settings
<1>3. Cf!cfg_read \in Cf!Settings
  BY <1>1, <1>2 DEF Cf!cfg_read
<1>4. Cf!SoundQuality(sound, Cf!cfg_read) \in Notches /\ Cf!cfg_read.opts \in Opts
  BY <1>3, SettingsTyped DEF Cf!SoundQuality
<1>5. CfTyped
  BY <1>1, <1>4 DEF CfTyped
<1>6. Chosen
  BY <1>1 DEF Chosen
<1>7. Lines(wins)
  BY <1>1 DEF Lines
<1> QED
  BY <1>5, <1>6, <1>7 DEF Configured

LEMMA ConfigStep == ASSUME Configured, [Cf!Next]_(Cf!vars) PROVE Configured'
<1>1. CASE UNCHANGED Cf!vars
  <2>1. UNCHANGED <<settings, legacy, sound, ui, game, wins, set, launches, crashes>>
    BY <1>1 DEF Cf!vars
  <2> QED
    BY <2>1, FilesStay DEF Configured, CfTyped
<1>2. CASE Cf!Next
  <2>1. Len(Cf!Keys) = 3
    BY KeysThree
  <2> QED
    BY <1>2, <2>1, OpenConfigured, ChangeConfigured, LaunchConfigured, GameConfigured, EndConfigured,
       PositionConfigured DEF Cf!Next
<1> QED
  BY <1>1, <1>2

LEMMA LegacyStays ==
  ASSUME Configured, [Cf!Next]_(Cf!vars), crashes' # crashes
  PROVE  legacy' = legacy
<1>1. CASE \E n \in 0 .. Len(Cf!Keys) : Cf!Launch(n) \/ Cf!GameEnds(n)
  <2>1. PICK n \in 0 .. 3 : Cf!Launch(n) \/ Cf!GameEnds(n)
    BY <1>1, KeysThree
  <2>2. Cf!Counted(n) /\ legacy' = IF n = 3 THEN None ELSE legacy
    BY <2>1, KeysThree DEF Cf!Launch, Cf!GameEnds, Cf!cfg_write
  <2> QED
    BY <2>2, CountedSays DEF Configured
<1>2. CASE \E o \in Cf!Owners, n \in 0 .. 4 : Cf!SavePosition(o, n)
  BY <1>2 DEF Cf!SavePosition
<1> QED
  BY <1>1, <1>2 DEF Cf!Next, Cf!vars, Cf!Open, Cf!Close, Cf!Change, Cf!Start, Cf!VolumeKey, Cf!Setsound

LEMMA ConfigSays ==
  ASSUME Configured
  PROVE  Cf!SettingsStay /\ Cf!QualityStays /\ Cf!PairsTogether /\ Cf!TypeOK
<1>1. Cf!SettingsStay /\ Cf!QualityStays
  BY DEF Configured, Chosen, Cf!SettingsStay, Cf!QualityStays
<1>2. ASSUME NEW o \in Cf!Owners, Cf!Position(wins, o) # None
      PROVE  Cf!Position(wins, o)[2] # None /\ Cf!Position(wins, o)[1] = Cf!Position(wins, o)[2]
  <2>1. PICK k \in Nat : Cf!Position(wins, o) = <<k, k>>
    BY <1>2, PositionPairs DEF Configured, IsPair
  <2>2. k # None
    BY CfConstants
  <2> QED
    BY <2>1, <2>2
<1>3. Cf!PairsTogether
  BY <1>2 DEF Cf!PairsTogether
<1>4. Cf!TypeOK
  BY DEF Configured, CfTyped, Lines, Cf!TypeOK, Shows, Playing
<1> QED
  BY <1>1, <1>3, <1>4

(***************************************************************************)
(* The release a folder holds (module Release), for any table of releases, *)
(* programs and needed files. They hold of every folder, reached or not.   *)
(***************************************************************************)

LEMMA LeastOf ==
  ASSUME NEW T \in SUBSET Nat, T # {}
  PROVE  \E x \in T : \A y \in T : x <= y
<1>1. PICK x \in T : \A y \in T : ~ (<<y, x>> \in OpToRel(<, Nat))
  BY NatLessThanWellFounded, WFMin
<1>2. \A y \in T : ~ (y < x)
  BY <1>1 DEF OpToRel
<1>3. \A y \in T : x <= y
  BY <1>2
<1> QED
  BY <1>3

\* Where a program's copy comes from: the first release that has it.
Release1(r) == r \in Rl!Range(Releases)

LEMMA OriginIs ==
  ASSUME NEW n, NEW f
  PROVE  /\ Rl!Origin(n, f) = None
              \/ (Release1(Rl!Origin(n, f)) /\ Rl!Matches(Rl!Origin(n, f), n, f))
         /\ (\E r : Release1(r) /\ Rl!Matches(r, n, f)) =>
              Release1(Rl!Origin(n, f)) /\ Rl!Matches(Rl!Origin(n, f), n, f)
<1>0. Releases \in Seq(Rl!Range(Releases))
  BY PartsAssumption DEF Rl!Constants
<1> DEFINE I == {i \in 1 .. Len(Releases) : Rl!Matches(Releases[i], n, f)}
           m == Rl!Min(I)
<1>1. Rl!SelectInSeq(Releases, LAMBDA r : Rl!Matches(r, n, f)) = IF I # {} THEN m ELSE 0
  BY DEF Rl!SelectInSeq
<1>2. ASSUME I # {} PROVE m \in I
  <2>1. I \in SUBSET Nat
    OBVIOUS
  <2> HIDE DEF I
  <2>2. \E x \in I : \A y \in I : x <= y
    BY <1>2, <2>1, LeastOf
  <2> QED
    BY <2>2 DEF Rl!Min
<1>3. \A i \in I : i \in 1 .. Len(Releases) /\ i # 0 /\ Rl!Matches(Releases[i], n, f)
  OBVIOUS
<1>4. \A i \in 1 .. Len(Releases) : Release1(Releases[i])
  BY <1>0 DEF Release1, Rl!Range
<1>5. I = {} <=> \A r : ~ (Release1(r) /\ Rl!Matches(r, n, f))
  <2>1. \A r : Release1(r) => \E i \in 1 .. Len(Releases) : Releases[i] = r
    BY <1>0 DEF Release1, Rl!Range
  <2> QED
    BY <1>4, <2>1
<1> HIDE DEF I, m
<1>6. Rl!Origin(n, f) = IF I # {} THEN Releases[m] ELSE None
  BY <1>0, <1>1, <1>2, <1>3 DEF Rl!Origin
<1> QED
  BY <1>2, <1>3, <1>4, <1>5, <1>6

LEMMA ShipsAll ==
  ASSUME NEW r, Release1(r)
  PROVE  /\ r # None /\ Rl!Range(Programs) \cup Needed[r] \cup {Boot[r]} \subseteq DOMAIN Table[r]
         /\ Rl!Intro \in Rl!Range(Programs)
         /\ \A q : Release1(q) /\ Table[r][Rl!Intro] = Table[q][Rl!Intro] => r = q
  BY PartsAssumption DEF Rl!Constants, Release1, Rl!Intro, Rl!Range

\* A release a folder is whole in: its programs, its boot program and what it
\* cannot run without.
Whole(r, f) ==
  /\ \A n \in Rl!Range(Programs) \cup {Boot[r]} : n \in DOMAIN f /\ f[n] = Table[r][n]
  /\ Needed[r] \subseteq DOMAIN f
Sound(r, f) == Rl!Wrong(r, f) = {} /\ ~ Rl!BootWrong(r, f)

LEMMA CoherentSays ==
  ASSUME NEW r, NEW f
  PROVE  /\ Rl!Coherent(r, f) \in {"mixed", "modified", "incomplete", "recognized"}
         /\ Rl!Coherent(r, f) \in {"incomplete", "recognized"} <=> Sound(r, f)
         /\ Rl!Coherent(r, f) = "recognized" <=> Sound(r, f) /\ Rl!Missing(r, f) = {}
<1>1. Rl!Foreign(r, f) \subseteq Rl!Wrong(r, f)
  BY DEF Rl!Foreign
<1> DEFINE F == Rl!Foreign(r, f)
           W == Rl!Wrong(r, f)
           B == Rl!BootWrong(r, f)
           M == Rl!Missing(r, f)
<1>2. Rl!Coherent(r, f) = CASE F # {} -> "mixed" [] F = {} /\ W # {} -> "modified"
                            [] OTHER -> IF B THEN "modified" ELSE IF M # {} THEN "incomplete" ELSE "recognized"
  BY DEF Rl!Coherent
<1>3. F \subseteq W
  BY <1>1
<1>4. Sound(r, f) <=> W = {} /\ ~ B
  BY DEF Sound
<1> HIDE DEF F, W, B, M
<1> DEFINE c == Rl!Coherent(r, f)
<1>5. CASE F # {}
  <2>1. c = "mixed" /\ W # {}
    BY <1>2, <1>3, <1>5
  <2> QED
    BY <1>4, <2>1
<1>6. CASE F = {} /\ W # {}
  <2>1. c = "modified"
    BY <1>2, <1>6
  <2> QED
    BY <1>4, <1>6, <2>1
<1>7. CASE F = {} /\ W = {}
  <2>1. c = IF B THEN "modified" ELSE IF M # {} THEN "incomplete" ELSE "recognized"
    BY <1>2, <1>7
  <2> QED
    BY <1>4, <1>7, <2>1 DEF M
<1> QED
  BY <1>5, <1>6, <1>7

LEMMA WholeIs ==
  ASSUME NEW r, NEW f, Release1(r)
  PROVE  Whole(r, f) <=> Sound(r, f) /\ Rl!Missing(r, f) = {}
  BY ShipsAll DEF Whole, Sound, Rl!Missing, Rl!Wrong, Rl!BootWrong, Rl!Matches

\* The intro names the release, and the folder's programs are held against it.
LEMMA VerdictIs ==
  LET cand == Rl!Origin(Rl!Intro, folder) IN
  /\ Rl!Verdict.rel # None => /\ ~ dup /\ Rl!Intro \in DOMAIN folder /\ Rl!Verdict.rel = cand
                              /\ Release1(cand) /\ Rl!Matches(cand, Rl!Intro, folder)
                              /\ Rl!Verdict.state = Rl!Coherent(cand, folder)
  /\ Rl!Verdict.rel = None => dup \/ Rl!Intro \notin DOMAIN folder \/ cand = None
  /\ Rl!Verdict.rel = None => Rl!Verdict.state \in {"ambiguous", "absent", "unknown"}
<1> DEFINE cand == Rl!Origin(Rl!Intro, folder)
<1>1. Rl!Verdict = IF dup THEN Rl!Is("ambiguous", None)
                   ELSE IF Rl!Intro \notin DOMAIN folder THEN Rl!Is("absent", None)
                   ELSE IF cand = None THEN Rl!Is("unknown", None)
                   ELSE Rl!Is(Rl!Coherent(cand, folder), cand)
  BY DEF Rl!Verdict, Rl!release_detect
<1>2. \A s, r : Rl!Is(s, r).state = s /\ Rl!Is(s, r).rel = r
  BY DEF Rl!Is
<1>3. cand = None \/ (Release1(cand) /\ Rl!Matches(cand, Rl!Intro, folder))
  BY OriginIs
<1> HIDE DEF cand
<1> SUFFICES
      /\ Rl!Verdict.rel # None => /\ ~ dup /\ Rl!Intro \in DOMAIN folder /\ Rl!Verdict.rel = cand
                                  /\ Release1(cand) /\ Rl!Matches(cand, Rl!Intro, folder)
                                  /\ Rl!Verdict.state = Rl!Coherent(cand, folder)
      /\ Rl!Verdict.rel = None => dup \/ Rl!Intro \notin DOMAIN folder \/ cand = None
      /\ Rl!Verdict.rel = None => Rl!Verdict.state \in {"ambiguous", "absent", "unknown"}
  BY DEF cand
<1>4. CASE dup
  BY <1>1, <1>2, <1>4
<1>5. CASE ~ dup /\ Rl!Intro \notin DOMAIN folder
  BY <1>1, <1>2, <1>5
<1>6. CASE ~ dup /\ Rl!Intro \in DOMAIN folder
  BY <1>1, <1>2, <1>3, <1>6
<1> QED
  BY <1>4, <1>5, <1>6

LEMMA WholeRuns == Rl!RunnableIsWhole
<1> DEFINE cand == Rl!Origin(Rl!Intro, folder)
<1>1. Rl!RunnableIsWhole <=>
        (Rl!release_runnable(Rl!Verdict) <=> ~ dup /\ \E r : Release1(r) /\ Whole(r, folder))
  BY DEF Rl!RunnableIsWhole, Release1, Whole
<1>2. ASSUME Rl!release_runnable(Rl!Verdict)
      PROVE  ~ dup /\ \E r : Release1(r) /\ Whole(r, folder)
  BY <1>2, VerdictIs, CoherentSays, WholeIs DEF Rl!release_runnable
<1>3. ASSUME ~ dup, NEW r, Release1(r), Whole(r, folder)
      PROVE  Rl!release_runnable(Rl!Verdict)
  <2>1. Rl!Intro \in DOMAIN folder /\ Rl!Matches(r, Rl!Intro, folder)
    BY <1>3, ShipsAll DEF Whole, Rl!Matches
  <2>2. Release1(cand) /\ Rl!Matches(cand, Rl!Intro, folder)
    BY <1>3, <2>1, OriginIs
  <2>3. cand = r /\ r # None
    BY <1>3, <2>1, <2>2, ShipsAll DEF Rl!Matches
  <2> HIDE DEF cand
  <2>4. Rl!Verdict.rel # None
    BY <1>3, <2>1, <2>3, VerdictIs DEF cand
  <2>5. Rl!Verdict.rel = r /\ Rl!Verdict.state = Rl!Coherent(r, folder)
    BY <2>3, <2>4, VerdictIs DEF cand
  <2>6. Rl!Coherent(r, folder) = "recognized"
    BY <1>3, WholeIs, CoherentSays
  <2> QED
    BY <2>3, <2>5, <2>6 DEF Rl!release_runnable
<1> QED
  BY <1>1, <1>2, <1>3

\* Bringing in what is missing changes neither whose copy the intro is nor
\* which programs are wrong.
LEMMA Filled ==
  ASSUME NEW r, Release1(r), NEW f, Rl!Matches(r, Rl!Intro, f), NEW w,
         w = [n \in DOMAIN f \cup DOMAIN Table[r] |-> IF n \in DOMAIN f THEN f[n] ELSE Table[r][n]]
  PROVE  /\ Rl!Origin(Rl!Intro, w) = r
         /\ Sound(r, w) <=> Sound(r, f)
         /\ Rl!Missing(r, w) = {} /\ Rl!Intro \in DOMAIN w
<1>1. /\ DOMAIN w = DOMAIN f \cup DOMAIN Table[r]
      /\ \A n \in DOMAIN f : w[n] = f[n]
      /\ \A n \in DOMAIN Table[r] \ DOMAIN f : w[n] = Table[r][n]
  OBVIOUS
<1>2. Rl!Intro \in DOMAIN f /\ Rl!Intro \in DOMAIN w /\ w[Rl!Intro] = f[Rl!Intro]
  BY <1>1 DEF Rl!Matches
<1>3. \A n : Rl!Matches(r, n, w) <=> (n \in DOMAIN f => Rl!Matches(r, n, f)) /\ n \in DOMAIN Table[r]
  BY <1>1 DEF Rl!Matches
<1>4. Rl!Origin(Rl!Intro, w) = r
  <2>1. Rl!Matches(r, Rl!Intro, w)
    BY <1>2 DEF Rl!Matches
  <2>2. Release1(Rl!Origin(Rl!Intro, w)) /\ Rl!Matches(Rl!Origin(Rl!Intro, w), Rl!Intro, w)
    BY <2>1, OriginIs
  <2> QED
    BY <2>1, <2>2, ShipsAll DEF Rl!Matches
<1>5. Sound(r, w) <=> Sound(r, f)
  BY <1>1, <1>3, ShipsAll DEF Sound, Rl!Wrong, Rl!BootWrong
<1>6. Rl!Missing(r, w) = {}
  BY <1>1, ShipsAll DEF Rl!Missing
<1> QED
  BY <1>2, <1>4, <1>5, <1>6

LEMMA FillingRuns == Rl!FillingIsEnough
<1> DEFINE r == Rl!Verdict.rel
           w == [n \in DOMAIN folder \cup DOMAIN Table[r] |->
                   IF n \in DOMAIN folder THEN folder[n] ELSE Table[r][n]]
<1> SUFFICES ASSUME r # None
             PROVE  Rl!release_runnable(Rl!release_detect(w, dup))
                      <=> Rl!Verdict.state \in {"incomplete", "recognized"}
  BY DEF Rl!FillingIsEnough
<1>1. /\ ~ dup /\ Release1(r) /\ Rl!Matches(r, Rl!Intro, folder)
      /\ Rl!Verdict.state = Rl!Coherent(r, folder)
  BY VerdictIs
<1> HIDE DEF r
<1>2. /\ Rl!Origin(Rl!Intro, w) = r /\ (Sound(r, w) <=> Sound(r, folder))
      /\ Rl!Missing(r, w) = {} /\ Rl!Intro \in DOMAIN w
  BY <1>1, Filled
<1> HIDE DEF w
<1>3. Rl!release_detect(w, dup) = Rl!Is(Rl!Coherent(r, w), r) /\ r # None
  BY <1>1, <1>2, ShipsAll DEF Rl!release_detect
<1>4. Rl!release_runnable(Rl!release_detect(w, dup)) <=> Rl!Coherent(r, w) = "recognized"
  BY <1>3 DEF Rl!release_runnable, Rl!Is
<1> QED
  BY <1>1, <1>2, <1>4, CoherentSays

LEMMA ReleaseTyped == Rl!TypeOK
  BY VerdictIs, CoherentSays DEF Rl!TypeOK

(***************************************************************************)
(* The import of a disc (module Install), for any discs and any order of   *)
(* their files.                                                            *)
(***************************************************************************)

\* The names of a disc's first k files.
First(k) == {Listing[disc][i] : i \in 1 .. k}
Working  == {"clear", "mkdir", "copy", "rename"}

\* Where an import stands: cleared, nothing of this disc in the way, some of its
\* files copied whole, or all of them.
Copied ==
  /\ disc \in DOMAIN Discs /\ at \in Nat
  /\ importing \in {"list", "clear", "mkdir"} => at = 0
  /\ importing \in Working => In!Intro \in DOMAIN Discs[disc]
  /\ In!LeftoversCleared
  /\ importing = "copy" =>
       /\ at < Len(Listing[disc]) /\ DOMAIN work = First(at)
       /\ \A n \in DOMAIN work : work[n] = Discs[disc][n]
  /\ importing = "rename" => work = Discs[disc]
Steps == {"closed", "ask", "list", "clear", "mkdir", "copy", "rename", "pick", "picked"}
Leavings ==
  work # None => \A n \in DOMAIN work :
                   \E d \in DOMAIN Discs : n \in DOMAIN Discs[d] /\ work[n] \in {Discs[d][n], Part}
Host ==
  /\ importing \in Steps /\ by \in {"gtk", "sdl", "command"}
  /\ importing \in {"ask", "pick", "picked"} => by # "command"
  /\ sel \in {None, "GAME", "GOG"} /\ deaths \in Nat /\ deaths <= MaxDeaths
  /\ imported \in BOOLEAN
Installed == Host /\ Copied /\ Leavings /\ In!NeverHalf /\ In!PicksRunnable

LEMMA DiscIs ==
  ASSUME NEW d \in DOMAIN Discs
  PROVE  /\ Listing[d] \in Seq(DOMAIN Discs[d]) /\ Len(Listing[d]) \in Nat
         /\ \A i \in 1 .. Len(Listing[d]) : Listing[d][i] \in DOMAIN Discs[d]
         /\ DOMAIN Discs[d] = {Listing[d][i] : i \in 1 .. Len(Listing[d])}
         /\ Discs[d] = [n \in DOMAIN Discs[d] |-> Discs[d][n]]
<1>1. Listing[d] \in Seq(DOMAIN Discs[d]) /\ In!Range(Listing[d]) = DOMAIN Discs[d]
      /\ Discs[d] = [n \in DOMAIN Discs[d] |-> Discs[d][n]]
  BY PartsAssumption DEF In!InstallConstants
<1>2. DOMAIN Listing[d] = 1 .. Len(Listing[d]) /\ Len(Listing[d]) \in Nat
  BY <1>1
<1>3. In!Range(Listing[d]) = {Listing[d][i] : i \in 1 .. Len(Listing[d])}
  BY <1>2 DEF In!Range
<1> QED
  BY <1>1, <1>2, <1>3

LEMMA DiscConstants == GogImage \in DOMAIN Discs /\ MaxDeaths \in Nat /\ None \notin In!Dirs
  BY PartsAssumption DEF In!InstallConstants

\* Every step but one that picks leaves nothing picked.
LEMMA NotPicked ==
  ASSUME importing # "picked"
  PROVE  In!PicksRunnable
  BY DEF In!PicksRunnable

\* What is swept of a work folder: this disc's names, and the folder if it has
\* no others.
LEMMA Swept ==
  ASSUME Leavings, NEW w, w = In!remove_tree_flat(work, disc)
  PROVE  /\ w # None => \A n \in DOMAIN w : n \in DOMAIN work /\ w[n] = work[n] /\ work # None
         /\ w # None => \E n \in DOMAIN w : n \notin DOMAIN Discs[disc]
<1>1. CASE work = None \/ DOMAIN work \subseteq DOMAIN Discs[disc]
  BY <1>1 DEF In!remove_tree_flat
<1>2. CASE work # None /\ ~ (DOMAIN work \subseteq DOMAIN Discs[disc])
  <2>1. w = In!Without(work, DOMAIN Discs[disc])
    BY <1>2 DEF In!remove_tree_flat
  <2>2. DOMAIN w = DOMAIN work \ DOMAIN Discs[disc] /\ \A n \in DOMAIN w : w[n] = work[n]
    BY <2>1 DEF In!Without
  <2> QED
    BY <1>2, <2>2
<1> QED
  BY <1>1, <1>2

\* The process is gone, or back where it came from.
LEMMA GoneIs ==
  ASSUME In!Gone
  PROVE  /\ importing' = "closed" /\ by' = "gtk" /\ disc' = GogImage /\ disc' \in DOMAIN Discs
         /\ at' = 0 /\ sel' = None /\ ~ imported' /\ imported' \in BOOLEAN
  BY DiscConstants DEF In!Gone

LEMMA OverIs ==
  ASSUME Installed, NEW b \in BOOLEAN, In!Over(b)
  PROVE  /\ importing' \in {"closed", "pick"} /\ by' \in {"gtk", "sdl", "command"}
         /\ importing' = "pick" => by' # "command"
         /\ disc' \in DOMAIN Discs /\ at' = 0 /\ sel' \in {None, "GAME", "GOG"}
         /\ imported' \in BOOLEAN
<1>1. CASE by = "command"
  BY <1>1, GoneIs DEF In!Over
<1>2. CASE by # "command"
  BY <1>2, DiscConstants DEF In!Over, Installed, Host
<1> QED
  BY <1>1, <1>2

\* A step after which no import is under way.
LEMMA ImportOver ==
  ASSUME Installed, importing' \in {"closed", "pick", "ask"}, by' \in {"gtk", "sdl", "command"},
         importing' \in {"ask", "pick"} => by' # "command",
         disc' \in DOMAIN Discs, at' = 0, sel' \in {None, "GAME", "GOG"}, imported' \in BOOLEAN,
         deaths' \in Nat, deaths' <= MaxDeaths, Leavings', In!NeverHalf'
  PROVE  Installed'
<1>1. Host'
  BY DEF Host, Steps
<1>2. Copied'
  BY DEF Copied, Working, In!LeftoversCleared
<1>3. In!PicksRunnable'
  BY DEF In!PicksRunnable
<1> QED
  BY <1>1, <1>2, <1>3 DEF Installed

LEMMA StartSteps ==
  ASSUME Installed,
         \/ \E h \in {"gtk", "sdl"} : In!Open(h)
         \/ In!Answer
         \/ \E d \in DOMAIN Discs : In!CommandImport(d)
         \/ In!List
  PROVE  Installed'
<1>1. CASE \E h \in {"gtk", "sdl"} : In!Open(h)
  <2>1. PICK h \in {"gtk", "sdl"} : In!Open(h)
    BY <1>1
  <2>2. /\ importing = "closed" /\ by' = h /\ importing' \in {"ask", "pick"} /\ ~ imported'
        /\ imported' \in BOOLEAN
        /\ UNCHANGED <<folder, dup, gog, work, declined, last, disc, at, sel, deaths>>
    BY <2>1 DEF In!Open, In!disk, In!import
  <2>3. Host'
    BY <2>1, <2>2 DEF Installed, Host, Steps
  <2>4. Copied'
    BY <2>2 DEF Installed, Copied, Working, In!LeftoversCleared
  <2>5. Leavings' /\ In!NeverHalf' /\ In!PicksRunnable'
    BY <2>2 DEF Installed, Leavings, In!NeverHalf, In!PicksRunnable
  <2> QED
    BY <2>3, <2>4, <2>5 DEF Installed
<1>2. CASE In!Answer
  <2>1. /\ importing = "ask" /\ UNCHANGED <<folder, dup, gog, work, last, by, sel, imported, deaths>>
        /\ \/ importing' = "list" /\ disc' = GogImage /\ at' = 0
           \/ importing' = "pick" /\ UNCHANGED <<disc, at>>
    BY <1>2 DEF In!Answer, In!StartImport, In!import
  <2>2. Host'
    BY <2>1 DEF Installed, Host, Steps
  <2>3. Copied'
    BY <2>1, DiscConstants DEF Installed, Copied, Working, In!LeftoversCleared
  <2>4. Leavings' /\ In!NeverHalf' /\ In!PicksRunnable'
    BY <2>1 DEF Installed, Leavings, In!NeverHalf, In!PicksRunnable
  <2> QED
    BY <2>2, <2>3, <2>4 DEF Installed
<1>3. CASE \E d \in DOMAIN Discs : In!CommandImport(d)
  <2>1. PICK d \in DOMAIN Discs : In!CommandImport(d)
    BY <1>3
  <2>2. /\ importing' = "list" /\ disc' = d /\ at' = 0 /\ by' = "command" /\ ~ imported'
        /\ imported' \in BOOLEAN /\ UNCHANGED <<folder, dup, gog, work, declined, last, sel, deaths>>
    BY <2>1 DEF In!CommandImport, In!StartImport, In!disk
  <2>3. Host'
    BY <2>2 DEF Installed, Host, Steps
  <2>4. Copied'
    BY <2>2 DEF Copied, Working, In!LeftoversCleared
  <2>5. Leavings' /\ In!NeverHalf' /\ In!PicksRunnable'
    BY <2>2 DEF Installed, Leavings, In!NeverHalf, In!PicksRunnable
  <2> QED
    BY <2>3, <2>4, <2>5 DEF Installed
<1>4. CASE In!List
  <2>1. importing = "list" /\ UNCHANGED <<folder, dup, gog, work, declined, last, deaths>>
    BY <1>4 DEF In!List, In!disk
  <2>2. Leavings' /\ In!NeverHalf'
    BY <2>1 DEF Installed, Leavings, In!NeverHalf
  <2>3. CASE In!Intro \in DOMAIN Discs[disc]
    <3>1. importing' = "clear" /\ UNCHANGED <<by, disc, at, sel, imported>>
      BY <1>4, <2>3 DEF In!List, In!process
    <3>2. Host'
      BY <2>1, <3>1 DEF Installed, Host, Steps
    <3>3. Copied'
      BY <2>1, <2>3, <3>1 DEF Installed, Copied, Working, In!LeftoversCleared
    <3>4. In!PicksRunnable'
      BY <3>1 DEF In!PicksRunnable
    <3> QED
      BY <2>2, <3>2, <3>3, <3>4 DEF Installed
  <2>4. CASE In!Intro \notin DOMAIN Discs[disc]
    <3>1. In!Over(FALSE)
      BY <1>4, <2>4 DEF In!List
    <3> QED
      BY <2>1, <2>2, <3>1, OverIs, ImportOver DEF Installed, Host
  <2> QED
    BY <2>3, <2>4
<1> QED
  BY <1>1, <1>2, <1>3, <1>4

LEMMA ClearSteps ==
  ASSUME Installed, In!Clear \/ In!Mkdir
  PROVE  Installed'
<1>1. CASE In!Clear
  <2>1. /\ importing = "clear" /\ importing' = "mkdir" /\ work' = In!remove_tree_flat(work, disc)
        /\ UNCHANGED <<folder, dup, gog, declined, last, disc, at, by, sel, imported, deaths>>
    BY <1>1 DEF In!Clear, In!import
  <2>2. Leavings' /\ In!LeftoversCleared'
    BY <2>1, Swept DEF Installed, Leavings, In!LeftoversCleared
  <2>3. Host' /\ In!NeverHalf' /\ In!PicksRunnable'
    BY <2>1 DEF Installed, Host, Steps, In!NeverHalf, In!PicksRunnable
  <2>4. Copied'
    BY <2>1, <2>2 DEF Installed, Copied, Working
  <2> QED
    BY <2>2, <2>3, <2>4 DEF Installed
<1>2. CASE In!Mkdir
  <2>1. importing = "mkdir" /\ UNCHANGED <<folder, dup, gog, declined, last, deaths>>
    BY <1>2 DEF In!Mkdir
  <2>2. In!NeverHalf'
    BY <2>1 DEF Installed, In!NeverHalf
  <2>3. CASE work = None
    <3>1. work' = In!Emptied /\ importing' = "copy" /\ UNCHANGED <<by, disc, at, sel, imported>>
      BY <1>2, <2>3 DEF In!Mkdir, In!process
    <3>2. DOMAIN work' = {}
      BY <3>1 DEF In!Emptied
    <3>3. Leavings'
      BY <3>2 DEF Leavings
    <3>4. disc \in DOMAIN Discs /\ In!Intro \in DOMAIN Discs[disc] /\ at = 0
      BY <2>1 DEF Installed, Copied, Working
    <3>5. 0 < Len(Listing[disc])
      <4>1. /\ Len(Listing[disc]) \in Nat
            /\ DOMAIN Discs[disc] = {Listing[disc][i] : i \in 1 .. Len(Listing[disc])}
        BY <3>4, DiscIs
      <4>2. PICK i \in 1 .. Len(Listing[disc]) : Listing[disc][i] = In!Intro
        BY <3>4, <4>1
      <4> DEFINE m == Len(Listing[disc])
      <4>3. m \in Nat /\ i \in 1 .. m
        BY <4>1, <4>2
      <4> HIDE DEF m
      <4>4. 0 < m
        BY <4>3
      <4> QED
        BY <4>4 DEF m
    <3>6. First(0) = {}
      BY DEF First
    <3>7. First(at)' = {}
      BY <3>1, <3>4, <3>6 DEF First
    <3>8. Copied'
      BY <3>1, <3>2, <3>4, <3>5, <3>7 DEF Copied, Working, In!LeftoversCleared
    <3>9. Host' /\ In!PicksRunnable'
      BY <2>1, <3>1 DEF Installed, Host, Steps, In!PicksRunnable
    <3> QED
      BY <2>2, <3>3, <3>8, <3>9 DEF Installed
  <2>4. CASE work # None
    <3>1. work' = work /\ In!Over(FALSE)
      BY <1>2, <2>4 DEF In!Mkdir
    <3>2. Leavings'
      BY <3>1 DEF Installed, Leavings
    <3> QED
      BY <2>1, <2>2, <3>1, <3>2, OverIs, ImportOver DEF Installed, Host
  <2> QED
    BY <2>3, <2>4
<1> QED
  BY <1>1, <1>2

\* One file more, whole; the last one makes the copy the disc.
LEMMA CopySteps ==
  ASSUME Installed, In!Copy
  PROVE  Installed'
<1> DEFINE n == Listing[disc][at + 1]
           w == In!With(work, n, Discs[disc][n])
<1>1. /\ importing = "copy" /\ UNCHANGED <<folder, dup, gog, declined, last, deaths>>
      /\ \/ /\ work' = w
            /\ IF at + 1 = Len(Listing[disc]) THEN at' = 0 /\ importing' = "rename"
               ELSE at' = at + 1 /\ UNCHANGED importing
            /\ UNCHANGED <<disc, by, sel, imported>>
         \/ work' = In!remove_tree_flat(work, disc) /\ In!Over(FALSE)
  BY DEF In!Copy, In!Files, In!LastFile
<1>2. /\ disc \in DOMAIN Discs /\ at \in Nat /\ at < Len(Listing[disc]) /\ DOMAIN work = First(at)
      /\ \A m \in DOMAIN work : work[m] = Discs[disc][m]
  BY <1>1 DEF Installed, Copied
<1>3. In!NeverHalf'
  BY <1>1 DEF Installed, In!NeverHalf
<1>4. CASE work' = In!remove_tree_flat(work, disc) /\ In!Over(FALSE)
  <2>1. Leavings'
    BY <1>4, Swept DEF Installed, Leavings
  <2> QED
    BY <1>1, <1>3, <1>4, <2>1, OverIs, ImportOver DEF Installed, Host
<1>5. CASE /\ work' = w
           /\ IF at + 1 = Len(Listing[disc]) THEN at' = 0 /\ importing' = "rename"
              ELSE at' = at + 1 /\ UNCHANGED importing
           /\ UNCHANGED <<disc, by, sel, imported>>
  <2>0. /\ Len(Listing[disc]) \in Nat
        /\ \A i \in 1 .. Len(Listing[disc]) : Listing[disc][i] \in DOMAIN Discs[disc]
    BY <1>2, DiscIs
  <2>1. at + 1 \in 1 .. Len(Listing[disc]) /\ n \in DOMAIN Discs[disc]
    BY <1>2, <2>0
  <2>2. First(at + 1) = First(at) \cup {n}
    BY <1>2 DEF First
  <2> HIDE DEF n
  <2>3. /\ DOMAIN w = First(at + 1) /\ w = [m \in DOMAIN w |-> w[m]]
        /\ \A m \in DOMAIN w : w[m] = Discs[disc][m]
    BY <1>2, <2>2 DEF In!With
  <2>4. First(at + 1) \subseteq DOMAIN Discs[disc]
    <3>1. \A i \in 1 .. at + 1 : i \in 1 .. Len(Listing[disc])
      BY <1>2, <2>0, <2>1
    <3> QED
      BY <2>0, <3>1 DEF First
  <2> HIDE DEF w
  <2>5. Leavings'
    BY <1>2, <1>5, <2>3, <2>4 DEF Leavings
  <2>6. Host' /\ In!PicksRunnable'
    BY <1>1, <1>5 DEF Installed, Host, Steps, In!PicksRunnable
  <2>7. In!Intro \in DOMAIN Discs[disc]
    BY <1>1 DEF Installed, Copied, Working
  <2>8. CASE at + 1 = Len(Listing[disc])
    <3>1. at' = 0 /\ importing' = "rename" /\ disc' = disc /\ work' = w
      BY <1>5, <2>8
    <3>2. First(at + 1) = DOMAIN Discs[disc]
      BY <1>2, <2>8, DiscIs DEF First
    <3>3. w = Discs[disc]
      BY <1>2, <2>3, <3>2, DiscIs
    <3>4. Copied'
      BY <1>2, <2>7, <3>1, <3>3 DEF Copied, Working, In!LeftoversCleared
    <3> QED
      BY <1>3, <2>5, <2>6, <3>4 DEF Installed
  <2>9. CASE at + 1 # Len(Listing[disc])
    <3>1. at' = at + 1 /\ importing' = "copy" /\ disc' = disc /\ work' = w
      BY <1>1, <1>5, <2>9
    <3>2. Len(Listing[disc]) \in Nat
      BY <1>2, DiscIs
    <3>3. at + 1 < Len(Listing[disc]) /\ at + 1 \in Nat
      BY <1>2, <2>9, <3>2
    <3>4. First(at)' = First(at + 1)
      BY <3>1 DEF First
    <3>5. Copied'
      BY <1>2, <2>3, <2>7, <3>1, <3>3, <3>4 DEF Copied, Working, In!LeftoversCleared
    <3> QED
      BY <1>3, <2>5, <2>6, <3>5 DEF Installed
  <2> QED
    BY <2>8, <2>9
<1> QED
  BY <1>1, <1>4, <1>5

LEMMA RenameSteps ==
  ASSUME Installed, In!Rename
  PROVE  Installed'
<1>1. importing = "rename" /\ UNCHANGED <<folder, dup, declined, last, deaths>>
  BY DEF In!Rename
<1>2. CASE In!Refuses
  <2>1. work' = In!remove_tree_flat(work, disc) /\ UNCHANGED gog /\ In!Over(FALSE)
    BY <1>2 DEF In!Rename
  <2>2. Leavings'
    BY <2>1, Swept DEF Installed, Leavings
  <2>3. In!NeverHalf'
    BY <2>1 DEF Installed, In!NeverHalf
  <2> QED
    BY <1>1, <2>1, <2>2, <2>3, OverIs, ImportOver DEF Installed, Host
<1>3. CASE ~ In!Refuses
  <2>1. gog' = work /\ work' = None /\ In!Over(TRUE)
    BY <1>3 DEF In!Rename
  <2>2. Leavings'
    BY <2>1 DEF Leavings
  <2>3. In!NeverHalf'
    BY <1>1, <2>1 DEF Installed, Copied, In!NeverHalf
  <2> QED
    BY <1>1, <2>1, <2>2, <2>3, OverIs, ImportOver DEF Installed, Host
<1> QED
  BY <1>2, <1>3

LEMMA CrashSteps ==
  ASSUME Installed, In!Crash
  PROVE  Installed'
<1>1. /\ importing \in Working /\ deaths < MaxDeaths /\ deaths' = deaths + 1 /\ In!Gone
      /\ UNCHANGED <<folder, dup, gog, declined, last>>
  BY DEF In!Crash, Working
<1>2. Leavings'
  <2>1. CASE importing = "clear" /\ work # None
    <3>1. PICK k \in 0 .. Len(In!Files(disc)) :
            work' = In!Without(work, In!Range(SubSeq(In!Files(disc), 1, k)))
      BY <2>1 DEF In!Crash
    <3> DEFINE g == In!Range(SubSeq(In!Files(disc), 1, k))
    <3>2. work' = In!Without(work, g)
      BY <3>1
    <3> HIDE DEF g
    <3>3. DOMAIN work' \subseteq DOMAIN work /\ \A n \in DOMAIN work' : work'[n] = work[n]
      BY <3>2 DEF In!Without
    <3> QED
      BY <2>1, <3>3 DEF Installed, Leavings
  <2>2. CASE importing = "copy"
    <3> DEFINE n == Listing[disc][at + 1]
               w == In!With(work, n, Part)
    <3>1. work' \in {work, w}
      BY <2>2 DEF In!Crash, In!Files
    <3>2. disc \in DOMAIN Discs /\ at \in Nat /\ at < Len(Listing[disc]) /\ DOMAIN work = First(at)
      BY <2>2 DEF Installed, Copied
    <3>3. /\ Len(Listing[disc]) \in Nat
          /\ \A i \in 1 .. Len(Listing[disc]) : Listing[disc][i] \in DOMAIN Discs[disc]
      BY <3>2, DiscIs
    <3>4. n \in DOMAIN Discs[disc]
      BY <3>2, <3>3
    <3>5. \A m \in DOMAIN work : m \in DOMAIN Discs[disc] /\ work[m] = Discs[disc][m]
      <4>1. \A i \in 1 .. at : i \in 1 .. Len(Listing[disc])
        BY <3>2, <3>3
      <4>2. First(at) \subseteq DOMAIN Discs[disc]
        BY <3>3, <4>1 DEF First
      <4> QED
        BY <2>2, <3>2, <4>2 DEF Installed, Copied
    <3> HIDE DEF n
    <3>6. DOMAIN w = DOMAIN work \cup {n} /\ \A m \in DOMAIN w : w[m] = IF m = n THEN Part ELSE work[m]
      BY DEF In!With
    <3> HIDE DEF w
    <3> QED
      BY <3>1, <3>2, <3>4, <3>5, <3>6 DEF Leavings
  <2>3. CASE ~ (importing = "clear" /\ work # None) /\ importing # "copy"
    <3>1. work' = work
      BY <2>3 DEF In!Crash
    <3> QED
      BY <3>1 DEF Installed, Leavings
  <2> QED
    BY <2>1, <2>2, <2>3
<1>3. In!NeverHalf'
  BY <1>1 DEF Installed, In!NeverHalf
<1>4. deaths' \in Nat /\ deaths' <= MaxDeaths
  BY <1>1, DiscConstants DEF Installed, Host
<1> QED
  BY <1>1, <1>2, <1>3, <1>4, GoneIs, ImportOver

LEMMA UserSteps ==
  ASSUME Installed, In!Launch \/ (\E f \in Kept : In!Refill(f)) \/ In!DropGog \/ In!AskAgain
  PROVE  Installed'
<1>1. CASE In!Launch
  <2>1. In!Gone /\ UNCHANGED <<folder, dup, gog, work, declined, deaths>>
    BY <1>1 DEF In!Launch
  <2>2. Leavings' /\ In!NeverHalf'
    BY <2>1 DEF Installed, Leavings, In!NeverHalf
  <2> QED
    BY <2>1, <2>2, GoneIs, ImportOver DEF Installed, Host
<1>2. CASE (\E f \in Kept : In!Refill(f)) \/ In!DropGog \/ In!AskAgain
  <2>1. /\ importing \in {"closed", "ask"} /\ gog' \in {gog, None, In!Emptied}
        /\ UNCHANGED <<dup, work, last, importing, by, disc, at, sel, imported, deaths>>
    BY <1>2 DEF In!Refill, In!DropGog, In!AskAgain, In!import
  <2>2. Host' /\ Leavings' /\ In!NeverHalf' /\ In!PicksRunnable'
    BY <2>1 DEF Installed, Host, Leavings, In!NeverHalf, In!PicksRunnable
  <2>3. Copied'
    BY <2>1 DEF Installed, Copied, Working, In!LeftoversCleared
  <2> QED
    BY <2>2, <2>3 DEF Installed
<1> QED
  BY <1>1, <1>2

-----------------------------------------------------------------------------
\* What is picked of the folders scanned.
LEMMA FirstOfIs ==
  ASSUME NEW T
  PROVE  /\ T \cap In!Range(In!release_scan) # {} =>
              In!FirstOf(T) \in T \cap In!Range(In!release_scan) /\ In!FirstOf(T) # None
         /\ T \cap In!Range(In!release_scan) = {} => In!FirstOf(T) = None
         /\ In!Range(In!release_scan) \subseteq {"GAME", "GOG"}
<1>1. In!Range(In!release_scan) \subseteq {"GAME", "GOG"}
  BY DEF In!Range, In!release_scan
<1>2. None # "GAME" /\ None # "GOG"
  BY DiscConstants DEF In!Dirs
<1> DEFINE here == T \cap In!Range(In!release_scan)
<1>3. In!FirstOf(T) = IF here = {} THEN None ELSE IF "GAME" \in here THEN "GAME" ELSE "GOG"
  BY DEF In!FirstOf
<1>4. here \subseteq {"GAME", "GOG"}
  BY <1>1
<1> HIDE DEF here
<1>5. here # {} => In!FirstOf(T) \in here /\ In!FirstOf(T) # None
  BY <1>2, <1>3, <1>4
<1> QED
  BY <1>1, <1>3, <1>5 DEF here

LEMMA PicksRun ==
  ASSUME Installed, NEW b \in BOOLEAN, NEW x,
         x = (IF by = "gtk" THEN In!GtkPick(b) ELSE In!SdlPick(b)), by # "command"
  PROVE  /\ x \in {None, "GAME", "GOG"}
         /\ (\E d \in In!Range(In!release_scan) : In!Runs(d)) =>
              x # None /\ (~ In!Runs(x) => by = "gtk" /\ (b \/ last.dir = x))
<1> DEFINE scan == In!Range(In!release_scan)
           R == {d \in In!Dirs : In!Runs(d)}
           L == {d \in In!Dirs : In!Runs(d) /\ In!Detect(d).rel = last.rel}
           e == \E d \in scan : In!Runs(d)
           fr == In!FirstRuns
           lp == In!last_pick
<1>1. scan \subseteq {"GAME", "GOG"} /\ None # "GAME" /\ None # "GOG"
  BY FirstOfIs, DiscConstants DEF In!Dirs
<1>2. fr \in {None, "GAME", "GOG"} /\ (fr # None => In!Runs(fr)) /\ (e => fr # None)
  <2>1. fr = In!FirstOf(R)
    BY DEF In!FirstRuns
  <2>2. e => R \cap scan # {}
    BY <1>1 DEF In!Dirs
  <2>3. R \cap scan # {} => fr \in R /\ fr # None
    BY <2>1, FirstOfIs
  <2>4. R \cap scan = {} => fr = None
    BY <2>1, FirstOfIs
  <2> HIDE DEF fr, e, scan
  <2> QED
    BY <2>2, <2>3, <2>4 DEF In!Dirs
<1>3. lp \in {None, "GAME", "GOG"} /\ (lp # None /\ ~ In!Runs(lp) => last.dir = lp)
  <2>1. lp = IF last = None THEN None ELSE IF last.dir \in scan THEN last.dir ELSE In!FirstOf(L)
    BY DEF In!last_pick
  <2>2. In!FirstOf(L) \in {None, "GAME", "GOG"} /\ (In!FirstOf(L) # None => In!Runs(In!FirstOf(L)))
    <3>1. L \cap scan # {} => In!FirstOf(L) \in L /\ In!FirstOf(L) # None
      BY FirstOfIs
    <3>2. L \cap scan = {} => In!FirstOf(L) = None
      BY FirstOfIs
    <3> QED
      BY <3>1, <3>2 DEF In!Dirs
  <2> HIDE DEF lp, scan, L
  <2> QED
    BY <1>1, <2>1, <2>2
<1>4. ASSUME by = "gtk"
      PROVE  /\ x \in {None, "GAME", "GOG"}
             /\ e => x # None /\ (~ In!Runs(x) => b \/ last.dir = x)
  <2>1. x = IF b /\ "GOG" \in scan THEN "GOG"
            ELSE IF lp # None THEN lp
            ELSE IF fr # None THEN fr
            ELSE IF In!release_scan # <<>> THEN In!release_scan[1] ELSE None
    BY <1>4 DEF In!GtkPick
  <2>2. In!release_scan # <<>> => In!release_scan[1] \in {"GAME", "GOG"}
    BY DEF In!release_scan
  <2> HIDE DEF lp, fr, scan, e
  <2> QED
    BY <1>1, <1>2, <1>3, <2>1, <2>2
<1>5. ASSUME by # "gtk"
      PROVE  x \in {None, "GAME", "GOG"} /\ (e => x # None /\ In!Runs(x))
  <2>1. x = IF b /\ In!Runs("GOG") THEN "GOG" ELSE IF lp # None /\ In!Runs(lp) THEN lp ELSE fr
    BY <1>5 DEF In!SdlPick
  <2> HIDE DEF lp, fr, scan, e
  <2> QED
    BY <1>1, <1>2, <1>3, <2>1
<1> QED
  BY <1>4, <1>5

LEMMA PickSteps ==
  ASSUME Installed, In!Pick
  PROVE  Installed'
<1>1. /\ importing = "pick" /\ importing' = "picked"
      /\ sel' = (IF by = "gtk" THEN In!GtkPick(imported) ELSE In!SdlPick(imported))
      /\ UNCHANGED <<folder, dup, gog, work, declined, last, disc, at, by, imported, deaths>>
  BY DEF In!Pick, In!disk, In!import
<1>2. by # "command" /\ imported \in BOOLEAN
  BY <1>1 DEF Installed, Host
<1>3. /\ sel' \in {None, "GAME", "GOG"}
      /\ (\E d \in In!Range(In!release_scan) : In!Runs(d)) =>
           sel' # None /\ (~ In!Runs(sel') => by = "gtk" /\ (imported \/ last.dir = sel'))
  BY <1>1, <1>2, PicksRun
<1>4. In!Range(In!release_scan)' = In!Range(In!release_scan)
  BY <1>1 DEF In!Range, In!release_scan, In!Scanned, In!There, In!FolderOf
<1>5. \A d : In!Runs(d)' <=> In!Runs(d)
  BY <1>1 DEF In!Runs, In!Detect, In!There, In!FolderOf
<1>6. (In!Runs(sel))' <=> In!Runs(sel')
  BY <1>1 DEF In!Runs, In!Detect, In!There, In!FolderOf
<1>7. In!PicksRunnable'
  BY <1>1, <1>3, <1>4, <1>5, <1>6 DEF In!PicksRunnable
<1>8. Host' /\ Leavings' /\ In!NeverHalf'
  BY <1>1, <1>2, <1>3 DEF Installed, Host, Steps, Leavings, In!NeverHalf
<1>9. Copied'
  BY <1>1 DEF Installed, Copied, Working, In!LeftoversCleared
<1> QED
  BY <1>7, <1>8, <1>9 DEF Installed

LEMMA InstallHere == ASSUME In!InstallInit PROVE Installed
<1>1. /\ gog = None /\ work = None /\ importing = "closed" /\ by = "gtk" /\ disc = GogImage
      /\ at = 0 /\ sel = None /\ ~ imported /\ imported \in BOOLEAN /\ deaths = 0
  BY DEF In!InstallInit
<1>2. Host /\ Leavings /\ In!NeverHalf /\ In!PicksRunnable
  BY <1>1, DiscConstants DEF Host, Steps, Leavings, In!NeverHalf, In!PicksRunnable
<1>3. Copied
  BY <1>1, DiscConstants DEF Copied, Working, In!LeftoversCleared
<1> QED
  BY <1>2, <1>3 DEF Installed

LEMMA InstallStep == ASSUME Installed, [In!InstallNext]_(In!ivars) PROVE Installed'
<1>1. CASE UNCHANGED In!ivars
  <2>1. UNCHANGED <<folder, dup, gog, work, declined, last, importing, by, disc, at, sel, imported,
                    deaths>>
    BY <1>1 DEF In!ivars
  <2>2. Host' /\ Leavings' /\ In!NeverHalf'
    BY <2>1 DEF Installed, Host, Leavings, In!NeverHalf
  <2>3. Copied'
    BY <2>1 DEF Installed, Copied, Working, In!LeftoversCleared, First
  <2>4. In!PicksRunnable'
    BY <2>1 DEF Installed, In!PicksRunnable, In!Range, In!release_scan, In!Scanned, In!There,
                In!FolderOf, In!Runs, In!Detect
  <2> QED
    BY <2>2, <2>3, <2>4 DEF Installed
<1>2. CASE In!InstallNext
  BY <1>2, StartSteps, ClearSteps, CopySteps, RenameSteps, CrashSteps, PickSteps, UserSteps
     DEF In!InstallNext
<1> QED
  BY <1>1, <1>2

LEMMA StandingStays ==
  ASSUME In!Importing
  PROVE  folder' = folder /\ (gog \in {None, In!Emptied} \/ gog' = gog)
  BY DEF In!Importing, In!List, In!Clear, In!Mkdir, In!Copy, In!Rename, In!Refuses, In!disk

(***************************************************************************)
(* The window that lists the recordings (module Replays), for any          *)
(* recordings and any number of games.                                     *)
(***************************************************************************)

\* The window, the box over it and the list's rows are records, whatever they
\* hold.
IsBox(b) == b = [kind |-> b.kind, rows |-> b.rows, named |-> b.named, stale |-> b.stale]
IsRow(r) == r = [file |-> r.file, hd |-> r.hd, uploading |-> r.uploading, sub |-> r.sub]
IsList(x) == x = [i \in DOMAIN x |-> x[i]] /\ \A i \in DOMAIN x : IsRow(x[i])
IsWindow(w) ==
  /\ w = [open |-> w.open, it |-> w.it, sel |-> w.sel, cur |-> w.cur, subs |-> w.subs,
          listing |-> w.listing, box |-> w.box]
  /\ IsBox(w.box)
  /\ IsList(w.it)

\* A list of the same files with the same headers; and the same window but for
\* the marks on its rows, where the cursor is and what the server answered.
SameFiles(a, b) ==
  DOMAIN a = DOMAIN b /\ \A i \in DOMAIN a : a[i].file = b[i].file /\ a[i].hd = b[i].hd
SameWindow(a, b) ==
  IsWindow(a) /\ a.open = b.open /\ a.box = b.box /\ SameFiles(a.it, b.it)

\* A window of the same list and box.
SameBut(w, v) == IsWindow(v) /\ v.open = w.open /\ v.box = w.box /\ v.it = w.it

\* The list is the directory's.
Current(w, order, on) ==
  /\ DOMAIN w.it = DOMAIN order
  /\ \A i \in DOMAIN w.it : w.it[i].file = order[i] /\ w.it[i].hd = on[order[i]]

\* The game and its file, and what the boxes hold of the list while it runs.
Game ==
  /\ dir \in [Recordings -> {"absent", "open"} \cup Re!Outcomes]
  /\ child \in Recordings \cup {None} /\ (child = None <=> run = "none")
  /\ run \in {"none", "starting", "writing", "ended"}
  /\ run = "writing" => dir[child] # "absent"
  /\ finished \in Recordings \cup {None} /\ (finished # None => dir[finished] # "absent")
Fits(b) ==
  /\ ~ b.stale
  /\ \A i \in b.rows \cap DOMAIN win.it : win.it[i].file # child
  /\ b.kind = "login" => b.rows \subseteq DOMAIN win.it
Box ==
  /\ win.box.kind # "none" => win.open
  /\ win.box.kind # "none" /\ child # None => Fits(win.box)
Listed ==
  Game /\ IsWindow(win) /\ Box /\ (win.open /\ child = None => Current(win, newest, dir))

LEMMA WindowFields ==
  ASSUME NEW w, IsWindow(w)
  PROVE  /\ \A x : [w EXCEPT !.it = x].it = x /\ [w EXCEPT !.it = x].box = w.box
                   /\ [w EXCEPT !.it = x].open = w.open
         /\ IsBox(w.box)
         /\ \A i \in DOMAIN w.it : IsRow(w.it[i])
  BY DEF IsWindow, IsList

\* What a step that writes one of the window's fields leaves.
LEMMA WindowWith ==
  ASSUME NEW w, IsWindow(w), NEW x
  PROVE  /\ SameBut(w, [w EXCEPT !.sel = x]) /\ [w EXCEPT !.sel = x].sel = x
         /\ SameBut(w, [w EXCEPT !.cur = x]) /\ [w EXCEPT !.cur = x].sel = w.sel
         /\ SameBut(w, [w EXCEPT !.subs = x])
         /\ SameBut(w, [w EXCEPT !.listing = x])
         /\ IsBox(x) => LET v == [w EXCEPT !.box = x] IN
                        IsWindow(v) /\ v.open = w.open /\ v.box = x /\ v.it = w.it
         /\ IsList(x) => LET v == [w EXCEPT !.it = x] IN
                   IsWindow(v) /\ v.open = w.open /\ v.box = w.box /\ v.it = x
<1> DEFINE Lit(v) == [open |-> v.open, it |-> v.it, sel |-> v.sel, cur |-> v.cur, subs |-> v.subs,
                      listing |-> v.listing, box |-> v.box]
<1>1. w = Lit(w)
  BY DEF IsWindow
<1>2. /\ IsBox(w.box)
      /\ IsList(w.it)
  BY DEF IsWindow
<1>3. SameBut(w, [w EXCEPT !.sel = x]) /\ [w EXCEPT !.sel = x].sel = x
  <2> DEFINE v == [w EXCEPT !.sel = x]
  <2>1. v = Lit(v) /\ v.open = w.open /\ v.box = w.box /\ v.it = w.it /\ v.sel = x
    BY <1>1
  <2> HIDE DEF v
  <2>2. SameBut(w, v)
    BY <1>2, <2>1 DEF IsWindow, SameBut
  <2> QED
    BY <2>1, <2>2 DEF v
<1>4. SameBut(w, [w EXCEPT !.cur = x]) /\ [w EXCEPT !.cur = x].sel = w.sel
  <2> DEFINE v == [w EXCEPT !.cur = x]
  <2>1. v = Lit(v) /\ v.open = w.open /\ v.box = w.box /\ v.it = w.it /\ v.sel = w.sel
    BY <1>1
  <2> HIDE DEF v
  <2>2. SameBut(w, v)
    BY <1>2, <2>1 DEF IsWindow, SameBut
  <2> QED
    BY <2>1, <2>2 DEF v
<1>5. SameBut(w, [w EXCEPT !.subs = x])
  <2> DEFINE v == [w EXCEPT !.subs = x]
  <2>1. v = Lit(v) /\ v.open = w.open /\ v.box = w.box /\ v.it = w.it
    BY <1>1
  <2> HIDE DEF v
  <2>2. SameBut(w, v)
    BY <1>2, <2>1 DEF IsWindow, SameBut
  <2> QED
    BY <2>1, <2>2 DEF v
<1>6. SameBut(w, [w EXCEPT !.listing = x])
  <2> DEFINE v == [w EXCEPT !.listing = x]
  <2>1. v = Lit(v) /\ v.open = w.open /\ v.box = w.box /\ v.it = w.it
    BY <1>1
  <2> HIDE DEF v
  <2>2. SameBut(w, v)
    BY <1>2, <2>1 DEF IsWindow, SameBut
  <2> QED
    BY <2>1, <2>2 DEF v
<1>7. ASSUME IsBox(x)
      PROVE  LET v == [w EXCEPT !.box = x] IN
             IsWindow(v) /\ v.open = w.open /\ v.box = x /\ v.it = w.it
  <2> DEFINE v == [w EXCEPT !.box = x]
  <2>1. v = Lit(v) /\ v.open = w.open /\ v.box = x /\ v.it = w.it
    BY <1>1
  <2> HIDE DEF v
  <2>2. IsWindow(v)
    BY <1>2, <1>7, <2>1 DEF IsWindow
  <2> QED
    BY <2>1, <2>2 DEF v
<1>8. ASSUME IsList(x)
      PROVE  LET v == [w EXCEPT !.it = x] IN
             IsWindow(v) /\ v.open = w.open /\ v.box = w.box /\ v.it = x
  <2> DEFINE v == [w EXCEPT !.it = x]
  <2>1. v = Lit(v) /\ v.open = w.open /\ v.box = w.box /\ v.it = x
    BY <1>1
  <2> HIDE DEF v
  <2>2. IsWindow(v)
    BY <1>2, <1>8, <2>1 DEF IsWindow
  <2> QED
    BY <2>1, <2>2 DEF v
<1> QED
  BY <1>3, <1>4, <1>5, <1>6, <1>7, <1>8

\* Two of them at once.
LEMMA WindowTwice ==
  ASSUME NEW w, IsWindow(w), NEW x, NEW y
  PROVE  /\ SameBut(w, [w EXCEPT !.sel = x, !.cur = y])
         /\ SameBut(w, [w EXCEPT !.cur = x, !.sel = y])
<1>1. /\ [w EXCEPT !.sel = x, !.cur = y] = [[w EXCEPT !.sel = x] EXCEPT !.cur = y]
      /\ [w EXCEPT !.cur = x, !.sel = y] = [[w EXCEPT !.cur = x] EXCEPT !.sel = y]
  OBVIOUS
<1> DEFINE s == [w EXCEPT !.sel = x]  c == [w EXCEPT !.cur = x]
<1>2. SameBut(w, s) /\ SameBut(w, c)
  BY WindowWith
<1> HIDE DEF s, c
<1>3. SameBut(s, [s EXCEPT !.cur = y]) /\ SameBut(c, [c EXCEPT !.sel = y])
  BY <1>2, WindowWith DEF SameBut
<1>4. SameBut(w, [s EXCEPT !.cur = y]) /\ SameBut(w, [c EXCEPT !.sel = y])
  BY <1>2, <1>3 DEF SameBut
<1> QED
  BY <1>1, <1>4 DEF s, c

\* What rl_sync and rl_match leave of a row.
LEMMA RowWith ==
  ASSUME NEW r, IsRow(r), NEW x
  PROVE  /\ LET v == [r EXCEPT !.uploading = x] IN IsRow(v) /\ v.file = r.file /\ v.hd = r.hd
         /\ LET v == [r EXCEPT !.sub = x] IN IsRow(v) /\ v.file = r.file /\ v.hd = r.hd
<1> DEFINE Lit(v) == [file |-> v.file, hd |-> v.hd, uploading |-> v.uploading, sub |-> v.sub]
<1>1. r = Lit(r)
  BY DEF IsRow
<1> DEFINE u == [r EXCEPT !.uploading = x]  m == [r EXCEPT !.sub = x]
<1>2. u = Lit(u) /\ u.file = r.file /\ u.hd = r.hd
  BY <1>1
<1>3. m = Lit(m) /\ m.file = r.file /\ m.hd = r.hd
  BY <1>1
<1> HIDE DEF u, m
<1>4. IsRow(u) /\ IsRow(m)
  BY <1>2, <1>3 DEF IsRow
<1> QED
  BY <1>2, <1>3, <1>4 DEF u, m

\* A window whose list is replaced by one of the same files.
LEMMA SameList ==
  ASSUME NEW w, IsWindow(w), NEW x, IsList(x), SameFiles(x, w.it)
  PROVE  SameWindow([w EXCEPT !.it = x], w)
<1>1. LET v == [w EXCEPT !.it = x] IN IsWindow(v) /\ v.open = w.open /\ v.box = w.box /\ v.it = x
  BY WindowWith
<1> DEFINE v == [w EXCEPT !.it = x]
<1>2. IsWindow(v) /\ v.open = w.open /\ v.box = w.box /\ v.it = x
  BY <1>1
<1> HIDE DEF v
<1>3. SameWindow(v, w)
  BY <1>2 DEF SameWindow
<1> QED
  BY <1>3 DEF v

LEMMA SyncedIs ==
  ASSUME NEW w, IsWindow(w)
  PROVE  SameWindow(Re!Synced(w), w)
<1> DEFINE x == [i \in DOMAIN w.it |-> [w.it[i] EXCEPT !.uploading = FALSE]]
<1>1. \A i \in DOMAIN w.it : IsRow(w.it[i])
  BY DEF IsWindow, IsList
<1>2. \A i \in DOMAIN w.it : IsRow(x[i]) /\ x[i].file = w.it[i].file /\ x[i].hd = w.it[i].hd
  <2> TAKE i \in DOMAIN w.it
  <2>1. x[i] = [w.it[i] EXCEPT !.uploading = FALSE]
    OBVIOUS
  <2> DEFINE r == w.it[i]
  <2>2. LET v == [r EXCEPT !.uploading = FALSE] IN IsRow(v) /\ v.file = r.file /\ v.hd = r.hd
    BY <1>1, RowWith
  <2> QED
    BY <2>1, <2>2
<1>3. DOMAIN x = DOMAIN w.it /\ x = [i \in DOMAIN x |-> x[i]]
  OBVIOUS
<1>4. Re!Synced(w) = [w EXCEPT !.it = x]
  BY DEF Re!Synced
<1> HIDE DEF x
<1>7. IsList(x)
  BY <1>2, <1>3 DEF IsList
<1>5. SameFiles(x, w.it)
  BY <1>2, <1>3 DEF SameFiles
<1>6. SameWindow([w EXCEPT !.it = x], w)
  BY <1>7, <1>5, SameList
<1> QED
  BY <1>4, <1>6

LEMMA FillIs ==
  ASSUME NEW w, IsWindow(w), NEW f
  PROVE  SameBut(w, Re!Fill(w, f))
<1> DEFINE A == {i \in DOMAIN w.it : w.it[i].file = f}
           j == IF A # {} THEN CHOOSE k \in A : TRUE ELSE IF 1 \in DOMAIN w.it THEN 1 ELSE 0
           S == {j} \ {0}
<1>1. Re!Fill(w, f) = [w EXCEPT !.cur = j, !.sel = S]
  BY DEF Re!Fill
<1> HIDE DEF j, S
<1>2. SameBut(w, [w EXCEPT !.cur = j, !.sel = S])
  BY WindowTwice
<1> QED
  BY <1>1, <1>2

LEMMA RequestIs ==
  ASSUME NEW w, IsWindow(w), NEW out, NEW logged
  PROVE  SameBut(w, Re!Request(w, out, logged)[1])
<1> DEFINE Skip == ~w.open \/ w.listing \/ ~logged \/ Len(out) = MaxLists
<1>0. SameBut(w, w)
  BY DEF SameBut
<1>1. CASE Skip
  <2>1. Re!Request(w, out, logged) = <<w, out>>
    BY <1>1 DEF Re!Request
  <2> QED
    BY <2>1, <1>0
<1>2. CASE ~ Skip
  <2>1. Re!Request(w, out, logged)[1] = [w EXCEPT !.listing = TRUE]
    BY <1>2 DEF Re!Request
  <2>2. \A x : SameBut(w, [w EXCEPT !.listing = x])
    BY WindowWith
  <2>3. SameBut(w, [w EXCEPT !.listing = TRUE])
    BY <2>2
  <2> QED
    BY <2>1, <2>3
<1> QED
  BY <1>1, <1>2

LEMMA SameIs ==
  ASSUME NEW w, NEW u, NEW v
  PROVE  /\ IsWindow(w) => SameWindow(w, w)
         /\ SameBut(w, v) => SameWindow(v, w) /\ IsWindow(v)
         /\ SameWindow(u, w) /\ SameBut(u, v) => SameWindow(v, w)
         /\ SameWindow(u, w) /\ SameWindow(v, u) => SameWindow(v, w)
         /\ SameWindow(u, w) => IsWindow(u)
  BY DEF SameWindow, SameBut, SameFiles

LEMMA ScannedIs ==
  ASSUME NEW order, NEW on, NEW subs, NEW writing
  PROVE  LET x == Re!Scanned(order, on, subs, writing) IN
         /\ IsList(x) /\ DOMAIN x = DOMAIN order
         /\ \A i \in DOMAIN order : x[i].file = order[i] /\ x[i].hd = on[order[i]]
<1> DEFINE x == Re!Scanned(order, on, subs, writing)
<1>1. x = [i \in DOMAIN order |->
             [file |-> order[i], hd |-> on[order[i]], uploading |-> FALSE,
              sub |-> order[i] \in subs /\ order[i] # writing]]
  BY DEF Re!Scanned
<1>2. DOMAIN x = DOMAIN order
  BY <1>1
<1>3. x = [i \in DOMAIN x |-> x[i]]
  BY <1>1
<1>4. ASSUME NEW i \in DOMAIN order
      PROVE  IsRow(x[i]) /\ x[i].file = order[i] /\ x[i].hd = on[order[i]]
  <2> DEFINE B == order[i] \in subs /\ order[i] # writing
  <2>1. x[i] = [file |-> order[i], hd |-> on[order[i]], uploading |-> FALSE, sub |-> B]
    BY <1>1
  <2> HIDE DEF B, x
  <2> QED
    BY <2>1 DEF IsRow
<1> HIDE DEF x
<1>5. IsList(x)
  BY <1>2, <1>3, <1>4 DEF IsList
<1> QED
  BY <1>2, <1>4, <1>5 DEF x

LEMMA ListWith ==
  ASSUME NEW w, IsWindow(w), NEW x, IsList(x), NEW v, v = [w EXCEPT !.it = x]
  PROVE  IsWindow(v) /\ v.open = w.open /\ v.box = w.box /\ v.it = x
<1>1. LET z == [w EXCEPT !.it = x] IN IsWindow(z) /\ z.open = w.open /\ z.box = w.box /\ z.it = x
  BY WindowWith
<1> QED
  BY <1>1

\* A window with the list just read: what Rescan, Open and DeleteYes show.
LEMMA ReadAnew ==
  ASSUME NEW w, IsWindow(w), NEW order, NEW on, NEW subs, NEW writing, NEW f, NEW b, IsBox(b),
         NEW v, v = [w EXCEPT !.it = Re!Scanned(order, on, subs, writing), !.box = b]
  PROVE  /\ IsWindow(Re!Fill(v, f)) /\ Re!Fill(v, f).box = b /\ Re!Fill(v, f).open = w.open
         /\ Current(Re!Fill(v, f), order, on)
<1> DEFINE x == Re!Scanned(order, on, subs, writing)
           u == [w EXCEPT !.it = x]
<1>1. IsList(x) /\ DOMAIN x = DOMAIN order
      /\ \A i \in DOMAIN order : x[i].file = order[i] /\ x[i].hd = on[order[i]]
  BY ScannedIs
<1>2. v = [u EXCEPT !.box = b]
  <2> HIDE DEF x
  <2>1. v = [w EXCEPT !.it = x, !.box = b]
    BY DEF x
  <2>2. [w EXCEPT !.it = x, !.box = b] = [[w EXCEPT !.it = x] EXCEPT !.box = b]
    OBVIOUS
  <2> QED
    BY <2>1, <2>2
<1> HIDE DEF x
<1>3. u = [w EXCEPT !.it = x]
  OBVIOUS
<1> HIDE DEF u
<1>4. IsWindow(u) /\ u.open = w.open /\ u.box = w.box /\ u.it = x
  BY <1>1, <1>3, ListWith
<1>5. LET z == [u EXCEPT !.box = b] IN IsWindow(z) /\ z.open = u.open /\ z.box = b /\ z.it = u.it
  BY <1>4, WindowWith
<1>6. IsWindow(v) /\ v.open = w.open /\ v.box = b /\ v.it = x
  BY <1>2, <1>4, <1>5
<1>7. SameBut(v, Re!Fill(v, f))
  BY <1>6, FillIs
<1> QED
  BY <1>1, <1>6, <1>7 DEF SameBut, Current

LEMMA BoxWith ==
  ASSUME NEW b, IsBox(b), NEW x
  PROVE  IsBox([b EXCEPT !.stale = x])
<1> DEFINE Lit(v) == [kind |-> v.kind, rows |-> v.rows, named |-> v.named, stale |-> v.stale]
           u == [b EXCEPT !.stale = x]
<1>1. b = Lit(b)
  BY DEF IsBox
<1>2. u = Lit(u)
  BY <1>1
<1> HIDE DEF u
<1>3. IsBox(u)
  BY <1>2 DEF IsBox
<1> QED
  BY <1>3 DEF u

LEMMA RescanIs ==
  ASSUME NEW w, IsWindow(w), w.open, NEW order, NEW on, NEW writing
  PROVE  LET v == Re!Rescan(w, order, on, writing) IN
         IsWindow(v) /\ v.open /\ Current(v, order, on)
<1> DEFINE b == [w.box EXCEPT !.stale = TRUE]
           f == Re!FileAt(w, Re!Selected(w))
           x == Re!Scanned(order, on, w.subs, writing)
           v == [w EXCEPT !.it = x, !.box = b]
<1>1. Re!Rescan(w, order, on, writing) = Re!Fill(v, f)
  BY DEF Re!Rescan
<1>2. IsBox(b)
  <2>1. \A z : IsBox([w.box EXCEPT !.stale = z])
    BY BoxWith DEF IsWindow
  <2> QED
    BY <2>1
<1> HIDE DEF b, f
<1>3. /\ IsWindow(Re!Fill(v, f)) /\ Re!Fill(v, f).open = w.open
      /\ Current(Re!Fill(v, f), order, on)
  BY <1>2, ReadAnew
<1> QED
  BY <1>1, <1>3

LEMMA NoWindowIs ==
  /\ IsWindow(Re!NoWindow) /\ ~ Re!NoWindow.open /\ Re!NoWindow.box.kind = "none"
  /\ IsBox(Re!NoBox) /\ Re!NoBox.kind = "none"
<1>1. IsBox(Re!NoBox) /\ Re!NoBox.kind = "none"
  BY DEF IsBox, Re!NoBox
<1>2. IsList(<<>>)
  BY DEF IsList
<1>3. /\ Re!NoWindow = [open |-> FALSE, it |-> <<>>, sel |-> {}, cur |-> 0, subs |-> {},
                        listing |-> FALSE, box |-> Re!NoBox]
  BY DEF Re!NoWindow
<1> QED
  BY <1>1, <1>2, <1>3 DEF IsWindow

\* Starts marks a row and takes the box away.
LEMMA StartsIs ==
  ASSUME NEW w, IsWindow(w), NEW x, Re!Starts(w, x)
  PROVE  /\ IsWindow(win') /\ win'.open = w.open /\ win'.box = Re!NoBox /\ SameFiles(win'.it, w.it)
         /\ upload' = w.it[x].file
<1> DEFINE r == [w.it[x] EXCEPT !.uploading = TRUE]
           y == [w.it EXCEPT ![x] = r]
           u == [w EXCEPT !.it = y]
<1>1. \A i \in DOMAIN w.it : IsRow(w.it[i])
  BY WindowFields
<1>2. ASSUME x \in DOMAIN w.it
      PROVE  IsRow(r) /\ r.file = w.it[x].file /\ r.hd = w.it[x].hd
  <2> DEFINE q == w.it[x]
  <2>1. IsRow(q)
    BY <1>1, <1>2
  <2> HIDE DEF q
  <2>2. \A z : LET v == [q EXCEPT !.uploading = z] IN IsRow(v) /\ v.file = q.file /\ v.hd = q.hd
    BY <2>1, RowWith
  <2>3. LET v == [q EXCEPT !.uploading = TRUE] IN IsRow(v) /\ v.file = q.file /\ v.hd = q.hd
    BY <2>2
  <2> QED
    BY <2>3 DEF q
<1>3. win' = [[w EXCEPT !.it = y] EXCEPT !.box = Re!NoBox] /\ upload' = w.it[x].file
  BY DEF Re!Starts
<1> HIDE DEF r
<1>4. DOMAIN y = DOMAIN w.it /\ y = [i \in DOMAIN y |-> y[i]]
      /\ \A i \in DOMAIN w.it : y[i] = IF i = x THEN r ELSE w.it[i]
  <2>1. w.it = [i \in DOMAIN w.it |-> w.it[i]]
    BY DEF IsWindow, IsList
  <2> QED
    BY <2>1
<1> HIDE DEF y
<1>5. IsList(y) /\ SameFiles(y, w.it)
  BY <1>1, <1>2, <1>4 DEF IsList, SameFiles
<1>6. IsWindow(u) /\ u.open = w.open /\ u.box = w.box /\ u.it = y
  BY <1>5, ListWith
<1>7. win' = [u EXCEPT !.box = Re!NoBox]
  BY <1>3
<1> HIDE DEF u
<1>8. IsBox(Re!NoBox)
  BY NoWindowIs
<1>9. LET v == [u EXCEPT !.box = Re!NoBox] IN
      IsWindow(v) /\ v.open = u.open /\ v.box = Re!NoBox /\ v.it = u.it
  BY <1>6, <1>8, WindowWith
<1> QED
  BY <1>3, <1>5, <1>6, <1>7, <1>9

LEMMA BoxSet ==
  ASSUME NEW w, IsWindow(w), NEW b, IsBox(b), NEW v, v = [w EXCEPT !.box = b]
  PROVE  IsWindow(v) /\ v.open = w.open /\ v.box = b /\ v.it = w.it
<1>1. LET z == [w EXCEPT !.box = b] IN IsWindow(z) /\ z.open = w.open /\ z.box = b /\ z.it = w.it
  BY WindowWith
<1> QED
  BY <1>1

LEMMA MatchedIs ==
  ASSUME NEW x, IsList(x), NEW subs
  PROVE  IsList(Re!Matched(x, subs)) /\ SameFiles(Re!Matched(x, subs), x)
<1> DEFINE y == Re!Matched(x, subs)
<1>1. y = [k \in DOMAIN x |-> [x[k] EXCEPT !.sub = x[k].file \in subs /\ ~ Re!rl_busy(x[k].file)]]
  BY DEF Re!Matched
<1>2. DOMAIN y = DOMAIN x /\ y = [i \in DOMAIN y |-> y[i]]
  BY <1>1
<1>3. ASSUME NEW i \in DOMAIN x
      PROVE  IsRow(y[i]) /\ y[i].file = x[i].file /\ y[i].hd = x[i].hd
  <2> DEFINE r == x[i]
             B == x[i].file \in subs /\ ~ Re!rl_busy(x[i].file)
  <2>1. y[i] = [r EXCEPT !.sub = B]
    BY <1>1
  <2>2. IsRow(r)
    BY DEF IsList
  <2> HIDE DEF B
  <2>3. \A z : LET v == [r EXCEPT !.sub = z] IN IsRow(v) /\ v.file = r.file /\ v.hd = r.hd
    <3> HIDE DEF r
    <3> QED
      BY <2>2, RowWith
  <2> HIDE DEF r
  <2>4. LET v == [r EXCEPT !.sub = B] IN IsRow(v) /\ v.file = r.file /\ v.hd = r.hd
    BY <2>3
  <2>5. IsRow(y[i]) /\ y[i].file = r.file /\ y[i].hd = r.hd
    BY <2>1, <2>4
  <2> QED
    BY <2>5 DEF r
<1> HIDE DEF y
<1>4. IsList(y)
  BY <1>2, <1>3 DEF IsList
<1>5. SameFiles(y, x)
  BY <1>2, <1>3 DEF SameFiles
<1> QED
  BY <1>4, <1>5 DEF y

\* The server's answer, written into the window.
LEMMA AnswerIs ==
  ASSUME NEW w, IsWindow(w), NEW subs, NEW x
  PROVE  SameWindow([w EXCEPT !.listing = x, !.subs = subs, !.it = Re!Matched(@, subs)], w)
<1> DEFINE y == Re!Matched(w.it, subs)
           a == [w EXCEPT !.listing = x]
           c == [a EXCEPT !.subs = subs]
           v == [c EXCEPT !.it = y]
<1>1. IsList(y) /\ SameFiles(y, w.it)
  BY MatchedIs DEF IsWindow
<1>2. [w EXCEPT !.listing = x, !.subs = subs, !.it = Re!Matched(@, subs)] = v
  <2> HIDE DEF y
  <2>1. \A z : [w EXCEPT !.listing = x, !.subs = subs, !.it = z]
                 = [[[w EXCEPT !.listing = x] EXCEPT !.subs = subs] EXCEPT !.it = z]
    OBVIOUS
  <2>2. [w EXCEPT !.listing = x, !.subs = subs, !.it = Re!Matched(@, subs)]
          = [w EXCEPT !.listing = x, !.subs = subs, !.it = Re!Matched(w.it, subs)]
    OBVIOUS
  <2> QED
    BY <2>1, <2>2 DEF y
<1> HIDE DEF y
<1>3. SameBut(w, a)
  BY WindowWith
<1> HIDE DEF a
<1>4. SameBut(a, c)
  <2>1. IsWindow(a)
    BY <1>3 DEF SameBut
  <2> QED
    BY <2>1, WindowWith
<1>5. SameBut(w, c)
  BY <1>3, <1>4 DEF SameBut
<1> HIDE DEF c
<1>6. IsWindow(v) /\ v.open = c.open /\ v.box = c.box /\ v.it = y
  <2>1. IsWindow(c)
    BY <1>5 DEF SameBut
  <2> QED
    BY <1>1, <2>1, ListWith
<1> HIDE DEF v
<1>7. SameWindow(v, w)
  BY <1>1, <1>5, <1>6 DEF SameBut, SameWindow
<1> QED
  BY <1>2, <1>7

\* A step that leaves the files, the game and what the boxes hold as they were.
LEMMA Quiet ==
  ASSUME Listed, UNCHANGED <<dir, newest, child, run>>, finished' = finished \/ finished' = None,
         IsWindow(win'), win'.open = win.open, SameFiles(win'.it, win.it),
         win'.box = win.box \/ win'.box = Re!NoBox
  PROVE  Listed'
<1>1. Game'
  BY DEF Listed, Game
<1>2. Box'
  BY NoWindowIs DEF Listed, Box, Fits, SameFiles
<1>3. (win.open /\ child = None => Current(win, newest, dir))'
  BY DEF Listed, Current, SameFiles
<1> QED
  BY <1>1, <1>2, <1>3 DEF Listed

LEMMA QuietWindow ==
  ASSUME Listed, UNCHANGED <<dir, newest, child, run>>, finished' = finished \/ finished' = None,
         SameWindow(win', win)
  PROVE  Listed'
  BY Quiet DEF SameWindow

LEMMA GameStartsListed ==
  ASSUME Listed, NEW f \in Recordings, Re!GameStarts(f)
  PROVE  Listed'
<1>1. f # None
  BY PartsAssumption DEF Re!Constants
<1>2. Game'
  BY <1>1 DEF Listed, Game, Re!GameStarts
<1>3. Box'
  BY DEF Listed, Box, Re!GameStarts
<1> QED
  BY <1>1, <1>2, <1>3 DEF Listed, Re!GameStarts

LEMMA GameWritesListed ==
  ASSUME Listed, Re!GameWrites
  PROVE  Listed'
<1>1. child \in Recordings /\ child # None
  BY DEF Listed, Game, Re!GameWrites
<1>2. Game'
  BY <1>1 DEF Listed, Game, Re!GameWrites
<1>3. SameWindow(win', win)
  <2> DEFINE z == win.subs \ {child}
  <2>1. win' = [win EXCEPT !.subs = z]
    BY DEF Re!GameWrites
  <2> HIDE DEF z
  <2>2. SameBut(win, [win EXCEPT !.subs = z])
    BY WindowWith DEF Listed
  <2> QED
    BY <2>1, <2>2, SameIs
<1>4. Box'
  BY <1>3 DEF Listed, Box, Fits, SameWindow, SameFiles, Re!GameWrites
<1> QED
  BY <1>1, <1>2, <1>3, <1>4 DEF Listed, SameWindow, Re!GameWrites

LEMMA GameEndsListed ==
  ASSUME Listed, NEW o \in Re!Outcomes, Re!GameEnds(o)
  PROVE  Listed'
<1>1. child \in Recordings /\ child # None
  BY DEF Listed, Game, Re!GameEnds
<1>2. o # "absent"
  BY DEF Re!Outcomes
<1>3. Game'
  BY <1>1, <1>2 DEF Listed, Game, Re!GameEnds
<1>4. Box'
  BY DEF Listed, Box, Fits, Re!GameEnds
<1> QED
  BY <1>1, <1>3, <1>4 DEF Listed, Re!GameEnds

LEMMA ChildExitedListed ==
  ASSUME Listed, Re!ChildExited
  PROVE  Listed'
<1>1. child \in Recordings /\ child # None
  BY DEF Listed, Game, Re!ChildExited
<1>2. Game'
  BY <1>1 DEF Listed, Game, Re!ChildExited
<1>3. CASE win.open
  <2>1. IsWindow(win') /\ win'.open /\ Current(win', newest, dir)
    BY <1>3, RescanIs DEF Listed, Re!ChildExited
  <2> QED
    BY <1>2, <2>1 DEF Listed, Box, Re!ChildExited
<1>4. CASE ~ win.open
  <2>1. win' = win
    BY <1>4 DEF Re!ChildExited, Re!Rescan
  <2> QED
    BY <1>2, <1>4, <2>1 DEF Listed, Box, Re!ChildExited
<1> QED
  BY <1>3, <1>4

LEMMA OpenWith ==
  ASSUME NEW w, IsWindow(w), NEW x
  PROVE  LET v == [w EXCEPT !.open = x] IN IsWindow(v) /\ v.open = x /\ v.box = w.box
<1> DEFINE Lit(v) == [open |-> v.open, it |-> v.it, sel |-> v.sel, cur |-> v.cur, subs |-> v.subs,
                      listing |-> v.listing, box |-> v.box]
           v == [w EXCEPT !.open = x]
<1>1. w = Lit(w)
  BY DEF IsWindow
<1>2. IsBox(w.box) /\ IsList(w.it)
  BY DEF IsWindow
<1>3. v = Lit(v) /\ v.open = x /\ v.box = w.box /\ v.it = w.it
  BY <1>1
<1> HIDE DEF v
<1>4. IsWindow(v)
  BY <1>2, <1>3 DEF IsWindow
<1> QED
  BY <1>3, <1>4 DEF v

LEMMA OpenedIs ==
  ASSUME NEW u, u = [Re!NoWindow EXCEPT !.open = TRUE]
  PROVE  IsWindow(u) /\ u.open /\ u.box = Re!NoBox
<1>1. \A x : LET v == [Re!NoWindow EXCEPT !.open = x] IN
             IsWindow(v) /\ v.open = x /\ v.box = Re!NoWindow.box
  BY OpenWith, NoWindowIs
<1>2. IsWindow(u) /\ u.open = TRUE /\ u.box = Re!NoWindow.box
  BY <1>1
<1> QED
  BY <1>2 DEF Re!NoWindow

LEMMA OpenListed ==
  ASSUME Listed, Re!Open
  PROVE  Listed'
<1> DEFINE x == Re!Scanned(newest, dir, {}, child)
           v == [Re!NoWindow EXCEPT !.open = TRUE, !.it = x]
           u == [Re!NoWindow EXCEPT !.open = TRUE]
           w == Re!Fill(v, None)
           Lit(z) == [open |-> z.open, it |-> z.it, sel |-> z.sel, cur |-> z.cur, subs |-> z.subs,
                      listing |-> z.listing, box |-> z.box]
<1>1. IsList(x) /\ DOMAIN x = DOMAIN newest
      /\ \A i \in DOMAIN newest : x[i].file = newest[i] /\ x[i].hd = dir[newest[i]]
  BY ScannedIs
<1>2. win' = Re!Request(w, lists, token)[1]
  BY DEF Re!Open, Re!Ask
<1>3. v = [u EXCEPT !.it = x]
  <2> HIDE DEF x
  <2> QED
    OBVIOUS
<1>11. u = [Re!NoWindow EXCEPT !.open = TRUE]
  OBVIOUS
<1> HIDE DEF x, v, u
<1>12. IsWindow(u) /\ u.open /\ u.box = Re!NoBox
  BY <1>11, OpenedIs
<1>4. IsWindow(v) /\ v.open /\ v.it = x /\ v.box = Re!NoBox
  <2>0. IsWindow(u) /\ IsList(x)
    BY <1>1, <1>12
  <2>1. IsWindow(v) /\ v.open = u.open /\ v.box = u.box /\ v.it = x
    BY <2>0, <1>3, ListWith
  <2> QED
    BY <1>12, <2>1
<1>5. SameBut(v, w)
  BY <1>4, FillIs
<1> HIDE DEF w
<1>6. SameBut(w, win')
  BY <1>2, <1>5, RequestIs DEF SameBut
<1>7. IsWindow(win') /\ win'.open /\ win'.it = x /\ win'.box = Re!NoBox
  BY <1>4, <1>5, <1>6 DEF SameBut
<1>8. Game'
  BY DEF Listed, Game, Re!Open
<1>9. Box'
  BY <1>7, NoWindowIs DEF Box
<1>10. (win.open /\ child = None => Current(win, newest, dir))'
  BY <1>1, <1>7 DEF Current, Re!Open
<1> QED
  BY <1>7, <1>8, <1>9, <1>10 DEF Listed

LEMMA CloseListed ==
  ASSUME Listed, Re!Close
  PROVE  Listed'
<1>1. Game'
  BY DEF Listed, Game, Re!Close
<1>2. IsWindow(win') /\ ~ win'.open /\ Box'
  BY NoWindowIs DEF Box, Re!Close
<1> QED
  BY <1>1, <1>2 DEF Listed

LEMMA SelectListed ==
  ASSUME Listed, NEW S, NEW i, Re!Select(S, i)
  PROVE  Listed'
<1> DEFINE y == Re!Selected([win EXCEPT !.sel = S, !.cur = i])
<1>1. win' = [win EXCEPT !.sel = S, !.cur = y]
  BY DEF Re!Select
<1> HIDE DEF y
<1>2. SameBut(win, [win EXCEPT !.sel = S, !.cur = y])
  BY WindowTwice DEF Listed
<1>3. SameWindow(win', win)
  BY <1>1, <1>2, SameIs
<1> QED
  BY <1>3, QuietWindow DEF Re!Select

\* A box over the list as it is.
LEMMA BoxOpens ==
  ASSUME Listed, UNCHANGED <<dir, newest, child, run, finished>>, win.open, NEW b, IsBox(b),
         Fits(b), win' = [win EXCEPT !.box = b]
  PROVE  Listed'
<1>0. IsWindow(win)
  BY DEF Listed
<1> DEFINE v == [win EXCEPT !.box = b]
<1>5. v = [win EXCEPT !.box = b] /\ win' = v
  OBVIOUS
<1> HIDE DEF v
<1>6. IsWindow(v) /\ v.open = win.open /\ v.box = b /\ v.it = win.it
  <2> DEFINE w == win
  <2>1. IsWindow(w) /\ v = [w EXCEPT !.box = b]
    BY <1>0, <1>5
  <2> HIDE DEF w
  <2>2. IsWindow(v) /\ v.open = w.open /\ v.box = b /\ v.it = w.it
    BY <2>1, BoxSet
  <2> QED
    BY <2>2 DEF w
<1>1. IsWindow(win') /\ win'.open = win.open /\ win'.box = b /\ win'.it = win.it
  BY <1>5, <1>6
<1>2. Game'
  BY DEF Listed, Game
<1>3. Box'
  BY <1>1 DEF Listed, Box, Fits
<1>4. (win.open /\ child = None => Current(win, newest, dir))'
  BY <1>1 DEF Listed, Current
<1> QED
  BY <1>1, <1>2, <1>3, <1>4 DEF Listed

\* What Submit points at is not the game's.
LEMMA SubmitPoints ==
  ASSUME Listed, Re!Submit
  PROVE  LET x == Re!Selected(win) IN x \in DOMAIN win.it /\ win.it[x].file # child
  BY DEF Re!Submit, Re!CanSubmit, Re!rl_busy

LEMMA SubmitListed ==
  ASSUME Listed, Re!Submit
  PROVE  Listed'
<1> DEFINE x == Re!Selected(win)
           b == [kind |-> "login", rows |-> {x}, named |-> {win.it[x].file}, stale |-> FALSE]
<1>1. x \in DOMAIN win.it /\ win.it[x].file # child
  BY SubmitPoints
<1>2. /\ win.open /\ UNCHANGED <<dir, newest, child, run, finished>>
      /\ ~ token => win' = [win EXCEPT !.box = b]
      /\ token => Re!Starts(win, x)
  BY DEF Re!Submit
<1> HIDE DEF x
<1>3. IsBox(b) /\ ~ b.stale /\ b.rows = {x}
  BY DEF IsBox
<1> HIDE DEF b
<1>4. CASE ~ token
  <2>1. win' = [win EXCEPT !.box = b]
    BY <1>2, <1>4
  <2>2. \A i \in b.rows \cap DOMAIN win.it : win.it[i].file # child
    BY <1>1, <1>3
  <2>3. b.rows \subseteq DOMAIN win.it
    BY <1>1, <1>3
  <2> QED
    BY <1>2, <1>3, <2>1, <2>2, <2>3, BoxOpens DEF Fits
<1>5. CASE token
  <2>1. /\ IsWindow(win') /\ win'.open = win.open /\ win'.box = Re!NoBox
        /\ SameFiles(win'.it, win.it)
    BY <1>2, <1>5, StartsIs DEF Listed
  <2> QED
    BY <1>2, <2>1, Quiet
<1> QED
  BY <1>4, <1>5

LEMMA LoginEndsListed ==
  ASSUME Listed, NEW ok, Re!LoginEnds(ok)
  PROVE  Listed'
<1> DEFINE w == Re!Request(win, lists, TRUE)[1]
<1>1. SameBut(win, w)
  BY RequestIs DEF Listed
<1>2. /\ UNCHANGED <<dir, newest, child, run, finished>>
      /\ \/ win' = [win EXCEPT !.box = Re!NoBox]
         \/ win' = [w EXCEPT !.box = Re!NoBox]
         \/ \E x \in win.box.rows : Re!Starts(w, x)
  BY DEF Re!LoginEnds
<1> HIDE DEF w
<1>3. IsWindow(win) /\ IsWindow(w) /\ IsBox(Re!NoBox)
  BY <1>1, NoWindowIs DEF SameBut, Listed
<1>4. CASE win' = [win EXCEPT !.box = Re!NoBox]
  <2>1. IsWindow(win') /\ win'.open = win.open /\ win'.box = Re!NoBox /\ win'.it = win.it
    BY <1>3, <1>4, BoxSet
  <2>2. SameFiles(win'.it, win.it)
    BY <2>1 DEF SameFiles
  <2> QED
    BY <1>2, <2>1, <2>2, Quiet
<1>5. CASE win' = [w EXCEPT !.box = Re!NoBox]
  <2>1. IsWindow(win') /\ win'.open = w.open /\ win'.box = Re!NoBox /\ win'.it = w.it
    BY <1>3, <1>5, BoxSet
  <2>2. SameFiles(win'.it, win.it) /\ win'.open = win.open
    BY <1>1, <2>1 DEF SameFiles, SameBut
  <2> QED
    BY <1>2, <2>1, <2>2, Quiet
<1>6. ASSUME NEW x \in win.box.rows, Re!Starts(w, x)
      PROVE  Listed'
  <2>1. /\ IsWindow(win') /\ win'.open = w.open /\ win'.box = Re!NoBox /\ SameFiles(win'.it, w.it)
    BY <1>3, <1>6, StartsIs
  <2>2. SameFiles(win'.it, win.it) /\ win'.open = win.open
    BY <1>1, <2>1 DEF SameFiles, SameBut
  <2> QED
    BY <1>2, <2>1, <2>2, Quiet
<1> QED
  BY <1>2, <1>4, <1>5, <1>6

LEMMA DeleteListed ==
  ASSUME Listed, Re!Delete
  PROVE  Listed'
<1> DEFINE b == [kind |-> "delete", rows |-> Re!FreeRows(win), stale |-> FALSE,
                 named |-> {win.it[i].file : i \in Re!FreeRows(win)}]
<1>1. /\ win.open /\ UNCHANGED <<dir, newest, child, run, finished>>
      /\ win' = [win EXCEPT !.box = b]
  BY DEF Re!Delete
<1>2. IsBox(b) /\ ~ b.stale /\ b.rows = Re!FreeRows(win) /\ b.kind = "delete"
  BY DEF IsBox
<1> HIDE DEF b
<1>3. \A i \in b.rows \cap DOMAIN win.it : win.it[i].file # child
  BY <1>2 DEF Re!FreeRows, Re!rl_busy
<1> QED
  BY <1>1, <1>2, <1>3, BoxOpens DEF Fits

LEMMA DeleteNoListed ==
  ASSUME Listed, Re!DeleteNo
  PROVE  Listed'
<1>1. IsWindow(win) /\ IsBox(Re!NoBox)
  BY NoWindowIs DEF Listed
<1>2. IsWindow(win') /\ win'.open = win.open /\ win'.box = Re!NoBox /\ win'.it = win.it
  BY <1>1, BoxSet DEF Re!DeleteNo
<1>3. SameFiles(win'.it, win.it)
  BY <1>2 DEF SameFiles
<1> QED
  BY <1>2, <1>3, Quiet DEF Re!DeleteNo

\* The files that go, as the code names them.
LEMMA DeleteYesListed ==
  ASSUME Listed, NEW stays, Re!DeleteYes(stays)
  PROVE  Listed' /\ (child # None => dir'[child] = dir[child])
<1> DEFINE gone == {win.it[i].file : i \in win.box.rows \cap DOMAIN win.it} \ stays
           left == SelectSeq(newest, LAMBDA f : f \notin gone)
           on == [f \in Recordings |-> IF f \in gone THEN "absent" ELSE dir[f]]
           after == {i \in DOMAIN win.it : /\ i \notin win.box.rows
                                           /\ \E k \in win.box.rows : k < i}
           next == IF after = {} THEN 0 ELSE CHOOSE i \in after : \A k \in after : i <= k
           named == Re!FileAt(win, next)
           v == [win EXCEPT !.it = Re!Scanned(left, on, win.subs, child), !.box = Re!NoBox]
<1>1. /\ win.box.kind = "delete" /\ dir' = on /\ newest' = left
      /\ finished' = Re!LetsGo(gone) /\ win' = Re!Fill(v, named) /\ UNCHANGED <<child, run>>
  BY DEF Re!DeleteYes
<1>2. child # None => child \notin gone
  BY <1>1 DEF Listed, Box, Fits
<1>3. on = [f \in Recordings |-> IF f \in gone THEN "absent" ELSE dir[f]]
  OBVIOUS
<1> HIDE DEF gone, left, on, named
<1>4. IsWindow(win) /\ IsBox(Re!NoBox)
  BY NoWindowIs DEF Listed
<1>11. v = [win EXCEPT !.it = Re!Scanned(left, on, win.subs, child), !.box = Re!NoBox]
  OBVIOUS
<1> HIDE DEF v
<1>5. /\ IsWindow(Re!Fill(v, named)) /\ Re!Fill(v, named).box = Re!NoBox
      /\ Current(Re!Fill(v, named), left, on)
  <2> DEFINE w == win  s == win.subs  c == child  b == Re!NoBox
  <2>0. IsWindow(w) /\ IsBox(b)
    BY <1>4
  <2>1. v = [w EXCEPT !.it = Re!Scanned(left, on, s, c), !.box = b]
    BY <1>11
  <2> HIDE DEF w, s, c, b, after, next
  <2> DEFINE u == [w EXCEPT !.it = Re!Scanned(left, on, s, c), !.box = b]
             g == Re!Fill(u, named)
  <2>2. IsWindow(g) /\ g.box = b /\ g.open = w.open /\ Current(g, left, on)
    BY <2>0, ReadAnew
  <2> HIDE DEF u
  <2>3. u = v
    BY <2>1 DEF u
  <2> QED
    BY <2>2, <2>3 DEF b
<1>6. IsWindow(win') /\ win'.box = Re!NoBox /\ Current(win', newest', dir')
  BY <1>1, <1>5
<1>7. child \in Recordings \cup {None} /\ finished \in Recordings \cup {None}
  BY DEF Listed, Game
<1>8. Game'
  <2>1. dir' \in [Recordings -> {"absent", "open"} \cup Re!Outcomes]
    <3>1. \A f \in Recordings : dir[f] \in {"absent", "open"} \cup Re!Outcomes
      BY DEF Listed, Game
    <3> QED
      BY <1>1, <1>3, <3>1
  <2>2. run = "writing" => child # None /\ dir[child] # "absent"
    BY DEF Listed, Game
  <2>3. run' = "writing" => dir'[child'] # "absent"
    BY <1>1, <1>2, <1>3, <1>7, <2>2
  <2>4. finished' \in Recordings \cup {None} /\ (finished' # None => dir'[finished'] # "absent")
    <3>1. CASE finished \in gone
      BY <1>1, <3>1 DEF Re!LetsGo
    <3>2. CASE finished \notin gone
      <4>1. finished' = finished
        BY <1>1, <3>2 DEF Re!LetsGo
      <4>2. finished # None => dir[finished] # "absent"
        BY DEF Listed, Game
      <4> QED
        BY <1>1, <1>3, <1>7, <3>2, <4>1, <4>2
    <3> QED
      BY <3>1, <3>2
  <2>5. /\ child \in Recordings \cup {None} /\ (child = None <=> run = "none")
        /\ run \in {"none", "starting", "writing", "ended"}
    BY DEF Listed, Game
  <2> QED
    BY <1>1, <2>1, <2>3, <2>4, <2>5 DEF Game
<1>9. Box'
  BY <1>6, NoWindowIs DEF Box
<1>10. child # None => dir'[child] = dir[child]
  BY <1>1, <1>2, <1>3, <1>7
<1> QED
  BY <1>6, <1>8, <1>9, <1>10 DEF Listed

LEMMA UploadAnswerListed ==
  ASSUME Listed, NEW took, NEW logged, Re!UploadAnswer(took, logged)
  PROVE  Listed'
<1> DEFINE l == token /\ logged
           w == Re!Synced(win)
<1>1. /\ UNCHANGED <<dir, newest, child, run>> /\ (finished' = finished \/ finished' = None)
      /\ win' = Re!Request(w, lists, l)[1]
  BY DEF Re!UploadAnswer, Re!Ask
<1>2. SameWindow(w, win)
  BY SyncedIs DEF Listed
<1> HIDE DEF w, l
<1>3. SameBut(w, Re!Request(w, lists, l)[1])
  BY <1>2, SameIs, RequestIs
<1>4. SameWindow(win', win)
  BY <1>1, <1>2, <1>3, SameIs
<1> QED
  BY <1>1, <1>4, QuietWindow

LEMMA TokenLostListed ==
  ASSUME Listed, Re!TokenLost
  PROVE  Listed'
<1>1. SameWindow(Re!Synced(win), win) /\ SameWindow(win, win)
  BY SyncedIs, SameIs DEF Listed
<1>2. SameWindow(win', win)
  BY <1>1 DEF Re!TokenLost
<1> QED
  BY <1>2, QuietWindow DEF Re!TokenLost

LEMMA ServeListed ==
  ASSUME Listed, NEW i, Re!Serve(i)
  PROVE  Listed'
<1>1. SameWindow(win', win)
  BY SameIs DEF Listed, Re!Serve
<1> QED
  BY <1>1, QuietWindow DEF Re!Serve

LEMMA ListAnswerListed ==
  ASSUME Listed, NEW i, Re!ListAnswer(i)
  PROVE  Listed'
<1> DEFINE s == lists[i].subs
           w == [win EXCEPT !.listing = FALSE, !.subs = s, !.it = Re!Matched(@, s)]
<1>1. UNCHANGED <<dir, newest, child, run, finished>> /\ (win' = w \/ win' = win)
  BY DEF Re!ListAnswer
<1> HIDE DEF s
<1>2. \A x : SameWindow([win EXCEPT !.listing = x, !.subs = s, !.it = Re!Matched(@, s)], win)
  BY AnswerIs DEF Listed
<1>3. SameWindow(w, win)
  BY <1>2
<1>4. SameWindow(win, win)
  BY SameIs DEF Listed
<1>5. SameWindow(win', win)
  BY <1>1, <1>3, <1>4
<1> QED
  BY <1>1, <1>5, QuietWindow

\* Every step keeps it.
LEMMA ListedStep ==
  ASSUME Listed, [Re!Next]_(Re!vars)
  PROVE  Listed'
<1>1. CASE UNCHANGED Re!vars
  BY <1>1 DEF Re!vars, Listed, Game, Box, Fits, Current
<1>2. CASE Re!Next
  BY <1>2, GameStartsListed, GameWritesListed, GameEndsListed, ChildExitedListed, OpenListed,
     CloseListed, SelectListed, SubmitListed, DeleteListed, DeleteNoListed, LoginEndsListed,
     DeleteYesListed, UploadAnswerListed, TokenLostListed, ServeListed, ListAnswerListed
     DEF Re!Next
<1> QED
  BY <1>1, <1>2

LEMMA ListedInit ==
  ASSUME Re!Init
  PROVE  Listed
<1>1. Game
  BY DEF Game, Re!Init, Re!Outcomes
<1> QED
  BY <1>1, NoWindowIs DEF Listed, Box, Re!Init

\* What the list and the launcher's button say.
LEMMA ListedSays ==
  ASSUME Listed
  PROVE  Re!RowsAreCurrent /\ Re!PointsAtNothingGone
  BY DEF Listed, Game, Current, Re!RowsAreCurrent, Re!PointsAtNothingGone

\* The recording of the running game is left alone.
LEMMA ListedLeaves ==
  ASSUME Listed, Re!Next, run = "writing"
  PROVE  dir'[child] # "absent" /\ (upload' = child => upload = child)
<1>0. /\ child \in Recordings /\ child # None /\ dir[child] # "absent"
      /\ dir \in [Recordings -> {"absent", "open"} \cup Re!Outcomes]
  BY DEF Listed, Game
<1>1. ASSUME NEW f \in Recordings, Re!GameStarts(f)
      PROVE  FALSE
  BY <1>0, <1>1 DEF Re!GameStarts
<1>2. ASSUME Re!GameWrites \/ Re!ChildExited
      PROVE  FALSE
  BY <1>2 DEF Re!GameWrites, Re!ChildExited
<1>3. ASSUME NEW o \in Re!Outcomes, Re!GameEnds(o)
      PROVE  dir'[child] # "absent" /\ upload' = upload
  BY <1>0, <1>3 DEF Re!GameEnds, Re!Outcomes
<1>4. ASSUME Re!Submit
      PROVE  dir' = dir /\ (upload' = upload \/ upload' # child)
  BY <1>4, SubmitPoints, StartsIs DEF Re!Submit, Re!Starts
<1>5. ASSUME NEW ok, Re!LoginEnds(ok)
      PROVE  dir' = dir /\ (upload' = upload \/ upload' # child)
  <2> DEFINE w == Re!Request(win, lists, TRUE)[1]
  <2>1. SameBut(win, w)
    BY RequestIs DEF Listed
  <2>2. Fits(win.box) /\ win.box.kind = "login"
    BY <1>0, <1>5 DEF Re!LoginEnds, Listed, Box
  <2>3. dir' = dir /\ (upload' = upload \/ \E x \in win.box.rows : Re!Starts(w, x))
    BY <1>5, <2>2 DEF Re!LoginEnds, Fits
  <2> HIDE DEF w
  <2>4. ASSUME NEW x \in win.box.rows, Re!Starts(w, x)
        PROVE  upload' # child
    <3>1. upload' = w.it[x].file
      BY <2>4 DEF Re!Starts
    <3>2. w.it = win.it
      BY <2>1 DEF SameBut
    <3> QED
      BY <2>2, <3>1, <3>2 DEF Fits
  <2> QED
    BY <2>3, <2>4
<1>6. ASSUME NEW stays, Re!DeleteYes(stays)
      PROVE  dir'[child] = dir[child] /\ upload' = upload
  <2>1. dir'[child] = dir[child]
    BY <1>0, <1>6, DeleteYesListed
  <2>2. upload' = upload
    BY <1>6 DEF Re!DeleteYes
  <2> QED
    BY <2>1, <2>2
<1>7. ASSUME NEW took, NEW logged, Re!UploadAnswer(took, logged)
      PROVE  dir' = dir /\ upload' # child
  BY <1>0, <1>7 DEF Re!UploadAnswer
<1>8. ASSUME \/ Re!Open \/ Re!Close \/ Re!Delete \/ Re!DeleteNo \/ Re!TokenLost
             \/ \E i \in DOMAIN lists : Re!Serve(i) \/ Re!ListAnswer(i)
             \/ \E S \in SUBSET DOMAIN win.it : \E i \in DOMAIN win.it : Re!Select(S, i)
      PROVE  dir' = dir /\ upload' = upload
  BY <1>8 DEF Re!Open, Re!Close, Re!Delete, Re!DeleteNo, Re!TokenLost, Re!Serve, Re!ListAnswer, Re!Select
<1> QED
  BY <1>0, <1>1, <1>2, <1>3, <1>4, <1>5, <1>6, <1>7, <1>8 DEF Re!Next

\* What is so at the start, and with every number of the next, is so up to the end.
LEMMA UpTo ==
  ASSUME NEW m \in Nat, NEW T, 0 \in T, \A k \in 0 .. m - 1 : k \in T => k + 1 \in T
  PROVE  \A k \in 0 .. m : k \in T
<1> DEFINE U == {k \in 0 .. m : k \notin T}
<1> SUFFICES ASSUME U # {} PROVE FALSE
  OBVIOUS
<1>1. U \in SUBSET Nat
  OBVIOUS
<1>2. PICK n \in U : \A k \in U : n <= k
  BY <1>1, LeastOf
<1>3. n \in 0 .. m /\ n \notin T /\ n # 0
  OBVIOUS
<1>4. n - 1 \in 0 .. m - 1 /\ n - 1 \in 0 .. m /\ ~ (n <= n - 1) /\ (n - 1) + 1 = n
  BY <1>3
<1>5. n - 1 \in T
  BY <1>2, <1>4
<1> QED
  BY <1>3, <1>4, <1>5

(***************************************************************************)
(* Recordings (module ReplayFile), for any bound on their stamps, events   *)
(* and lines.                                                              *)
(***************************************************************************)
\* The lines a file may hold.
Heads == Rf!Sound \cup Rf!Defects
LineSet ==
  ({"key", "old", "end_cycles"} \X Nat) \cup ({"end_emu"} \X Int) \cup ({"head"} \X Heads)
    \cup ({"file_hash"} \X BOOLEAN) \cup {<<"other", 0>>}

\* The reader after each of the first n lines.
Reads(g, n) ==
  g = [k \in 0 .. n |-> IF k = 0 THEN Rf!NoFile ELSE Rf!ReadLine(g[k - 1], lines[k])]

LEMMA ReadsOneMore ==
  ASSUME NEW n \in Nat, NEW g, Reads(g, n)
  PROVE  \E h : Reads(h, n + 1)
<1> DEFINE h == [k \in 0 .. n + 1 |-> IF k = n + 1 THEN Rf!ReadLine(g[n], lines[n + 1]) ELSE g[k]]
<1>1. ASSUME NEW k \in 0 .. n + 1
      PROVE  h[k] = IF k = 0 THEN Rf!NoFile ELSE Rf!ReadLine(h[k - 1], lines[k])
  <2>1. CASE k = n + 1
    <3>1. k # 0 /\ k - 1 = n /\ n \in 0 .. n + 1 /\ n # n + 1
      BY <2>1
    <3>2. h[n] = g[n] /\ h[k] = Rf!ReadLine(g[n], lines[n + 1])
      BY <2>1, <3>1
    <3> QED
      BY <2>1, <3>1, <3>2
  <2>2. CASE k # n + 1
    <3>1. k \in 0 .. n
      BY <2>2
    <3>2. h[k] = g[k]
      BY <2>2
    <3>3. g[k] = IF k = 0 THEN Rf!NoFile ELSE Rf!ReadLine(g[k - 1], lines[k])
      BY <3>1 DEF Reads
    <3>4. k # 0 => h[k - 1] = g[k - 1]
      BY <3>1
    <3> QED
      BY <3>2, <3>3, <3>4
  <2> QED
    BY <2>1, <2>2
<1>2. h = [k \in 0 .. n + 1 |-> IF k = 0 THEN Rf!NoFile ELSE Rf!ReadLine(h[k - 1], lines[k])]
  BY <1>1
<1> QED
  BY <1>2 DEF Reads

LEMMA ReadsExists ==
  ASSUME NEW m \in Nat
  PROVE  \E g : Reads(g, m)
<1> DEFINE T == {n \in 0 .. m : \E g : Reads(g, n)}
<1>1. 0 \in T
  <2> DEFINE g == [k \in 0 .. 0 |-> Rf!NoFile]
  <2>1. g = [k \in 0 .. 0 |-> IF k = 0 THEN Rf!NoFile ELSE Rf!ReadLine(g[k - 1], lines[k])]
    OBVIOUS
  <2>2. Reads(g, 0)
    BY <2>1 DEF Reads
  <2> QED
    BY <2>2
<1>2. ASSUME NEW k \in 0 .. m - 1, k \in T PROVE k + 1 \in T
  <2>1. k \in Nat /\ k + 1 \in 0 .. m
    OBVIOUS
  <2>2. \E h : Reads(h, k + 1)
    BY <1>2, <2>1, ReadsOneMore
  <2> QED
    BY <2>1, <2>2
<1> HIDE DEF T
<1>3. m \in 0 .. m /\ \A k \in 0 .. m : k \in T
  BY <1>1, <1>2, UpTo
<1> QED
  BY <1>3 DEF T

\* parse_file, line by line.
LEMMA Parsed ==
  ASSUME lines \in Seq(LineSet)
  PROVE  \E g : /\ g[0] = Rf!NoFile
                /\ \A k \in 1 .. Len(lines) : g[k] = Rf!ReadLine(g[k - 1], lines[k])
                /\ Rf!parse_file = g[Len(lines)]
<1> DEFINE g == CHOOSE h : Reads(h, Len(lines))
<1>1. Len(lines) \in Nat
  OBVIOUS
<1>2. Rf!parse_file = g[Len(lines)]
  BY DEF Rf!parse_file, Reads
<1>3. Reads(g, Len(lines))
  BY <1>1, ReadsExists
<1> HIDE DEF g
<1>4. \A k \in 0 .. Len(lines) : g[k] = IF k = 0 THEN Rf!NoFile ELSE Rf!ReadLine(g[k - 1], lines[k])
  BY <1>3 DEF Reads
<1>5. 0 \in 0 .. Len(lines) /\ \A k \in 1 .. Len(lines) : k \in 0 .. Len(lines) /\ k # 0
  BY <1>1
<1> QED
  BY <1>2, <1>4, <1>5

\* What the reader makes of any lines.
Stamps == [have_cyc : BOOLEAN, at : Nat]
IsParsed(h) ==
  /\ DOMAIN h = {"err", "head", "ev", "end_emu", "end_cycles", "have_emu", "have_cycles"}
  /\ h.head \in Heads /\ h.ev \in Seq(Stamps) /\ h.end_emu \in Int /\ h.end_cycles \in Nat

LEMMA ReadLineIs ==
  ASSUME NEW h, IsParsed(h), NEW line \in LineSet
  PROVE  IsParsed(Rf!ReadLine(h, line))
<1>0. /\ line[1] \in {"key", "old", "end_cycles"} => line[2] \in Nat
      /\ line[1] = "end_emu" => line[2] \in Int
      /\ line[1] = "head" => line[2] \in Heads
      /\ line[1] \in {"key", "old", "end_cycles", "end_emu", "head", "file_hash", "other"}
  BY DEF LineSet
<1>1. ASSUME NEW c \in BOOLEAN, NEW t \in Nat PROVE IsParsed(Rf!Event(h, c, t))
  <2> DEFINE s == [have_cyc |-> c, at |-> t]
  <2>1. s \in Stamps
    BY DEF Stamps
  <2> HIDE DEF s
  <2>2. Append(h.ev, s) \in Seq(Stamps)
    BY <2>1 DEF IsParsed
  <2>3. IsParsed([h EXCEPT !.err = TRUE])
    BY DEF IsParsed
  <2>4. IsParsed([h EXCEPT !.ev = Append(@, s)])
    BY <2>2 DEF IsParsed
  <2> QED
    BY <2>3, <2>4 DEF s, Rf!Event
<1>2. CASE line[1] = "head"
  BY <1>0, <1>2 DEF Rf!ReadLine, IsParsed
<1>3. CASE line[1] = "end_emu"
  BY <1>0, <1>3 DEF Rf!ReadLine, IsParsed
<1>4. CASE line[1] = "end_cycles"
  BY <1>0, <1>4 DEF Rf!ReadLine, IsParsed
<1>5. CASE line[1] = "key" \/ line[1] = "old"
  BY <1>0, <1>1, <1>5 DEF Rf!ReadLine
<1>6. CASE line[1] = "file_hash" \/ line[1] = "other"
  BY <1>6 DEF Rf!ReadLine, IsParsed
<1> QED
  BY <1>0, <1>2, <1>3, <1>4, <1>5, <1>6

LEMMA NoFileIs == IsParsed(Rf!NoFile)
<1>1. "magic" \in Heads /\ <<>> \in Seq(Stamps) /\ -1 \in Int /\ 0 \in Nat
  BY DEF Heads, Rf!Defects
<1> QED
  BY <1>1 DEF Rf!NoFile, IsParsed

LEMMA ParsedIs ==
  ASSUME lines \in Seq(LineSet)
  PROVE  IsParsed(Rf!parse_file)
<1>1. PICK g : /\ g[0] = Rf!NoFile
               /\ \A k \in 1 .. Len(lines) : g[k] = Rf!ReadLine(g[k - 1], lines[k])
               /\ Rf!parse_file = g[Len(lines)]
  BY Parsed
<1> DEFINE m == Len(lines)
           T == {k \in 0 .. m : IsParsed(g[k])}
<1>2. m \in Nat /\ \A k \in 1 .. m : lines[k] \in LineSet
  OBVIOUS
<1>3. 0 \in T
  BY <1>1, <1>2, NoFileIs
<1>4. ASSUME NEW k \in 0 .. m - 1, k \in T PROVE k + 1 \in T
  <2>1. k + 1 \in 0 .. m /\ k + 1 \in 1 .. m /\ (k + 1) - 1 = k
    BY <1>2
  <2>2. g[k + 1] = Rf!ReadLine(g[k], lines[k + 1]) /\ lines[k + 1] \in LineSet
    BY <1>1, <1>2, <2>1
  <2>3. IsParsed(g[k])
    BY <1>4
  <2>4. IsParsed(g[k + 1])
    BY <2>2, <2>3, ReadLineIs
  <2> QED
    BY <2>1, <2>4
<1> HIDE DEF T, m
<1>5. m \in T
  <2>1. m \in 0 .. m /\ \A k \in 0 .. m : k \in T
    BY <1>2, <1>3, <1>4, UpTo
  <2> QED
    BY <2>1
<1> QED
  BY <1>1, <1>5 DEF T, m

(* Accepted events are in order on one clock.                              *)

Sorted(ev) == \A m, n \in DOMAIN ev : m <= n => ev[m].at <= ev[n].at

LEMMA SortedIs ==
  ASSUME NEW h, IsParsed(h), Rf!InOrder(h), Rf!OneClock(h)
  PROVE  Sorted(h.ev)
<1> DEFINE ev == h.ev
           l == Len(ev)
<1>1. /\ l \in Nat /\ DOMAIN ev = 1 .. l
      /\ \A n \in 1 .. l : ev[n].have_cyc \in BOOLEAN /\ ev[n].at \in Nat
  <2>1. ev \in Seq(Stamps)
    BY DEF IsParsed
  <2>2. \A n \in 1 .. l : ev[n] \in Stamps
    BY <2>1
  <2>3. \A s \in Stamps : s.have_cyc \in BOOLEAN /\ s.at \in Nat
    BY DEF Stamps
  <2>4. l \in Nat /\ DOMAIN ev = 1 .. l
    BY <2>1
  <2> HIDE DEF ev, l
  <2> QED
    BY <2>2, <2>3, <2>4
<1>2. ASSUME NEW n \in 1 .. l, n # 1 PROVE ev[n - 1].at <= ev[n].at
  <2>1. n \in DOMAIN ev /\ n - 1 \in DOMAIN ev
    BY <1>1, <1>2
  <2>2. ev[n].have_cyc = ev[n - 1].have_cyc
    <3>1. CASE Rf!Stamped(h) = {}
      <4>1. ~ ev[n].have_cyc /\ ~ ev[n - 1].have_cyc
        BY <2>1, <3>1 DEF Rf!Stamped
      <4> QED
        BY <1>1, <2>1, <4>1
    <3>2. CASE Rf!OldForm(h) = {}
      <4>1. ev[n].have_cyc /\ ev[n - 1].have_cyc
        BY <2>1, <3>2 DEF Rf!OldForm, Rf!Stamped
      <4> QED
        BY <1>1, <2>1, <4>1
    <3> QED
      BY <3>1, <3>2 DEF Rf!OneClock
  <2> QED
    BY <1>2, <2>1, <2>2 DEF Rf!InOrder
<1> HIDE DEF ev, l
<1>3. ASSUME NEW m \in 1 .. l PROVE \A k \in 0 .. l - m : ev[m].at <= ev[m + k].at
  <2> DEFINE T == {k \in 0 .. l - m : ev[m].at <= ev[m + k].at}
  <2>0. l \in Nat /\ m \in 1 .. l
    BY <1>1
  <2>1. 0 \in T
    BY <1>1, <1>3
  <2>2. ASSUME NEW k \in 0 .. (l - m) - 1, k \in T PROVE k + 1 \in T
    <3>1. m + (k + 1) \in 1 .. l /\ m + (k + 1) # 1 /\ (m + (k + 1)) - 1 = m + k /\ m + k \in 1 .. l
          /\ k + 1 \in 0 .. l - m
      BY <2>0
    <3>2. ev[m + k].at <= ev[m + (k + 1)].at /\ ev[m].at <= ev[m + k].at
      BY <1>2, <2>2, <3>1
    <3>3. ev[m].at <= ev[m + (k + 1)].at
      BY <1>1, <3>1, <3>2
    <3> QED
      BY <3>1, <3>3
  <2>3. l - m \in Nat
    BY <1>1, <1>3
  <2> HIDE DEF T
  <2>4. \A k \in 0 .. l - m : k \in T
    BY <2>1, <2>2, <2>3, UpTo
  <2> QED
    BY <2>4 DEF T
<1>4. ASSUME NEW m \in 1 .. l, NEW n \in 1 .. l, m <= n PROVE ev[m].at <= ev[n].at
  <2>1. n - m \in 0 .. l - m /\ m + (n - m) = n
    BY <1>1, <1>4
  <2> QED
    BY <1>3, <2>1
<1>5. Sorted(ev)
  BY <1>1, <1>4 DEF Sorted
<1> QED
  BY <1>5 DEF ev

\* The events that are due are the first ones, up to the first that is not.
LEMMA Injected ==
  ASSUME IsParsed(file), Sorted(file.ev), cycles \in Nat, ev_idx \in 0 .. Len(file.ev)
  PROVE  /\ Rf!replay_inject_due \in ev_idx .. Len(file.ev)
         /\ \A n \in DOMAIN file.ev : file.ev[n].at <= cycles => n <= Rf!replay_inject_due
<1> DEFINE ev == file.ev
           l == Len(ev)
           N == {n \in ev_idx + 1 .. l : ~ (ev[n].at <= cycles)}
           due == {n \in ev_idx + 1 .. l : \A k \in ev_idx + 1 .. n : ev[k].at <= cycles}
<1>1. l \in Nat /\ DOMAIN ev = 1 .. l /\ ev_idx \in Nat /\ ev_idx <= l
  BY DEF IsParsed
<1>2. Rf!replay_inject_due = ev_idx + Cardinality(due)
  <2>1. Rf!Cardinality(due) = Cardinality(due)
    BY DEF Rf!Cardinality, Cardinality
  <2>2. Rf!replay_inject_due = ev_idx + Rf!Cardinality(due)
    BY DEF Rf!replay_inject_due, Rf!event_due
  <2> QED
    BY <2>1, <2>2
<1>a. \A n \in 1 .. l : ev[n].at \in Nat
  <2>1. ev \in Seq(Stamps)
    BY DEF IsParsed
  <2>2. \A n \in 1 .. l : ev[n] \in Stamps
    BY <2>1
  <2>3. \A s \in Stamps : s.at \in Nat
    BY DEF Stamps
  <2> HIDE DEF ev, l
  <2> QED
    BY <2>2, <2>3
<1>b. \A m, n \in 1 .. l : m <= n => ev[m].at <= ev[n].at
  BY <1>1 DEF Sorted
<1> HIDE DEF ev, l
<1>3. \E m \in ev_idx .. l : /\ \A n \in ev_idx + 1 .. m : ev[n].at <= cycles
                             /\ m < l => ~ (ev[m + 1].at <= cycles)
  <2>1. CASE N = {}
    <3>1. \A n \in ev_idx + 1 .. l : ev[n].at <= cycles
      BY <2>1
    <3> QED
      BY <1>1, <3>1
  <2>2. CASE N # {}
    <3>1. N \in SUBSET Nat
      BY <1>1
    <3>2. PICK x \in N : \A u \in N : x <= u
      BY <2>2, <3>1, LeastOf
    <3>3. x \in ev_idx + 1 .. l /\ ~ (ev[x].at <= cycles)
      OBVIOUS
    <3>4. x - 1 \in ev_idx .. l /\ (x - 1) + 1 = x
      BY <1>1, <3>3
    <3>5. ASSUME NEW n \in ev_idx + 1 .. x - 1 PROVE ev[n].at <= cycles
      <4>1. n \in ev_idx + 1 .. l /\ ~ (x <= n)
        BY <1>1, <3>3
      <4> QED
        BY <3>2, <4>1
    <3> QED
      BY <3>3, <3>4, <3>5
  <2> QED
    BY <2>1, <2>2
<1>4. PICK m \in ev_idx .. l : /\ \A n \in ev_idx + 1 .. m : ev[n].at <= cycles
                               /\ m < l => ~ (ev[m + 1].at <= cycles)
  BY <1>3
<1> HIDE DEF N
<1>5. due = ev_idx + 1 .. m
  <2>1. ASSUME NEW n \in ev_idx + 1 .. m PROVE n \in due
    <3>1. n \in ev_idx + 1 .. l /\ \A k \in ev_idx + 1 .. n : k \in ev_idx + 1 .. m
      BY <1>1
    <3> QED
      BY <1>4, <3>1
  <2>2. ASSUME NEW n \in due PROVE n \in ev_idx + 1 .. m
    <3>1. n \in ev_idx + 1 .. l /\ \A k \in ev_idx + 1 .. n : ev[k].at <= cycles
      OBVIOUS
    <3>2. ASSUME n > m PROVE FALSE
      <4>1. m < l /\ m + 1 \in ev_idx + 1 .. n
        BY <1>1, <3>1, <3>2
      <4> QED
        BY <1>4, <3>1, <4>1
    <3> QED
      BY <1>1, <3>1, <3>2
  <2> HIDE DEF due
  <2> QED
    BY <2>1, <2>2
<1>6. Cardinality(due) = m - ev_idx
  <2>1. ev_idx + 1 \in Int /\ m \in Int /\ m >= ev_idx
    BY <1>1
  <2>2. Cardinality(ev_idx + 1 .. m) = IF ev_idx + 1 > m THEN 0 ELSE m - (ev_idx + 1) + 1
    BY <2>1, FS_Interval
  <2> HIDE DEF due
  <2>3. Cardinality(due) = IF ev_idx + 1 > m THEN 0 ELSE m - (ev_idx + 1) + 1
    BY <1>5, <2>2
  <2> QED
    BY <2>1, <2>3
<1> HIDE DEF due
<1>7. Rf!replay_inject_due = m
  BY <1>1, <1>2, <1>6
<1>8. ASSUME NEW n \in 1 .. l, ev[n].at <= cycles PROVE n <= m
  <2>1. ASSUME n > m PROVE FALSE
    <3>1. m < l /\ m + 1 \in 1 .. l /\ m + 1 <= n
      BY <1>1, <2>1
    <3>2. ev[m + 1].at <= ev[n].at /\ ev[m + 1].at \in Nat /\ ev[n].at \in Nat
      BY <1>a, <1>b, <3>1
    <3> QED
      BY <1>4, <1>8, <3>1, <3>2
  <2> QED
    BY <1>1, <2>1
<1> QED
  BY <1>1, <1>7, <1>8 DEF ev, l

(* The recorder's own files.                                               *)

\* How much of the footer is written.
Foot == Len(lines) - 1 - Len(pressed)

\* A file of this recorder: its head, every key that was logged, and as much of
\* the footer as it came to.
OwnLines ==
  /\ lines[1][1] = "head" /\ lines[1][2] \in Rf!Sound
  /\ \A i \in 1 .. Len(pressed) : lines[1 + i] = <<"key", pressed[i]>>
  /\ Foot \in 0 .. 3
  /\ Foot >= 1 => lines[Len(pressed) + 2] = <<"end_emu", ended>>
  /\ Foot >= 2 => lines[Len(pressed) + 3] = <<"end_cycles", ended>>
  /\ Foot = 3 => lines[Len(pressed) + 4] = <<"file_hash", TRUE>>

Pressed ==
  /\ pressed \in Seq(0 .. LastStamp) /\ Len(pressed) <= MaxEvents
  /\ \A m, n \in 1 .. Len(pressed) : m <= n => pressed[m] <= pressed[n]

\* The reader behind the first j keys of such a file.
KeysRead(h, j) ==
  /\ IsParsed(h) /\ h.err = FALSE /\ h.head = lines[1][2] /\ Len(h.ev) = j
  /\ \A i \in 1 .. j : h.ev[i] = [have_cyc |-> TRUE, at |-> pressed[i]]
  /\ h.have_emu = FALSE /\ h.have_cycles = FALSE

LEMMA HeadRead ==
  ASSUME lines \in Seq(LineSet), Len(lines) >= 1, OwnLines
  PROVE  KeysRead(Rf!ReadLine(Rf!NoFile, lines[1]), 0)
<1> DEFINE h == Rf!ReadLine(Rf!NoFile, lines[1])
<1>1. h = [Rf!NoFile EXCEPT !.head = lines[1][2]]
  BY DEF OwnLines, Rf!ReadLine
<1>2. lines[1] \in LineSet
  OBVIOUS
<1>3. IsParsed(h)
  BY <1>2, NoFileIs, ReadLineIs
<1>4. /\ h.err = FALSE /\ h.head = lines[1][2] /\ h.ev = <<>>
      /\ h.have_emu = FALSE /\ h.have_cycles = FALSE
  BY <1>1 DEF Rf!NoFile
<1> HIDE DEF h
<1>5. KeysRead(h, 0)
  BY <1>3, <1>4 DEF KeysRead
<1> QED
  BY <1>5 DEF h

LEMMA KeyRead ==
  ASSUME Rf!Constants, Pressed, NEW j \in Nat, j < Len(pressed), NEW h, KeysRead(h, j)
  PROVE  KeysRead(Rf!ReadLine(h, <<"key", pressed[j + 1]>>), j + 1)
<1> DEFINE e == [have_cyc |-> TRUE, at |-> pressed[j + 1]]
           d == [h EXCEPT !.ev = Append(@, e)]
<1>1. /\ IsParsed(h) /\ h.ev \in Seq(Stamps) /\ Len(h.ev) = j /\ h.err = FALSE
      /\ h.have_emu = FALSE /\ h.have_cycles = FALSE /\ h.head = lines[1][2]
      /\ \A i \in 1 .. j : h.ev[i] = [have_cyc |-> TRUE, at |-> pressed[i]]
  BY DEF KeysRead, IsParsed
<1>2. pressed[j + 1] \in Nat /\ j < MaxEvents /\ MaxEvents \in Nat
  BY DEF Pressed, Rf!Constants
<1>3. e \in Stamps
  BY <1>2 DEF Stamps
<1>4. Rf!ReadLine(h, <<"key", pressed[j + 1]>>) = d
  <2>1. Rf!ReadLine(h, <<"key", pressed[j + 1]>>) = Rf!Event(h, TRUE, pressed[j + 1])
    BY DEF Rf!ReadLine
  <2>2. Rf!Event(h, TRUE, pressed[j + 1]) = d
    BY <1>1, <1>2 DEF Rf!Event
  <2> QED
    BY <2>1, <2>2
<1>5. /\ DOMAIN d = DOMAIN h /\ d.ev = Append(h.ev, e) /\ d.err = FALSE
      /\ d.have_emu = FALSE /\ d.have_cycles = FALSE /\ d.head = lines[1][2]
      /\ d.end_emu = h.end_emu /\ d.end_cycles = h.end_cycles
  BY <1>1 DEF IsParsed
<1> DEFINE q == Append(h.ev, e)
<1> HIDE DEF d, e
<1>6. /\ q \in Seq(Stamps) /\ Len(q) = j + 1 /\ q[j + 1] = e
      /\ \A i \in 1 .. j : q[i] = h.ev[i]
  BY <1>1, <1>3, AppendProperties
<1> HIDE DEF q
<1>7. d.ev = q
  BY <1>5 DEF q
<1>8. \A i \in 1 .. j + 1 : d.ev[i] = [have_cyc |-> TRUE, at |-> pressed[i]]
  <2>1. ASSUME NEW i \in 1 .. j + 1 PROVE i = j + 1 \/ i \in 1 .. j
    OBVIOUS
  <2> QED
    BY <1>1, <1>6, <1>7, <2>1 DEF e
<1>9. IsParsed(d)
  BY <1>1, <1>5, <1>6, <1>7 DEF IsParsed
<1> QED
  BY <1>4, <1>5, <1>6, <1>7, <1>8, <1>9 DEF KeysRead

\* What comes of such a file.
OwnParsed(h) ==
  /\ IsParsed(h) /\ h.err = FALSE /\ h.head = lines[1][2] /\ Len(h.ev) = Len(pressed)
  /\ \A i \in 1 .. Len(pressed) : h.ev[i] = [have_cyc |-> TRUE, at |-> pressed[i]]
  /\ h.have_emu <=> Foot >= 1
  /\ h.have_cycles <=> Foot >= 2
  /\ Foot >= 1 => h.end_emu = ended
  /\ Foot >= 2 => h.end_cycles = ended

LEMMA OwnRead ==
  ASSUME Rf!Constants, lines \in Seq(LineSet), Pressed, OwnLines
  PROVE  OwnParsed(Rf!parse_file)
<1> DEFINE m == Len(lines)
           p == Len(pressed)
<1>1. PICK g : /\ g[0] = Rf!NoFile
               /\ \A n \in 1 .. m : g[n] = Rf!ReadLine(g[n - 1], lines[n])
               /\ Rf!parse_file = g[m]
  BY Parsed
<1>2. /\ m \in Nat /\ p \in Nat /\ m - 1 - p \in 0 .. 3 /\ m >= 1 /\ Foot = m - 1 - p
      /\ \A n \in 1 .. m : lines[n] \in LineSet
  BY DEF OwnLines, Pressed, Foot
<1>3. /\ \A i \in 1 .. p : lines[1 + i] = <<"key", pressed[i]>>
      /\ Foot >= 1 => lines[p + 2] = <<"end_emu", ended>>
      /\ Foot >= 2 => lines[p + 3] = <<"end_cycles", ended>>
      /\ Foot = 3 => lines[p + 4] = <<"file_hash", TRUE>>
  BY DEF OwnLines
<1>4. KeysRead(g[1], 0)
  <2>1. 1 \in 1 .. m /\ 1 - 1 = 0
    BY <1>2
  <2>2. g[1] = Rf!ReadLine(Rf!NoFile, lines[1])
    BY <1>1, <2>1
  <2> QED
    BY <1>2, <2>2, HeadRead
<1> HIDE DEF m
<1>5. KeysRead(g[p + 1], p)
  <2> DEFINE T == {j \in 0 .. p : KeysRead(g[j + 1], j)}
  <2>1. 0 \in T
    BY <1>2, <1>4
  <2>2. ASSUME NEW j \in 0 .. p - 1, j \in T PROVE j + 1 \in T
    <3>1. /\ j \in Nat /\ j < p /\ j + 1 \in 0 .. p /\ j + 1 \in 1 .. p
          /\ (j + 1) + 1 \in 1 .. m /\ ((j + 1) + 1) - 1 = j + 1 /\ 1 + (j + 1) = (j + 1) + 1
      BY <1>2
    <3>2. g[(j + 1) + 1] = Rf!ReadLine(g[j + 1], <<"key", pressed[j + 1]>>)
      BY <1>1, <1>3, <3>1
    <3>3. KeysRead(g[j + 1], j)
      BY <2>2
    <3>4. KeysRead(g[(j + 1) + 1], j + 1)
      BY <3>1, <3>2, <3>3, KeyRead
    <3> QED
      BY <3>1, <3>4
  <2>0. p \in Nat
    BY <1>2
  <2> HIDE DEF T, p
  <2>3. p \in 0 .. p /\ \A j \in 0 .. p : j \in T
    BY <2>0, <2>1, <2>2, UpTo
  <2>4. p \in T
    BY <2>3
  <2> QED
    BY <2>4 DEF T
<1> DEFINE K(h) == /\ h.err = FALSE /\ h.head = lines[1][2] /\ Len(h.ev) = p
                   /\ \A i \in 1 .. p : h.ev[i] = [have_cyc |-> TRUE, at |-> pressed[i]]
<1>6. /\ K(g[p + 1]) /\ g[p + 1].have_emu = FALSE /\ g[p + 1].have_cycles = FALSE /\ IsParsed(g[p + 1])
  BY <1>5 DEF KeysRead
<1>7. Foot >= 1 => /\ K(g[p + 2]) /\ g[p + 2].have_emu = TRUE /\ g[p + 2].have_cycles = FALSE
                   /\ g[p + 2].end_emu = ended /\ IsParsed(g[p + 2])
  <2> SUFFICES ASSUME Foot >= 1
               PROVE  /\ K(g[p + 2]) /\ g[p + 2].have_emu = TRUE /\ g[p + 2].have_cycles = FALSE
                      /\ g[p + 2].end_emu = ended /\ IsParsed(g[p + 2])
    OBVIOUS
  <2>1. p + 2 \in 1 .. m /\ (p + 2) - 1 = p + 1
    BY <1>2
  <2>2. lines[p + 2] \in LineSet /\ lines[p + 2] = <<"end_emu", ended>>
    BY <1>2, <1>3, <2>1
  <2>3. g[p + 2] = Rf!ReadLine(g[p + 1], lines[p + 2])
    BY <1>1, <2>1
  <2>4. g[p + 2] = [g[p + 1] EXCEPT !.end_emu = ended, !.have_emu = TRUE]
    BY <2>2, <2>3 DEF Rf!ReadLine
  <2>5. IsParsed(g[p + 2])
    BY <1>6, <2>2, <2>3, ReadLineIs
  <2> QED
    BY <1>6, <2>4, <2>5 DEF IsParsed
<1>8. Foot >= 2 => /\ K(g[p + 3]) /\ g[p + 3].have_emu = TRUE /\ g[p + 3].have_cycles = TRUE
                   /\ g[p + 3].end_emu = ended /\ g[p + 3].end_cycles = ended /\ IsParsed(g[p + 3])
  <2> SUFFICES ASSUME Foot >= 2
               PROVE  /\ K(g[p + 3]) /\ g[p + 3].have_emu = TRUE /\ g[p + 3].have_cycles = TRUE
                      /\ g[p + 3].end_emu = ended /\ g[p + 3].end_cycles = ended /\ IsParsed(g[p + 3])
    OBVIOUS
  <2>1. p + 3 \in 1 .. m /\ (p + 3) - 1 = p + 2 /\ Foot >= 1
    BY <1>2
  <2>2. lines[p + 3] \in LineSet /\ lines[p + 3] = <<"end_cycles", ended>>
    BY <1>2, <1>3, <2>1
  <2>3. g[p + 3] = Rf!ReadLine(g[p + 2], lines[p + 3])
    BY <1>1, <2>1
  <2>4. g[p + 3] = [g[p + 2] EXCEPT !.end_cycles = ended, !.have_cycles = TRUE]
    BY <2>2, <2>3 DEF Rf!ReadLine
  <2>5. IsParsed(g[p + 3])
    BY <1>7, <2>1, <2>2, <2>3, ReadLineIs
  <2> QED
    BY <1>7, <2>1, <2>4, <2>5 DEF IsParsed
<1>9. Foot = 3 => g[p + 4] = g[p + 3]
  <2> SUFFICES ASSUME Foot = 3 PROVE g[p + 4] = g[p + 3]
    OBVIOUS
  <2>1. p + 4 \in 1 .. m /\ (p + 4) - 1 = p + 3
    BY <1>2
  <2>2. g[p + 4] = Rf!ReadLine(g[p + 3], <<"file_hash", TRUE>>)
    BY <1>1, <1>3, <2>1
  <2> QED
    BY <2>2 DEF Rf!ReadLine
<1> HIDE DEF K
<1>10. \/ Foot = 0 /\ m = p + 1
       \/ Foot = 1 /\ m = p + 2
       \/ Foot = 2 /\ m = p + 3
       \/ Foot = 3 /\ m = p + 4
  BY <1>2
<1>11. CASE Foot = 0
  BY <1>1, <1>6, <1>10, <1>11 DEF OwnParsed, K
<1>12. CASE Foot = 1
  BY <1>1, <1>7, <1>10, <1>12 DEF OwnParsed, K
<1>13. CASE Foot = 2
  BY <1>1, <1>8, <1>10, <1>13 DEF OwnParsed, K
<1>14. CASE Foot = 3
  BY <1>1, <1>8, <1>9, <1>10, <1>14 DEF OwnParsed, K
<1> QED
  BY <1>10, <1>11, <1>12, <1>13, <1>14

\* The only integrity line is the one that counts.
LEMMA HashSaid ==
  ASSUME lines \in Seq(LineSet), NEW n \in 1 .. Len(lines), lines[n] = <<"file_hash", TRUE>>,
         \A i \in 1 .. Len(lines) : i # n => lines[i][1] # "file_hash"
  PROVE  Rf!verify_file_hash = IF Len(lines) > HashedLines THEN -1 ELSE 1
<1> DEFINE I == {i \in 1 .. Len(lines) : lines[i][1] = "file_hash"}
<1>1. I = {n}
  OBVIOUS
<1>2. Rf!Min(I) = n
  BY <1>1 DEF Rf!Min
<1> DEFINE k == IF I # {} THEN Rf!Min(I) ELSE 0
<1>3. Rf!verify_file_hash = IF k = 0 \/ Len(lines) > HashedLines THEN -1 ELSE IF lines[k][2] THEN 1 ELSE 0
  BY DEF Rf!verify_file_hash, Rf!SelectInSeq
<1>4. k = n /\ n # 0
  BY <1>1, <1>2
<1> HIDE DEF k
<1>5. lines[n][2] = TRUE
  OBVIOUS
<1> QED
  BY <1>3, <1>4, <1>5

(* The steps.                                                              *)

ReTyped ==
  /\ reading \in {"record", "footer", "load", "refused", "run", "stopped"}
  /\ lines \in Seq(LineSet) /\ Len(lines) >= 1
  /\ cycles \in 0 .. LastStamp + 1 /\ ended \in Int
  /\ ended = -2 => reading \notin {"record", "footer"}

Recorded ==
  ended # -2 =>
    /\ Pressed /\ OwnLines /\ ended \in -1 .. LastStamp /\ (Foot = 0 <=> ended = -1)
    /\ Foot >= 1 => \A i \in 1 .. Len(pressed) : pressed[i] <= ended
    /\ reading = "record" =>
         Foot = 0 /\ cycles <= LastStamp /\ \A i \in 1 .. Len(pressed) : pressed[i] <= cycles
    /\ reading = "footer" => Foot \in {1, 2} /\ cycles = ended

\* The file that was loaded is still there, and was judged as it should: b is
\* -strict, v what became of the digest.
PlaysSo(h, b, v) ==
  /\ ~ h.err /\ Rf!validate_header(h) /\ h.have_emu /\ h.have_cycles
  /\ v # 0 /\ (b => v = 1)
  /\ Rf!InOrder(h) /\ Rf!InTime(h) /\ Rf!OneClock(h) /\ (b => Rf!OldForm(h) = {})
  /\ b => h.head = Rf!Ranked
Plays(h) == PlaysSo(h, strict, Rf!verify_file_hash)
Judged ==
  /\ reading \in {"refused", "run", "stopped"} => file = Rf!parse_file
  /\ reading = "refused" => ~ Plays(file)
  /\ reading \in {"run", "stopped"} => Plays(file)
  /\ reading \in {"record", "footer", "load"} => file = Rf!NoFile

NoneLate ==
  /\ reading \in {"record", "footer", "load", "refused"} => ev_idx = 0
  /\ reading \in {"load", "refused"} => cycles = 0
  /\ reading = "run" => cycles <= LastStamp
  /\ reading \in {"run", "stopped"} =>
       /\ ev_idx \in 0 .. Len(file.ev)
       /\ \A n \in DOMAIN file.ev : file.ev[n].at < cycles => n <= ev_idx

Replaying == ReTyped /\ Recorded /\ Judged /\ NoneLate

LEMMA PlaysIs ==
  ASSUME NEW h
  PROVE  Plays(h) <=> Rf!Accepted(h) /\ (strict => h.head = Rf!Ranked)
  BY DEF Plays, PlaysSo, Rf!Accepted, Rf!validate_events

LEMMA AcceptedSays ==
  ASSUME Rf!Constants, NEW h, IsParsed(h), Plays(h)
  PROVE  /\ Sorted(h.ev) /\ h.end_emu \in 0 .. LastStamp
         /\ \A n \in DOMAIN h.ev : h.ev[n].at \in 0 .. LastStamp
<1>1. /\ Rf!InOrder(h) /\ Rf!InTime(h) /\ Rf!OneClock(h)
      /\ h.end_emu \in 0 .. LastStamp /\ h.end_cycles <= LastStamp /\ h.end_cycles \in Nat
  BY DEF Plays, PlaysSo, Rf!validate_header, IsParsed
<1>2. Sorted(h.ev)
  BY <1>1, SortedIs
<1>3. ASSUME NEW n \in DOMAIN h.ev PROVE h.ev[n].at \in 0 .. LastStamp
  <2>1. h.ev[n].at \in Nat
    <3>1. h.ev[n] \in Stamps
      BY DEF IsParsed
    <3> QED
      BY <3>1 DEF Stamps
  <2>2. CASE n \in Rf!OldForm(h)
    BY <1>1, <2>2 DEF Rf!InTime
  <2>3. CASE n \in Rf!Stamped(h)
    <3>1. h.end_cycles > 0
      BY <1>1, <2>3 DEF Rf!OneClock
    <3>2. h.ev[n].at <= h.end_cycles
      BY <1>1, <2>3, <3>1 DEF Rf!InTime
    <3> QED
      BY <1>1, <2>1, <3>2 DEF Rf!Constants
  <2> QED
    BY <2>2, <2>3 DEF Rf!OldForm
<1> QED
  BY <1>1, <1>2, <1>3

\* A step that leaves the file on disk leaves what its reader makes of it.
LEMMA SameFile ==
  ASSUME UNCHANGED <<lines, strict>>
  PROVE  Rf!parse_file' = Rf!parse_file /\ Rf!verify_file_hash' = Rf!verify_file_hash
<1>1. Rf!parse_file' = Rf!parse_file
  BY DEF Rf!parse_file
<1>2. Rf!verify_file_hash' = Rf!verify_file_hash
  BY DEF Rf!verify_file_hash, Rf!SelectInSeq
<1> QED
  BY <1>1, <1>2

LEMMA SameOwn ==
  ASSUME UNCHANGED <<lines, pressed, ended>>
  PROVE  (Pressed' <=> Pressed) /\ (OwnLines' <=> OwnLines) /\ Foot' = Foot
  BY DEF Pressed, OwnLines, Foot

LEMMA ReplayTurn ==
  ASSUME Rf!Constants, Replaying, Rf!Turn
  PROVE  Replaying'
<1>1. /\ reading = "run" /\ ev_idx' = Rf!replay_inject_due
      /\ cycles' = (IF cycles <= LastStamp THEN cycles + 1 ELSE cycles)
      /\ reading' = (IF Rf!replay_should_stop(ev_idx', cycles') THEN "stopped" ELSE "run")
      /\ UNCHANGED <<lines, strict, file, pressed, ended>>
  BY DEF Rf!Turn
<1>2. /\ file = Rf!parse_file /\ Plays(file) /\ cycles <= LastStamp /\ cycles \in Nat
      /\ ev_idx \in 0 .. Len(file.ev) /\ lines \in Seq(LineSet) /\ LastStamp \in Nat
  BY <1>1 DEF Replaying, ReTyped, Judged, NoneLate, Rf!Constants
<1>3. IsParsed(file)
  BY <1>2, ParsedIs
<1>4. /\ Sorted(file.ev) /\ file.end_emu \in 0 .. LastStamp
      /\ \A n \in DOMAIN file.ev : file.ev[n].at \in 0 .. LastStamp
  BY <1>2, <1>3, AcceptedSays
<1>5. /\ ev_idx' \in ev_idx .. Len(file.ev)
      /\ \A n \in DOMAIN file.ev : file.ev[n].at <= cycles => n <= ev_idx'
  BY <1>1, <1>2, <1>3, <1>4, Injected
<1>6. cycles' = cycles + 1
  BY <1>1, <1>2
<1>7. reading' = "run" => cycles' <= LastStamp
  <2> SUFFICES ASSUME cycles = LastStamp PROVE reading' = "stopped"
    BY <1>1, <1>2, <1>6
  <2>1. \A n \in DOMAIN file.ev : n <= ev_idx'
    BY <1>2, <1>4, <1>5
  <2>2. Len(file.ev) \in Nat /\ DOMAIN file.ev = 1 .. Len(file.ev)
    BY <1>3 DEF IsParsed
  <2>3. ev_idx' = Len(file.ev)
    <3> DEFINE l == Len(file.ev)
    <3>1. ev_idx' \in Int /\ ev_idx' <= l /\ l \in Nat /\ (l # 0 => l \in DOMAIN file.ev)
      BY <1>2, <1>5, <2>2
    <3>2. l # 0 => l <= ev_idx'
      BY ONLY <2>1, <3>1
    <3>3. ev_idx' \in ev_idx .. l /\ ev_idx \in Nat
      BY <1>2, <1>5
    <3> HIDE DEF l
    <3> QED
      BY <3>1, <3>2, <3>3 DEF l
  <2>4. Rf!replay_should_stop(ev_idx', cycles')
    BY <1>2, <1>4, <1>6, <2>3 DEF Rf!replay_should_stop
  <2> QED
    BY <1>1, <2>4
<1>8. NoneLate'
  <2>1. \A n \in DOMAIN file.ev : file.ev[n].at < cycles + 1 => n <= ev_idx'
    BY <1>2, <1>4, <1>5
  <2>2. ev_idx' \in 0 .. Len(file.ev)
    BY <1>2, <1>5
  <2>3. reading' \in {"run", "stopped"}
    BY <1>1
  <2> QED
    BY <1>1, <1>6, <1>7, <2>1, <2>2, <2>3 DEF NoneLate
<1>9. Judged'
  <2>1. reading' \in {"run", "stopped"}
    BY <1>1
  <2>2. Rf!parse_file' = Rf!parse_file /\ (Plays(file)' <=> Plays(file))
    <3>1. Rf!parse_file' = Rf!parse_file /\ Rf!verify_file_hash' = Rf!verify_file_hash
      BY <1>1, SameFile
    <3>2. strict' = strict /\ file' = file
      BY <1>1
    <3> QED
      BY <3>1, <3>2 DEF Plays
  <2> QED
    BY <1>1, <1>2, <2>1, <2>2 DEF Judged
<1>10. Recorded'
  <2>1. reading' \in {"run", "stopped"}
    BY <1>1
  <2> QED
    BY <1>1, <2>1, SameOwn DEF Replaying, Recorded
<1>11. ReTyped'
  BY <1>1, <1>2, <1>6 DEF Replaying, ReTyped
<1> QED
  BY <1>8, <1>9, <1>10, <1>11 DEF Replaying

LEMMA ReplayBegins ==
  ASSUME Rf!Constants, Replaying, Rf!replay_begin_replay
  PROVE  Replaying'
<1>1. /\ reading = "load" /\ file' = Rf!parse_file
      /\ reading' = (IF Rf!Accepted(file') /\ (strict => file'.head = Rf!Ranked) THEN "run" ELSE "refused")
      /\ UNCHANGED <<lines, strict, cycles, ev_idx, pressed, ended>>
  BY DEF Rf!replay_begin_replay
<1>2. /\ cycles = 0 /\ ev_idx = 0 /\ lines \in Seq(LineSet) /\ LastStamp \in Nat
  BY <1>1 DEF Replaying, ReTyped, NoneLate, Rf!Constants
<1> DEFINE h == Rf!parse_file
<1>3. IsParsed(h)
  BY <1>2, ParsedIs
<1>4. Rf!parse_file' = h /\ strict' = strict
  BY <1>1, SameFile
<1> HIDE DEF h
<1>a. file' = h
  BY <1>1 DEF h
<1>b. reading' = (IF Plays(h) THEN "run" ELSE "refused")
  BY <1>1, <1>a, PlaysIs
<1>c. Plays(file)' <=> Plays(h)
  <2>1. strict' = strict /\ Rf!verify_file_hash' = Rf!verify_file_hash /\ file' = h
    BY <1>1, <1>a, SameFile
  <2> QED
    BY <2>1 DEF Plays
<1>5. Judged'
  BY <1>4, <1>a, <1>b, <1>c DEF Judged
<1>6. NoneLate'
  <2>1. h.ev \in Seq(Stamps)
    BY <1>3 DEF IsParsed
  <2>2. Len(h.ev) \in Nat /\ \A n \in DOMAIN h.ev : h.ev[n].at \in Nat
    <3>1. \A s \in Stamps : s.at \in Nat
      BY DEF Stamps
    <3> HIDE DEF Stamps
    <3>2. Len(h.ev) \in Nat /\ \A n \in DOMAIN h.ev : h.ev[n] \in Stamps
      BY <2>1
    <3> QED
      BY <3>1, <3>2
  <2>3. /\ 0 \in 0 .. Len(h.ev)
        /\ \A n \in DOMAIN h.ev : h.ev[n].at < 0 => n <= 0
    BY <2>2
  <2> QED
    BY <1>1, <1>2, <1>a, <1>b, <2>3 DEF NoneLate
<1>7. Recorded'
  <2>1. reading' \in {"run", "refused"}
    BY <1>b
  <2> QED
    BY <1>1, <2>1, SameOwn DEF Replaying, Recorded
<1>8. ReTyped'
  BY <1>1, <1>b DEF Replaying, ReTyped
<1> QED
  BY <1>5, <1>6, <1>7, <1>8 DEF Replaying

\* One line more of a recording.
LEMMA LineMore ==
  ASSUME NEW line \in LineSet, lines \in Seq(LineSet), Len(lines) >= 1, lines' = Append(lines, line)
  PROVE  /\ lines' \in Seq(LineSet) /\ Len(lines') = Len(lines) + 1 /\ Len(lines') >= 1
         /\ lines'[Len(lines) + 1] = line /\ Len(lines) \in Nat
         /\ \A i \in 1 .. Len(lines) : lines'[i] = lines[i]
<1> HIDE DEF LineSet
<1>1. Len(lines) \in Nat /\ lines' \in Seq(LineSet)
  OBVIOUS
<1>2. Len(lines') = Len(lines) + 1 /\ lines'[Len(lines) + 1] = line
  OBVIOUS
<1>3. \A i \in 1 .. Len(lines) : lines'[i] = lines[i]
  OBVIOUS
<1> QED
  BY <1>1, <1>2, <1>3

LEMMA LogsKey ==
  ASSUME Rf!Constants, Replaying, Rf!replay_log_key
  PROVE  Replaying'
<1>1. /\ reading = "record" /\ Len(pressed) < MaxEvents
      /\ lines' = Append(lines, <<"key", cycles>>) /\ pressed' = Append(pressed, cycles)
      /\ UNCHANGED <<strict, reading, file, cycles, ev_idx, ended>>
  BY DEF Rf!replay_log_key, Rf!Recording
<1>2. /\ ended # -2 /\ lines \in Seq(LineSet) /\ Len(lines) >= 1 /\ cycles \in 0 .. LastStamp
      /\ ended \in -1 .. LastStamp /\ LastStamp \in Nat /\ MaxEvents \in Nat /\ ended = -1
      /\ Pressed /\ OwnLines /\ Foot = 0 /\ \A i \in 1 .. Len(pressed) : pressed[i] <= cycles
  BY <1>1 DEF Replaying, ReTyped, Recorded, NoneLate, Rf!Constants
<1> DEFINE p == Len(pressed)
<1>3. pressed \in Seq(0 .. LastStamp) /\ p \in Nat
  BY <1>2 DEF Pressed
<1>4. <<"key", cycles>> \in LineSet
  BY <1>2 DEF LineSet
<1>5. /\ lines' \in Seq(LineSet) /\ Len(lines') = Len(lines) + 1 /\ Len(lines') >= 1
      /\ lines'[Len(lines) + 1] = <<"key", cycles>>
      /\ \A i \in 1 .. Len(lines) : lines'[i] = lines[i]
  BY <1>1, <1>2, <1>4, LineMore
<1>6. /\ pressed' \in Seq(0 .. LastStamp) /\ Len(pressed') = p + 1 /\ pressed'[p + 1] = cycles
      /\ \A i \in 1 .. p : pressed'[i] = pressed[i]
  BY <1>1, <1>2, <1>3
<1>7. Len(lines) = p + 1
  BY <1>2, <1>3, LenProperties DEF Foot
<1>8. Foot' = 0
  BY <1>3, <1>5, <1>6, <1>7 DEF Foot
<1> HIDE DEF p
<1>9. Pressed'
  <2>1. Len(pressed') <= MaxEvents
    BY <1>1, <1>2, <1>3, <1>6 DEF p
  <2>2. \A i \in 1 .. p + 1 : i \in 1 .. p \/ i = p + 1
    BY <1>3
  <2>3. \A i \in 1 .. p : pressed'[i] <= cycles /\ cycles <= cycles
    BY <1>2, <1>6 DEF p
  <2>4. \A m, n \in 1 .. p : m <= n => pressed'[m] <= pressed'[n]
    BY <1>2, <1>6 DEF Pressed, p
  <2>5. ASSUME NEW m \in 1 .. p + 1, NEW n \in 1 .. p + 1, m <= n
        PROVE  pressed'[m] <= pressed'[n]
    <3>1. CASE n \in 1 .. p
      BY <1>3, <2>4, <2>5, <3>1
    <3>2. CASE n = p + 1
      BY <1>2, <1>6, <2>2, <2>3, <3>2
    <3> QED
      BY <2>2, <3>1, <3>2
  <2> QED
    BY <1>6, <2>1, <2>5 DEF Pressed
<1>10. OwnLines'
  <2>1. lines'[1] = lines[1] /\ lines[1][1] = "head" /\ lines[1][2] \in Rf!Sound
    BY <1>2, <1>3, <1>5, <1>7 DEF OwnLines
  <2>2. ASSUME NEW i \in 1 .. p + 1 PROVE lines'[1 + i] = <<"key", pressed'[i]>>
    <3>1. CASE i \in 1 .. p
      <4>1. lines[1 + i] = <<"key", pressed[i]>>
        BY <1>2, <3>1 DEF OwnLines, p
      <4>2. 1 + i \in 1 .. Len(lines)
        BY <1>3, <1>7, <3>1
      <4>3. lines'[1 + i] = lines[1 + i] /\ pressed'[i] = pressed[i]
        BY <1>5, <1>6, <3>1, <4>2
      <4> QED
        BY ONLY <4>1, <4>3
    <3>2. CASE i = p + 1
      <4>1. 1 + i = Len(lines) + 1
        BY <1>3, <1>7, <3>2
      <4> QED
        BY <1>5, <1>6, <3>2, <4>1
    <3> QED
      BY <1>3, <3>1, <3>2
  <2> QED
    BY <1>6, <1>8, <2>1, <2>2 DEF OwnLines
<1>11. Recorded'
  <2>1. \A i \in 1 .. p + 1 : pressed'[i] <= cycles
    BY <1>2, <1>3, <1>6 DEF p
  <2> QED
    BY <1>1, <1>2, <1>6, <1>8, <1>9, <1>10, <2>1 DEF Recorded
<1>12. Judged' /\ NoneLate'
  <2>1. Judged'
    BY <1>1 DEF Replaying, Judged
  <2>2. NoneLate'
    BY <1>1 DEF Replaying, NoneLate
  <2> QED
    BY <2>1, <2>2
<1>13. ReTyped'
  BY <1>1, <1>2, <1>5 DEF Replaying, ReTyped
<1> QED
  BY <1>11, <1>12, <1>13 DEF Replaying

\* A turn of the recording session, a death of the process, and nothing at all.
LEMMA RecordTurns ==
  ASSUME Rf!Constants, Replaying, Rf!RecordTurn
  PROVE  Replaying'
<1>1. /\ reading = "record" /\ cycles < LastStamp /\ cycles' = cycles + 1
      /\ UNCHANGED <<lines, strict, reading, file, ev_idx, pressed, ended>>
  BY DEF Rf!RecordTurn
<1>2. /\ ended # -2 /\ cycles \in Nat /\ LastStamp \in Nat /\ pressed \in Seq(0 .. LastStamp)
      /\ \A i \in 1 .. Len(pressed) : pressed[i] <= cycles
  BY <1>1 DEF Replaying, ReTyped, Recorded, Pressed, Rf!Constants
<1>3. \A i \in 1 .. Len(pressed) : pressed[i] <= cycles'
  <2>1. \A i \in 1 .. Len(pressed) : pressed[i] \in Int
    BY <1>2
  <2> QED
    BY <1>1, <1>2, <2>1
<1>4. cycles' <= LastStamp /\ cycles' \in 0 .. LastStamp + 1
  BY <1>1, <1>2
<1>5. (Pressed' <=> Pressed) /\ (OwnLines' <=> OwnLines) /\ Foot' = Foot
  BY <1>1, SameOwn
<1>6. Recorded'
  BY <1>1, <1>2, <1>3, <1>4, <1>5 DEF Replaying, Recorded
<1>7. Judged' /\ NoneLate'
  <2>1. Judged'
    BY <1>1 DEF Replaying, Judged
  <2>2. NoneLate'
    BY <1>1 DEF Replaying, NoneLate
  <2> QED
    BY <2>1, <2>2
<1>8. ReTyped'
  BY <1>1, <1>4 DEF Replaying, ReTyped
<1> QED
  BY <1>6, <1>7, <1>8 DEF Replaying

LEMMA Dies ==
  ASSUME Rf!Constants, Replaying, Rf!Crash
  PROVE  Replaying'
<1>1. /\ reading \in {"record", "footer"} /\ reading' = "load" /\ cycles' = 0
      /\ UNCHANGED <<lines, strict, file, ev_idx, pressed, ended>>
  BY DEF Rf!Crash
<1>2. (Pressed' <=> Pressed) /\ (OwnLines' <=> OwnLines) /\ Foot' = Foot
  BY <1>1, SameOwn
<1>3. Recorded'
  BY <1>1, <1>2 DEF Replaying, Recorded
<1>4. Judged'
  BY <1>1 DEF Replaying, Judged
<1>5. NoneLate'
  BY <1>1 DEF Replaying, NoneLate
<1>6. ReTyped'
  <2>1. LastStamp \in Nat
    BY DEF Rf!Constants
  <2>2. 0 \in 0 .. LastStamp + 1
    BY <2>1
  <2> QED
    BY <1>1, <2>2 DEF Replaying, ReTyped
<1> QED
  BY <1>3, <1>4, <1>5, <1>6 DEF Replaying

LEMMA ReplayStands ==
  ASSUME Replaying, UNCHANGED Rf!vars
  PROVE  Replaying'
<1>1. UNCHANGED <<lines, strict, reading, file, cycles, ev_idx, pressed, ended>>
  BY DEF Rf!vars
<1>2. (Pressed' <=> Pressed) /\ (OwnLines' <=> OwnLines) /\ Foot' = Foot
  BY <1>1, SameOwn
<1>3. Rf!parse_file' = Rf!parse_file /\ (Plays(file)' <=> Plays(file))
  <2>1. Rf!parse_file' = Rf!parse_file /\ Rf!verify_file_hash' = Rf!verify_file_hash
    BY <1>1, SameFile
  <2>2. strict' = strict /\ file' = file
    BY <1>1
  <2> QED
    BY <2>1, <2>2 DEF Plays
<1>4. ReTyped' /\ Recorded'
  <2>1. ReTyped'
    BY <1>1 DEF Replaying, ReTyped
  <2>2. Recorded'
    BY <1>1, <1>2 DEF Replaying, Recorded
  <2> QED
    BY <2>1, <2>2
<1>5. Judged'
  BY <1>1, <1>3 DEF Replaying, Judged
<1>6. NoneLate'
  BY <1>1 DEF Replaying, NoneLate
<1> QED
  BY <1>4, <1>5, <1>6 DEF Replaying

\* One line more of the footer.
LEMMA FootGrows ==
  ASSUME Pressed, OwnLines, lines \in Seq(LineSet), Len(lines) >= 1, Foot <= 2,
         NEW line \in LineSet, lines' = Append(lines, line), pressed' = pressed,
         Foot # 0 => ended' = ended,
         Foot = 0 => line = <<"end_emu", ended'>>,
         Foot = 1 => line = <<"end_cycles", ended'>>,
         Foot = 2 => line = <<"file_hash", TRUE>>
  PROVE  Pressed' /\ OwnLines' /\ Foot' = Foot + 1 /\ lines' \in Seq(LineSet) /\ Len(lines') >= 1
<1> DEFINE p == Len(pressed)
           l == Len(lines)
<1>1. /\ lines' \in Seq(LineSet) /\ Len(lines') = l + 1 /\ Len(lines') >= 1
      /\ lines'[l + 1] = line /\ l \in Nat
      /\ \A i \in 1 .. l : lines'[i] = lines[i]
  BY LineMore
<1>2. p \in Nat
  BY LenProperties DEF Pressed
<1>3. Foot = l - 1 - p /\ Foot \in 0 .. 2 /\ l = p + 1 + Foot
  BY <1>1, <1>2 DEF Foot, OwnLines
<1>4. Foot' = l + 1 - 1 - p
  BY <1>1 DEF Foot
<1> HIDE DEF p, l, LineSet
<1>5. Foot' = Foot + 1 /\ Foot' \in 1 .. 3
  BY <1>1, <1>2, <1>3, <1>4
<1>6. Pressed'
  BY DEF Pressed
<1>7. lines'[1] = lines[1] /\ lines[1][1] = "head" /\ lines[1][2] \in Rf!Sound
  BY <1>1, <1>2, <1>3 DEF OwnLines
<1>8. ASSUME NEW i \in 1 .. p PROVE lines'[1 + i] = <<"key", pressed'[i]>>
  <2>1. lines[1 + i] = <<"key", pressed[i]>>
    BY DEF OwnLines, p
  <2>2. 1 + i \in 1 .. l
    BY <1>2, <1>3
  <2>3. lines'[1 + i] = lines[1 + i]
    BY <1>1, <2>2
  <2> QED
    BY <2>1, <2>3
<1>9. lines'[p + 2] = <<"end_emu", ended'>>
  <2>1. CASE Foot = 0
    <3>1. l + 1 = p + 2
      BY ONLY <1>1, <1>2, <1>3, <2>1
    <3>2. lines'[l + 1] = line /\ line = <<"end_emu", ended'>>
      BY <1>1, <2>1
    <3> QED
      BY ONLY <3>1, <3>2
  <2>2. CASE Foot # 0
    <3>1. lines[p + 2] = <<"end_emu", ended>>
      BY <1>3, <2>2 DEF OwnLines, p
    <3>2. p + 2 \in 1 .. l
      BY <1>2, <1>3, <2>2
    <3> QED
      BY <1>1, <2>2, <3>1, <3>2
  <2> QED
    BY <2>1, <2>2
<1>10. Foot # 0 => lines'[p + 3] = <<"end_cycles", ended'>>
  <2>1. CASE Foot = 1
    <3>1. l + 1 = p + 3
      BY ONLY <1>1, <1>2, <1>3, <2>1
    <3>2. lines'[l + 1] = line /\ line = <<"end_cycles", ended'>>
      BY <1>1, <2>1
    <3> QED
      BY ONLY <3>1, <3>2
  <2>2. CASE Foot = 2
    <3>1. lines[p + 3] = <<"end_cycles", ended>>
      BY <2>2 DEF OwnLines, p
    <3>2. p + 3 \in 1 .. l
      BY <1>2, <1>3, <2>2
    <3> QED
      BY <1>1, <2>2, <3>1, <3>2
  <2>3. Foot = 0 \/ Foot = 1 \/ Foot = 2
    BY <1>3
  <2> QED
    BY ONLY <2>1, <2>2, <2>3
<1>11. Foot = 2 => lines'[p + 4] = <<"file_hash", TRUE>>
  <2> SUFFICES ASSUME Foot = 2 PROVE lines'[p + 4] = <<"file_hash", TRUE>>
    OBVIOUS
  <2>1. l + 1 = p + 4
    BY <1>1, <1>2, <1>3
  <2>2. line = <<"file_hash", TRUE>> /\ lines'[l + 1] = line
    BY <1>1
  <2> QED
    BY ONLY <2>1, <2>2
<1>12. OwnLines'
  <2>1. Len(pressed') = p /\ (Foot' >= 2 => Foot # 0) /\ (Foot' = 3 => Foot = 2)
    BY <1>3, <1>5 DEF p
  <2>2. Foot' \in 0 .. 3
    BY <1>5
  <2> QED
    BY <1>7, <1>8, <1>9, <1>10, <1>11, <2>1, <2>2 DEF OwnLines
<1> QED
  BY <1>1, <1>5, <1>6, <1>12

LEMMA EndsRecord ==
  ASSUME Rf!Constants, Replaying, Rf!replay_end_record
  PROVE  Replaying'
<1>1. /\ reading = "record" /\ lines' = Append(lines, <<"end_emu", cycles>>)
      /\ reading' = "footer" /\ ended' = cycles
      /\ UNCHANGED <<strict, file, ev_idx, cycles, pressed>>
  BY DEF Rf!replay_end_record, Rf!Recording
<1>2. /\ ended # -2 /\ lines \in Seq(LineSet) /\ Len(lines) >= 1 /\ cycles \in 0 .. LastStamp
      /\ Pressed /\ OwnLines /\ Foot = 0 /\ \A i \in 1 .. Len(pressed) : pressed[i] <= cycles
      /\ LastStamp \in Nat
  BY <1>1 DEF Replaying, ReTyped, Recorded, Rf!Constants
<1>3. <<"end_emu", cycles>> \in LineSet
  BY <1>2 DEF LineSet
<1>4. Pressed' /\ OwnLines' /\ Foot' = 1 /\ lines' \in Seq(LineSet) /\ Len(lines') >= 1
  BY <1>1, <1>2, <1>3, FootGrows
<1>5. Recorded'
  BY <1>1, <1>2, <1>4 DEF Recorded
<1>6. Judged'
  BY <1>1 DEF Replaying, Judged
<1>7. NoneLate'
  BY <1>1 DEF Replaying, NoneLate
<1>8. ReTyped'
  BY <1>1, <1>2, <1>4 DEF Replaying, ReTyped
<1> QED
  BY <1>5, <1>6, <1>7, <1>8 DEF Replaying

LEMMA EndsLine ==
  ASSUME Rf!Constants, Replaying, Rf!EndLine
  PROVE  Replaying'
<1>1. reading = "footer" /\ UNCHANGED <<strict, file, ev_idx, pressed, ended>>
  BY DEF Rf!EndLine, Rf!Footer, Rf!Recording
<1>2. /\ ended # -2 /\ lines \in Seq(LineSet) /\ Len(lines) >= 1 /\ LastStamp \in Nat
      /\ Pressed /\ OwnLines /\ Foot \in {1, 2} /\ cycles = ended /\ ended \in 0 .. LastStamp
      /\ \A i \in 1 .. Len(pressed) : pressed[i] <= ended
  <2>1. /\ ended # -2 /\ lines \in Seq(LineSet) /\ Len(lines) >= 1 /\ LastStamp \in Nat
        /\ Pressed /\ OwnLines /\ Foot \in {1, 2} /\ cycles = ended /\ ended \in -1 .. LastStamp
        /\ ended # -1 /\ (Foot >= 1 => \A i \in 1 .. Len(pressed) : pressed[i] <= ended)
    BY <1>1 DEF Replaying, ReTyped, Recorded, Rf!Constants
  <2> QED
    BY <2>1
<1>3. Rf!Last(lines) = lines[Len(lines)] /\ Len(lines) = Len(pressed) + 1 + Foot
  <2>1. Len(pressed) \in Nat /\ Len(lines) \in Nat
    BY <1>2, LenProperties DEF Pressed
  <2> QED
    BY <1>2, <2>1 DEF Rf!Last, Foot
<1>4. Len(pressed) \in Nat
  BY <1>2, LenProperties DEF Pressed
<1>5. /\ Foot = 1 => Rf!Last(lines) = <<"end_emu", ended>>
      /\ Foot = 2 => Rf!Last(lines) = <<"end_cycles", ended>>
  BY <1>2, <1>3, <1>4 DEF OwnLines
<1>6. <<"end_cycles", cycles>> \in LineSet /\ <<"file_hash", TRUE>> \in LineSet
  <2>1. cycles \in Nat
    BY <1>2
  <2>2. <<"end_cycles", cycles>> \in {"key", "old", "end_cycles"} \X Nat
    BY ONLY <2>1
  <2>3. <<"file_hash", TRUE>> \in {"file_hash"} \X BOOLEAN
    BY ONLY TRUE
  <2> QED
    BY ONLY <2>2, <2>3 DEF LineSet
<1>7. CASE Foot = 1
  <2>1. lines' = Append(lines, <<"end_cycles", cycles>>) /\ UNCHANGED <<reading, cycles>>
    BY <1>5, <1>7 DEF Rf!EndLine, Rf!Footer, Rf!Recording
  <2>2. Pressed' /\ OwnLines' /\ Foot' = 2 /\ lines' \in Seq(LineSet) /\ Len(lines') >= 1
    BY <1>1, <1>2, <1>6, <1>7, <2>1, FootGrows
  <2>3. Recorded'
    BY <1>1, <1>2, <2>1, <2>2 DEF Recorded
  <2>4. Judged'
    BY <1>1, <2>1 DEF Replaying, Judged
  <2>5. NoneLate'
    BY <1>1, <2>1 DEF Replaying, NoneLate
  <2>6. ReTyped'
    BY <1>1, <1>2, <2>1, <2>2 DEF Replaying, ReTyped
  <2> QED
    BY <2>3, <2>4, <2>5, <2>6 DEF Replaying
<1>8. CASE Foot = 2
  <2>1. lines' = Append(lines, <<"file_hash", TRUE>>) /\ reading' = "load" /\ cycles' = 0
    <3>1. Rf!Last(lines) = <<"end_cycles", ended>>
      BY <1>5, <1>8
    <3>2. Rf!Last(lines)[1] # "end_emu"
      BY ONLY <3>1
    <3> QED
      BY <3>2 DEF Rf!EndLine, Rf!Footer, Rf!Recording
  <2>2. Pressed' /\ OwnLines' /\ Foot' = 3 /\ lines' \in Seq(LineSet) /\ Len(lines') >= 1
    <3> DEFINE line == <<"file_hash", TRUE>>
    <3>1. line \in LineSet /\ lines' = Append(lines, line) /\ line = <<"file_hash", TRUE>>
      BY <1>6, <2>1
    <3>2. /\ Pressed /\ OwnLines /\ lines \in Seq(LineSet) /\ Len(lines) >= 1
          /\ Foot <= 2 /\ Foot # 0 /\ Foot # 1 /\ pressed' = pressed /\ ended' = ended
      BY <1>1, <1>2, <1>8
    <3> HIDE DEF line
    <3>3. Pressed' /\ OwnLines' /\ Foot' = Foot + 1 /\ lines' \in Seq(LineSet) /\ Len(lines') >= 1
      BY ONLY <3>1, <3>2, FootGrows
    <3> QED
      BY <1>8, <3>3
  <2>3. Recorded'
    BY <1>1, <1>2, <2>1, <2>2 DEF Recorded
  <2>4. Judged'
    BY <1>1, <2>1 DEF Replaying, Judged
  <2>5. NoneLate'
    BY <1>1, <2>1 DEF Replaying, NoneLate
  <2>6. ReTyped'
    BY <1>1, <1>2, <2>1, <2>2 DEF Replaying, ReTyped
  <2> QED
    BY <2>3, <2>4, <2>5, <2>6 DEF Replaying
<1> QED
  BY <1>2, <1>7, <1>8

LEMMA ReplayStep ==
  ASSUME Rf!Constants, Replaying, [Rf!Next]_(Rf!vars)
  PROVE  Replaying'
<1>1. ASSUME Rf!Over PROVE Replaying'
  BY <1>1, ReplayStands DEF Rf!Over
<1> QED
  BY <1>1, LogsKey, RecordTurns, EndsRecord, EndsLine, Dies, ReplayBegins, ReplayTurn, ReplayStands
  DEF Rf!Next

(* What is so at the start, and what the invariant says.                   *)

LEMMA OneRow ==
  ASSUME NEW T, NEW e \in T
  PROVE  <<e>> \in Seq(T) /\ Len(<<e>>) = 1
  OBVIOUS

LEMMA RowsJoin ==
  ASSUME NEW T, NEW a \in Seq(T), NEW b \in Seq(T)
  PROVE  /\ a \o b \in Seq(T) /\ Len(a \o b) = Len(a) + Len(b)
         /\ Len(a) \in Nat /\ Len(b) \in Nat
  BY ConcatProperties, LenProperties

LEMMA RowOf ==
  ASSUME NEW T, NEW S \in SUBSET T, NEW m \in Nat, NEW body \in Rf!SeqOf(S, m)
  PROVE  body \in Seq(T)
<1>1. PICK n \in 0 .. m : body \in [1 .. n -> S]
  BY DEF Rf!SeqOf
<1>2. body \in [1 .. n -> T]
  BY <1>1
<1> QED
  BY <1>2, SeqDef

LEMMA HeadedIs ==
  ASSUME NEW S, NEW T, NEW x, x \in {Rf!Headed(h, body) : h \in S, body \in T}
  PROVE  \E h \in S, body \in T : x = Rf!Headed(h, body)
  OBVIOUS

LEMMA ClosedIs ==
  ASSUME NEW S, NEW T, NEW U, NEW x,
         x \in {Rf!Headed(Rf!Ranked, body \o Rf!Closing(t, c, hash)) : body \in S, t, c \in T, hash \in U}
  PROVE  \E body \in S, t, c \in T, hash \in U :
           x = Rf!Headed(Rf!Ranked, body \o Rf!Closing(t, c, hash))
  OBVIOUS

LEMMA InputsAre ==
  ASSUME Rf!Constants, NEW x \in Rf!Inputs
  PROVE  x \in Seq(LineSet) /\ Len(x) >= 1
<1>1. LastStamp \in Nat /\ MaxLines \in Nat /\ LastStamp + 1 \in Nat /\ LastStamp + 2 \in Nat
  BY DEF Rf!Constants
<1>2. 0 .. LastStamp \subseteq Nat
  BY <1>1
<1>3. Rf!Never \in Nat
  BY <1>1 DEF Rf!Never
<1>4. \A d \in Heads : <<"head", d>> \in LineSet
  BY DEF LineSet
<1>5. \A t \in Int, c \in Nat : <<"end_emu", t>> \in LineSet /\ <<"end_cycles", c>> \in LineSet
  BY DEF LineSet
<1>6. <<"file_hash", TRUE>> \in LineSet /\ <<"file_hash", FALSE>> \in LineSet
  BY DEF LineSet
<1>7. \A c \in Nat : <<"key", c>> \in LineSet /\ <<"old", c>> \in LineSet
  BY DEF LineSet
<1>8. <<"other", 0>> \in LineSet /\ <<"end_emu", -1>> \in LineSet
  BY DEF LineSet
<1>9. Rf!Line \subseteq LineSet
  <2>1. {"key", "old", "end_emu", "end_cycles"} \X (0 .. LastStamp) \subseteq LineSet
    <3> SUFFICES ASSUME NEW k \in {"key", "old", "end_emu", "end_cycles"}, NEW c \in 0 .. LastStamp
                 PROVE  <<k, c>> \in LineSet
      OBVIOUS
    <3>1. c \in Nat /\ c \in Int
      BY <1>2
    <3> QED
      BY <1>5, <1>7, <3>1
  <2>2. {"end_emu", "end_cycles"} \X {LastStamp + 1} \subseteq LineSet
    <3>1. LastStamp + 1 \in Int
      BY <1>1
    <3>2. <<"end_emu", LastStamp + 1>> \in LineSet /\ <<"end_cycles", LastStamp + 1>> \in LineSet
      BY <1>1, <1>5, <3>1
    <3> SUFFICES ASSUME NEW k \in {"end_emu", "end_cycles"} PROVE <<k, LastStamp + 1>> \in LineSet
      OBVIOUS
    <3> QED
      BY <3>2
  <2>3. <<"key", Rf!Never>> \in LineSet
    BY <1>3, <1>7
  <2> HIDE DEF LineSet
  <2> QED
    BY <1>6, <1>8, <2>1, <2>2, <2>3 DEF Rf!Line
<1>10. \A t \in 0 .. LastStamp, c \in 0 .. LastStamp, hash \in {<<>>, << <<"file_hash", TRUE>> >>} :
         Rf!Closing(t, c, hash) \in Seq(LineSet)
  <2> TAKE t \in 0 .. LastStamp, c \in 0 .. LastStamp, hash \in {<<>>, << <<"file_hash", TRUE>> >>}
  <2>1. <<"end_emu", t>> \in LineSet /\ <<"end_cycles", c>> \in LineSet
    <3>1. t \in Int /\ c \in Nat
      BY <1>2
    <3> QED
      BY <1>5, <3>1
  <2> HIDE DEF LineSet
  <2>2. << <<"end_emu", t>>, <<"end_cycles", c>> >> \in Seq(LineSet)
    BY <2>1
  <2>3. hash \in Seq(LineSet)
    <3>1. <<>> \in Seq(LineSet)
      BY EmptySeq
    <3>2. << <<"file_hash", TRUE>> >> \in Seq(LineSet)
      BY <1>6, OneRow
    <3> QED
      BY <3>1, <3>2
  <2> QED
    BY <2>2, <2>3 DEF Rf!Closing
<1>11. \A d \in Heads : << <<"head", d>> >> \in Seq(LineSet) /\ Len(<< <<"head", d>> >>) = 1
  BY <1>4, OneRow
<1>12. ASSUME NEW d \in Heads, NEW rest \in Seq(LineSet)
       PROVE  Rf!Headed(d, rest) \in Seq(LineSet) /\ Len(Rf!Headed(d, rest)) >= 1
  <2> HIDE DEF LineSet
  <2> DEFINE head == << <<"head", d>> >>
  <2>1. head \in Seq(LineSet) /\ Len(head) = 1
    BY <1>11
  <2>2. Rf!Headed(d, rest) = head \o rest
    BY DEF Rf!Headed
  <2> HIDE DEF head
  <2>3. head \o rest \in Seq(LineSet) /\ Len(head \o rest) = 1 + Len(rest) /\ Len(rest) \in Nat
    BY <2>1, RowsJoin
  <2> QED
    BY <2>2, <2>3
<1>13. Rf!Sound \subseteq Heads /\ Rf!Defects \subseteq Heads /\ Rf!Ranked \in Heads
  BY DEF Heads, Rf!Sound
<1>14. ASSUME NEW h \in Rf!Sound, NEW body \in Rf!SeqOf(Rf!Line, MaxLines),
              x = Rf!Headed(h, body)
       PROVE  x \in Seq(LineSet) /\ Len(x) >= 1
  <2>1. body \in Seq(LineSet) /\ h \in Heads
    BY <1>1, <1>9, <1>13, RowOf
  <2> QED
    BY <1>12, <1>14, <2>1
<1>15. ASSUME NEW d \in Rf!Defects,
              x = Rf!Headed(d, Rf!Closing(0, 0, << <<"file_hash", TRUE>> >>))
       PROVE  x \in Seq(LineSet) /\ Len(x) >= 1
  <2>1. Rf!Closing(0, 0, << <<"file_hash", TRUE>> >>) \in Seq(LineSet) /\ d \in Heads
    <3>1. 0 \in 0 .. LastStamp
      BY <1>1
    <3> QED
      BY <1>10, <1>13, <3>1
  <2> QED
    BY <1>12, <1>15, <2>1
<1>16. ASSUME NEW body \in Rf!SeqOf({"key", "old"} \X {0, 1, Rf!Never}, 2),
              NEW t \in 0 .. LastStamp, NEW c \in 0 .. LastStamp,
              NEW hash \in {<<>>, << <<"file_hash", TRUE>> >>},
              x = Rf!Headed(Rf!Ranked, body \o Rf!Closing(t, c, hash))
       PROVE  x \in Seq(LineSet) /\ Len(x) >= 1
  <2>1. {"key", "old"} \X {0, 1, Rf!Never} \subseteq LineSet
    <3> SUFFICES ASSUME NEW k \in {"key", "old"}, NEW n \in {0, 1, Rf!Never} PROVE <<k, n>> \in LineSet
      OBVIOUS
    <3>1. n \in Nat
      BY <1>3
    <3> QED
      BY <1>7, <3>1
  <2>2. body \in Seq(LineSet)
    BY <2>1, RowOf
  <2>3. Rf!Closing(t, c, hash) \in Seq(LineSet)
    BY <1>10
  <2>4. body \o Rf!Closing(t, c, hash) \in Seq(LineSet)
    BY <2>2, <2>3, RowsJoin
  <2> QED
    BY <1>12, <1>13, <1>16, <2>4
<1> QED
  <2>1. \/ \E h \in Rf!Sound, body \in Rf!SeqOf(Rf!Line, MaxLines) : x = Rf!Headed(h, body)
        \/ \E d \in Rf!Defects :
             x = Rf!Headed(d, Rf!Closing(0, 0, << <<"file_hash", TRUE>> >>))
        \/ \E body \in Rf!SeqOf({"key", "old"} \X {0, 1, Rf!Never}, 2),
              t, c \in 0 .. LastStamp, hash \in {<<>>, << <<"file_hash", TRUE>> >>} :
             x = Rf!Headed(Rf!Ranked, body \o Rf!Closing(t, c, hash))
    <3> DEFINE rows == Rf!SeqOf(Rf!Line, MaxLines)
               keys == Rf!SeqOf({"key", "old"} \X {0, 1, Rf!Never}, 2)
               stamps == 0 .. LastStamp
               hashes == {<<>>, << <<"file_hash", TRUE>> >>}
               whole == Rf!Closing(0, 0, << <<"file_hash", TRUE>> >>)
               A == {Rf!Headed(h, body) : h \in Rf!Sound, body \in rows}
               B == {Rf!Headed(d, whole) : d \in Rf!Defects}
               C == {Rf!Headed(Rf!Ranked, body \o Rf!Closing(t, c, hash)) :
                       body \in keys, t, c \in stamps, hash \in hashes}
    <3>1. Rf!Inputs = A \cup B \cup C
      BY DEF Rf!Inputs
    <3> HIDE DEF rows, keys, stamps, hashes, whole
    <3>2. x \in A => \E h \in Rf!Sound, body \in rows : x = Rf!Headed(h, body)
      BY HeadedIs
    <3>3. x \in B => \E d \in Rf!Defects : x = Rf!Headed(d, whole)
      OBVIOUS
    <3>4. x \in C => \E body \in keys, t, c \in stamps, hash \in hashes :
                       x = Rf!Headed(Rf!Ranked, body \o Rf!Closing(t, c, hash))
      BY ClosedIs
    <3> HIDE DEF A, B, C
    <3>5. x \in A \/ x \in B \/ x \in C
      BY <3>1
    <3> QED
      BY <3>2, <3>3, <3>4, <3>5 DEF rows, keys, stamps, hashes, whole
  <2>2. CASE \E h \in Rf!Sound, body \in Rf!SeqOf(Rf!Line, MaxLines) : x = Rf!Headed(h, body)
    BY <1>14, <2>2
  <2>3. CASE \E d \in Rf!Defects :
               x = Rf!Headed(d, Rf!Closing(0, 0, << <<"file_hash", TRUE>> >>))
    BY <1>15, <2>3
  <2>4. CASE \E body \in Rf!SeqOf({"key", "old"} \X {0, 1, Rf!Never}, 2),
                t, c \in 0 .. LastStamp, hash \in {<<>>, << <<"file_hash", TRUE>> >>} :
               x = Rf!Headed(Rf!Ranked, body \o Rf!Closing(t, c, hash))
    BY <1>16, <2>4
  <2> QED
    BY <2>1, <2>2, <2>3, <2>4

LEMMA ReplayInit ==
  ASSUME Rf!Constants, Rf!Init
  PROVE  Replaying
<1>1. file = Rf!NoFile /\ cycles = 0 /\ ev_idx = 0 /\ pressed = <<>> /\ LastStamp \in Nat
  BY DEF Rf!Init, Rf!Constants
<1>2. CASE reading = "load" /\ lines \in Rf!Inputs /\ ended = -2
  <2>1. lines \in Seq(LineSet) /\ Len(lines) >= 1
    BY <1>2, InputsAre
  <2>2. ReTyped
    BY <1>1, <1>2, <2>1 DEF ReTyped
  <2>3. Recorded
    BY <1>2 DEF Recorded
  <2>4. Judged
    BY <1>1, <1>2 DEF Judged
  <2>5. NoneLate
    BY <1>1, <1>2 DEF NoneLate
  <2> QED
    BY <2>2, <2>3, <2>4, <2>5 DEF Replaying
<1>3. CASE reading = "record" /\ lines \in {<< <<"head", h>> >> : h \in Rf!Sound} /\ ended = -1
  <2>1. PICK h \in Rf!Sound : lines = << <<"head", h>> >>
    BY <1>3
  <2>2. <<"head", h>> \in LineSet
    BY DEF LineSet, Heads
  <2> DEFINE line == <<"head", h>>
  <2>3. lines = <<line>> /\ line \in LineSet /\ line[1] = "head" /\ line[2] = h
    BY <2>1, <2>2
  <2> HIDE DEF line, LineSet
  <2>4. lines \in Seq(LineSet) /\ Len(lines) = 1 /\ lines[1] = line
    BY <2>3
  <2>5. Len(pressed) = 0 /\ pressed \in Seq(0 .. LastStamp)
    BY <1>1
  <2>6. Foot = 0
    BY <2>4, <2>5 DEF Foot
  <2>7. OwnLines
    BY <2>3, <2>4, <2>5, <2>6 DEF OwnLines
  <2>8. Pressed
    <3>1. MaxEvents \in Nat
      BY DEF Rf!Constants
    <3> QED
      BY <2>5, <3>1 DEF Pressed
  <2>9. ReTyped
    BY <1>1, <1>3, <2>4 DEF ReTyped
  <2>10. Recorded
    BY <1>1, <1>3, <2>5, <2>6, <2>7, <2>8 DEF Recorded
  <2>11. Judged
    BY <1>1, <1>3 DEF Judged
  <2>12. NoneLate
    BY <1>1, <1>3 DEF NoneLate
  <2> QED
    BY <2>9, <2>10, <2>11, <2>12 DEF Replaying
<1> QED
  BY <1>2, <1>3 DEF Rf!Init

LEMMA WholeIsPlayed ==
  ASSUME Rf!Constants, Replaying
  PROVE  Rf!PlaysWholeSession
<1> SUFFICES ASSUME reading \in {"run", "stopped"}, ended # -2
             PROVE  /\ ended >= 0
                    /\ [n \in DOMAIN file.ev |-> file.ev[n].at] = pressed
                    /\ file.end_cycles = ended
  BY DEF Rf!PlaysWholeSession
<1>1. /\ file = Rf!parse_file /\ Plays(file) /\ lines \in Seq(LineSet) /\ Pressed /\ OwnLines
      /\ ended \in -1 .. LastStamp /\ (Foot = 0 <=> ended = -1) /\ LastStamp \in Nat
  BY DEF Replaying, Judged, ReTyped, Recorded, Rf!Constants
<1>2. OwnParsed(file)
  BY <1>1, OwnRead
<1>3. Foot >= 2
  BY <1>1, <1>2 DEF Plays, PlaysSo, OwnParsed
<1>4. ended >= 0 /\ file.end_cycles = ended
  BY <1>1, <1>2, <1>3 DEF OwnParsed
<1>5. /\ DOMAIN file.ev = 1 .. Len(pressed)
      /\ \A i \in 1 .. Len(pressed) : file.ev[i] = [have_cyc |-> TRUE, at |-> pressed[i]]
  BY <1>2 DEF OwnParsed, IsParsed
<1>6. \A i \in 1 .. Len(pressed) : file.ev[i].at = pressed[i]
  <2> TAKE i \in 1 .. Len(pressed)
  <2>1. file.ev[i] = [have_cyc |-> TRUE, at |-> pressed[i]]
    BY <1>5
  <2> QED
    BY ONLY <2>1
<1>7. pressed = [i \in 1 .. Len(pressed) |-> pressed[i]]
  BY <1>1 DEF Pressed
<1> QED
  BY <1>4, <1>5, <1>6, <1>7

LEMMA OwnIsAccepted ==
  ASSUME Rf!Constants, Replaying
  PROVE  Rf!OwnFileAccepted
<1> SUFFICES ASSUME reading = "refused", Rf!Last(lines) = <<"file_hash", TRUE>>, ended # -2,
                    strict => file.head = Rf!Ranked /\ ~ (Len(lines) > HashedLines), ended = 0 => pressed = <<>>
             PROVE  FALSE
  BY DEF Rf!OwnFileAccepted
<1> DEFINE p == Len(pressed)
           l == Len(lines)
           h == file
<1>1. /\ h = Rf!parse_file /\ ~ Plays(h) /\ lines \in Seq(LineSet) /\ Pressed /\ OwnLines
      /\ ended \in -1 .. LastStamp /\ (Foot = 0 <=> ended = -1) /\ LastStamp \in Nat
      /\ Foot >= 1 => \A i \in 1 .. p : pressed[i] <= ended
  BY DEF Replaying, Judged, ReTyped, Recorded, Rf!Constants
<1>2. p \in Nat /\ l \in Nat /\ Foot = l - 1 - p /\ Foot \in 0 .. 3
  BY <1>1, LenProperties DEF Pressed, Foot, OwnLines
<1>3. lines[l] = <<"file_hash", TRUE>>
  BY DEF Rf!Last
<1>4. ASSUME NEW i \in 1 .. p + 1 PROVE lines[i][1] \in {"head", "key"}
  <2>1. CASE i = 1
    BY <1>1, <2>1 DEF OwnLines
  <2>2. CASE i # 1
    <3>1. i - 1 \in 1 .. p /\ 1 + (i - 1) = i
      BY <1>2, <2>2
    <3>2. lines[i] = <<"key", pressed[i - 1]>>
      BY <1>1, <3>1 DEF OwnLines
    <3> QED
      BY <3>2
  <2> QED
    BY <2>1, <2>2
<1>5. Foot >= 1 => lines[p + 2] = <<"end_emu", ended>>
  BY <1>1 DEF OwnLines
<1>6. Foot >= 2 => lines[p + 3] = <<"end_cycles", ended>>
  BY <1>1 DEF OwnLines
<1> HIDE DEF p, l
<1>7. lines[l][1] = "file_hash"
  BY <1>3
<1>8. Foot = 3
  <2>1. Foot # 0
    <3> SUFFICES ASSUME Foot = 0 PROVE FALSE
      OBVIOUS
    <3>1. l \in 1 .. p + 1
      BY <1>2
    <3> QED
      BY <1>4, <1>7, <3>1
  <2>2. Foot # 1
    <3> SUFFICES ASSUME Foot = 1 PROVE FALSE
      OBVIOUS
    <3>1. l = p + 2
      BY <1>2
    <3>2. lines[l][1] = "end_emu"
      BY <1>5, <3>1
    <3> QED
      BY <1>7, <3>2
  <2>3. Foot # 2
    <3> SUFFICES ASSUME Foot = 2 PROVE FALSE
      OBVIOUS
    <3>1. l = p + 3
      BY <1>2
    <3>2. lines[l][1] = "end_cycles"
      BY <1>6, <3>1
    <3> QED
      BY <1>7, <3>2
  <2> QED
    BY <1>2, <2>1, <2>2, <2>3
<1>9. l = p + 4
  BY <1>2, <1>8
<1>10. Rf!verify_file_hash = IF Len(lines) > HashedLines THEN -1 ELSE 1
  <2>1. ASSUME NEW i \in 1 .. l, i # l PROVE lines[i][1] # "file_hash"
    <3>1. CASE i \in 1 .. p + 1
      BY <1>4, <3>1
    <3>2. CASE i = p + 2
      <4>1. lines[i][1] = "end_emu"
        BY <1>5, <1>8, <3>2
      <4> QED
        BY <4>1
    <3>3. CASE i = p + 3
      <4>1. lines[i][1] = "end_cycles"
        BY <1>6, <1>8, <3>3
      <4> QED
        BY <4>1
    <3> QED
      BY <1>2, <1>9, <2>1, <3>1, <3>2, <3>3
  <2>2. l \in 1 .. l
    BY <1>2, <1>9
  <2> QED
    BY <1>1, <1>3, <2>1, <2>2, HashSaid DEF l
<1>11. OwnParsed(h)
  BY <1>1, OwnRead
<1>12. ended \in 0 .. LastStamp
  BY <1>1, <1>8
<1>13. /\ IsParsed(h) /\ h.err = FALSE /\ h.head = lines[1][2] /\ Len(h.ev) = p
       /\ \A i \in 1 .. p : h.ev[i] = [have_cyc |-> TRUE, at |-> pressed[i]]
       /\ h.have_emu /\ h.have_cycles /\ h.end_emu = ended /\ h.end_cycles = ended
  BY <1>8, <1>11 DEF OwnParsed, p
<1>14. DOMAIN h.ev = 1 .. p /\ \A i \in 1 .. p : h.ev[i].have_cyc = TRUE /\ h.ev[i].at = pressed[i]
  <2>1. h.ev \in Seq(Stamps) /\ Len(h.ev) = p
    BY <1>13 DEF IsParsed
  <2>2. DOMAIN h.ev = 1 .. p
    BY <2>1
  <2>3. ASSUME NEW i \in 1 .. p PROVE h.ev[i].have_cyc = TRUE /\ h.ev[i].at = pressed[i]
    <3>1. h.ev[i] = [have_cyc |-> TRUE, at |-> pressed[i]]
      BY <1>13
    <3> QED
      BY ONLY <3>1
  <2> QED
    BY <2>2, <2>3
<1>15. /\ \A i \in 1 .. p : pressed[i] \in Int /\ pressed[i] <= ended
       /\ \A m, n \in 1 .. p : m <= n => pressed[m] <= pressed[n]
  BY <1>1, <1>8 DEF Pressed, p
<1>16. Rf!Stamped(h) = 1 .. p /\ Rf!OldForm(h) = {}
  BY <1>14 DEF Rf!Stamped, Rf!OldForm
<1>17. Rf!InOrder(h)
  <2> SUFFICES ASSUME NEW n \in 1 .. p, n # 1 PROVE h.ev[n - 1].at <= h.ev[n].at
    BY <1>14 DEF Rf!InOrder
  <2>1. n - 1 \in 1 .. p /\ n - 1 <= n
    BY <1>2
  <2> QED
    BY <1>14, <1>15, <2>1
<1>18. Rf!InTime(h)
  BY <1>13, <1>14, <1>15, <1>16 DEF Rf!InTime
<1>19. Rf!OneClock(h)
  <2>1. 1 .. p # {} => ended # 0
    <3> SUFFICES ASSUME pressed = <<>> PROVE 1 .. p = {}
      OBVIOUS
    <3>1. p = 0
      BY DEF p
    <3> QED
      BY <3>1
  <2> QED
    BY <1>13, <1>16, <2>1 DEF Rf!OneClock
<1>20. Rf!validate_header(h)
  <2>1. h.head \in Rf!Sound
    BY <1>1, <1>13 DEF OwnLines
  <2>2. h.end_emu \in 0 .. LastStamp /\ h.end_cycles <= LastStamp
    BY <1>12, <1>13
  <2> QED
    BY <2>1, <2>2 DEF Rf!validate_header
<1>21. Plays(h)
  BY <1>10, <1>13, <1>16, <1>17, <1>18, <1>19, <1>20 DEF Plays, PlaysSo
<1> QED
  BY <1>1, <1>21

LEMMA ReplaySays ==
  ASSUME Rf!Constants, Replaying
  PROVE  Rf!NothingLate /\ Rf!PlaysWholeSession /\ Rf!OwnFileAccepted
<1>1. Rf!NothingLate
  BY DEF Replaying, NoneLate, Rf!NothingLate
<1> QED
  BY <1>1, WholeIsPlayed, OwnIsAccepted

(***************************************************************************)
(* The parts together: a step of the module is a step of the part its      *)
(* behaviour is of, so that each part's invariant is one of the module.    *)
(***************************************************************************)

\* Each part's invariant, of the behaviours that are its.
Kept3 ==
  /\ which = "replay" => Replaying
  /\ which = "config" => Configured
  /\ which = "install" => Installed
  /\ which = "listing" => Listed

\* A step is a step of the part the behaviour is of, and the others stand.
LEMMA StepIsPart ==
  ASSUME [Next]_vars
  PROVE  /\ which' = which
         /\ which = "replay" => [Rf!Next]_(Rf!vars)
         /\ IF which = "config" THEN [Cf!Next]_(Cf!vars) ELSE UNCHANGED Cf!vars
         /\ which = "install" => [In!InstallNext]_(In!ivars)
         /\ IF which = "listing" THEN [Re!Next]_(Re!vars) ELSE UNCHANGED Re!vars
<1>0. UNCHANGED recording => UNCHANGED Rf!vars
  BY DEF recording, Rf!vars
<1>1. UNCHANGED config <=> UNCHANGED Cf!vars
  BY DEF config, Cf!vars
<1>2. UNCHANGED listing <=> UNCHANGED Re!vars
  BY DEF listing, Re!vars
<1>3. UNCHANGED release /\ UNCHANGED install => UNCHANGED In!ivars
  BY DEF release, install, In!ivars
<1>4. CASE UNCHANGED vars
  <2>1. which' = which /\ UNCHANGED recording /\ UNCHANGED config /\ UNCHANGED release /\ UNCHANGED install /\ UNCHANGED listing
    BY <1>4 DEF vars
  <2> QED
    BY <1>0, <1>1, <1>2, <1>3, <2>1
<1>5. CASE Next
  <2>1. /\ which' = which
        /\ which # "config" => UNCHANGED config
        /\ which # "listing" => UNCHANGED listing
        /\ which = "replay" => Rf!Next
        /\ which = "config" => Cf!Next
        /\ which = "install" => In!InstallNext
        /\ which = "listing" => Re!Next
    BY <1>5 DEF Next, Only
  <2> QED
    BY <1>1, <1>2, <2>1
<1> QED
  BY <1>4, <1>5

LEMMA Kept3Always ==
  Spec => []Kept3
<1>1. Init => Kept3
  BY ReplayInit, ConfigInit, InstallHere, ListedInit, PartsAssumption DEF Init, Kept3
<1>2. Kept3 /\ [Next]_vars => Kept3'
  <2> SUFFICES ASSUME Kept3, [Next]_vars PROVE Kept3'
    OBVIOUS
  <2>1. which' = which
    BY StepIsPart
  <2>0. ASSUME which = "replay" PROVE Replaying'
    BY <2>0, StepIsPart, ReplayStep, PartsAssumption DEF Kept3
  <2>2. ASSUME which = "config" PROVE Configured'
    BY <2>2, StepIsPart, ConfigStep DEF Kept3
  <2>3. ASSUME which = "install" PROVE Installed'
    BY <2>3, StepIsPart, InstallStep DEF Kept3
  <2>4. ASSUME which = "listing" PROVE Listed'
    BY <2>4, StepIsPart, ListedStep DEF Kept3
  <2> QED
    BY <2>0, <2>1, <2>2, <2>3, <2>4 DEF Kept3
<1> QED
  BY <1>1, <1>2, PTL DEF Spec

\* WholeSessions, the property of the run: what is played of a recording is a
\* whole session, every key at its cycle and none late, wherever its recorder
\* may have died and whatever lines a file from elsewhere holds; and a session
\* that was closed in order is a file its own reader accepts.
THEOREM SessionsAreWhole ==
  Spec => []WholeSessions
<1>1. Kept3 => WholeSessions
  BY ReplaySays, PartsAssumption DEF Kept3, WholeSessions
<1> QED
  BY <1>1, Kept3Always, PTL

\* SettingsKept, the property of the run: unless a writer died, what the player
\* set is what the next read gives, whichever of the programs wrote last; and a
\* write cut short leaves the other file as it was.
THEOREM SettingsAreKept ==
  Spec => SettingsKept
<1>1. Kept3 => (which = "config" => Cf!SettingsStay /\ Cf!QualityStays /\ Cf!PairsTogether)
  BY ConfigSays DEF Kept3
<1>2. Kept3 /\ [Next]_vars => [crashes' # crashes => legacy' = legacy]_(Cf!vars)
  <2> SUFFICES ASSUME Kept3, [Next]_vars, ~ UNCHANGED Cf!vars, crashes' # crashes
               PROVE  legacy' = legacy
    OBVIOUS
  <2>1. which = "config" /\ [Cf!Next]_(Cf!vars)
    BY StepIsPart
  <2> QED
    BY <2>1, LegacyStays DEF Kept3
<1> QED
  BY <1>1, <1>2, Kept3Always, PTL DEF Spec, SettingsKept, Cf!LegacyOutlivesCut

\* InstallsWhole, the property of the run: a folder is runnable exactly when one
\* release is whole in it, and is once what is missing was brought; an import is
\* all or nothing whatever it reads and wherever it dies, is not kept from
\* starting by an earlier one's leavings, and touches no installation that stands;
\* and what a launcher picks can run when something can.
THEOREM InstallsAreWhole ==
  Spec => InstallsWhole
<1>1. which = "release" => Rl!RunnableIsWhole /\ Rl!FillingIsEnough
  BY WholeRuns, FillingRuns
<1>2. Kept3 => (which = "install" => In!NeverHalf /\ In!LeftoversCleared /\ In!PicksRunnable)
  BY DEF Kept3, Installed, Copied
<1>3. [Next]_vars =>
        [In!Importing => folder' = folder /\ (gog \in {None, In!Emptied} \/ gog' = gog)]_(In!ivars)
  BY StandingStays
<1> QED
  BY <1>1, <1>2, <1>3, Kept3Always, PTL DEF Spec, InstallsWhole, In!StandingStays

\* ListIsCurrent, the property of the run: once the game's end was heard of the
\* list is the directory's, and while the game runs its recording is neither
\* moved to the Trash nor uploaded, whatever rows a box held when the list moved.
THEOREM ListStaysCurrent ==
  Spec => ListIsCurrent
<1>1. Kept3 => (which = "listing" => Re!RowsAreCurrent /\ Re!PointsAtNothingGone)
  BY ListedSays DEF Kept3
<1>2. Kept3 /\ [Next]_vars =>
        [run = "writing" => dir'[child] # "absent" /\ (upload' = child => upload = child)]_(Re!vars)
  <2> SUFFICES ASSUME Kept3, [Next]_vars, ~ UNCHANGED Re!vars, run = "writing"
               PROVE  dir'[child] # "absent" /\ (upload' = child => upload = child)
    OBVIOUS
  <2>1. which = "listing" /\ Re!Next
    BY StepIsPart
  <2> QED
    BY <2>1, ListedLeaves DEF Kept3
<1> QED
  BY <1>1, <1>2, Kept3Always, PTL DEF Spec, ListIsCurrent, Re!BusyLeftAlone
=============================================================================
