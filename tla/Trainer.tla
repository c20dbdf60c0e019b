------------------------------- MODULE Trainer -------------------------------
(***************************************************************************)
(* What pfemu pokes into a running table: the trainer's hotkeys and the    *)
(* repair of the handshake that a pause can wedge (fantasies.c).  The      *)
(* program files are scanned as they are loaded and the places of the      *)
(* sites kept per table; fantasies_on_exec decides which table is running; *)
(* keys and ticks then write through the kept places.                      *)
(*                                                                         *)
(* An image is what is written to of a program in memory: the decrement of *)
(* the balls, the increment of the tilt meter, SPRING_VALID, PAUSEFLAG,    *)
(* INTERRUPTS_ON, and LAST_WAS_VB as `owed': "no", or a phase 2 owed to a  *)
(* phase 1 that ran since the last pause ended ("new") or not ("old").     *)
(* `wake' is the key that ends a pause, seen by the table.                 *)
(* The table's two interrupt handlers and its pause are external, as the   *)
(* comment above fantasies_patch_pause describes them.                     *)
(***************************************************************************)
EXTENDS Naturals

CONSTANTS
  Tables,   \* the table programs of the release
  Sites,    \* for each table the sites its image is found to have
  Places,   \* where EXEC may load a program
  None

Kinds == {"balls", "tilt", "spring", "pause"}
Other == "other"    \* any program that is not a table

\* What the proofs assume of them.
Constants ==
  /\ {None, Other} \cap Tables = {} /\ None \notin Places
  /\ Sites \in [Tables -> SUBSET Kinds]

VARIABLES
  armed,        \* session_armed, without -nopatch
  trainer,      \* trainer_enabled
  mem,          \* the images in memory, a program's own or a freed one's
  running,      \* the table that runs and its place, or None
  fix_on, table_num, spring_cheat_on,
  addr,         \* the kept places, per kind of site and table
  prev,         \* pause_prev_flag
  osd,          \* what the trainer last put on the screen
  ticked,       \* dev_tick has run and no instruction since
  slot          \* the snapshot, or None

fant == <<fix_on, table_num, spring_cheat_on, addr, prev>>
vars == <<armed, trainer, mem, running, fant, osd, ticked, slot>>

Image(p) == [prog |-> p, balls |-> "dec", tilt |-> "add", spring |-> FALSE,
             paused |-> FALSE, ion |-> TRUE, wake |-> FALSE, owed |-> "no"]

fix_active == armed /\ fix_on

Init ==
  /\ armed \in BOOLEAN /\ trainer \in BOOLEAN
  /\ mem = [p \in Places |-> Image(Other)] /\ running = None
  /\ fix_on = FALSE /\ table_num = None /\ spring_cheat_on = FALSE
  /\ addr = [k \in Kinds |-> [t \in Tables |-> None]]
  /\ prev = [t \in Tables |-> FALSE]
  /\ osd = None /\ ticked = FALSE /\ slot = None

----------------------------------------------------------------------------
(* Loading a program: load_mz scans the image, then dos_exec tells the rest *)

\* The scans for the sites: two forget a place they do not find again, two
\* leave the one they had.
patch_balls(t, p)  == [addr["balls"] EXCEPT ![t] = IF "balls" \in Sites[t] THEN p ELSE None]
patch_tilt(t, p)   == [addr["tilt"] EXCEPT ![t] = IF "tilt" \in Sites[t] THEN p ELSE None]
patch_spring(t, p) == IF "spring" \in Sites[t] THEN [addr["spring"] EXCEPT ![t] = p] ELSE addr["spring"]
patch_pause(t, p)  == IF "pause" \in Sites[t] THEN [addr["pause"] EXCEPT ![t] = p] ELSE addr["pause"]

Located(t, p) ==
  [balls |-> patch_balls(t, p), tilt |-> patch_tilt(t, p),
   spring |-> patch_spring(t, p), pause |-> patch_pause(t, p)]

LeavesTable(t) == t = Other

\* What is left elsewhere of an earlier table is not looked at again.
Loaded(t, p) == [q \in Places |-> Image(IF q = p THEN t ELSE Other)]

ExecTable(t, p) ==
  /\ mem' = Loaded(t, p) /\ running' = [table |-> t, at |-> p]
  /\ IF armed
     THEN /\ addr' = Located(t, p)
          /\ prev' = IF "pause" \in Sites[t] THEN [prev EXCEPT ![t] = FALSE] ELSE prev
          /\ fix_on' = TRUE /\ table_num' = t
     ELSE fix_on' = FALSE /\ table_num' = None /\ UNCHANGED <<addr, prev>>
  /\ spring_cheat_on' = FALSE /\ osd' = None
  /\ ticked' = FALSE /\ UNCHANGED <<armed, trainer, slot>>

\* The intro, or any program but a table: a .PRG, .EXE or .COM.
ExecOther(p) ==
  /\ mem' = Loaded(Other, p) /\ running' = None
  /\ IF LeavesTable(Other)
     THEN fix_on' = FALSE /\ table_num' = None /\ spring_cheat_on' = FALSE /\ osd' = None
     ELSE UNCHANGED <<fix_on, table_num, spring_cheat_on, osd>>
  /\ ticked' = FALSE /\ UNCHANGED <<armed, trainer, addr, prev, slot>>

\* A sound driver or a data file a table loads beside itself.
ExecDriver(p) ==
  /\ running # None /\ p # running.at
  /\ mem' = [mem EXCEPT ![p] = Image(Other)]
  /\ IF armed THEN UNCHANGED <<fix_on, table_num, spring_cheat_on, osd>>
     ELSE fix_on' = FALSE /\ table_num' = None /\ spring_cheat_on' = FALSE /\ osd' = None
  /\ ticked' = FALSE /\ UNCHANGED <<armed, trainer, running, addr, prev, slot>>

\* The table ends: nothing tells fantasies.c before the next EXEC.
Exit ==
  /\ running # None /\ running' = None
  /\ ticked' = FALSE /\ UNCHANGED <<armed, trainer, mem, fant, osd, slot>>

----------------------------------------------------------------------------
(* dev_tick: every turn, before an interrupt can be delivered              *)

\* Mutant: the edge of the other side.
IntoPause(was, now) == ~was /\ now
PauseEnded(was, now) == was /\ ~now

AfterPauseTick(m) ==
  LET a == addr["pause"][table_num] IN
  IF a = None \/ ~PauseEnded(prev[table_num], m[a].paused) THEN m
  ELSE [m EXCEPT ![a].owed = "no"]

AfterSpringTick(m) ==
  LET a == addr["spring"][table_num] IN
  IF ~spring_cheat_on \/ a = None THEN m ELSE [m EXCEPT ![a].spring = TRUE]

Tick ==
  /\ ~ticked /\ ticked' = TRUE
  /\ IF fix_active /\ table_num # None
     THEN /\ mem' = AfterSpringTick(AfterPauseTick(mem))
          /\ prev' = LET a == addr["pause"][table_num] IN
                     IF a = None THEN prev ELSE [prev EXCEPT ![table_num] = mem[a].paused]
     ELSE UNCHANGED <<mem, prev>>
  /\ UNCHANGED <<armed, trainer, running, fix_on, table_num, spring_cheat_on, addr, osd, slot>>

----------------------------------------------------------------------------
(* The hotkeys: a fresh make, while the host is heard                      *)

Hot == trainer /\ fix_active /\ table_num # None

Says(kind, on) == <<kind, on>>

ToggleBalls ==
  LET a == addr["balls"][table_num] IN
  /\ Hot /\ ticked /\ a # None
  /\ mem' = [mem EXCEPT ![a].balls = IF @ = "dec" THEN "nop" ELSE "dec"]
  /\ osd' = Says("balls", mem[a].balls = "dec")
  /\ UNCHANGED <<armed, trainer, running, fant, ticked, slot>>

Toggled(bytes) == IF bytes = "add" THEN "nop" ELSE "add"

ToggleTilt ==
  LET a == addr["tilt"][table_num] IN
  /\ Hot /\ ticked /\ a # None
  /\ mem' = [mem EXCEPT ![a].tilt = Toggled(@)]
  /\ osd' = Says("tilt", mem[a].tilt = "add")
  /\ UNCHANGED <<armed, trainer, running, fant, ticked, slot>>

ToggleSpring ==
  LET a == addr["spring"][table_num] IN
  /\ Hot /\ ticked /\ a # None
  /\ spring_cheat_on' = ~spring_cheat_on
  /\ mem' = [mem EXCEPT ![a].spring = ~spring_cheat_on]
  /\ osd' = Says("spring", ~spring_cheat_on)
  /\ UNCHANGED <<armed, trainer, running, fix_on, table_num, addr, prev, ticked, slot>>

----------------------------------------------------------------------------
(* The table (external).  Its main loop runs at any time; its interrupt    *)
(* handlers only when the loop delivers them, which is after a tick.       *)

Mine == mem[running.at]

Becomes(image) ==
  /\ mem' = [mem EXCEPT ![running.at] = image]
  /\ ticked' = FALSE /\ UNCHANGED <<armed, trainer, running, fant, osd, slot>>

PauseKey ==
  /\ running # None /\ ticked /\ ~Mine.paused
  /\ Becomes([Mine EXCEPT !.paused = TRUE, !.owed = IF @ = "new" THEN "old" ELSE @])
CheckPause  == running # None /\ Mine.paused /\ Mine.ion /\ ~Mine.wake /\ Becomes([Mine EXCEPT !.ion = FALSE])
WakeKey ==
  running # None /\ ticked /\ ~Mine.ion /\ ~Mine.wake /\ Becomes([Mine EXCEPT !.wake = TRUE])
\* The pause ends with two instructions, and a batch may end between them.
ResumeFirst == running # None /\ Mine.wake /\ ~Mine.ion /\ Becomes([Mine EXCEPT !.ion = TRUE])
ResumeLast  ==
  /\ running # None /\ Mine.wake /\ Mine.ion
  /\ Becomes([Mine EXCEPT !.paused = FALSE, !.wake = FALSE])

\* The ball rolls over the sensors of the spring lane; without the trainer
\* the flag is the table's alone.
Bygel == running # None /\ trainer /\ Becomes([Mine EXCEPT !.spring = ~@])

VBLANK_INT ==
  /\ running # None /\ ticked /\ Mine.ion /\ Mine.owed = "no"
  /\ Becomes([Mine EXCEPT !.owed = IF Mine.paused THEN "old" ELSE "new"])
LATE_RASTER_INTERRUPT ==
  /\ running # None /\ ticked /\ Mine.ion /\ Mine.owed # "no"
  /\ Becomes([Mine EXCEPT !.owed = "no"])

----------------------------------------------------------------------------
(* Snapshots, between two batches, of a detected release and never with    *)
(* the trainer on                                                          *)

State == [mem |-> mem, running |-> running, fix_on |-> fix_on, table_num |-> table_num,
          spring |-> spring_cheat_on, addr |-> addr, prev |-> prev]

Save ==
  /\ armed /\ ~trainer /\ ticked /\ slot' = State
  /\ UNCHANGED <<armed, trainer, mem, running, fant, osd, ticked>>

LoadedPrev(s) == s.prev

Load ==
  /\ ~trainer /\ ticked /\ slot # None
  /\ mem' = slot.mem /\ running' = slot.running
  /\ fix_on' = slot.fix_on /\ table_num' = slot.table_num /\ spring_cheat_on' = slot.spring
  /\ addr' = slot.addr /\ prev' = LoadedPrev(slot) /\ ticked' = FALSE
  /\ UNCHANGED <<armed, trainer, osd, slot>>

Next ==
  \/ \E t \in Tables, p \in Places : running = None /\ ExecTable(t, p)
  \/ \E p \in Places : running = None /\ ExecOther(p)
  \/ \E p \in Places : ExecDriver(p)
  \/ Exit \/ Tick
  \/ ToggleBalls \/ ToggleTilt \/ ToggleSpring
  \/ PauseKey \/ CheckPause \/ WakeKey \/ ResumeFirst \/ ResumeLast \/ Bygel
  \/ VBLANK_INT \/ LATE_RASTER_INTERRUPT
  \/ Save \/ Load

Spec == Init /\ [][Next]_vars

----------------------------------------------------------------------------
\* An image's bytes are whole instructions, and a kept place is a place.
TypeOK ==
  /\ \A p \in Places :
       /\ mem[p].prog \in Tables \cup {Other} /\ mem[p].owed \in {"no", "old", "new"}
       /\ mem[p].balls \in {"dec", "nop"} /\ mem[p].tilt \in {"add", "nop"}
  /\ running = None \/ (running.table \in Tables /\ running.at \in Places)
  /\ {fix_on, spring_cheat_on, ticked} \subseteq BOOLEAN /\ table_num \in Tables \cup {None}
  /\ addr \in [Kinds -> [Tables -> Places \cup {None}]] /\ prev \in [Tables -> BOOLEAN]
  /\ osd = None \/ osd \in {"balls", "tilt", "spring"} \X BOOLEAN

\* Whatever interrupt is delivered next, once PAUSEFLAG is down the table's
\* handlers never find a phase 2 owed from before the pause (fantasies.c
\* 667-673): also after a snapshot taken in a pause or in play was loaded.
HandshakeClean ==
  (ticked /\ fix_active /\ running # None /\ "pause" \in Sites[running.table] /\ ~Mine.paused)
     => Mine.owed # "old"

\* What the trainer last said of the running table holds: the bytes are as it
\* said, and ball control stays on over every switch the ball rolls across.
SaysWhatHolds ==
  (ticked /\ osd # None /\ running # None) =>
     CASE osd[1] = "balls"  -> (Mine.balls = "nop") = osd[2]
       [] osd[1] = "tilt"   -> (Mine.tilt = "nop") = osd[2]
       [] osd[1] = "spring" -> spring_cheat_on = osd[2] /\ (osd[2] => Mine.spring)

\* The repair clears no handshake of the frame in progress: it takes back a
\* phase 1 from before the pause's end, never one after it.
TakesNothing == [][\A p \in Places : mem[p].owed = "new" /\ mem'[p].owed # "new" => ~Tick]_vars

\* No key and no tick writes into a program that is not a table, whatever was
\* loaded where a table had been.
OthersStand ==
  [][\A p \in Places : (mem[p].prog = Other /\ mem'[p].prog = Other) => mem'[p] = mem[p]]_vars
=============================================================================
