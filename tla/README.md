# pfemu in TLA+

pfemu runs Pinball Fantasies on an emulated PC: a processor, a keyboard
controller, an interval timer, an interrupt controller, a sound card, a
display, a BIOS and a DOS, driven by one loop, with recordings ("ranked"
sessions) that must replay to the instruction, a launcher that starts it and
an online leaderboard that re-plays what it is sent.  This directory holds the
TLA+ specification of the parts whose behaviour depends on the *order* in
which things happen, or on arithmetic a unit test would hardly cover, the TLC
configurations that check them on small instances, and TLAPS proofs.

Run everything from this directory:

    tlasany Machine.tla
    tlc -workers 2 -config Machine.cfg Machine
    tlc -workers 2 -config Keyboard_safe.cfg KeyboardMC
    tlapm KeyboardProofs.tla

## 1. Inventory

The emulator is one thread.  Nothing in it runs in parallel, so what looks
like concurrency is the *interleaving* of three actors at fixed points: the
host (window messages, key events, the clock), the loop (batches of guest
instructions, device ticks, interrupt delivery) and the guest program.  The
points are in `src/run.c`: the guest moves only inside a batch, devices are
looked at only between batches, and the host is heard only in `plat_pump()`,
once per turn of the outer loop.  The launcher is another matter: it starts the
emulator as a process of its own and stays open, and its leaderboard requests
run on worker threads whose answers are delivered to its main loop.

| Component | State | Operations | Talks to | Hard because |
|---|---|---|---|---|
| Keyboard controller (`dev.c` 257-400) | `kbd_buf` ring, `kbd_held[]` | `kbd_key`, `kbd_release_all`, `kbd_read60`, reconcile (`main.c`) | PIC (IRQ1), guest INT 9, recorder | overflow, lost key-ups, three keys on one level bit |
| Interval timer (`dev.c` 96-255, 575-654) | `PITCH`, `next_irq`, `armed` | ports 40h/43h, `dev_tick`, `dev_next_deadline` | PIC (IRQ0), run loop | halves of counts, one interrupt per count, stale deadline |
| Interrupt controller (`dev.c` 30-95) | `irr`, `isr`, `imr` | `pic_raise/lower`, `pic_pending`, EOI, mask | CPU, all devices | nesting, priority, EOI meant for another |
| Run loop (`run.c`) | clocks, halted guest, pending requests, the process's stages | batch, idle jump, present, stop, options, clean-up | everything | where a batch ends decides what the guest sees; every exit path owes something |
| Recorder and replayer (`replay.c`) | event list, `ev_idx`, footer, mode | begin, log, end, parse, validate, inject, next deadline, stop | keyboard, run loop, DOS overlay | exactness to the instruction, files cut short, legacy files |
| DOS memory and programs (`dos.c` 30-250, 390-672) | MCB chain in guest memory, `procs[]`, `ivt_snap` | 48h/49h/4Ah/58h, EXEC, 4Ch, 31h | guest memory, vectors, game integration | resident drivers, stale owners, stale vectors |
| DOS files (`dos.c` 264-360, 675, 890-1003, 1170-1240) | `fh[]`, overlay directory, `state_shadow` | 3Ch-42h, save and load of handles | host files, snapshot, replay | copies, streams' buffers, handles by number |
| Snapshots (`snapshot.c`) | one slot per install | save, two-phase load | every device's save/load | death while the only slot is rewritten, half-applied load |
| BIOS (`bios.c`) | BDA type-ahead ring, cursor, video mode | INT 9/10h/16h/1Ah, DOS line input | keyboard, display | ring full, a call that waits and re-runs itself |
| Sound card and DMA (`sound.c`) | DSP command state, `dma[]`, flip-flop, host buffers | ports, `sb_tick`, `dma_fetch`, `host_flush` | PIC (IRQ7), host audio | single-cycle end against controller wrap; one program's transfer under the next |
| Game integration (`fantasies.c`) | session gate, patches, score attempts, present window | on EXEC, on key, per tick | DOS, keyboard, recorder, display | attempts opened and closed by memory values, pokes into a program that may be gone |
| Verification (`verify.c`) | `emitted`, verdict | `verify_fail`, `verify_report` | replay, score attempts | exactly one verdict on every exit path |
| Display (`vga.c`, `video.c`, `font.c`) | planes, latches, registers, histories of writes | ports, window reads and writes, `vga_render` | run loop, game integration | the picture is drawn at any moment of a frame |
| Processor (`cpu.c`) | registers, flags | step, string instructions in bulk | all | flags carried from one instruction to the next; the fast path |
| Launcher (`launchcore.c`, `launch*.c`, `launch_mac.m`) | choices of the user, last recording | what may start, record, replay, be submitted or deleted | configuration, online client, the game as a process | a dialog is up while the world goes on |
| Configuration (`cfg.c`), releases (`release.c`) | key=value files, hash table | read, write, import legacy files, detect | launcher, DOS | partial writes, two writers |
| Online client (`online.c`), account (`launch_gtk.c`) | token, requests out, submissions followed | login, check, upload, poll, list, keyring | launcher | answers late, out of order, twice or never |
| Installers (`gog.c`, `cdimage.c`) | the folder being filled | copy out of an image, rename, pick | file system, releases | any step may fail, the leftovers meet the next try |
| Host layers (`main.c`, `host_*.c`) | windows, audio queue | events, present | run loop | wall clock |

What makes each correct, in a sentence:

- *Keyboard*: no queued byte is stranded without an interrupt, no byte is read
  twice, and a flipper is up exactly while one of its keys is held.
- *Timer*: a count is what the guest wrote, a latch is what it froze, and one
  mode-0 count gives one IRQ0, on the instruction it is due on if the count was
  written before the batch.
- *PIC*: what is in service is what is being handled; an EOI ends its sender.
- *Replay*: the guest sees the recorded bytes on the recorded cycles, and the
  replay ends where the recording ended; a file that is accepted holds a whole
  session, and a session closed in order is accepted.
- *A process*: one verdict and an exit code that follows from it; a replay
  leaves the install's state as it was and takes its private copy away if it can.
- *DOS memory*: the chain tiles memory, nobody loses a block to another
  program's end, exits give everything back, no vector dangles.
- *DOS files*: the installation is never rewritten, what is written is read
  back, ranked sessions see no state but their own.
- *Snapshots*: a load puts the machine to one saved moment or leaves it alone.
- *BIOS*: keystrokes come out in the order they went in, none but those typed
  into a full ring is lost, and what is echoed is what is returned.
- *Sound*: the samples are the buffer's, in order; one interrupt a transfer.
- *Score*: a ranked attempt was played to its end with that score, and a game
  honestly played is ranked.
- *Trainer*: it says what holds in memory, and touches no other program.
- *Display*: the page is the one latched at the retrace, the seam stands where
  the menu switches, a write to the planes is a read-modify-write.
- *Arithmetic and strings*: idioms of several instructions leave the wide
  result; the bulk path leaves what the element loop leaves.
- *Launcher and leaderboard*: what is offered, shown, deleted or sent is what
  the user means by it at the moment it happens.
- *Configuration, installs*: what was set is what is read, across deaths; a
  half-filled folder never stands where an installation does.

## 2. Plan

Ordered by what a player or a leaderboard would notice first.

| # | Modules | Composes / refines | State |
|---|---|---|---|
| 1 | `KbdBytes`, `Keyboard`, `KeyboardProofs` | operators, machine, proofs | done |
| 2 | `PitChannel`, `Pit`, `Pic8259`, `Interrupts`; `MachineProofs` | `Interrupts` composes the channel, the controller and the loop | done (master PIC, channel 0) |
| 3 | `Session`, `SessionProofs` | composes the queue of `KbdBytes` with timer, loop and replay | done |
| 4 | `Mcb`, `Dos`, `DosProofs` | operators, machine, proofs | done |
| 5 | `DosFiles`, `DosFilesProofs` | handles, overlay, shadow, restored handles | done (core) |
| 6 | `ReplayFile`, `Play`; `FilesProofs` | a recording from its first line to its reader; a process from its options to its exit code | done |
| 7 | `Snapshot`; `MachineProofs` | slot rewritten over a death; load validates, then applies | done |
| 8 | `Bios`, `TypeAhead`, `Sound`; `MachineProofs` | the type-ahead ring implements a bounded queue; DSP, DMA and IRQ7 | done |
| 9 | `Score`, `Trainer`, `PresentWindow`; `TableProofs` | attempts from hooks and polls, patches, the moment of a frame | done |
| 10 | `Launcher`, `Replays`, `Leaderboard`, `Account`; `DeskProofs` | start rules, the list of recordings, requests, the login kept | done |
| 11 | `Config`, `Release`, `Install`; `FilesProofs` | settings, what a folder holds, import (`Install` extends `Release`) | done |
| 12 | `StartAddress`, `PaletteSplit`, `Vram`, `Alu`, `Strings` | the picture's registers, planar memory; arithmetic | done |
| 13 | further proofs | see below | next |

Five modules put parts together for TLC: `Machine`, `Table`, `Desk`, `Files`
for safety, `Progress` for liveness (section 4).

Every safety property of `table`, `desk`, of the DOS and keyboard runs and of the
replay's exactness is a theorem, and of `machine` and `files` all but those
section 6 lists at its end with the reason.

## 3. The modules

Names are the source's where they name a function, variable or field; "history"
variables exist only for properties.  `map` in `PROJECT.json` gives the lines of
every definition.

### Keyboard, timer, interrupts, sessions

**`KbdBytes`** - the queue as pure operators.  `Keys` are indices into
`kbd_held[]` (scan code, plus 128 behind the E0 prefix).  `kbd_push`,
`AfterMake`, `AfterBreak`, `HeldAfter` are what `kbd_key()` does to the queue
and the held set with the flipper fix on or off: eviction of the oldest bytes,
coalesced typematic makes, the re-asserted sibling.  The ring is a sequence of
at most `Cap` bytes (63 in the code, one slot of 64 stays free).

**`Keyboard`** - host calls and guest handler.  One action per host call;
`kbd_release_all` and `plat_kbd_reconcile`, which loop over keys, take a step
per key with `call` shutting everything else out until they return.  The guest
side (external: the game's KEYINT handler as `dev.c` describes it) reads one
byte per interrupt.  `Exec` is `fantasies_on_exec()`.  `whole` and `made` are
history variables: nothing was lost so far, and which makes were sent.

**`PitChannel`, `Pit`** (proofs in `MachineProofs`) - channel 0 and its ports: control words, latch, count
by halves, wrap-around reads.  Time is relative (`due`), a byte has `Radix`
values.  Modes 0 and 3 are those the programs use.

**`Pic8259`, `Interrupts`** (proofs in `MachineProofs`) - the master 8259 and the batch loop.  `Turn` is
what happens between two batches (`dev_tick`, `pic_pending`, `cpu_interrupt`,
then the next limit); each `Guest` action is one instruction.  Guests keep to
the usual form: one non-specific EOI per handler with interrupts off, then
IRET.

**`Session`** (proofs in `SessionProofs`) - one session recorded by a host that
presses keys whenever it is heard, then replayed from boot.  The guest is a small
deterministic program with a halting main loop, a timer handler and a keyboard
handler; `seen` is all it observes.  `Sub`, `Micro` and `Legacy` choose the
clock's grain and whether the file has cycle stamps.  The loops of
`kbd_release_all` and `replay_inject_due` take a step for each key (`ReleaseKey`,
while `mode = "release"`) and each event (`Inject`); `NextDue` keeps the turn
from starting before the last due event is in, and nothing else moves while keys
are let go.  `trace` is history: the machine after each step of the recording,
with the number of events logged by then.  "The replay does what the recording
did" is then "it stands on a machine of `trace`".

What the model says about a question `docs/VERIFY.md` (1071-1094) answers by
measurement: a replay clamps its batches to the next event and a recording does
not, so do the two have the same batches?  For a cycle-stamped file they do.
Keys arrive only between two turns, so every stamp is a boundary of the recorded
session; a replay that agrees with it up to an event reaches that boundary
unclamped, and the clamp cuts nothing.  The clamps matter for time stamps, for
`-keys` and `-untilemu`, and for an event in the footer's own cycle.

### DOS

**`Mcb`, `Dos`, `DosMC`** (proofs in `DosProofs`) - `Mcb` has the
chain as a function from header to owner and size, with `mcb_alloc` (three
fits), `mcb_free`, `mcb_resize` and `mcb_coalesce`.  `Dos` adds EXEC with its
environment block, exit, stay resident, the release of resident children and
the vectors.  `psp_parent` is the parent field *memory* holds at a segment,
stale or not, because that is what `mcb_free_children` reads.  The guest frees
only what it was given and takes its own vectors back before it exits; it
passes no environment to EXEC.

**`DosFiles`** (proofs in `DosFilesProofs`) - a file is its version, a handle a C stream with a buffer.
`OpenFile`, `Create`, `Close`, `Read`, `Write`, `Seek`, `Delete` are the INT 21h
calls; `SaveHandles`, `LoadHandles` what a snapshot does to the table; `Restart`
the end of the emulator.  What a snapshot says of a handle is kept under the handle's
number; `Reopened` opens them again one after the other, each in the lowest slot
that is free.  Snapshots are refused while recording or replaying,
so they never meet the shadow.

### Recordings, processes and snapshots

**`ReplayFile`** (proofs in `FilesProofs`) - the `.pfr` file as a sequence of lines, each a pair of its
kind and its stamp.  `replay_log_key`, `RecordTurn`, `replay_end_record`,
`Footer`, `EndLine` write it a line at a time, `Crash` stops anywhere; `Inputs`
adds every file of up to `MaxLines` lines from elsewhere.  `ReadLine` and
`parse_file` keep what the parser keeps (the flags it sets, the last footer that
wins); `validate_header`, `validate_events`, `verify_file_hash` are the
refusals, in the order they are tried; a file longer than `HashedLines` (16 MB in
the code) counts as one without a digest.  `Turn` injects, stops and runs on.

**`Play`** (proofs in `FilesProofs`) - one process from `Start` over the options (`ParseArgs`,
`Combos`), `ReadFile`, `Install`, `BeginRecord`, `Isolate`, `Exec`, the running
loop, and the order of what follows it: volume, snapshot, footer, games file,
report, video, the copy's removal, exit code.  A stage is an action and is the
value of `pc`; every early return goes through `Return`, and with a verdict owed
through `Refuse`.  `ended` tells a stop on the footer's very cycle, which
`verify_report` asks for, from one past it, which is enough for the games file
(`Completed`); `CleanedUp` is the copy's removal, which may fail with a warning.
`opts` is any set of flags in `Inputs`.  The disk outlives
the process, `Crash` ends one anywhere, and `runs` bounds how many follow.

**`Snapshot`** (proofs in `MachineProofs`) - `Key`, `ServeSave`, `SaveSection`, `SaveSeal`, `ServeLoad`,
`Boot` (`-load`) over a slot that is a sequence of pieces.  `OnePass` and `Valid`
are the first pass of `load_sections`, `Applied` what the second one puts into
the machine.  A part of the machine is represented by the emulated time its contents are
of, so "the machine was put together from two moments" is visible.  `Die`,
`DiskFills`, `OutOfMemory` and `Replace` (somebody copied a file there) are the
faults; `Anchored` is the wall clock's anchor set at a load.

### The emulated machine

**`Bios`** with **`TypeAhead`** (proofs in `MachineProofs`) - `Int9` puts keystrokes into the ring in the
BIOS data area, `Int16` and `LineKey` (DOS function 0Ah) take them out; both
wind back onto their own stub and halt when it is empty, so `halted` and `prog`
are part of the state and `Timer` and key interrupts wake them.  `Write` is the
teletype output, whose scrolling the line's echo has to survive.  `TypeAhead` is
what is promised - a queue of bounded length that drops what is typed into it
when full - and `Promise == INSTANCE TypeAhead WITH ...` maps the ring's words
onto it; `Fifo` is its specification as a property of `Bios`.

**`Sound`** - the DMA controller's channel and the DSP as one record, written by
the ports (`dma_write`, `sb_write`, `sb_command`, `sb_command_arg`).  A program's
driver is the list of outs it still has to make (`Script`), its handler one
acknowledgement and the next transfer.  `Tick` is `sb_tick`: it pulls the
samples due through `dma_fetch`, raises IRQ7 at the end of the DSP's own count,
and fills host buffers, which the host plays in order (`Playing`, `host_flush`).

**`Alu`** - `Sub`, `Add`, `do_inc`, `do_dec`, `do_shift`, `Rotate`, `ThroughCarry`,
`Decimal`, `Mul`, `Imul`, `Div`, `Idiv` and `cond` with their flags, at any width.
Properties are about *programs*: sums, differences and negations carried from one
word to the next, shifts of a double word, decimal sums, products divided back,
comparisons followed by each of the sixteen jumps.  A wrong flag shows in the
result of the program, which is compared with whole-number arithmetic.

**`Strings`** - `strop`, with the piecewise path (`Bulky`, `Piece`) and the element
loop (`Slow`), over memory that ends in the display's window and offsets that
wrap; properties compare each instruction with `One` step repeated.

### Around a running table

**`Score`** (proofs in `TableProofs`) - `fantasies_score_exec` as five hooked instructions and
`fantasies_score_tick` as `Poll`, over the table program the comments describe
(external; `g` is its state).  `t` is the tracker, `log` is `sc_log`, and `real`
is what was played.  The program starts games, adds players, loses and regains
balls, builds the live score again, plays itself in attract mode, and is left at
any point by another EXEC or by the end of the emulator (`Finish`).

**`Trainer`** - `patch_*` at load (`Loaded`), the keys (`ToggleBalls`,
`ToggleTilt`, `ToggleSpring`), the per-tick repair of the pause handshake, EXEC
and exit, and the snapshot of `fant`.  `mem` is what stands in memory at each
place a program was loaded to, running or not; the table's two interrupt
handlers and its pause loop are external.

**`PresentWindow`** - `pw_*`: redraws mark buckets of a frame (`Redraw`), every so
many of them the quiet span is chosen again (`pw_derive`), and a change of the
CRTC's timing forgets what was learned.

**`StartAddress`, `PaletteSplit`** - the two histories of register writes that
`vga_render` works from, in scan lines: `WriteStart`/`start_latched`/
`vga_display_start` with the ball's camera, and `WriteAr14`/`vga_render` with the
seam that is kept, moved and dropped.  The hardware's own latch is the history
variable `displayed`.

**`Vram`** - `Read` and `Write` through the window in chained, odd/even and planar
modes, write modes 0-3, read modes 0-1, the logical functions and rotation, and
`Row` as the picture reads the planes, scrolled by `Scroll` above a fixed panel.
A byte is the set of its bits that are 1.

### The launcher's side

**`Launcher`** (proofs in `DeskProofs`) - `SetMode`, `PickInstall`, `TickTrainer`, `TypePath`, `PickReplay`,
`Delete`, `Launch`, `ChildDone`, `Submitted`, `Reopen` over `ui`, the window's state; the helpers `ApplyMode`,
`RestorePath`, `SetPath`, `Autorestore`, `LoadFile` are the calls they make,
composed in the code's order.  Games are processes of their own that create,
finish or leave their recording (`GameRuns`); one may be started while another
still runs when the window was closed and opened again.

**`Replays`** (proofs in `FilesProofs`) - the window that lists recordings: `Open`, `Select`, `Submit`,
`Delete`, `DeleteYes`, `DeleteNo`, with the login or the question open over it
while `GameWrites`, `GameEnds`, `ChildExited`, `UploadAnswer`, `ListAnswer` go on.
`Rescan` frees the rows; a caller that kept an index or a pointer keeps it.

**`Leaderboard`** (proofs in `DeskProofs`) - a request is a record in `jobs` from `Start` to `Deliver`:
`Serve` is the service (external), `Lost` the network.  `LoginDone`, `SubmitDone`, `MeDone`,
`PollDone`, `ListDone` are the handlers with their generation checks, `AuthLost`
what a refused token does.  The player logs in, out and in as somebody else,
opens and cancels the window, submits, and answers the question.

**`Account`** (proofs in `DeskProofs`) - `online_load`, `online_save`, `token_store` of the two kinds of
launcher: one keeps the login in the keyring and takes care to keep the other's
line in the file, one keeps it in the file.  The keyring comes and goes; a
process may die while it writes (`Dies`, `WinFails`).

**`Config`** (proofs of this and the next two in `FilesProofs`) - `cfg_read`, `cfg_write` line by line, the six legacy files under
it, SOUND.CFG, the window positions; the launcher and the game as two writers,
each of which may die (`Dies`).  **`Release`** is `release_detect`,
`release_runnable` over a folder the user changes file by file.  **`Install`**
extends it by the import: scan, question, `List`, `Clear`, `Mkdir`, `Copy`,
`Rename`, each of which may fail, and what is picked and remembered (`Pick`,
`Launch`), in both the GTK and the SDL front end.

### Putting parts together

`Machine`, `Table`, `Desk` and `Files` each hold several components; their
constants are the components', their `.cfg` gives them the values of the small
instance, and `PartsAssumption` is what the proofs assume of them, which TLC
evaluates on those values.  `which` picks the one a behaviour is about and the others
stand still at one fixed state.  The parts of such a module share no variable
and no action, so a product of their state spaces would say nothing more and
cost a great deal; real interaction is inside the components (`Session` has the queue,
the timer, the loop and the file; `Interrupts` the channel, the controller and
the loop; `Install` the releases; `Replays` the game, the uploads and the list).
What a part promises is stated in the part's own module, under a name and with a
comment for every clause; the module that joins the parts has one property for
a whole promise, the conjunction of these clauses, guarded by `which`
where they are invariants.  A clause that is an action property speaks of the
part's own variables, which only its own behaviours change, and needs no guard.
`Progress` does the same for liveness.  The table gives the clauses.

| Property | Run | Clauses |
|---|---|---|
| `PortsTellTruth` | `machine` | `Pit`: `LatchReadsWhole`, `CountsWhatWasMeant`, `OneShotTellsTime` |
| `InterruptsInOrder` | `machine` | `Interrupts`: `ServiceIsStack`, `EoiEndsOwn`, `OneIrqPerCount`, `OvershootBounded` |
| `KeysKept` | `machine` | `Bios`: the refinement `Fifo` of `TypeAhead`, `CaseIsShifts`, `EchoIsLine` |
| `MusicInOrder` | `machine` | `Sound`: `InOrder`, `OnePerTransfer`, `NoStaleInterrupt`, `DropsOnlyWhenFull` |
| `InstructionsRight` | `machine` | `Alu`: `WideArithmetic`, `JumpsMean`, `ShiftIsRepeated`, `DecimalRight`, `DivideUndoes`; `Strings`: `CopyIsElementwise`, `FillIsElementwise`, `ScanStopsThere` |
| `OneMoment` | `machine` | `Snapshot`: `NoMixture`, `SealedIsWhole`, `NeverAhead`, `LoadsOnlySaved`, `RecordedClockForward` |
| `RankedIsWon` | `table` | `Score`: `OpenWhilePlaying`, `RankedWasWon`, `WonIsRanked`, `BallScoresRight`, `CounterTrue` |
| `PokesAreClean` | `table` | `Trainer`: `HandshakeClean`, `SaysWhatHolds`, `TakesNothing`, `OthersStand` |
| `PictureSteady` | `table` | `StartAddress`: `ShownIsLatched`, `StepsWithBall`; `PaletteSplit`: `MenuSteady`, `SeamLeaves`, `SeamStands`; `PresentWindow`: `AdoptsQuiet`, `FollowsRetrace` |
| `PlanesRight` | `table` | `Vram`: `ReadModifyWrite`, `WindowIsMemory`, `CompareFinds`, `PanelStands`, `PlotsWhereMeant` |
| `LaunchesAsShown` | `desk` | `Launcher`: `SettingsStayOwn`, `TrainerOffInSession`, `LastRecExists`, `OwnTargetsFresh`, `OffersRanked` |
| `LoginKept` | `desk` | `Leaderboard`: `OneUpload`, `TokenKept`, `CancelledStaysOut`; `Account`: `SaysWhatItHolds`, `OthersLoginStays`, `ForgottenOnlySo` |
| `WholeSessions` | `files` | `ReplayFile`: `NothingLate`, `PlaysWholeSession`, `OwnFileAccepted` |
| `SettingsKept` | `files` | `Config`: `SettingsStay`, `QualityStays`, `PairsTogether`, `LegacyOutlivesCut` |
| `InstallsWhole` | `files` | `Release`: `RunnableIsWhole`, `FillingIsEnough`; `Install`: `NeverHalf`, `LeftoversCleared`, `PicksRunnable`, `StandingStays` |
| `EndsAsItSays` | `files` | `Play`: `ExitFollowsVerdict`, `RefusalsSpeak`, `ZeroMeansReproduced`, `TrainerNever`, `NoCopyLeft`, `StateUntouched`, `GamesStay` |
| `ListIsCurrent` | `files` | `Replays`: `RowsAreCurrent`, `PointsAtNothingGone`, `BusyLeftAlone` |

In the same way the keyboard's `IrqMatchesQueue` is `NoStrandedByte` and
`NoStaleRead`, its `FlippersFollowKeys` is `NoStuckFlipper` and `HeldFlipperUp`,
the session's `ReplayIsExact` is `ReplayFaithful`, `NeverPastDeadline` and
`ReplayEndsExact`, the DOS's `HeapStands` is `HeldMemoryStands` and
`NoFreeNeighbours`, and `KeysArrive` is `FlipperComesDown` and `QueueMoves`.
To look at one clause, put its name in place of the conjunction in a copy
of the configuration (an operator for it, such as `Ir!OneIrqPerCount`, is a line).

## 4. The runs

| Run | Module | Distinct states | Shows |
|---|---|---|---|
| `keyboard_safe` | `KeyboardMC` | 1.6 M | types; no stranded byte, no stale read, no stuck or dropped flipper |
| `session_replay` | `Session` | 196 k | replays are exact and end |
| `session_focus` | `Session` | | *violated*: a focus loss with two keys of a side held replays differently |
| `dos_memory` | `DosMC` | 134 k | tiling, merging, ownership, everything returned, no dangling vector |
| `dos_files` | `DosFiles` | 1.4 M | install untouched, read-back, shadow, restored handles |
| `machine` | `Machine` | 2.5 M | timer ports; batches and interrupts; BIOS keys; sound; arithmetic; strings; snapshots |
| `table` | `Table` | 3.1 M | score; trainer; start address; split palette; planes; present window |
| `desk` | `Desk` | 3.5 M | launcher; leaderboard; login kept |
| `files` | `Files` | 2.5 M | recordings; settings; releases; imports; processes; list of recordings |
| `progress` | `Progress` | 59 k | liveness of the keyboard, the timer, BIOS calls, the music, a replay, a submission |
| `replays_delete` | `Files` | | *violated*: Delete removes another recording than the one it named |
| `strings_source` | `Machine` | | *violated*: a bulk fill moves SI |

`Session` and `DosFiles` state a `TypeOK` of their own that these runs do not
list; with INVARIANT `TypeOK` added to `Session_replay.cfg` or `DosFiles.cfg` it
is checked too.

The five that join parts set `CHECK_DEADLOCK FALSE`: an arithmetic program ends, a
process has its last run, a launcher is closed for good when its bounds are used
up.  `keyboard_safe`, `session_*`, `dos_*` check deadlock, which the code never
reaches: the host can always call, the guest can always go on.

Why the bounds are enough.

- *Keyboard and sessions.* The queue's rules depend on its free slots only
  through `need` (1 or 2), so a capacity of three or four meets every overflow:
  exactly full, one slot short for a prefixed key, evicting half a prefixed
  code.  Three keys give the sibling case on one side and the shared scan code
  across sides.  In the session the batch (4), the unarmed batch (2), the idle jump
  (5) and the timer delay (6) differ, so deadlines fall before, on and behind every cut.
- *DOS memory.* Twelve paragraphs fit three programs with environments and one
  free block on either side; the rule "a rest of less than two paragraphs stays
  in the block" is met at several places.  Twelve is also the least that holds a
  launcher, a table and a resident driver, each with its environment, which a
  dangling vector needs.  Best fit differs from first fit in one choice and is
  left out of the run; the proofs of section 6 cover all three fits.
- *DOS files.* Two handles and two files give gaps, a file open twice, and a
  full table.
- *Machine.* Timer bytes of three values tell low from high half, and zero from
  the wrapped range; a device besides the timer, on IRQ 1 and so less
  urgent than it, nests handlers (the proofs are for any devices).  A ring of two words and six
  key codes fill the ring, overflow it and wrap it; a screen of four by two
  scrolls under a line.  Two sound programs with buffers of two and three bytes put every phase of one
  buffer's wrap against the transfer's end, and a program's load in the middle
  of the other's.  Arithmetic takes *all* operands of three-bit words and all
  decimal bytes.  String instructions take all combinations of four operations,
  two sizes, two directions, overlapping segments, counts up to four and a
  window's edge; the bulk path begins at two elements.  Five sections (one of each kind of check)
  and two times make a mixture possible at every section; two deaths make a
  half-written slot meet another.
- *Table.* Games of one and of two balls stand for three and five; two games of
  up to two players meet a game that ends, is quit or is left while another's
  attempts are in the log, extra balls, and balls with and without points.  Two
  tables, one lacking sites, in two places give a kept address that belongs to
  another program.  A ring of three writes and four lines give a half-written
  pair on either side of the retrace.  The menu's frame of five lines lets the
  switch wander and miss a frame.  Video memory takes every mode with two
  accesses in any order.  Eight buckets give a redraw across the ring's end.
- *Desk.* Two installs and one that is gone, three names and two launches give a
  replay of another install's recording, two games at once and a name taken in
  between.  Two accounts, two logins and two requests give a stale answer to the
  next account; one loss makes every retry happen.
- *Files.* Files of three lines hold an event before and behind its footer, and
  a footer that contradicts its events; a session of two keys is longer than the
  five lines whose digest is compared, one of fewer is not.  Two launches and one death for settings, two deaths
  for an import.  Two processes, each with any two of twenty-two flags and every set of the
  flags of a verification, a recording and a game: contradictions between options
  are checked in pairs in the code, and what one process leaves meets the other.
  Two recordings and one new name give a list that shifts under an index.
- *Progress.* The same parts with the least instances on which each goes round
  its loops; a submission needs two requests at a time, since the poll and the
  question's answer overlap.

## 5. Fairness

- Keyboard: weak fairness of a started host call and of the reconcile sweep
  (`plat_kbd_reconcile` runs on every turn of the outer loop, `run.c`), strong
  fairness of taking IRQ1 and of the handler's steps, because host calls come
  between guest instructions again and again and the loop always goes back to
  the guest.
- Interrupts: weak fairness of `Turn` and of the guest's next instruction: the
  loop does not stop until the session ends, the processor always steps.
- BIOS: weak fairness of a call that has something to read, and of the timer
  interrupt, which the loop raises whatever the guest does; the user types or not.
- Sound: weak fairness of the driver's outs, of its handler and of a tick with
  samples due; the host may leave its buffers full as long as it likes.
- Replay: weak fairness of the loop's turn.
- Leaderboard: weak fairness of the poll timer, of the service's answers and of
  their delivery to the main loop, which are what GLib promises; the network may
  lose one answer, the player does what he likes.
- `Session`: weak fairness of the replaying loop's next step (`Inject` or
  `ReplayTurn`) only; the host promises nothing.

In `Progress` the conditions of several parts stand in one formula (`Fair1`,
`Fair2`, `Fair3`).  A behaviour runs only one part, so in it each formula *is* the
condition of that part.

## 6. What is proved

`KeyboardProofs` proves, for every set of keys and every queue capacity of at
least two (`KeysAssumption`, `CapAssumption`):

- `TypeCorrect`: `Spec => []TypeOK`;
- `LineMatchesQueue`: `Spec => []IrqMatchesQueue`, which the run checks;
- its two halves, `NeverStranded`: `Spec => []NoStrandedByte` and `NeverStale`:
  `Spec => []NoStaleRead`.

The lemmas about the queue come first: what `Evicted` and `kbd_push` return is a
queue of bytes, no longer than `Cap`, and a push that was granted room leaves it
non-empty; from these, the same for `AfterMake` and `AfterBreak`.  Neither safety
property is inductive alone: a byte must not leave the queue under a pending
interrupt (for `NoStaleRead`), and a read must ask for the next interrupt exactly
when it leaves bytes behind (for `NoStrandedByte`).  Their conjunction
`IrqMatchesQueue` is inductive relative to `TypeOK`; a focus loss, which raises
IRQ1 only when its loop is over, is why `NoStrandedByte` looks away while
`call = "release"` and why the step that ends the loop has to leave a request.
`IrqStep` has one case per action.

- `FlippersFollow`: `Spec => []FlippersFollowKeys`, which the run checks, relates
  the queue's *contents* to the held keys.  What a flipper will be once the queue
  is read is decided by the last code in it that belongs to a key of its side
  (`Up`), or by its bit if there is none (`Silent`).  The invariant `Follows`
  says: as long as nothing was lost, a flipper that will be up has a key held, and
  one of whose keys the table was told will be up.  Being about the last such code,
  and not about the bits in between, it survives a push at one end and a read at
  the other; `Appended` and the lemma for the read say so once, for any queue.

The first section of `MachineProofs` is about batches, counts, devices and nesting
of any size.

- `InterruptsKeptInOrder`: `Spec => InterruptsInOrder`, which the run of the machine
  checks, from its four clauses `ServiceKept`, `EndsOwn`, `OnePerCount`,
  `OvershootIsBounded`, which are stated of `Interrupts` alone; `InterruptsTyped`.

`Nested` carries the first two: what is in service is the stack of handlers, and
only the innermost can have sent its end of interrupt, with interrupts off until
it returns.  `OneShot` carries the other two: a count that runs in mode 0 is owed
its interrupt, and is due no earlier than the end of the batch that runs, less that
batch if it was written inside it.  The last two assume `OneUse`: the guest uses
one of the modes 0 and 3.  Without it `OnePerCount` is false, which is a divergence
listed in section 7.

The first part of `DosProofs` proves what the operators on a chain of memory control blocks do,
for memory of any size and requests of any size (`MemoryAssumption`):

- `AllocTiles`: a call that finds a block grants one that was free and is large
  enough, with any of the three fits; the chain still tiles memory and no other
  block in use is touched;
- `FreeTiles`: the same for `mcb_free` of any segment;
- `ResizeTiles`: the same for `mcb_resize`, and the block has the size asked for
  exactly when there was room.

Memory is tiled when every block ends at the next header or at the end of
memory.  The proofs follow the code's steps: a changed owner, a block cut in
two, a free neighbour absorbed, a coalescing pass.  For the last, the code's
loop is modelled by the headers it keeps; `CoalesceKeepsHeld` shows that blocks
in use come through it unchanged, `CoalesceMerges` that no free block is left
behind another.  Least and greatest elements, for the choices of a fit, come
from the library's well-foundedness of `<`.

Its second part lifts this to the programs, for every set of programs, every depth of
nesting and any number of blocks and vectors (`DosAssumption`: a program
asks for at least its PSP, and no segment of the heap is the owner mark of
environments):

- `HeldStands`: `Spec => []HeldMemoryStands`;
- `FreeMemoryIsMerged`: `Spec => []NoFreeNeighbours`;
- `HeapKept`: `Spec => []HeapStands`, both at once, which the run checks;
- `TypeCorrect`: `Spec => []TypeOK`, which contains the tiling.

`HeldMemoryStands` is not inductive.  When a program exits, `mcb_free_children`
frees every block whose owner's PSP, *as memory has it now*, names the program as
parent.  That this spares the programs below needs three more facts, and they make
the invariant `MInv`: memory still names each running program's true parent
(`Stack`; EXEC could have written an image over a PSP, and `LoadedElsewhere` shows
that it does not), no two programs share a PSP or an environment (`Stack`), and no
block from 48h is a PSP's own (`GivenApart`).  With the tiling and
`NoFreeNeighbours` this is inductive; there is one lemma per action, and `StepInv`
puts them together.

Two more properties of the run need invariants of their own on top of `MInv`:

- `NoDangling`: `Spec => []NoDanglingVector`.  `VectorsKept` says of a
  program that runs that what it found in a vector is the BIOS's or belongs to a
  program below it, and of a resident one that the snapshot which takes its vectors
  back holds something that will still be there.  It speaks of behaviours
  in which no EXEC's snapshot has lost what a resident driver found (`stale`, the
  divergence of section 7).
- `MemoryReturned`: `Spec => MemoryComesBack`.  `Returned(n)` says what the end of
  the n-th program relies on: every block in use when it was EXEC'd is still as it
  was and names nobody who will end with it, and every other block belongs to it, or
  to a program above it, or to a resident child.  So its end leaves exactly the
  blocks of then; that this makes it the *same chain* is `OneChain`:
  two tiled and merged chains with the same blocks in use are equal.

`DosFilesProofs` is about any files, handles, writes and positions
(`FilesAssumption`): `InstallKept`, `ReadsBack`, `ShadowIsKept`, `HandlesBack`, the
four properties of `dos_files`, and `TypeCorrect`.  The invariant `FInv` says of
every stream that it writes to the copy or nowhere, of every state file under
the shadow that it is read from the overlay and was put there by this session, and
of every plain file (never deleted, never open twice) that its only stream, or the
next one that opens it, finds what was written last.  `HandlesBack` follows the
loop that reopens handles; its recursive function is reached without induction over
data, by its least counterexample.

The other sections of `MachineProofs`:

- `Snapshot`, for any sections and deaths at any write (the release and the devices
  have sections, the seal is none): `MachineIsOneMoment`, the property `OneMoment` of
  `machine`, and of its clauses `NeverMixed`, `LoadsSaved`, `ClockForward`.  `SInv`
  says that the slot is cut off somewhere, or sealed by a save of this install
  section by section, or a file from elsewhere that is invalid or has a section
  that fails; only the second kind loads.
- `Pit`, for bytes of any range and counts of any size: `PortsToldTruth`, the property
  `PortsTellTruth`.  The invariant ties the halves of a count to the history: what
  the first of two writes or reads left, and which half is next.
- `Bios`, for a ring of any number of slots, a screen and a line of any size:
  `KeysAreKept`, the property `KeysKept`.  Its clauses are `RingIsQueue`, the
  refinement of `TypeAhead` - the ring's words from head to tail are the queue, every
  step of the ring is one of the queue's or none of its business - `CaseIsTheShifts`,
  and `EchoIsTheLine`, whose invariant says where on the screen the line begins
  after any scrolling and that its cells are the buffer's characters.
- `Sound`, for any number of programs whose buffers are of any length and lie anywhere
  in the controller's reach, a transfer of any length and any number of host buffers
  (`Constants`): `MusicIsInOrder`, the property `MusicInOrder`.  A driver says the same
  outs whatever card it finds, so how many are still to come (`Says`) fixes what the DSP
  has heard of the command it is being told (`Heard`), what the channel's registers
  hold (`Aimed`) and whether a sample may be pulled (`Pulls`), with ticks in between
  anywhere.  Before a program's reset its samples are still the old program's; from the
  channel's mask on they are counted anew, and once it is up the address is the start
  of the buffer and as many bytes on as were pulled, round again.  `Buffers`: the host's
  buffers that play are the last ones handed over, in turn, so the next one plays only
  when all do.
- `Strings`, for any contents and segments, memory of any size below the window, and any
  count (`Constants`): `StringsGoByElement`, the string half of `InstructionsRight`.
  `Halfway(k)` is the state after k elements of a copy or fill, in closed form; one
  more turn of the loop leads to the next (`TurnFills`), because an element still to be
  read is not written over and no second byte is the window's first, and the last one is
  what the piece leaves.  `Passed(n)` is the same for a comparison after n elements.
  The loop is a recursive function of the turns, and `Turns` steps through it.

`DeskProofs` is about what the player sees and the service keeps.

- `LaunchedAsShown`: `Spec => LaunchesAsShown`, for any installs, names and number of
  launches.  The invariant `Launching` has `Shown`, what the window shows is the
  picked install's and the mode's; `Own`, a target the launcher chose was free and is
  now nobody's, or the running game's; `Offered`, what Submit would send.
- `LoginsAreKept`: `Spec => LoginKept`, from `LoginOnlySo` of `Leaderboard` and
  `LoginStays` of `Account`.  For the requests, whatever order they are answered in:
  one upload at most is out and only while the window says so (`Single`,
  `Uploading`), the answer to a login window belongs to the one that is open,
  and every request bears the token it was sent with, so that a refusal of an old
  one is told from one of the token in use (`OwnToken`).  For the files: what the launcher
  holds is what the last save it finished put into the file or the keyring
  (`Holds`), and a launcher that has no login and could read the keyring knows it
  to be empty (`Remembers`).
- `DeskTyped`: `Spec => []TypeOK`, which the run checks.

`FilesProofs` has a section for each part of `files`.

- `Play`, for any flags, number of processes and disks: `ProcessEndsAsItSays`, the
  property `EndsAsItSays`, and of its clauses `ZeroIsReproduced`, `StateKept`,
  `GamesKept`.  `PInv` says for every stage of `emu_main` what the checks before it have
  settled (`Checked`), whose directory the guest writes (`Isolated`) and what has been
  said (`Spoken`).
- `Config`, for any settings, programs and deaths: `SettingsAreKept`, the property
  `SettingsKept`.  `Chosen` says that as long as no writer died what would be read is
  what the player chose last: a write of the launcher's takes the options from
  the window, one of the game's what it reads, and a notch of SOUND.CFG goes
  over the one in pfemu.cfg until sound is off.  `Lines`: an owner's x and y in the
  window file are of one save.
- `Release` and `Install`, for any table of releases, programs and needed files, no two
  releases with the same intro, and any discs: `InstallsAreWhole`, the property
  `InstallsWhole`.  What `release_detect` says of a folder is proved of *every*
  folder (`VerdictIs`, `CoherentSays`): it names the first release whose intro is
  there, and finds it whole exactly when nothing is missing and nothing is another's.
  For the import, `Copied` says where it stands: nothing of this disc in the way, the
  first files of its listing copied whole, or all of them.
- `Replays`, for any recordings, games, requests and answers: `ListStaysCurrent`, the
  property `ListIsCurrent`.  The invariant `Listed`: with no game running the rows are
  the directory's; while one runs, a login or a question that is open was opened
  over the list as it still is, and holds no row of the game's recording.  The list
  moves only when the game's end is heard of - and then it has no recording left
  to spare, which is why the same race, after it, is the violated run.
- `ReplayFile`, for any number of events, lines and any largest stamp:
  `SessionsAreWhole`, the property `WholeSessions`.  What `parse_file` makes of a file
  is a walk over its lines, and what is so of the walk's start and with every line is
  so of its end (`Parsed`, `UpTo`): any file parses to typed events (`ParsedIs`), the
  recorder's own to its keys and as much of the footer as was written (`OwnRead`).
  Neighbours that pass `validate_events` put the whole list in order (`SortedIs`),
  which is what lets `replay_inject_due` stop at the first event that is not due
  (`Injected`).  The invariant `Replaying` has, for the recorder, that the lines are
  its head, the keys pressed and `Foot` lines of a footer, and, for the reader, that
  the file it runs was accepted and no event before the clock is left (`NoneLate`).

In each of these modules the last theorems are of the composing module's `Spec`: a
step of it is a step of the part its behaviour is of and leaves the others, so a
part's invariant holds whenever `which` names the part.

`TableProofs` has a section for each part of `table`, and proves all five of the
run's properties for any value of their constants, which `PartsAssumption` requires
to be sound (`Constants` of each module): `TableTyped` is `Spec => []TypeOK`.

- `Score`, for games of any number of balls and points, any number of games and any
  place a poll falls in: `ScoresAreTrue`, the property `RankedIsWon`.  Its clauses are
  `RankedGamesWereWon` and `WonGamesAreRanked` (`RankedWasWon`, `WonIsRanked`),
  `BallsGetTheirPoints` (`BallScoresRight`), `CounterIsTrue` (`CounterTrue`) and
  `GamesAreSegmented` (`OpenWhilePlaying`).
- `Trainer`, for any tables, sites and places: `PokesStayClean`, the property
  `PokesAreClean`.  The invariant `Poked` is four claims, each of which the next
  one needs: what is poked at is the table that runs (`Follows`), a table waits for
  phase 2 only of the pause it is in, and the tick sees a pause before its end
  (`Handshake`), the ball is held again by every tick (`Controlled`), and what
  the screen last said of a site is so (`Told`).
- `StartAddress`, `PaletteSplit`, `PresentWindow`: `PictureIsSteady`, the property
  `PictureSteady`.  For frames of any length and histories of any number of entries:
  the newest write from before the last retrace is what the hardware took over
  (`Latching`); in the menu the ring holds its two writes in turn, and the next one
  comes before the last clear is three frames old, so there is always one to take the
  split from (`InMenu`, `SplitShown`).  For any number of buckets and any margins:
  a window is adopted only round quiet buckets, and from the retrace to it the
  quiet, once begun, goes on (`QuietAdopted`, `RetraceFollowed`).
- `Vram`, for bytes of any width, planes of any length, any register settings and any
  screen whose playfield fits in a plane: `PlanesAreRight`, the property
  `PlanesRight`.  Its invariant is the memory's type; what each access does
  is a lemma (`WrittenBits`, `WindowKeeps`, `ComparedRight`, `PanelKept`,
  `PlotSeen`) about remainders and sets of bits.

`GInv`, of the score, has what the code's comments only hint at.  `Following`: a ball is
launched only after a poll has seen it, so an attempt is locked, with the players and cheats
of then, before a point is made.  `Marks`: between two polls the counter moves by
one ball at most, and while the end of a ball is still to be marked the next one
has earned nothing; so the score a later poll reads is the score the ball ended
with.  `Counted`: there is a score for the end of each ball, such that the balls'
points are its differences and the marks its values (`Sums`); and while the score
is built again (`cleared`) the tracker does not look.  `SplitRight` shows that
`sc_split_balls` gives back the points from such marks.  All of this rests on
`Launch` waiting for a poll: the plunger takes longer than the two milliseconds
between polls.

`SessionProofs` is about every batch length, timer delay, idle jump, guest loop, set
of keys, queue capacity and length of session.

- `Exact`: for a file with cycle stamps (`~ Legacy`), `Spec` keeps `ReplayFaithful`
  and `NeverPastDeadline`, and all of `ReplayIsExact` unless the footer's time was
  rounded below the end (`RoundedDown`).
- `ExactInMicroseconds`: where a cycle is a whole number of microseconds
  (`Micro = 1`), as in the run, all of `ReplayIsExact` without exception.
- `TypeCorrect`: `Spec => []TypeOK`, for old files and new.

Both hypotheses are needed.  A time-stamped file has no cycle to end a batch on.  And a
footer rounded down stops the replay a moment early, which section 7 lists.  In
`EInv` the file is tied to the history: each machine of `trace` comes from the one
before by a turn or by the logged key whose stamp it bears (`Steps`), stamps are in
order and none is past the end (`Stamps`), and once the last event is in the clock
moves with every step (`Closing`).  The replay stands on a machine of `trace` with
exactly that machine's events injected (`OnTrace`) and has not passed the next event
(`InTime`).  The step that matters is `SameTurn`: a turn cut short by the next event
or the footer is the recorded turn, because the recorded one ends no later than
the stamp; hence the replay moves along `trace`, index by index.  A batch is a
recursive function of the number of instructions, and `BatchIs` gets what is needed of
it from a least counterexample.

Only model-checked:

- liveness (`KeysArrive`, `OneShotFires`, `CallsServed`, `KeepsPlaying`, `AcceptedEnds`,
  `FollowedSettles`, `ReplayEnds`): fairness and ENABLED are out of the prover's
  reach;
- what a recursive definition computes for every input, which needs induction over
  data: the arithmetic half of `InstructionsRight` (multiplication, division and
  shifts bit by bit, over words whose size is a power of two the provers know
  nothing of; the string half is proved);
- not yet proved: `TypeOK` of `Machine` and `Files` as a whole (`InterruptsTyped`, `PortsTyped`, `BiosTyped`, `SnapshotsTyped` and `PlayTyped` are
  its parts that are proved).  What is left of the first is `Alu`, `Strings` and the sound
  card's, of the second the list of recordings, whose `Remove` is a `SelectSeq`, an
  operator that takes an operator.

The proofs are about the very specifications the runs check: `Keyboard`, `Dos`,
`DosFiles` and `Session` themselves, and, through the `Spec` of the module that
composes them, `Interrupts`, `Pit`, `Bios`, `Sound`, `Strings` and `Snapshot` in `machine`, all six parts of
`table`, all six parts of `files`, and
`Launcher`, `Leaderboard` and `Account` in `desk`.

## 7. Known divergences between the code and what it says

With a run (the finding in `PROJECT.json` quotes the line):

- `session_focus`: recorded focus-loss breaks are injected through `kbd_key`,
  which re-asserts a sibling that is still held; the recording did not.
- `replays_delete`: a game that ends while the question is open has the list read
  again; Yes then trashes what the old index now holds.
- `strings_source`: a bulk REP STOS moves SI on.

Reproducible by adding a property to a configuration; TLC then shows the
behaviour:

- `Desk.cfg`, PROPERTY `OverwritesOnlyNamed`: the target kept from an earlier
  choice comes back for the next recording and overwrites what it holds by then
  (`launch.c:317`, `docs/REPLAY.md:171-174`).
- `Desk.cfg`, INVARIANT `CandidateQualifies`: Submit is offered for the file in
  the field after the file has changed (`launch.c:327`, 750-751).
- `Desk.cfg`, PROPERTY `StaleSaysNothing`: the answer to a submission made under a
  login that was given up is reported under the next one (`launch_gtk.c:910-912`).
- `Files.cfg`, INVARIANT `RefusedLeavesNothing`: `replay_abort()` is called by
  nothing, so a refused session leaves its overlay copy and a header-only file
  (`run.c:864`, `docs/REPLAY.md:235-252`).
- `Keyboard_safe.cfg` with SPECIFICATION `SpecInTable`, INVARIANT
  `BreaksAlwaysWin`: making room in a full queue can discard a queued break
  (`dev.c:285`, 271-272).
- `Session_replay.cfg` with `Legacy = TRUE`, `Sub = 2`, `Micro = 3`,
  `MaxEvents = 1`, `MaxCycle = 10`: `ReplayEnds` fails; a time-stamped event less
  than a cycle away from a halted guest truncates to an idle step of zero cycles,
  for ever (`replay.c:1190`, 951-954).
- `Dos_memory.cfg` with `MEM_LAST = 24`, `MaxProcs = 4`, `MaxGiven = 0`,
  `Sizes = {1}`, INVARIANT `ReleasedHooksUndone`: vectors are compared with their
  values at the *last* EXEC (`dos.c:213`, 201-205).
- `Machine` with `Modes <- {0, 3}` for `Ir`: `InterruptsInOrder` fails at `OneIrqPerCount`; a mode-0 control
  word leaves the periodic deadline armed, and it fires as a one-shot nobody
  loaded (`dev.c:214`, 590-591).

Seen while modelling.  Keyboard, timer, sessions:

- `dev.c:374`: with the flipper fix off and the queue full, `kbd_release_all`
  stops at the first key that does not fit ("Always active", 359-360).
- `run.c:1113`: an event stamped with the footer's own cycle is injected after
  the footer's clamp was computed; one more batch or jump runs (`LateEvent`
  names it in `Session`, whose properties exclude it).
- `replay.c:1210`: the footer's time is printed with six digits; rounded down
  it can stop a cycle-stamped replay before `end_cycles`.  A replay of a file with
  cycle stamps is stopped by time all the same, against the comment at 1203-1206.
- `run.c:988`: the batch limit is computed once; a shorter count written inside
  the batch comes due up to the rest of it late.  `OvershootBounded` states how
  late.
- A key at cycle 0 in a session closed at cycle 0 makes a file its reader refuses.
  Lines behind `file_hash:` are outside the digest, and so is all of a file over
  16 MB (`replay.c:514`): nothing stops the recorder there, and at some half a
  million events `-strict` refuses its own ranked recording
  (`OwnFileAccepted` excludes it).
- `verify.c:222`: the report's status replaces the failure of a video that could not
  be opened; a video that cannot be opened, the launcher and `-import` end without
  a verdict object, and so does a bad `-res` ahead of `-verify` (`run.c:339`); an earlier verdict file stays where a later process says nothing.
- `replay.c:366`: a temporary copy that cannot be removed is left, with a warning and
  no other sign (`"stuck"` in `Play`; `NoCopyLeft` asks that removal was tried).

DOS and snapshots:

- `dos.c:644`: exit frees the environment, the PSP's block and resident
  children, not blocks from 48h (`leaky` in `Dos`); `dos.c:586`: an EXEC that
  fails leaves its environment block.
- `dos.c:988`: 41h removes the *installed* file although originals "are never
  touched" (298-300), and the overlay's copy still opens afterwards.
- `dos.c:1232`: a restored handle takes the lowest free slot, not its saved
  number; after a gap, or after a file that cannot be reopened, the handles
  behind it shift (`HandlesComeBack` states the case without a gap).
- `dos.c:1004`: 45h answers with a free handle but does not reserve it.
- `snapshot.c:174-256`: writes are not checked, a full disk is reported as saved
  (`SealedIsWhole`: such a file is refused later).  After a load that failed
  half-way F6 still saves (392-419).

Machine and picture:

- A Backspace behind an extended key rubs out screen the line never wrote; a line
  at the right margin cannot be rubbed back; the CR may be stored one past the
  buffer's size (`dos.c:771`).
- `sound.c:345`: a tick that finds the channel masked ends playback for good.
- `vga.c:337`: the first start address after a mode change is shown at once, half-written
  or not; a history that overflows falls back to the live register.  One write of
  AR14 after the menu can paint a seam for up to three frames.
- `vga.c:133-139`: masked-out bits are taken from memory, not from the latch.
- `cpu.c:310`: a word run that ends at the video window's first byte is taken in bulk
  (`Straddles` in `Strings` excludes it).
- `cpu.c:1095`: IDIV of the lowest dividend by -1 overflows in the host's own
  division, which may end the emulator; `Idiv` faults, and no program of `Alu`
  divides anything but a product, which is never that number.
- Processor: no interrupt shadow after STI and MOV SS; a divide error pushes the
  address behind the instruction; a repeated CMPS is charged for its whole count.
- `fantasies.c:1421`: too tight a gap keeps the window of before; after a change of
  timing the old window is used until the next redraw.
- `fantasies.c:803-816`: an interrupt between the last two instructions of the
  pause meets the handshake the repair has not seen (`HandshakeClean` excludes that
  instruction).  After a table exits, keys and ticks write to where it was until
  the next EXEC.

Launcher and disk:

- Record in the launcher writes `trainer=0` to the install's settings; the wait
  thread's failure (`launch.c:2276`) lets a second game record over the first;
  when all 99 names are taken the last one is given out.
- `launch_gtk.c`: a list refused with 401 does not log out although 598 says so; a list
  answered late can drop a newer submission; a request for the list is
  skipped while an older one is out; a read error leaves `uploading` set.
- `launch.c:2851`: the level the volume keys set is overwritten by the next Launch
  from an open launcher (`run.c:1251-1253` saves it).
- `online.c:424-443`: a token the keyring refused is not offered to it again; a
  launcher that could not read the keyring may clear it with a later save; the
  Windows build ignores that a save failed.
- A first write of `pfemu.cfg` that dies leaves its defaults over the legacy files;
  a number cut short reads as another number.
- What another disc left in `.pfemu-import` makes `mkdir` fail for every later
  import; two importers share that folder (`cdimage.c:17-19`).

## 8. What is not modelled

- Processor: decoding, addressing modes, moves, segment loads.  They carry no
  order; hardware traces test them better.
- Timer channels 1 and 2, timer modes other than 0 and 3, the slave 8259, the
  ICW sequence, specific EOIs (the code ignores them).  No device raises an IRQ
  above 7.
- In `Dos`: AH=50h, `-trapexit`, the vectors 22h-24h, a ninth nested program
  (which is not pushed on `procs`), a resident root program.
- In `DosFiles`: the faked PINBALL.CFG and CD marker, FindFirst, read-only
  copies that fall back to `rb`, a full host disk, and the two bytes of INTRO.MOD
  that a read is made to answer (`fantasies.c:294`; no property is about that file).
- In `Session`: `-keys` and `-untilemu` (they use the same clamps).
- In `ReplayFile`: the number formats, and parser limits other than the number of events.
- In `Bios`: video services that only write registers.  In `Sound`: FM
  synthesis and the mixer, arithmetic on samples; ADPCM.
- In `Score` and `Trainer`: the locators' byte patterns (`Sites` says what they
  found), the jump kick, the direct start of a table.  The half-second watchdog
  of a score transaction and a game begun over one that is open
  (`fantasies.c:2699`, "should not happen") are not reached by the table programs.
- In `Vram` and the other display modules: text modes, the font, screen captures,
  PNG and video files.
- `launch_mac.m`, the Win32 and SDL launchers' widgets, drawing and layout; HTTP
  and JSON of the online client; mute (`*`); archive and ISO 9660 readers; the
  POSIX shims.
