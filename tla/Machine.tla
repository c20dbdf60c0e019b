------------------------------- MODULE Machine -------------------------------
(***************************************************************************)
(* The emulated machine's parts that share no state, each on a small       *)
(* instance: the timer's ports, the batches and their interrupts, the      *)
(* keyboard services, the sound card, arithmetic, the string instructions  *)
(* and its snapshots.  A behaviour is one part's, `which' says whose, and  *)
(* the others stand still.                                                 *)
(***************************************************************************)
EXTENDS Integers, Sequences

CONSTANTS
  Radix,                                        \* of Pit and Interrupts
  PortPast,                                     \* of Pit
  MaxPast, BatchSize, Unarmed, Resync, Modes, Others,  \* of Interrupts
  Slots, MaxLine, Cols, Rows, MaxTyped,         \* of Bios
  Programs, Starts, Lengths, Half, Transfer, Due, NBUF,  \* of Sound
  Top, Size, Segment, Bases, Bulk, MaxCount,    \* of Strings
  Sections, Sized, MaxTime, MaxDeaths           \* of Snapshot

VARIABLES
  which,
  ch, wrote, meant, elapsed, counted, value,
  channel, pic, left, takes, stack, short, inside, owed,
  head, tail, buf, shift, waits, enabled, iflag, halted, oa_active, line, pos, screen,
  started, given, typed,
  card, out, driver, isr, got, since, own, busy, hdr_i, dropped,
  prog, pc, lo, hi, y, z, si, fl, operand,
  op, el, df, dsb, esb, cnt, s, start,
  saving, mode, machine, broken, real, wants, slot, full, saved, ends

timer      == <<ch, wrote, meant, elapsed, counted, value>>
interrupts == <<channel, pic, left, takes, stack, short, inside, owed>>
bios       == <<head, tail, buf, shift, waits, enabled, iflag, halted, oa_active, line, pos,
                screen, started, given, typed>>
sound      == <<card, out, driver, isr, got, since, own, busy, hdr_i, dropped>>
alu        == <<prog, pc, lo, hi, y, z, si, fl, operand>>
strings    == <<op, el, df, dsb, esb, cnt, s, start>>
snapshots  == <<saving, mode, machine, broken, real, wants, slot, full, saved, ends>>
vars       == <<which, timer, interrupts, bios, sound, alu, strings, snapshots>>

Pt == INSTANCE Pit WITH MaxPast <- PortPast, got <- counted

Ir == INSTANCE Interrupts WITH Batch <- BatchSize, ch <- channel, iflag <- takes

Bs == INSTANCE Bios WITH prog <- waits

Sd == INSTANCE Sound WITH Start <- Starts, Length <- Lengths, prog <- driver

\* Words of three bits, and every decimal byte.
Al == INSTANCE Alu WITH W <- 3, Digits <- 99, start <- operand

St == INSTANCE Strings

Sn == INSTANCE Snapshot WITH pc <- saving, deaths <- ends

\* For the small instance: one section of each kind, and two programs with
\* buffers of two and three bytes.
OneOfEach  == <<"RELEASE", "CPU", "RAMLOW", "DEV", "VRAM">>
TwoStarts  == <<2, 5>>
TwoLengths == <<2, 3>>

\* What the proofs about the parts assume of their constants.
ASSUME PartsAssumption ==
  Pt!Counting /\ Ir!Constants /\ Ir!OneUse /\ Bs!Sizes /\ Sd!Constants
  /\ St!Constants /\ Sn!Constants

-----------------------------------------------------------------------------
Only(part) ==
  /\ which = part /\ UNCHANGED which
  /\ IF part = "timer" THEN TRUE ELSE UNCHANGED timer
  /\ IF part = "interrupts" THEN TRUE ELSE UNCHANGED interrupts
  /\ IF part = "bios" THEN TRUE ELSE UNCHANGED bios
  /\ IF part = "sound" THEN TRUE ELSE UNCHANGED sound
  /\ IF part = "alu" THEN TRUE ELSE UNCHANGED alu
  /\ IF part = "strings" THEN TRUE ELSE UNCHANGED strings
  /\ IF part = "snapshot" THEN TRUE ELSE UNCHANGED snapshots

\* Alu and Strings start in many ways; at rest they hold nothing.
AluRests ==
  prog = 0 /\ pc = 0 /\ lo = 0 /\ hi = 0 /\ y = 0 /\ z = 0 /\ si = 0 /\ fl = 0 /\ operand = 0
StringsRest ==
  op = 0 /\ el = 0 /\ df = 0 /\ dsb = 0 /\ esb = 0 /\ cnt = 0 /\ s = 0 /\ start = 0

Init ==
  /\ which \in {"timer", "interrupts", "bios", "sound", "alu", "strings", "snapshot"}
  /\ Pt!Init /\ Ir!Init /\ Bs!Init /\ Sd!Init /\ Sn!Init
  /\ IF which = "alu" THEN Al!Init ELSE AluRests
  /\ IF which = "strings" THEN St!Init ELSE StringsRest

Next ==
  \/ Only("timer") /\ Pt!Next
  \/ Only("interrupts") /\ Ir!Next
  \/ Only("bios") /\ Bs!Next
  \/ Only("sound") /\ Sd!Next
  \/ Only("alu") /\ Al!Next
  \/ Only("strings") /\ St!Next
  \/ Only("snapshot") /\ Sn!Next

Spec == Init /\ [][Next]_vars

-----------------------------------------------------------------------------
\* Every part's variables have their types.
TypeOK ==
  CASE which = "timer"      -> Pt!TypeOK
    [] which = "interrupts" -> Ir!TypeOK
    [] which = "bios"       -> Bs!TypeOK
    [] which = "sound"      -> Sd!TypeOK
    [] which = "alu"        -> Al!TypeOK
    [] which = "strings"    -> St!TypeOK
    [] which = "snapshot"   -> Sn!TypeOK

\* Counts go through the timer's byte-wide port whole: what is counted is what
\* was written, what is read was held at one moment, and a one-shot read back
\* tells how long ago it was loaded.
PortsTellTruth ==
  which = "timer" => Pt!LatchReadsWhole /\ Pt!CountsWhatWasMeant /\ Pt!OneShotTellsTime

\* What the controller has in service is what is being handled, an end of
\* interrupt ends the handler that sends it, each count written gives one
\* interrupt, and a one-shot is late by less than the batch it was written in.
InterruptsInOrder == Ir!InterruptsInOrder

\* The ring is the queue TypeAhead promises, a letter's case is that of the
\* shift keys as they were when it came, and what DOS line input shows of a
\* line is the line it returns.
KeysKept ==
  /\ Bs!Fifo
  /\ Bs!CaseIsShifts
  /\ [](which = "bios" => Bs!EchoIsLine)

\* The bytes played are the buffer's, in order and round again, with one
\* interrupt for each transfer asked for, none of them for the next program's
\* handler; samples are dropped only when every host buffer is full.
MusicInOrder ==
  which = "sound" =>
    Sd!InOrder /\ Sd!OnePerTransfer /\ Sd!NoStaleInterrupt /\ Sd!DropsOnlyWhenFull

\* Arithmetic carried from one instruction to the next is that of the whole
\* numbers, and a repeated string instruction is the same element by element.
InstructionsRight ==
  /\ which = "alu" =>
       /\ Al!WideArithmetic /\ Al!JumpsMean /\ Al!ShiftIsRepeated
       /\ Al!DecimalRight /\ Al!DivideUndoes
  /\ which = "strings" => St!CopyIsElementwise /\ St!FillIsElementwise /\ St!ScanStopsThere

\* The machine is never put together from two moments, a load puts it to one
\* that this install saved whole, and neither the guest's clock nor a recorded
\* session's is disturbed by it.
OneMoment == Sn!OneMoment

\* Violated: a fill leaves the source register where it was.
FillKeepsSource == which = "strings" => St!FillKeepsSource
=============================================================================
