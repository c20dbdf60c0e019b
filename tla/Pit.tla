-------------------------------- MODULE Pit ---------------------------------
(***************************************************************************)
(* One guest program working timer channel 0 through its ports (pit_write, *)
(* pit_read in src/dev.c): control words, latch commands, half-written     *)
(* counts and half-read ones in any order, while time passes.  IRQ0 is the *)
(* subject of Interrupts; here only what the guest writes and reads counts.*)
(***************************************************************************)
EXTENDS PitChannel, Sequences

VARIABLES
  ch,       \* the channel
  wrote,    \* history: bytes of a count written since the last control word
            \* or the last whole count
  meant,    \* history: the last count the guest finished writing
  elapsed,  \* history: ticks since a whole count was written in mode 0,
            \* or -1 when there is none that still runs
  got,      \* history: bytes read since the last latch command, two at most
  value     \* history: what that latch command froze

vars == <<ch, wrote, meant, elapsed, got, value>>

None == -1

Init ==
  /\ ch = pit_init
  /\ wrote = <<>> /\ meant = 0 /\ elapsed = None /\ got = <<>> /\ value = None

-----------------------------------------------------------------------------
TimePasses ==
  /\ ch.due > - MaxPast
  /\ ch' = Elapse(ch)
  /\ elapsed' = IF elapsed = None THEN None ELSE elapsed + 1
  /\ UNCHANGED <<wrote, meant, got, value>>

Control(mode, rw) ==
  /\ ch' = ControlWord(ch, mode, rw)
  /\ wrote' = <<>>
  /\ elapsed' = IF mode = 0 THEN elapsed ELSE None
  /\ got' = <<>> /\ value' = None
  /\ UNCHANGED meant

Latch ==
  \E n \in pit_count(ch) :
    /\ ch' = LatchCommand(ch, n)
    /\ got' = <<>> /\ value' = n
    /\ UNCHANGED <<wrote, meant, elapsed>>

Write(v) ==
  /\ ch' = WriteCount(ch, v)
  /\ IF ch.rw # 3 \/ wrote # <<>>
     THEN /\ meant' = CASE ch.rw = 1 -> v
                        [] ch.rw = 2 -> v * Radix
                        [] ch.rw = 3 -> wrote[1] + v * Radix
          /\ wrote' = <<>>
          /\ elapsed' = IF ch.mode = 0 THEN 0 ELSE None
     ELSE /\ wrote' = <<v>>
          /\ UNCHANGED <<meant, elapsed>>
  /\ UNCHANGED <<got, value>>

Read ==
  \E n \in ReadValues(ch) :
    /\ ch' = AfterRead(ch)
    /\ got' = IF value = None \/ Len(got) = 2 THEN got ELSE Append(got, ReadByte(ch, n))
    /\ UNCHANGED <<wrote, meant, elapsed, value>>

Next ==
  \/ TimePasses \/ Latch \/ Read
  \/ \E mode \in {0, 3}, rw \in 1 .. 3 : Control(mode, rw)
  \/ \E v \in Byte : Write(v)

Spec == Init /\ [][Next]_vars

-----------------------------------------------------------------------------
TypeOK ==
  /\ ch \in Channel
  /\ Len(wrote) < 2 /\ elapsed \in None .. Wrap + MaxPast
  /\ got \in Seq(Byte) /\ value \in None .. Wrap - 1

\* The two reads that follow a latch command return the two bytes of the
\* count it froze, low byte first, however many reads came before it and
\* however far the channel has run since.
LatchReadsWhole ==
  ch.rw = 3 /\ Len(got) = 2 => got = <<Lo(value), Hi(value)>>

\* The channel counts what the guest meant: a count takes effect when its
\* second byte arrives, and half a count written before a control word is
\* never joined to a byte written after it.
CountsWhatWasMeant == ch.reload = meant

\* dev.c on pit_count: a one-shot read back tells how much of it is left,
\* and past terminal count how late the read is, as a count that wrapped.
OneShotTellsTime ==
  ch.mode = 0 /\ elapsed # None =>
    \A n \in pit_count(ch) : n = (ch.reload - elapsed) % Wrap
=============================================================================
