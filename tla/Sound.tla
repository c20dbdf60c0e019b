--------------------------------- MODULE Sound ---------------------------------
(***************************************************************************)
(* The Sound Blaster (src/sound.c): the DMA controller's channel, the DSP  *)
(* that pulls samples across it as emulated time passes and interrupts     *)
(* when its own transfer has run out, and the queue of host buffers the    *)
(* samples end in.  The guest is the driver one program after the other    *)
(* loads: it programs the controller, resets the DSP, starts a             *)
(* single-cycle transfer and starts the next one from its handler.         *)
(***************************************************************************)
EXTENDS Integers, Sequences

CONSTANTS
  Programs,  \* one after the other, each with a buffer of its own
  Start,     \* [Programs -> address of the buffer]
  Length,    \* [Programs -> its length]
  Half,      \* values of the low half of a 16-bit register
  Transfer,  \* the DSP's length, a multiple of every buffer's
  Due,       \* bound: samples due in one tick
  NBUF       \* host buffers

VARIABLES
  card,      \* the controller's channel 1, the DSP and the line to the PIC
  out,       \* the driver's outs still to come, <<port, value>>
  prog,      \* the program whose driver runs, 0 before the first
  isr,       \* its handler runs
  got,       \* history: bytes pulled since the controller was programmed, mod its buffer
  since,     \* history: bytes pulled since the last interrupt or start
  own,       \* history: a transfer of this program has run out
  busy, hdr_i, dropped \* host buffers playing, oldest first, the next one;
                       \* history: a flush was dropped while one was free

vars == <<card, out, prog, isr, got, since, own, busy, hdr_i, dropped>>

\* Every program's buffer lies in the controller's reach and is no longer than
\* a transfer of the DSP.
Constants ==
  /\ Half \in Nat \ {0} /\ Transfer \in Nat \ {0} /\ NBUF \in Nat \ {0}
  /\ \A p \in Programs : /\ Start[p] \in Nat /\ Length[p] \in 1 .. Transfer
                         /\ Start[p] + Length[p] <= Half * Half

\* dma_reset and sb_reset_dev.
Reset == [addr |-> 0, count |-> 0, base |-> 0, bcount |-> 0, auto |-> FALSE,
          masked |-> TRUE, ff |-> 0,
          stage |-> FALSE, cmd |-> 0, args |-> <<>>, need |-> 0,
          size |-> 0, left |-> 0, playing |-> FALSE, irr |-> FALSE]

\* A register written in halves, as dma_ff says.
Written(c, old, v) ==
  IF c.ff = 0 THEN (old \div Half) * Half + v ELSE (old % Half) + v * Half

\* dma_write, the ports of channel 1.
dma_write(c, port, v) ==
  CASE port = "addr" -> [c EXCEPT !.base = Written(c, @, v), !.addr = Written(c, c.base, v),
                                  !.ff = 1 - @]
    [] port = "count" -> [c EXCEPT !.bcount = Written(c, @, v),
                                   !.count = Written(c, c.bcount, v), !.ff = 1 - @]
    [] port = "mask" -> [c EXCEPT !.masked = v = 1]
    [] port = "mode" -> [c EXCEPT !.auto = v = 1]
    [] port = "ff" -> [c EXCEPT !.ff = 0]

\* sb_start
sb_start(c, len) == [c EXCEPT !.playing = TRUE, !.size = len, !.left = len]

\* sb_command and sb_command_arg.
Needs(v) == CASE v \in {20, 72} -> 2 [] v = 64 -> 1 [] OTHER -> 0
sb_command(c, v) ==
  IF v = 208 THEN [c EXCEPT !.playing = FALSE] ELSE [c EXCEPT !.cmd = v, !.need = Needs(v)]
sb_command_arg(c, v) ==
  LET args == Append(c.args, v)
      done == [c EXCEPT !.args = <<>>, !.need = 0]
      len == args[1] + args[2] * Half + 1
  IN IF Len(args) < c.need THEN [c EXCEPT !.args = args]
     ELSE CASE c.cmd = 20 -> sb_start(done, len)
            [] c.cmd = 72 -> [done EXCEPT !.size = len]
            [] OTHER -> done

\* sb_write's reset.  Mutant: what the card asserted stays.
KeepsLine(c, v) ==
  IF v = 1 THEN [c EXCEPT !.stage = TRUE]
  ELSE IF c.stage
  THEN [c EXCEPT !.stage = FALSE, !.playing = FALSE, !.args = <<>>, !.need = 0]
  ELSE c
sb_reset(c, v) ==
  IF v = 1 THEN [c EXCEPT !.stage = TRUE]
  ELSE IF c.stage
  THEN [c EXCEPT !.stage = FALSE, !.playing = FALSE, !.args = <<>>, !.need = 0, !.irr = FALSE]
  ELSE c

sb_write(c, port, v) ==
  IF port = "reset" THEN sb_reset(c, v)
  ELSE IF c.need > 0 THEN sb_command_arg(c, v) ELSE sb_command(c, v)

\* sb_read of 22Eh: the acknowledgement.
sb_ack(c) == [c EXCEPT !.irr = FALSE]

-----------------------------------------------------------------------------
(* The driver, from the traces at the head of sound.c.                     *)

Byte2(port, n) == <<<<port, n % Half>>, <<port, n \div Half>>>>
Play == <<<<"dsp", 20>>>> \o Byte2("dsp", Transfer - 1)
Script(p) ==
  <<<<"mask", 1>>, <<"ff", 0>>, <<"mode", 1>>>>
  \o Byte2("addr", Start[p]) \o Byte2("count", Length[p] - 1)
  \o <<<<"mask", 0>>, <<"reset", 1>>, <<"reset", 0>>, <<"dsp", 209>>, <<"dsp", 64>>, <<"dsp", 1>>>>
  \o (IF p = 1 THEN <<>> ELSE <<<<"dsp", 72>>>> \o Byte2("dsp", Transfer - 1)) \o Play

\* The driver is up: its first transfer was started and its handler is in.
Up == prog # 0 /\ out = <<>>

\* A program starts, whatever the one before left the card doing, halted on
\* its way out or not.
Load ==
  /\ prog + 1 \in Programs /\ out = <<>> /\ prog' = prog + 1
  /\ \E halts \in BOOLEAN : out' = (IF halts THEN <<<<"dsp", 208>>>> ELSE <<>>) \o Script(prog + 1)
  /\ since' = 0 /\ own' = FALSE
  /\ UNCHANGED <<card, isr, got, busy, hdr_i, dropped>>

io_w8(c, port, v) ==
  IF port \in {"reset", "dsp"} THEN sb_write(c, port, v) ELSE dma_write(c, port, v)

Outs ==
  /\ out # <<>>
  /\ out' = Tail(out) /\ card' = io_w8(card, out[1][1], out[1][2])
  /\ since' = IF card'.playing /\ ~card.playing THEN 0 ELSE since
  /\ isr' = (isr /\ Len(out) > 1)
  /\ got' = IF out[1] = <<"mask", 1>> THEN 0 ELSE got
  /\ UNCHANGED <<prog, own, busy, hdr_i, dropped>>

\* The handler: acknowledge, then the next transfer.
Handler ==
  /\ Up /\ ~isr /\ card.irr
  /\ isr' = TRUE /\ card' = sb_ack(card) /\ out' = Play
  /\ UNCHANGED <<prog, got, since, own, busy, hdr_i, dropped>>

-----------------------------------------------------------------------------
(* sb_tick.  What it works on: the card and the histories.                 *)

\* dma_fetch, once it is not masked.
Next16(n) == (n + 1) % (Half * Half)
dma_fetch(c) ==
  IF c.count # 0 THEN [c EXCEPT !.addr = Next16(@), !.count = @ - 1]
  ELSE IF c.auto THEN [c EXCEPT !.addr = c.base, !.count = c.bcount]
  ELSE [c EXCEPT !.addr = Next16(@), !.masked = TRUE]

\* The DSP's transfer has run out: its own count, not the controller's wrap.
RunsOut(c) == c.left <= 1

\* Mutant: the line is not raised.
EndsSilent(c, f) == [f EXCEPT !.left = c.size, !.playing = FALSE]
Fired(c, f) == [f EXCEPT !.left = c.size, !.irr = TRUE, !.playing = FALSE]

\* One sample.
Sample(s) ==
  IF ~s.card.playing THEN s
  ELSE IF s.card.masked THEN [s EXCEPT !.card.playing = FALSE]
  ELSE LET c == s.card
           f == [dma_fetch(c) EXCEPT !.left = @ - 1]
           ends == RunsOut(c)
       IN [card |-> IF ends THEN Fired(c, f) ELSE f,
           got |-> IF prog = 0 THEN 0 ELSE (s.got + 1) % Length[prog],
           since |-> s.since + 1, own |-> s.own \/ (ends /\ Up)]

Pulled(n) ==
  LET s == [card |-> card, got |-> got, since |-> since, own |-> own]
  IN IF n = 1 THEN Sample(s) ELSE Sample(Sample(s))

\* host_flush: the next buffer, unless the device still plays it.
Playing(b) == \E i \in DOMAIN busy : busy[i] = b
host_flush ==
  IF Playing(hdr_i)
  THEN dropped' = (dropped \/ Len(busy) < NBUF) /\ UNCHANGED <<busy, hdr_i>>
  ELSE busy' = Append(busy, hdr_i) /\ hdr_i' = (hdr_i + 1) % NBUF /\ UNCHANGED dropped

Tick(n) ==
  /\ card.playing
  /\ LET s == Pulled(n) IN
     card' = s.card /\ got' = s.got /\ since' = s.since /\ own' = s.own
  /\ host_flush \/ UNCHANGED <<busy, hdr_i, dropped>>
  /\ UNCHANGED <<out, prog, isr>>

\* The device has played the buffer it was given first.
Played ==
  /\ busy # <<>> /\ busy' = Tail(busy)
  /\ UNCHANGED <<card, out, prog, isr, got, since, own, hdr_i, dropped>>

-----------------------------------------------------------------------------
Init ==
  /\ card = Reset /\ out = <<>> /\ prog = 0 /\ isr = FALSE
  /\ got = 0 /\ since = 0 /\ own = FALSE
  /\ busy = <<>> /\ hdr_i = 0 /\ dropped = FALSE

Next == Load \/ Outs \/ Handler \/ Played \/ \E n \in Due : Tick(n)

\* Emulated time passes and the guest runs.
Spec == Init /\ [][Next]_vars /\ WF_vars(Outs) /\ WF_vars(Handler)
             /\ WF_vars(\E n \in Due : Tick(n))

-----------------------------------------------------------------------------
\* Every variable keeps its type.
TypeOK ==
  /\ card.addr \in 0 .. Half * Half - 1 /\ card.left \in 0 .. Transfer
  /\ Len(card.args) < 2 /\ card.ff \in 0 .. 1
  /\ Len(busy) <= NBUF /\ hdr_i \in 0 .. NBUF - 1
  /\ got \in 0 .. Transfer

Running == Up /\ card.playing

\* What is heard is the running program's buffer, byte after byte and round
\* again, across the interrupts and the transfers started from them: never
\* the buffer of the program before, never an address put together from two.
InOrder == Running => card.addr = Start[prog] + got

\* One interrupt for each transfer of the DSP, after exactly its length, not
\* one for each time the controller goes round.
OnePerTransfer ==
  /\ Running /\ ~isr => since + card.left = Transfer
  /\ Up /\ card.irr => since = Transfer

\* A program never takes the interrupt of the one before.
NoStaleInterrupt == Up /\ card.irr => own

\* Samples are dropped only while every host buffer is playing.
DropsOnlyWhenFull == ~dropped

\* The music goes on: a transfer that ran out is followed by the next.
KeepsPlaying == Up ~> Running
=============================================================================
