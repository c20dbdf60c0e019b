--------------------------------- MODULE Bios ---------------------------------
(***************************************************************************)
(* The keyboard side of the BIOS and of DOS (src/bios.c, src/dos.c): INT 9 *)
(* puts keystrokes into a ring in the BIOS data area, INT 16h and DOS's    *)
(* line input take them out, and a call that finds it empty winds back     *)
(* onto its own stub and halts until an interrupt.  Line input echoes what *)
(* it takes through the teletype, which scrolls the screen.                *)
(***************************************************************************)
EXTENDS Integers, Sequences, FiniteSets

CONSTANTS
  Slots,     \* words in the ring, one of them always free
  MaxLine,   \* the size byte of the line's buffer
  Cols, Rows,
  MaxTyped   \* bound: key codes that arrive and characters written

\* What the proofs assume of them.
Sizes == {Slots, Cols, Rows} \subseteq Nat \ {0} /\ MaxLine \in Nat

VARIABLES
  head, tail, buf,  \* the ring: 40:1A, 40:1C and the words between
  shift,            \* 40:17, the two shift keys' bits
  prog,             \* the program: "runs", or waiting in "int16" or "line"
  enabled,          \* the interrupt flag it called with
  iflag,            \* the processor's, cleared by the call
  halted,
  oa_active,        \* a line is half read
  line,             \* the characters in the program's line buffer
  pos, screen,      \* 40:50 as a row and a column, the text page
  started,          \* history: where the line's echo began, Nowhere once it scrolled
                    \* or took a key with no character
  given, typed

ring == <<head, tail, buf>>
input == <<prog, enabled, iflag, halted, oa_active, line>>
tty == <<pos, screen, started>>
vars == <<ring, shift, input, tty, given, typed>>

\* A keystroke is its ASCII code: a letter in either case, the two keys DOS
\* treats apart, and 0 for a key that has none.
Enter == 13
Back == 8
Arrow == 0
Blank == 32
Strokes == {97, 65, Enter, Back, Arrow}
\* Codes INT 9 reads: letter, the three other keys, the shifts.
LShift == 42
RShift == 54
Shifts == {LShift, RShift}
Plain == {97, Enter, Back, Arrow}

After(i) == (i + 1) % Slots
Nowhere == <<-1, -1>>

\* The ring as a queue.
Queued == [i \in 1 .. (tail - head + Slots) % Slots |-> buf[(head + i - 1) % Slots]]
Empty == head = tail

-----------------------------------------------------------------------------
\* kbuf_put.  Mutant: a full ring is not noticed.
PutAnyway(k) == buf' = [buf EXCEPT ![tail] = k] /\ tail' = After(tail) /\ UNCHANGED head
kbuf_put(k) ==
  /\ IF After(tail) = head THEN UNCHANGED <<buf, tail>>
     ELSE buf' = [buf EXCEPT ![tail] = k] /\ tail' = After(tail)
  /\ UNCHANGED head

\* sc2asc_hi and sc2asc_lo.
Ascii(code) == IF code = 97 /\ shift # {} THEN 65 ELSE code

\* An interrupt is taken when the flag allows, and wakes the processor.
\* Mutant: it sleeps on.
SleepsOn == halted
Woken == FALSE

\* bios_int9, for a code the controller has.
Int9(code, down) ==
  /\ typed < MaxTyped /\ typed' = typed + 1
  /\ iflag
  /\ shift' = IF code \notin Shifts THEN shift
              ELSE IF down THEN shift \cup {code} ELSE shift \ {code}
  /\ IF code \notin Shifts /\ down THEN kbuf_put(Ascii(code)) ELSE UNCHANGED ring
  /\ halted' = Woken
  /\ UNCHANGED <<prog, enabled, iflag, oa_active, line, tty, given>>

\* Any other interrupt.
Timer == /\ halted /\ iflag /\ halted' = Woken
         /\ UNCHANGED <<ring, shift, prog, enabled, iflag, oa_active, line, tty, given, typed>>

\* A program that stuffs the buffer: INT 16h AH=05.
Stuff(k) ==
  /\ prog = "runs" /\ typed < MaxTyped /\ typed' = typed + 1
  /\ kbuf_put(k)
  /\ UNCHANGED <<shift, input, tty, given>>

-----------------------------------------------------------------------------
(* The teletype: putch_tty.                                                *)

\* A state of the teletype is a cursor, a page and the echo's start.
Cell(p) == p[1] * Cols + p[2]
Moved(p, c) ==
  CASE c = 13 -> <<p[1], 0>>
    [] c = 10 -> <<p[1] + 1, p[2]>>
    [] c = Back -> <<p[1], IF p[2] > 0 THEN p[2] - 1 ELSE 0>>
    [] OTHER -> <<p[1], p[2] + 1>>
Wrapped(p) == IF p[2] >= Cols THEN <<p[1] + 1, 0>> ELSE p
Scrolled(s) ==
  [i \in 0 .. Rows * Cols - 1 |-> IF i < (Rows - 1) * Cols THEN s[i + Cols] ELSE Blank]

putch_tty(t, c) ==
  LET put == IF c \in {13, 10, Back} THEN t.screen ELSE [t.screen EXCEPT ![Cell(t.pos)] = c]
      p == Wrapped(Moved(t.pos, c))
  IN IF p[1] < Rows THEN [pos |-> p, screen |-> put, started |-> t.started]
     ELSE [pos |-> <<Rows - 1, p[2]>>, screen |-> Scrolled(put), started |-> Nowhere]

Tty == [pos |-> pos, screen |-> screen, started |-> started]
Shows(t) == pos' = t.pos /\ screen' = t.screen /\ started' = t.started
Rubbed(t) == putch_tty(putch_tty(putch_tty(t, Back), Blank), Back)

-----------------------------------------------------------------------------
\* kbuf_get
kbuf_get == head' = After(head) /\ given' = <<buf[head]>> /\ UNCHANGED <<tail, buf>>

\* INT 16h AH=00 or INT 21h AH=0Ah, called with interrupts on or off; the
\* line starts over unless one is half read.
Call(f, on) ==
  /\ prog = "runs" /\ prog' = f /\ enabled' = on /\ iflag' = FALSE
  /\ line' = IF f = "line" /\ ~oa_active THEN <<>> ELSE line
  /\ started' = IF f = "line" THEN pos ELSE started
  /\ UNCHANGED <<ring, shift, halted, oa_active, pos, screen, given, typed>>

\* The program writes a character, a prompt say.
Write(c) ==
  /\ prog = "runs" /\ typed < MaxTyped /\ typed' = typed + 1
  /\ Shows(putch_tty(Tty, c))
  /\ UNCHANGED <<ring, shift, input, given>>

\* The call runs, again after each interrupt, and finds nothing: the flag
\* goes back to the caller's, the instruction pointer onto the stub.
Waits ==
  /\ prog # "runs" /\ ~halted /\ Empty
  /\ halted' = TRUE /\ iflag' = enabled
  /\ oa_active' = (oa_active \/ prog = "line")
  /\ UNCHANGED <<ring, shift, prog, enabled, line, tty, given, typed>>

Int16 ==
  /\ prog = "int16" /\ ~halted /\ ~Empty
  /\ kbuf_get /\ prog' = "runs" /\ iflag' = enabled
  /\ UNCHANGED <<shift, enabled, halted, oa_active, line, tty, typed>>

\* One turn of line input's loop.
Erased(k) ==
  /\ k = Back /\ line # <<>>
  /\ line' = SubSeq(line, 1, Len(line) - 1) /\ Shows(Rubbed(Tty))

Taken(k) ==
  \/ Erased(k)
  \/ k = Back /\ line = <<>> /\ UNCHANGED <<line, tty>>
  \/ /\ k = 0 /\ UNCHANGED <<pos, screen>> /\ started' = Nowhere
     /\ line' = IF Len(line) + 2 <= MaxLine THEN line \o <<0, 72>> ELSE line
  \/ /\ k >= Blank
     /\ IF Len(line) < MaxLine THEN line' = Append(line, k) /\ Shows(putch_tty(Tty, k))
        ELSE UNCHANGED <<line, tty>>

LineKey ==
  /\ prog = "line" /\ ~halted /\ ~Empty
  /\ kbuf_get
  /\ \/ /\ buf[head] = Enter
        /\ prog' = "runs" /\ oa_active' = FALSE /\ iflag' = enabled
        /\ Shows(putch_tty(putch_tty(Tty, 13), 10))
        /\ UNCHANGED line
     \/ /\ buf[head] # Enter /\ Taken(buf[head]) /\ UNCHANGED <<prog, iflag, oa_active>>
  /\ UNCHANGED <<shift, enabled, halted, typed>>

-----------------------------------------------------------------------------
Init ==
  /\ head = 0 /\ tail = 0 /\ buf = [i \in 0 .. Slots - 1 |-> Arrow]
  /\ shift = {} /\ prog = "runs" /\ enabled = TRUE /\ iflag = TRUE /\ halted = FALSE
  /\ oa_active = FALSE /\ line = <<>>
  /\ pos = <<0, 0>> /\ screen = [i \in 0 .. Rows * Cols - 1 |-> Blank] /\ started = Nowhere
  /\ given = <<>> /\ typed = 0

Reads == Waits \/ Int16 \/ LineKey

Next ==
  \/ \E c \in Plain \cup Shifts, down \in BOOLEAN : Int9(c, down)
  \/ \E k \in {97} : Stuff(k)
  \/ \E f \in {"int16", "line"}, on \in BOOLEAN : Call(f, on)
  \/ Write(65) \/ Timer \/ Reads

\* The processor goes on, and the timer interrupts it.
Spec == Init /\ [][Next]_vars /\ WF_vars(Reads) /\ WF_vars(Timer)

-----------------------------------------------------------------------------
\* Every variable keeps its type, and the cursor stays on the screen.
TypeOK ==
  /\ head \in 0 .. Slots - 1 /\ tail \in 0 .. Slots - 1
  /\ \A i \in DOMAIN buf : buf[i] \in Strokes
  /\ shift \subseteq Shifts /\ prog \in {"runs", "int16", "line"}
  /\ {enabled, iflag, halted, oa_active} \subseteq BOOLEAN
  /\ Len(line) <= MaxLine
  /\ pos[1] \in 0 .. Rows - 1 /\ pos[2] \in 0 .. Cols - 1

\* The ring in the data area is the queue the BIOS promises: nothing typed
\* is lost before it is full, given twice or out of order.
Promise == INSTANCE TypeAhead WITH queue <- Queued, Cap <- Slots - 1
Fifo == Promise!Spec

\* A letter is queued in the case the shift keys, left or right, had when its
\* code was read, whatever was pressed and released since.
CaseFollows ==
  \A k \in {97, 65} :
    (tail' # tail /\ buf'[tail] = k /\ ~\E s \in Strokes : Stuff(s)) => (k = 65 <=> shift # {})
CaseIsShifts == [][CaseFollows]_vars

\* What a line shows of itself is what is in its buffer, through erasing,
\* and the call's waits, as long as it did not scroll, reach the right margin
\* or take a key that has no character.
EchoIsLine ==
  (prog = "line" /\ started # Nowhere /\ started[2] + MaxLine < Cols)
    => \A i \in DOMAIN line : screen[Cell(started) + i - 1] = line[i]

\* A call made with interrupts on is served once something is typed: no
\* key arrives between its look at the ring and its halt unseen.
CallsServed == (prog = "int16" /\ enabled) ~> (prog = "runs" \/ Empty)
=============================================================================
