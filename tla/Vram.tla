-------------------------------- MODULE Vram --------------------------------
(***************************************************************************)
(* The display memory (src/vga.c): four planes behind one window, reached  *)
(* chained, odd/even or plane by plane through the latches and the         *)
(* graphics controller, and what the screen shows of it from the start     *)
(* address down and, below the line compare, from address 0.  A byte is    *)
(* the set of its bits that are 1, so and, or, exclusive or and rotate are *)
(* the sets' own; a cell is the byte each plane has at one address.        *)
(***************************************************************************)
EXTENDS Integers, Sequences, FiniteSets

CONSTANTS
  Width,     \* bits of a byte
  Cells,     \* addresses of a plane, 64K
  Settings,  \* the register settings: see TypeOK
  Addrs,     \* window addresses the program uses, A0000 being 0
  Values,    \* bytes it writes
  Screen,    \* of the picture: columns, rows, scan lines of a row, offset, pel panning
  Pattern(_, _),  \* what plane p has at cell c to begin with
  Accesses   \* bound: reads, writes and scrolls of a behaviour

VARIABLES vram, latch, regs, start, n
vars == <<vram, latch, regs, start, n>>

Plane == 0..3
Bits == 0..(Width - 1)
Byte == SUBSET Bits
Span == 2 * Cells   \* A0000 to BFFFF

\* The four places and sizes GC 6 gives the window.
vga_base == CASE regs.map \in {0, 1} -> 0 [] regs.map = 2 -> Cells [] OTHER -> Cells + (Cells \div 2)
vga_size == CASE regs.map = 0 -> Span [] regs.map = 1 -> Cells [] OTHER -> Cells \div 2
Inside(a) == a >= vga_base /\ a - vga_base < vga_size
Off(a) == a - vga_base

Ror(v, k) == {(b + Width - k) % Width : b \in v}
Full(on) == IF on THEN Bits ELSE {}
Xor(v, l) == (v \ l) \cup (l \ v)
alu_fn(v, l) ==
  CASE regs.fn = "and" -> v \cap l [] regs.fn = "or" -> v \cup l
    [] regs.fn = "xor" -> Xor(v, l) [] OTHER -> v

\* Where a window address leads when the access is chained or odd/even.
Direct == regs.chain \/ regs.oddeven
CellOf(a) ==
  IF regs.chain THEN (Off(a) \div 4) % Cells
  ELSE IF regs.oddeven THEN (Off(a) \div 2) % Cells ELSE Off(a) % Cells
PlaneOf(a) == Off(a) % (IF regs.chain THEN 4 ELSE 2)

\* What a write puts on each plane, and which of its bits reach it.
Data(v, p) ==
  CASE regs.wm = 0 -> alu_fn(IF p \in regs.esr THEN Full(p \in regs.sr) ELSE Ror(v, regs.rot), latch[p])
    [] regs.wm = 1 -> latch[p]
    [] regs.wm = 2 -> alu_fn(Full(p \in v), latch[p])
    [] OTHER -> Full(p \in regs.sr)
\* The bits that are written.  Mutant: mode 3 does not mask by what is written.
MaskOnly(v) == IF regs.wm = 1 THEN Bits ELSE regs.bm
MaskOf(v) ==
  CASE regs.wm = 1 -> Bits
    [] regs.wm = 3 -> regs.bm \cap Ror(v, regs.rot)
    [] OTHER -> regs.bm

write_planes(cell, v) ==
  [p \in Plane |->
     IF p \in regs.planes THEN (cell[p] \ MaskOf(v)) \cup (Data(v, p) \cap MaskOf(v)) ELSE cell[p]]

Matching(l) == {b \in Bits : \A p \in regs.care : b \in l[p] <=> p \in regs.compare}

\* The value a read gives; it latches the cell first.
ReadBack(a) ==
  IF Direct THEN vram[CellOf(a)][PlaneOf(a)]
  ELSE IF regs.rm = 0 THEN vram[CellOf(a)][regs.readmap] ELSE Matching(vram[CellOf(a)])

-----------------------------------------------------------------------------
Counted == n < Accesses /\ n' = n + 1

\* vga_mem_r
Read(a) ==
  /\ Counted /\ UNCHANGED <<vram, regs, start>>
  /\ latch' = IF Inside(a) THEN vram[CellOf(a)] ELSE latch

\* vga_mem_w
Stored(a, v) ==
  LET c == CellOf(a) IN
  CASE ~Inside(a) -> vram
    [] Inside(a) /\ Direct ->
         IF PlaneOf(a) \in regs.planes THEN [vram EXCEPT ![c][PlaneOf(a)] = v] ELSE vram
    [] OTHER -> [vram EXCEPT ![c] = write_planes(@, v)]
Write(a, v) == Counted /\ UNCHANGED <<latch, regs, start>> /\ vram' = Stored(a, v)

\* The program moves the picture: the start address, in whole rows.
Scroll(rows) == Counted /\ UNCHANGED <<vram, latch, regs>> /\ start' = (start + (rows * Screen.offset)) % Cells

\* vga_set_mode_bios: cleared, and the registers of the new mode.
SetMode(r) ==
  /\ vram' = [c \in 0..(Cells - 1) |-> [p \in Plane |-> {}]]
  /\ regs' = r /\ start' = 0
  /\ Counted /\ UNCHANGED latch

Init ==
  /\ vram = [c \in 0..(Cells - 1) |-> [p \in Plane |-> Pattern(c, p)]]
  /\ latch = [p \in Plane |-> {}]
  /\ regs \in Settings /\ start = 0 /\ n = 0
Next ==
  \/ \E a \in Addrs : Read(a)
  \/ \E a \in Addrs, v \in Values : Write(a, v)
  \/ \E rows \in {-1, 1, 2} : Scroll(rows)
  \/ \E r \in Settings : r.boot /\ SetMode(r)
Spec == Init /\ [][Next]_vars

-----------------------------------------------------------------------------
\* The picture (vga_render): where a row begins, and what a dot of it shows.
split == (Screen.lc + 1) \div Screen.rowh
RowStart(y) == IF split < Screen.rows /\ y >= split THEN (y - split) * Screen.offset ELSE start + (y * Screen.offset)

Dot256(x, y) ==
  LET px == x + (Screen.pel \div 2) IN vram[(RowStart(y) + (px \div 4)) % Cells][px % 4]
BitOf(px) == (Width - 1) - (px % Width)
Dot16(x, y) ==
  LET px == x + Screen.pel
      cell == vram[(RowStart(y) + (px \div Width)) % Cells] IN
  {p \in Plane : BitOf(px) \in cell[p]}

Rows == 0..(Screen.rows - 1)
Columns == 0..(Screen.columns - 1)
Row(y) == <<[x \in Columns |-> Dot256(x, y)], [x \in Columns |-> Dot16(x, y)]>>

\* What the proofs assume of the constants: the settings are ones the registers
\* can have, and the rows of the playfield fit in a plane.
Constants ==
  /\ {Width, Cells} \subseteq Nat \ {0} /\ Addrs \subseteq Nat /\ Values \subseteq Byte
  /\ Settings \subseteq [chain : BOOLEAN, oddeven : BOOLEAN, map : 0..3, wm : 0..3, rm : 0..1,
                         readmap : Plane, fn : {"put", "and", "or", "xor"}, rot : Bits,
                         esr : SUBSET Plane, sr : SUBSET Plane, bm : Byte, planes : SUBSET Plane,
                         care : SUBSET Plane, compare : SUBSET Plane, boot : BOOLEAN]
  /\ Screen \in [columns : Nat, rows : Nat, rowh : Nat \ {0}, lc : Nat, offset : Nat, pel : Nat]
  /\ \A c \in 0..(Cells - 1), p \in Plane : Pattern(c, p) \in Byte
  /\ \A y \in Rows, x \in Columns :
       y < split => (y * Screen.offset) + ((x + (Screen.pel \div 2)) \div 4) < Cells
-----------------------------------------------------------------------------
\* Every plane and latch holds a byte; a setting is one the registers can have.
TypeOK ==
  /\ \A c \in 0..(Cells - 1) : vram[c] \in [Plane -> Byte]
  /\ latch \in [Plane -> Byte]
  /\ regs.map \in 0..3 /\ regs.wm \in 0..3 /\ regs.rm \in 0..1 /\ regs.readmap \in Plane
  /\ regs.planes \subseteq Plane /\ regs.bm \in Byte /\ start \in 0..(Cells - 1)

\* A program that reads an address and writes it back through the controller
\* gets, bit by bit, what the card's manual says: masked bits and masked planes
\* stand, the others are the source - set/reset, rotated data or colour -
\* put to the latch (vga_mem_w, write_planes).
Source(v, p, b) ==
  IF regs.wm = 2 THEN p \in v
  ELSE IF p \in regs.esr \/ regs.wm = 3 THEN p \in regs.sr
  ELSE ((b + regs.rot) % Width) \in v
Combined(s, l) ==
  CASE regs.fn = "and" /\ regs.wm # 3 -> s /\ l [] regs.fn = "or" /\ regs.wm # 3 -> s \/ l
    [] regs.fn = "xor" /\ regs.wm # 3 -> s # l [] OTHER -> s
Passes(v, b) == b \in regs.bm /\ (regs.wm = 3 => ((b + regs.rot) % Width) \in v)
ReadModifyWrite ==
  [][\A a \in Addrs, v \in Values :
       Write(a, v) /\ Inside(a) /\ ~Direct /\ latch = vram[CellOf(a)] =>
         \A p \in Plane, b \in Bits :
           b \in vram'[CellOf(a)][p] <=>
             IF p \in regs.planes /\ regs.wm # 1 /\ Passes(v, b)
             THEN Combined(Source(v, p, b), b \in latch[p])
             ELSE b \in vram[CellOf(a)][p]]_vars

\* Chained and odd/even, the window is memory: what is written is what is read
\* back, and no other address of the window reads otherwise for it.
WindowIsMemory ==
  [][\A a \in Addrs, v \in Values :
       Write(a, v) /\ Direct =>
         \A b \in {c \in 0..(Span - 1) : Inside(c)} :
           ReadBack(b)' = IF b = a /\ PlaneOf(a) \in regs.planes THEN v ELSE ReadBack(b)]_vars

\* A read never disturbs what is shown, and the colour compare of a read finds
\* exactly the dots of the colour asked for (vga_mem_r, read mode 1).
CompareFinds ==
  [][\A a \in Addrs :
       Read(a) /\ Inside(a) /\ ~Direct /\ regs.rm = 1 /\ regs.care = Plane =>
         /\ vram' = vram
         /\ ReadBack(a) = {b \in Bits : {p \in Plane : b \in vram[CellOf(a)][p]} = regs.compare}]_vars

\* Scrolling by a row moves the playfield by a row and leaves the panel below
\* the line compare where it stands (vga_render, split).
PanelStands ==
  [][\A rows \in {-1, 1, 2} : Scroll(rows) =>
       \A y \in Rows :
         IF y >= split THEN Row(y)' = Row(y)
         ELSE y + rows \in 0..(split - 1) => Row(y)' = Row(y + rows)]_vars

\* Pixels a program plots where its mode keeps them come up there and nowhere
\* else: chained, the byte at y * pitch + x of an unscrolled screen is the dot
\* (x, y) of the playfield (vga_mem_w, vga_render).
PlotsWhereMeant ==
  [][\A a \in Addrs, v \in Values :
       Write(a, v) /\ Inside(a) /\ start = 0 /\ regs.chain /\ PlaneOf(a) \in regs.planes =>
         \A y \in {row \in Rows : row < split}, x \in Columns :
           Dot256(x, y)' = IF (4 * Screen.offset * y) + x + (Screen.pel \div 2) = Off(a)
                           THEN v ELSE Dot256(x, y)]_vars
=============================================================================
