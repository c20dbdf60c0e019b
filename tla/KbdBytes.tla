------------------------------ MODULE KbdBytes ------------------------------
(***************************************************************************)
(* The keyboard controller's byte queue (src/dev.c) as pure operators: the *)
(* scan codes a key produces, the 64-slot ring with its two overflow       *)
(* policies, and the bytes one call of kbd_key() puts into the queue.      *)
(*                                                                         *)
(* A key is the index dev.c gives it in kbd_held[]: its scan code, plus    *)
(* 128 when the host marks it with the E0 prefix.  The queue is the        *)
(* sequence of the bytes between kbd_head and kbd_tail.                    *)
(***************************************************************************)
EXTENDS Integers, Sequences

CONSTANTS
  Keys,   \* the keys in use: indices into kbd_held[]
  Cap     \* bytes the ring holds (63 in the code: one slot stays free)

PrefixE0 == 224

Byte == 0 .. 255

Sc(idx)  == idx % 128
Ext(idx) == idx >= 128

\* A scan code 60h would make its break code look like the E0 prefix; no
\* PC keyboard has one.
ASSUME KeysAssumption == Keys \subseteq {i \in 1 .. 255 : Sc(i) \notin {0, 96}}
ASSUME CapAssumption  == Cap \in Nat /\ Cap >= 2

Bytes(idx, code) == IF Ext(idx) THEN <<PrefixE0, code>> ELSE <<code>>

MakeBytes(idx)  == Bytes(idx, Sc(idx))
BreakBytes(idx) == Bytes(idx, Sc(idx) + 128)

(***************************************************************************)
(* kbd_free, kbd_ensure, kbd_push.  With the flipper fix on, the oldest    *)
(* bytes make room for the new ones; with it off, the new ones are dropped.*)
(***************************************************************************)
kbd_free(q) == Cap - Len(q)

kbd_ensure(q, need, fix) == kbd_free(q) >= need \/ fix

\* Mutant: one byte too few makes room.
EvictsOneShort(q, need) ==
  IF kbd_free(q) >= need THEN q
  ELSE SubSeq(q, need - kbd_free(q), Len(q))

Evicted(q, need) ==
  IF kbd_free(q) >= need THEN q
  ELSE SubSeq(q, need - kbd_free(q) + 1, Len(q))

kbd_push(q, bytes, fix) ==
  IF kbd_ensure(q, Len(bytes), fix) THEN Evicted(q, Len(bytes)) \o bytes ELSE q

\* Whether a push loses a byte: an old one (fix on) or its own (fix off).
Overflows(q, bytes) == kbd_free(q) < Len(bytes)

(***************************************************************************)
(* The keys that share one flipper bit of the guest, in the order in which *)
(* kbd_key() looks for a sibling that is still down.                       *)
(***************************************************************************)
LeftKeys  == <<42, 56, 29>>
RightKeys == <<54, 184, 157>>
SideOf(idx) ==
  IF \E n \in 1 .. 3 : LeftKeys[n] = idx THEN LeftKeys
  ELSE IF \E n \in 1 .. 3 : RightKeys[n] = idx THEN RightKeys
  ELSE <<>>

\* The first still-held key of the side idx belongs to, as a sequence of at
\* most one key.
Sibling(idx, held) ==
  LET side == SideOf(idx) IN
  IF side = <<>> THEN <<>>
  ELSE IF side[1] \in held THEN <<side[1]>>
  ELSE IF side[2] \in held THEN <<side[2]>>
  ELSE IF side[3] \in held THEN <<side[3]>>
  ELSE <<>>

(***************************************************************************)
(* The queue after kbd_key(idx, down) and the set of held keys after it.   *)
(* A make of a key already held is coalesced away when the fix is on.  A   *)
(* break is followed, with the fix on, by the make of a sibling that is    *)
(* still down (kbd_reassert).                                              *)
(***************************************************************************)
Coalesced(held, idx, fix) == fix /\ idx \in held

AfterMake(q, held, idx, fix) ==
  IF Coalesced(held, idx, fix) THEN q ELSE kbd_push(q, MakeBytes(idx), fix)

\* Mutant: no repair.
NoReassert(q, held, idx, fix) == kbd_push(q, BreakBytes(idx), fix)

AfterBreak(q, held, idx, fix) ==
  LET q1  == kbd_push(q, BreakBytes(idx), fix)
      sib == Sibling(idx, held \ {idx})
  IN  IF fix /\ sib # <<>> THEN kbd_push(q1, MakeBytes(sib[1]), fix) ELSE q1

HeldAfter(held, idx, down) == IF down THEN held \cup {idx} ELSE held \ {idx}

\* pic_raise(1) is called only when the bytes went in.
MakeRaises(q, held, idx, fix) ==
  /\ ~ Coalesced(held, idx, fix)
  /\ kbd_ensure(q, Len(MakeBytes(idx)), fix)

BreakRaises(q, idx, fix) == kbd_ensure(q, Len(BreakBytes(idx)), fix)

\* kbd_read60's last line: IRQ1 after a read that leaves q behind.
\* Mutant: the read only ever withdraws the request.
NeverRaisesAgain(q) == FALSE

IrqAfterRead(q) == q # <<>>

=============================================================================
