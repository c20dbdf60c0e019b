--------------------------- MODULE KeyboardProofs ---------------------------
(***************************************************************************)
(* Proofs about the keyboard for every set of keys and every capacity of   *)
(* the queue: type correctness, that the interrupt request line and the    *)
(* queue never disagree, and that the flippers follow their keys.          *)
(***************************************************************************)
EXTENDS Keyboard, SequenceTheorems, TLAPS

(***************************************************************************)
(* What a key sends is one or two bytes.                                   *)
(***************************************************************************)
LEMMA KeyBytes ==
  ASSUME NEW idx \in Keys
  PROVE  /\ idx \in 1 .. 255
         /\ MakeBytes(idx) \in Seq(Byte) /\ Len(MakeBytes(idx)) \in 1 .. 2
         /\ BreakBytes(idx) \in Seq(Byte) /\ Len(BreakBytes(idx)) \in 1 .. 2
<1>1. idx \in 1 .. 255 /\ Sc(idx) \in 1 .. 127
  BY KeysAssumption DEF Sc, KeysAssumption
<1>2. ASSUME NEW c \in Byte
      PROVE  Bytes(idx, c) \in Seq(Byte) /\ Len(Bytes(idx, c)) \in 1 .. 2
  <2>1. <<c>> \in Seq(Byte) /\ Len(<<c>>) = 1
    OBVIOUS
  <2>2. <<PrefixE0, c>> \in Seq(Byte) /\ Len(<<PrefixE0, c>>) = 2
    BY DEF Byte, PrefixE0
  <2> QED
    BY <2>1, <2>2 DEF Bytes
<1>3. Sc(idx) \in Byte /\ Sc(idx) + 128 \in Byte
  BY <1>1 DEF Byte
<1> QED
  BY <1>1, <1>2, <1>3 DEF MakeBytes, BreakBytes

(***************************************************************************)
(* kbd_ensure and kbd_push: the queue stays within the ring whichever the  *)
(* overflow policy, what is pushed is in it when there was room, and it is *)
(* left alone when there was none.                                         *)
(***************************************************************************)
LEMMA PushFits ==
  ASSUME NEW q \in Seq(Byte), Len(q) <= Cap,
         NEW b \in Seq(Byte), Len(b) \in 1 .. 2,
         NEW fix \in BOOLEAN
  PROVE  /\ kbd_push(q, b, fix) \in Seq(Byte)
         /\ Len(kbd_push(q, b, fix)) <= Cap
         /\ kbd_ensure(q, Len(b), fix) => kbd_push(q, b, fix) # <<>>
         /\ ~ kbd_ensure(q, Len(b), fix) => kbd_push(q, b, fix) = q /\ q # <<>>
         /\ q # <<>> => kbd_push(q, b, fix) # <<>>
<1> DEFINE need == Len(b)
<1>1. /\ Len(q) \in Nat /\ need \in 1 .. 2 /\ Cap \in Nat /\ Cap >= 2
      /\ kbd_free(q) = Cap - Len(q)
  BY CapAssumption DEF kbd_free, CapAssumption
<1>5. ASSUME NEW s \in Seq(Byte)
      PROVE  (Len(s) > 0) <=> (s # <<>>)
  BY <1>5
<1>2. /\ Evicted(q, need) \in Seq(Byte)
      /\ Len(Evicted(q, need)) + need <= Cap
  <2>1. CASE kbd_free(q) >= need
    BY <1>1, <2>1 DEF Evicted
  <2>2. CASE ~ (kbd_free(q) >= need)
    <3> DEFINE k == need - kbd_free(q) + 1
    <3>1. k \in 1 .. Len(q) + 1
      <4>1. Cap - Len(q) < need
        BY <1>1, <2>2 DEF kbd_free
      <4>2. k = need - (Cap - Len(q)) + 1
        BY DEF kbd_free
      <4> HIDE DEF k, need
      <4> QED
        BY <1>1, <4>1, <4>2
    <3>3. Evicted(q, need) = SubSeq(q, k, Len(q))
      BY <2>2 DEF Evicted
    <3>2. SubSeq(q, k, Len(q)) \in Seq(Byte) /\ Len(SubSeq(q, k, Len(q))) = Len(q) - k + 1
      BY <1>1, <3>1
    <3> QED
      BY <1>1, <3>1, <3>2, <3>3
  <2> QED
    BY <2>1, <2>2
<1>3. CASE kbd_ensure(q, need, fix)
  <2>1. kbd_push(q, b, fix) = Evicted(q, need) \o b
    BY <1>3 DEF kbd_push
  <2>2. /\ Evicted(q, need) \o b \in Seq(Byte)
        /\ Len(Evicted(q, need) \o b) = Len(Evicted(q, need)) + need
    BY <1>2
  <2>3. Len(Evicted(q, need)) \in Nat
    BY <1>2
  <2>4. Evicted(q, need) \o b # <<>>
    <3>1. Len(Evicted(q, need) \o b) > 0
      BY <1>1, <2>2, <2>3
    <3> QED
      BY <1>5, <2>2, <3>1
  <2> HIDE DEF need
  <2> QED
    BY <1>2, <1>3, <2>1, <2>2, <2>4 DEF need
<1>4. CASE ~ kbd_ensure(q, need, fix)
  <2>1. kbd_push(q, b, fix) = q
    BY <1>4 DEF kbd_push
  <2>2. Len(q) > 0
    BY <1>1, <1>4 DEF kbd_ensure, kbd_free
  <2> QED
    BY <1>4, <1>5, <2>1, <2>2
<1> QED
  BY <1>3, <1>4

(***************************************************************************)
(* The sibling a break re-asserts is a held key.                           *)
(***************************************************************************)
LEMMA SiblingHeld ==
  ASSUME NEW held, NEW idx, Sibling(idx, held) # <<>>
  PROVE  Sibling(idx, held)[1] \in held
BY DEF Sibling

(***************************************************************************)
(* The queue kbd_key leaves behind on a make and on a break.               *)
(***************************************************************************)
LEMMA MakeFits ==
  ASSUME NEW q \in Seq(Byte), Len(q) <= Cap, NEW held \in SUBSET Keys,
         NEW idx \in Keys, NEW fix \in BOOLEAN
  PROVE  /\ AfterMake(q, held, idx, fix) \in Seq(Byte)
         /\ Len(AfterMake(q, held, idx, fix)) <= Cap
         /\ MakeRaises(q, held, idx, fix) => AfterMake(q, held, idx, fix) # <<>>
         /\ ~ MakeRaises(q, held, idx, fix) => AfterMake(q, held, idx, fix) = q
<1>1. MakeBytes(idx) \in Seq(Byte) /\ Len(MakeBytes(idx)) \in 1 .. 2
  BY KeyBytes
<1>2. CASE Coalesced(held, idx, fix)
  BY <1>2 DEF AfterMake, MakeRaises
<1>3. CASE ~ Coalesced(held, idx, fix)
  BY <1>1, <1>3, PushFits DEF AfterMake, MakeRaises
<1> QED
  BY <1>2, <1>3

\* What kbd_key does to the queue on a break keeps it a queue of at most Cap
\* bytes.
LEMMA BreakFits ==
  ASSUME NEW q \in Seq(Byte), Len(q) <= Cap, NEW held \in SUBSET Keys,
         NEW idx \in Keys, NEW fix \in BOOLEAN
  PROVE  /\ AfterBreak(q, held, idx, fix) \in Seq(Byte)
         /\ Len(AfterBreak(q, held, idx, fix)) <= Cap
         /\ BreakRaises(q, idx, fix) => AfterBreak(q, held, idx, fix) # <<>>
         /\ ~ BreakRaises(q, idx, fix) => AfterBreak(q, held, idx, fix) = q
<1> DEFINE q1  == kbd_push(q, BreakBytes(idx), fix)
           sib == Sibling(idx, held \ {idx})
<1>1. BreakBytes(idx) \in Seq(Byte) /\ Len(BreakBytes(idx)) \in 1 .. 2
  BY KeyBytes
<1>2. /\ q1 \in Seq(Byte) /\ Len(q1) <= Cap
      /\ BreakRaises(q, idx, fix) => q1 # <<>>
      /\ ~ BreakRaises(q, idx, fix) => q1 = q
  BY <1>1, PushFits DEF BreakRaises
<1>3. AfterBreak(q, held, idx, fix) =
        IF fix /\ sib # <<>> THEN kbd_push(q1, MakeBytes(sib[1]), fix) ELSE q1
  BY DEF AfterBreak
<1>4. CASE fix /\ sib # <<>>
  <2>1. sib[1] \in Keys
    BY <1>4, SiblingHeld
  <2>2. MakeBytes(sib[1]) \in Seq(Byte) /\ Len(MakeBytes(sib[1])) \in 1 .. 2
    BY <2>1, KeyBytes
  <2>3. BreakRaises(q, idx, fix)
    BY <1>4 DEF BreakRaises, kbd_ensure
  <2> HIDE DEF q1, sib
  <2>4. kbd_push(q1, MakeBytes(sib[1]), fix) \in Seq(Byte)
        /\ Len(kbd_push(q1, MakeBytes(sib[1]), fix)) <= Cap
        /\ kbd_push(q1, MakeBytes(sib[1]), fix) # <<>>
    BY <1>2, <1>4, <2>2, <2>3, PushFits
  <2> QED
    BY <1>3, <1>4, <2>3, <2>4
<1>5. CASE ~ (fix /\ sib # <<>>)
  BY <1>2, <1>3, <1>5
<1> QED
  BY <1>4, <1>5

-----------------------------------------------------------------------------
(***************************************************************************)
(* Type correctness: the queue never outgrows the ring, and kbd_held never *)
(* names a key that no host call mentioned.                                *)
(***************************************************************************)
LEMMA TypeStep == TypeOK /\ [Next]_vars => TypeOK'
<1> SUFFICES ASSUME TypeOK, [Next]_vars
             PROVE  TypeOK'
  OBVIOUS
<1> USE DEF TypeOK
<1>1. ASSUME NEW idx \in Keys, Make(idx)
      PROVE  TypeOK'
  <2>1. kbd_buf' \in Seq(Byte) /\ Len(kbd_buf') <= Cap
    BY <1>1, MakeFits DEF Make
  <2>2. kbd_held' \in SUBSET Keys /\ phys' \in SUBSET Keys /\ made' \in SUBSET Keys
    BY <1>1 DEF Make, HeldAfter
  <2>3. irr' \in BOOLEAN /\ whole' \in BOOLEAN
    BY <1>1 DEF Make
  <2> QED
    BY <1>1, <2>1, <2>2, <2>3 DEF Make, guestVars
<1>2. ASSUME NEW idx \in Keys, KeyBreak(idx)
      PROVE  /\ kbd_buf' \in Seq(Byte) /\ Len(kbd_buf') <= Cap
             /\ kbd_held' \in SUBSET Keys /\ made' \in SUBSET Keys
             /\ irr' \in BOOLEAN /\ whole' \in BOOLEAN
             /\ UNCHANGED <<guestVars, fix_on>>
  <2>1. kbd_buf' \in Seq(Byte) /\ Len(kbd_buf') <= Cap
    BY <1>2, BreakFits DEF KeyBreak
  <2>2. kbd_held' \in SUBSET Keys /\ made' \in SUBSET Keys
    BY <1>2 DEF KeyBreak, HeldAfter
  <2> QED
    BY <1>2, <2>1, <2>2 DEF KeyBreak
<1>3. ASSUME NEW idx \in Keys, Break(idx)
      PROVE  TypeOK'
  BY <1>2, <1>3 DEF Break, guestVars
<1>4. ASSUME NEW idx \in Keys, LoseKeyUp(idx)
      PROVE  TypeOK'
  BY <1>4 DEF LoseKeyUp, kbdVars, guestVars
<1>5. CASE FocusLost
  BY <1>5 DEF FocusLost, kbdVars, guestVars
<1>6. CASE ReleaseKey
  <2>1. PICK idx \in kbd_held :
          LET room == kbd_ensure(kbd_buf, Len(BreakBytes(idx)), fix_on)
              over == ~ room \/ kbd_held = {idx}
          IN  /\ kbd_buf' = kbd_push(kbd_buf, BreakBytes(idx), fix_on)
              /\ kbd_held' = kbd_held \ {idx}
              /\ irr' = (irr \/ over)
              /\ call' = IF over THEN "none" ELSE "release"
              /\ whole' = (whole /\ ~ Overflows(kbd_buf, BreakBytes(idx)))
              /\ made' = made \ {idx}
    BY <1>6 DEF ReleaseKey
  <2>2. BreakBytes(idx) \in Seq(Byte) /\ Len(BreakBytes(idx)) \in 1 .. 2
    BY KeyBytes
  <2>3. kbd_buf' \in Seq(Byte) /\ Len(kbd_buf') <= Cap
    BY <2>1, <2>2, PushFits
  <2>4. /\ kbd_held' \in SUBSET Keys /\ made' \in SUBSET Keys
        /\ irr' \in BOOLEAN /\ whole' \in BOOLEAN
        /\ call' \in {"none", "release", "reconcile"}
    BY <2>1
  <2> QED
    BY <1>6, <2>3, <2>4 DEF ReleaseKey, guestVars
<1>7. CASE ReconcileKey
  <2>1. PICK n \in Stale : KeyBreak(ReconcileKeys[n]) /\ call' \in {"none", "reconcile"}
    BY <1>7 DEF ReconcileKey
  <2>2. ReconcileKeys[n] \in Keys
    BY <2>1 DEF Stale
  <2> QED
    BY <1>2, <1>7, <2>1, <2>2 DEF ReconcileKey, guestVars
<1>8. CASE TakeIrq
  BY <1>8 DEF TakeIrq
<1>9. CASE ReadPort
  <2>1. CASE kbd_buf # <<>>
    <3>1. Tail(kbd_buf) \in Seq(Byte) /\ Len(Tail(kbd_buf)) <= Cap
      <4>1. Tail(kbd_buf) \in Seq(Byte) /\ Len(Tail(kbd_buf)) = Len(kbd_buf) - 1
        BY <2>1, HeadTailProperties
      <4> QED
        BY <4>1, CapAssumption DEF CapAssumption
    <3>2. flip' \in [Sides -> BOOLEAN]
      <4>1. flip' = FlipAfter(Head(kbd_buf))
        BY <1>9, <2>1 DEF ReadPort
      <4>2. ASSUME NEW s \in Sides
            PROVE  FlipAfter(Head(kbd_buf))[s] \in BOOLEAN
        <5> DEFINE b == Head(kbd_buf)
                   G == fix_on /\ b # PrefixE0 /\ KeyOfCode(b) \in KeysOf(s)
        <5>1. FlipAfter(b)[s] = IF G THEN b \in 0 .. 127 ELSE flip[s]
          BY Zenon DEF FlipAfter
        <5>2. flip[s] \in BOOLEAN
          BY <4>2
        <5>3. (b \in 0 .. 127) \in BOOLEAN
          OBVIOUS
        <5> HIDE DEF G, b
        <5> QED
          BY <5>1, <5>2, <5>3, Zenon DEF b
      <4>3. FlipAfter(Head(kbd_buf)) = [s \in Sides |-> FlipAfter(Head(kbd_buf))[s]]
        BY Zenon DEF FlipAfter
      <4> QED
        BY <4>1, <4>2, <4>3
    <3> QED
      BY <1>9, <2>1, <3>1, <3>2 DEF ReadPort, IrqAfterRead
  <2>2. CASE kbd_buf = <<>>
    BY <1>9, <2>2 DEF ReadPort, IrqAfterRead
  <2> QED
    BY <2>1, <2>2
<1>10. CASE Eoi
  BY <1>10 DEF Eoi, kbdVars
<1>11. ASSUME NEW table \in BOOLEAN, Exec(table)
       PROVE  TypeOK'
  BY <1>11 DEF Exec
<1>12. CASE UNCHANGED vars
  BY <1>12 DEF vars, kbdVars, guestVars
<1> QED
  BY <1>1, <1>3, <1>4, <1>5, <1>6, <1>7, <1>8, <1>9, <1>10, <1>11, <1>12
  DEF Next, Host, Guest

\* The queue never holds more than Cap bytes and every variable keeps its
\* type, whatever the host and the guest do.
THEOREM TypeCorrect == Spec => []TypeOK
<1>1. Init => TypeOK
  <2>1. Len(<<>>) <= Cap /\ <<>> \in Seq(Byte)
    BY CapAssumption DEF CapAssumption
  <2> QED
    BY <2>1 DEF Init, TypeOK
<1> QED
  BY <1>1, TypeStep, PTL DEF Spec

-----------------------------------------------------------------------------
(***************************************************************************)
(* The request line and the queue agree.  The two directions are inductive *)
(* together: a read withdraws the request exactly when it emptied the      *)
(* queue, and every other step that touches one of them keeps the other    *)
(* in line.                                                                *)
(***************************************************************************)

\* Every step of the host and of the guest keeps IRQ1 and the queue in line.
LEMMA IrqStep == TypeOK /\ IrqMatchesQueue /\ [Next]_vars => IrqMatchesQueue'
<1> SUFFICES ASSUME TypeOK, IrqMatchesQueue, [Next]_vars
             PROVE  IrqMatchesQueue'
  OBVIOUS
<1> USE DEF IrqMatchesQueue, NoStrandedByte, NoStaleRead
<1>1. ASSUME NEW idx \in Keys, Make(idx)
      PROVE  IrqMatchesQueue'
  <2>1. /\ MakeRaises(kbd_buf, kbd_held, idx, fix_on) => kbd_buf' # <<>>
        /\ ~ MakeRaises(kbd_buf, kbd_held, idx, fix_on) => kbd_buf' = kbd_buf
    BY <1>1, MakeFits DEF Make, TypeOK
  <2>2. /\ call = "none" /\ call' = call /\ handler' = handler
        /\ irr' = (irr \/ MakeRaises(kbd_buf, kbd_held, idx, fix_on))
    BY <1>1 DEF Make, guestVars
  <2> QED
    BY <2>1, <2>2, Zenon
<1>2. ASSUME NEW idx \in Keys, KeyBreak(idx), call # "release"
      PROVE  IrqMatchesQueue'
  <2>1. /\ BreakRaises(kbd_buf, idx, fix_on) => kbd_buf' # <<>>
        /\ ~ BreakRaises(kbd_buf, idx, fix_on) => kbd_buf' = kbd_buf
    BY <1>2, BreakFits DEF KeyBreak, TypeOK
  <2>2. /\ handler' = handler
        /\ irr' = (irr \/ BreakRaises(kbd_buf, idx, fix_on))
    BY <1>2 DEF KeyBreak, guestVars
  <2> QED
    BY <1>2, <2>1, <2>2, Zenon
<1>3. ASSUME NEW idx \in Keys, Break(idx)
      PROVE  IrqMatchesQueue'
  BY <1>2, <1>3 DEF Break
<1>4. ASSUME NEW idx \in Keys, LoseKeyUp(idx)
      PROVE  IrqMatchesQueue'
  BY <1>4 DEF LoseKeyUp, kbdVars, guestVars
<1>5. CASE FocusLost
  BY <1>5 DEF FocusLost, kbdVars, guestVars
<1>6. CASE ReleaseKey
  <2>1. PICK idx \in kbd_held :
          LET room == kbd_ensure(kbd_buf, Len(BreakBytes(idx)), fix_on)
              over == ~ room \/ kbd_held = {idx}
          IN  /\ kbd_buf' = kbd_push(kbd_buf, BreakBytes(idx), fix_on)
              /\ irr' = (irr \/ over)
              /\ call' = IF over THEN "none" ELSE "release"
    BY <1>6 DEF ReleaseKey
  <2>2. BreakBytes(idx) \in Seq(Byte) /\ Len(BreakBytes(idx)) \in 1 .. 2
    BY KeyBytes DEF TypeOK
  <2>3. kbd_buf' # <<>>
    BY <2>1, <2>2, PushFits DEF TypeOK
  <2>4. call' # "release" => irr'
    BY <2>1
  <2> QED
    BY <2>3, <2>4
<1>7. CASE ReconcileKey
  <2>1. PICK n \in Stale : KeyBreak(ReconcileKeys[n])
    BY <1>7 DEF ReconcileKey
  <2>2. ReconcileKeys[n] \in Keys
    BY <2>1 DEF Stale, TypeOK
  <2>3. call # "release"
    BY <1>7 DEF ReconcileKey
  <2> QED
    BY <1>2, <2>1, <2>2, <2>3
<1>8. CASE TakeIrq
  BY <1>8 DEF TakeIrq
<1>9. CASE ReadPort
  BY <1>9 DEF ReadPort, IrqAfterRead
<1>10. CASE Eoi
  BY <1>10 DEF Eoi, kbdVars
<1>11. ASSUME NEW table \in BOOLEAN, Exec(table)
       PROVE  IrqMatchesQueue'
  BY <1>11 DEF Exec
<1>12. CASE UNCHANGED vars
  BY <1>12 DEF vars, kbdVars, guestVars
<1> QED
  BY <1>1, <1>3, <1>4, <1>5, <1>6, <1>7, <1>8, <1>9, <1>10, <1>11, <1>12
  DEF Next, Host, Guest

(***************************************************************************)
(* IRQ1 is requested or being served exactly when the queue has something  *)
(* for it (kbd_key, kbd_release_all and kbd_read60 raise it whenever they  *)
(* leave bytes behind, and the read of the last byte takes it back).       *)
(***************************************************************************)
THEOREM LineMatchesQueue == Spec => []IrqMatchesQueue
<1>1. Init => IrqMatchesQueue
  BY DEF Init, IrqMatchesQueue, NoStrandedByte, NoStaleRead
<1> QED
  BY <1>1, IrqStep, TypeCorrect, PTL DEF Spec

(***************************************************************************)
(* No byte is stranded: a non-empty queue always has an interrupt coming   *)
(* that will read from it.                                                 *)
(***************************************************************************)
THEOREM NeverStranded == Spec => []NoStrandedByte
<1>1. IrqMatchesQueue => NoStrandedByte
  BY DEF IrqMatchesQueue
<1> QED
  BY <1>1, LineMatchesQueue, PTL

(***************************************************************************)
(* The guest's handler never finds the queue empty: kbd_read60's stale     *)
(* last byte, which would look like a key pressed twice, is never read.    *)
(***************************************************************************)
THEOREM NeverStale == Spec => []NoStaleRead
<1>1. IrqMatchesQueue => NoStaleRead
  BY DEF IrqMatchesQueue
<1> QED
  BY <1>1, LineMatchesQueue, PTL

-----------------------------------------------------------------------------
(***************************************************************************)
(* The flippers follow their keys.  What a flipper will be once the queue  *)
(* is read is decided by the last code in it that is one of its keys', or  *)
(* by its bit if there is none.                                            *)
(***************************************************************************)
\* The byte behind the queue's last would be read behind an E0 prefix.
Prefixed(q, p) == IF q = <<>> THEN p ELSE q[Len(q)] = PrefixE0

\* The n-th byte is a code of one of the side's keys.
Prefix(q, p, n) == IF n = 1 THEN p ELSE q[n - 1] = PrefixE0
IsKeyOf(s, code, prefixed) ==
  code # PrefixE0 /\ (code % 128) + (IF prefixed THEN 128 ELSE 0) \in KeysOf(s)
Tells(q, p, s, n) == IsKeyOf(s, q[n], Prefix(q, p, n))

\* The last code in the queue that is one of the side's is a make; none is.
Up(q, p, s) ==
  \E n \in 1 .. Len(q) : /\ Tells(q, p, s, n) /\ q[n] \in 0 .. 127
                         /\ \A m \in 1 .. Len(q) : Tells(q, p, s, m) => m <= n
Silent(q, p, s) == \A n \in 1 .. Len(q) : ~ Tells(q, p, s, n)

\* The side's bit, now f, once the queue q is read.
Rises(q, p, f, s) == Up(q, p, s) \/ (f /\ Silent(q, p, s))

WillRise(s) == Rises(kbd_buf, pfx, flip[s], s)

\* The inductive invariant.  A focus loss breaks the held keys one by one and
\* repairs nothing, until none is held.
Follows ==
  /\ made \subseteq kbd_held
  /\ ~ fix_on => \A s \in Sides : ~ flip[s]
  /\ whole =>
       /\ ~ Prefixed(kbd_buf, pfx)
       /\ \A s \in Sides : WillRise(s) => kbd_held \cap KeysOf(s) # {}
       /\ fix_on /\ call # "release" =>
            \A s \in Sides : made \cap KeysOf(s) # {} => WillRise(s)

\* One more byte at the queue's end decides its flipper, or none.
LEMMA Appended ==
  ASSUME NEW q \in Seq(Byte), NEW p \in BOOLEAN, NEW b \in Byte, NEW f, NEW s,
         NEW r, r = Append(q, b)
  PROVE  /\ r \in Seq(Byte) /\ (Prefixed(r, p) <=> b = PrefixE0)
         /\ Rises(r, p, f, s) <=>
              IF IsKeyOf(s, b, Prefixed(q, p)) THEN b \in 0 .. 127 ELSE Rises(q, p, f, s)
<1>1. /\ Len(q) \in Nat /\ r \in Seq(Byte) /\ Len(r) = Len(q) + 1 /\ r[Len(q) + 1] = b
      /\ \A n \in 1 .. Len(q) : r[n] = q[n]
  OBVIOUS
<1>2. r # <<>> /\ (q = <<>> <=> Len(q) = 0)
  BY <1>1
<1>3. Prefixed(r, p) <=> b = PrefixE0
  BY <1>1, <1>2 DEF Prefixed
<1>4. Prefix(r, p, Len(q) + 1) = Prefixed(q, p)
  BY <1>1, <1>2 DEF Prefix, Prefixed
<1>5. Tells(r, p, s, Len(q) + 1) <=> IsKeyOf(s, b, Prefixed(q, p))
  BY <1>1, <1>4 DEF Tells
<1>6. \A n \in 1 .. Len(q) : Tells(r, p, s, n) <=> Tells(q, p, s, n)
  <2> SUFFICES ASSUME NEW n \in 1 .. Len(q) PROVE Tells(r, p, s, n) <=> Tells(q, p, s, n)
    OBVIOUS
  <2>1. n = 1 \/ n - 1 \in 1 .. Len(q)
    BY <1>1
  <2>2. Prefix(r, p, n) = Prefix(q, p, n)
    BY <1>1, <2>1 DEF Prefix
  <2> QED
    BY <1>1, <2>2 DEF Tells
<1> HIDE DEF Tells
<1>7. \A n : n \in 1 .. Len(r) <=> n \in 1 .. Len(q) \/ n = Len(q) + 1
  BY <1>1
<1>10. 1 .. Len(q) \subseteq 1 .. Len(r) /\ Len(q) + 1 \in 1 .. Len(r)
  BY <1>1
<1>8. CASE IsKeyOf(s, b, Prefixed(q, p))
  <2>1. Tells(r, p, s, Len(q) + 1)
    BY <1>5, <1>8
  <2>2. \A m \in 1 .. Len(r) : m <= Len(q) + 1
    BY <1>1
  <2>3. \A n \in 1 .. Len(q) : ~ (Len(q) + 1 <= n)
    BY <1>1
  <2>4. b \in 0 .. 127 => Rises(r, p, f, s)
    BY <1>1, <1>10, <2>1, <2>2 DEF Rises, Up, Silent
  <2>5. Rises(r, p, f, s) => b \in 0 .. 127
    BY <1>1, <1>7, <1>10, <2>1, <2>3 DEF Rises, Up, Silent
  <2> QED
    BY <1>1, <1>3, <1>8, <2>4, <2>5
<1>9. CASE ~ IsKeyOf(s, b, Prefixed(q, p))
  <2>1. ~ Tells(r, p, s, Len(q) + 1)
    BY <1>5, <1>9
  <2>2. ASSUME NEW n \in 1 .. Len(q)
        PROVE  (\A m \in 1 .. Len(r) : Tells(r, p, s, m) => m <= n) <=>
                 (\A m \in 1 .. Len(q) : Tells(q, p, s, m) => m <= n)
    BY <1>6, <1>7, <2>1
  <2>3. (\A n \in 1 .. Len(r) : ~ Tells(r, p, s, n)) <=> (\A n \in 1 .. Len(q) : ~ Tells(q, p, s, n))
    BY <1>6, <1>7, <2>1
  <2>4. Rises(q, p, f, s) => Rises(r, p, f, s)
    BY <1>1, <1>6, <1>10, <2>2, <2>3 DEF Rises, Up, Silent
  <2>5. Rises(r, p, f, s) => Rises(q, p, f, s)
    BY <1>1, <1>6, <1>7, <2>1, <2>2, <2>3 DEF Rises, Up, Silent
  <2> QED
    BY <1>1, <1>3, <1>9, <2>4, <2>5
<1> QED
  BY <1>1, <1>3, <1>8, <1>9

\* The bit that tells a break from a make.
LEMMA LowBits ==
  /\ \A i \in 1 .. 127 : i % 128 = i
  /\ \A i \in 128 .. 255 : i % 128 = i - 128
<1>1. \A i \in 1 .. 127 : i % 128 = i
  OBVIOUS
<1>2. \A i \in 128 .. 255 : i % 128 = i - 128
  OBVIOUS
<1> QED
  BY <1>1, <1>2

\* A make and a break code carry the same scan code, and neither is the prefix.
LEMMA Codes ==
  ASSUME NEW k \in 1 .. 127, k # 96, NEW d, d = k \/ d = k + 128
  PROVE  d \in Byte /\ d # PrefixE0 /\ d % 128 = k /\ (d \in 0 .. 127 <=> d = k)
<1>1. d \in Byte /\ d # PrefixE0 /\ (d \in 0 .. 127 <=> d = k)
  BY DEF Byte, PrefixE0
<1>2. CASE d = k
  BY <1>1, <1>2, LowBits
<1>3. CASE d = k + 128
  <2>1. d \in 128 .. 255 /\ d - 128 = k
    BY <1>3
  <2>2. d % 128 = d - 128
    BY <2>1, LowBits
  <2> QED
    BY <1>1, <2>1, <2>2
<1> QED
  BY <1>2, <1>3

\* A key is its scan code and its prefix.
LEMMA KeyIs ==
  ASSUME NEW idx \in 1 .. 255
  PROVE  Ext(idx) => Sc(idx) + 128 = idx
<1> SUFFICES ASSUME idx >= 128 PROVE (idx % 128) + 128 = idx
  BY DEF Ext, Sc
<1>1. idx % 128 = idx - 128
  BY LowBits
<1> QED
  BY <1>1

\* A key without prefix is its scan code.
LEMMA PlainKeyIs ==
  ASSUME NEW idx \in 1 .. 255
  PROVE  ~ Ext(idx) => Sc(idx) = idx
<1> SUFFICES ASSUME ~ (idx >= 128) PROVE idx % 128 = idx
  BY DEF Ext, Sc
<1>1. idx \in 1 .. 127
  OBVIOUS
<1> QED
  BY <1>1, LowBits

\* Two bytes at a queue's end come one after the other.
LEMMA TwoAppended ==
  ASSUME NEW q \in Seq(Byte), NEW a \in Byte, NEW b \in Byte
  PROVE  q \o <<a, b>> = Append(Append(q, a), b)
<1> DEFINE r == q \o <<a, b>>
           t == Append(Append(q, a), b)
<1>1. /\ Len(q) \in Nat /\ <<a, b>> \in Seq(Byte) /\ Len(<<a, b>>) = 2
      /\ <<a, b>>[1] = a /\ <<a, b>>[2] = b
  OBVIOUS
<1>2. /\ r \in Seq(Byte) /\ Len(r) = Len(q) + 2 /\ \A n \in 1 .. Len(q) : r[n] = q[n]
      /\ r[Len(q) + 1] = a /\ r[Len(q) + 2] = b
  BY <1>1
<1>3. /\ t \in Seq(Byte) /\ Len(t) = Len(q) + 2 /\ \A n \in 1 .. Len(q) : t[n] = q[n]
      /\ t[Len(q) + 1] = a /\ t[Len(q) + 2] = b
  BY <1>1
<1> HIDE DEF r, t
<1>4. \A n \in 1 .. Len(q) + 2 : n \in 1 .. Len(q) \/ n = Len(q) + 1 \/ n = Len(q) + 2
  BY <1>1
<1>5. \A n \in 1 .. Len(r) : r[n] = t[n]
  BY <1>2, <1>3, <1>4
<1>6. r = t
  BY <1>2, <1>3, <1>5
<1> QED
  BY <1>6 DEF r, t

\* What kbd_key sends of a key decides its own side's flipper and no other's.
LEMMA Sends ==
  ASSUME NEW q \in Seq(Byte), NEW p \in BOOLEAN, ~ Prefixed(q, p), NEW f, NEW s,
         NEW idx \in Keys, NEW c, c = Sc(idx) \/ c = Sc(idx) + 128, NEW r, r = q \o Bytes(idx, c)
  PROVE  /\ r \in Seq(Byte) /\ ~ Prefixed(r, p)
         /\ Rises(r, p, f, s) <=> IF idx \in KeysOf(s) THEN c = Sc(idx) ELSE Rises(q, p, f, s)
<1>1. idx \in 1 .. 255 /\ Sc(idx) \in 1 .. 127 /\ Sc(idx) # 96
  BY KeysAssumption DEF Sc, KeysAssumption
<1>2. c \in Byte /\ c # PrefixE0 /\ c % 128 = Sc(idx) /\ (c \in 0 .. 127 <=> c = Sc(idx))
  BY <1>1, Codes
<1>3. (Ext(idx) => Sc(idx) + 128 = idx) /\ (~ Ext(idx) => Sc(idx) = idx)
  BY <1>1, KeyIs, PlainKeyIs
<1>4. CASE Ext(idx)
  <2> DEFINE e == Append(q, PrefixE0)
  <2>1. PrefixE0 \in Byte
    BY DEF PrefixE0, Byte
  <2>2. e \in Seq(Byte) /\ Prefixed(e, p) /\ (Rises(e, p, f, s) <=> Rises(q, p, f, s))
    <3>1. ~ IsKeyOf(s, PrefixE0, Prefixed(q, p))
      BY DEF IsKeyOf
    <3> QED
      BY <2>1, <3>1, Appended
  <2>3. q \o Bytes(idx, c) = Append(e, c)
    <3>1. Bytes(idx, c) = <<PrefixE0, c>>
      BY <1>4 DEF Bytes
    <3>2. q \o <<PrefixE0, c>> = Append(Append(q, PrefixE0), c)
      <4>1. c \in Byte
        BY <1>2
      <4> QED
        BY <2>1, <4>1, TwoAppended, Zenon
    <3> QED
      BY <3>1, <3>2
  <2> HIDE DEF e
  <2>4. IsKeyOf(s, c, Prefixed(e, p)) <=> idx \in KeysOf(s)
    BY <1>2, <1>3, <1>4, <2>2 DEF IsKeyOf
  <2>5. /\ r \in Seq(Byte) /\ (Prefixed(r, p) <=> c = PrefixE0)
        /\ Rises(r, p, f, s) <=>
             IF IsKeyOf(s, c, Prefixed(e, p)) THEN c \in 0 .. 127 ELSE Rises(e, p, f, s)
    BY <1>2, <2>2, <2>3, Appended
  <2> QED
    BY <1>2, <2>2, <2>4, <2>5
<1>5. CASE ~ Ext(idx)
  <2>1. q \o Bytes(idx, c) = Append(q, c)
    BY <1>2, <1>5 DEF Bytes
  <2>2. IsKeyOf(s, c, Prefixed(q, p)) <=> idx \in KeysOf(s)
    <3>1. (c % 128) + 0 = idx
      BY <1>1, <1>2, <1>3, <1>5
    <3> QED
      BY <1>2, <3>1 DEF IsKeyOf
  <2>3. /\ r \in Seq(Byte) /\ (Prefixed(r, p) <=> c = PrefixE0)
        /\ Rises(r, p, f, s) <=>
             IF IsKeyOf(s, c, Prefixed(q, p)) THEN c \in 0 .. 127 ELSE Rises(q, p, f, s)
    BY <1>2, <2>1, Appended
  <2> QED
    BY <1>2, <2>2, <2>3
<1> QED
  BY <1>4, <1>5

\* A byte that is read moves its flipper, and what the rest decides stays.
LEMMA Reads ==
  ASSUME NEW q \in Seq(Byte), q # <<>>, NEW p \in BOOLEAN, NEW s
  PROVE  LET t == Tail(q)
             e == Head(q) = PrefixE0
         IN  /\ Prefixed(t, e) <=> Prefixed(q, p)
             /\ Silent(q, p, s) <=> ~ IsKeyOf(s, Head(q), p) /\ Silent(t, e, s)
             /\ Up(q, p, s) <=> \/ Up(t, e, s)
                                \/ /\ IsKeyOf(s, Head(q), p) /\ Head(q) \in 0 .. 127
                                   /\ Silent(t, e, s)
<1> DEFINE t == Tail(q)
           e == Head(q) = PrefixE0
<1>0. e <=> Head(q) = PrefixE0
  OBVIOUS
<1>1. /\ Len(q) \in Nat /\ Len(q) >= 1 /\ t \in Seq(Byte) /\ Len(t) = Len(q) - 1 /\ Head(q) = q[1]
      /\ \A n \in 1 .. Len(t) : t[n] = q[n + 1]
  OBVIOUS
<1> HIDE DEF t, e
<1>2. t = <<>> <=> Len(t) = 0
  BY <1>1
<1>3. Prefixed(t, e) <=> Prefixed(q, p)
  <2>1. CASE Len(q) = 1
    BY <1>0, <1>1, <1>2, <2>1 DEF Prefixed
  <2>2. CASE Len(q) # 1
    <3>1. Len(t) \in 1 .. Len(t) /\ Len(t) + 1 = Len(q)
      BY <1>1, <2>2
    <3> QED
      BY <1>0, <1>1, <1>2, <2>2, <3>1 DEF Prefixed
  <2> QED
    BY <2>1, <2>2
<1>4. Tells(q, p, s, 1) <=> IsKeyOf(s, Head(q), p)
  BY <1>1 DEF Tells, Prefix
<1>5. \A n \in 1 .. Len(t) : Tells(t, e, s, n) <=> Tells(q, p, s, n + 1)
  <2> SUFFICES ASSUME NEW n \in 1 .. Len(t) PROVE Tells(t, e, s, n) <=> Tells(q, p, s, n + 1)
    OBVIOUS
  <2>1. n = 1 \/ (n # 1 /\ n - 1 \in 1 .. Len(t) /\ (n - 1) + 1 = n)
    BY <1>1
  <2>2. n + 1 # 1 /\ (n + 1) - 1 = n
    BY <1>1
  <2>3. Prefix(t, e, n) = Prefix(q, p, n + 1)
    BY <1>0, <1>1, <2>1, <2>2 DEF Prefix
  <2> QED
    BY <1>1, <2>3 DEF Tells
<1> DEFINE Decides(n) == /\ Tells(q, p, s, n) /\ q[n] \in 0 .. 127
                         /\ \A m \in 1 .. Len(q) : Tells(q, p, s, m) => m <= n
           Decides2(n) == /\ Tells(t, e, s, n) /\ t[n] \in 0 .. 127
                          /\ \A m \in 1 .. Len(t) : Tells(t, e, s, m) => m <= n
<1>6. \A n \in 1 .. Len(t) : n + 1 \in 1 .. Len(q)
  BY <1>1
<1>7. \A m \in 1 .. Len(q) : m = 1 \/ (m - 1 \in 1 .. Len(t) /\ (m - 1) + 1 = m)
  BY <1>1
<1>8. ASSUME NEW n \in 1 .. Len(t) PROVE Decides2(n) <=> Decides(n + 1)
  <2>1. ASSUME Decides2(n), NEW m \in 1 .. Len(q), Tells(q, p, s, m) PROVE m <= n + 1
    <3>1. CASE m = 1
      BY <1>1, <3>1
    <3>2. CASE m # 1
      <4>1. m - 1 \in 1 .. Len(t) /\ Tells(t, e, s, m - 1)
        BY <1>5, <1>7, <2>1, <3>2
      <4>2. m - 1 <= n
        BY <2>1, <4>1
      <4> QED
        BY <1>1, <4>2
    <3> QED
      BY <3>1, <3>2
  <2>2. ASSUME Decides(n + 1), NEW m \in 1 .. Len(t), Tells(t, e, s, m) PROVE m <= n
    <3>1. m + 1 <= n + 1
      BY <1>5, <1>6, <2>2
    <3> QED
      BY <1>1, <3>1
  <2>3. t[n] = q[n + 1] /\ (Tells(t, e, s, n) <=> Tells(q, p, s, n + 1))
    BY <1>1, <1>5
  <2> QED
    BY <2>1, <2>2, <2>3
<1>9. (\E n \in 1 .. Len(t) : Decides2(n)) => \E n \in 1 .. Len(q) : Decides(n)
  BY <1>6, <1>8
<1>10. (\E n \in 1 .. Len(q) : Decides(n)) =>
         \/ \E n \in 1 .. Len(t) : Decides2(n)
         \/ Tells(q, p, s, 1) /\ q[1] \in 0 .. 127 /\ \A n \in 1 .. Len(t) : ~ Tells(t, e, s, n)
  <2> SUFFICES ASSUME NEW n \in 1 .. Len(q), Decides(n)
               PROVE  \/ \E k \in 1 .. Len(t) : Decides2(k)
                      \/ /\ Tells(q, p, s, 1) /\ q[1] \in 0 .. 127
                         /\ \A k \in 1 .. Len(t) : ~ Tells(t, e, s, k)
    OBVIOUS
  <2>1. CASE n = 1
    <3>1. ASSUME NEW k \in 1 .. Len(t), Tells(t, e, s, k) PROVE FALSE
      <4>1. k + 1 <= 1
        BY <1>5, <1>6, <2>1, <3>1
      <4> QED
        BY <1>1, <4>1
    <3> QED
      BY <2>1, <3>1
  <2>2. CASE n # 1
    <3>1. n - 1 \in 1 .. Len(t) /\ (n - 1) + 1 = n
      BY <1>7, <2>2
    <3> HIDE DEF Decides, Decides2
    <3>2. ASSUME NEW k, k = n - 1 PROVE Decides2(k)
      BY <1>8, <3>1, <3>2
    <3> QED
      BY <3>1, <3>2
  <2> QED
    BY <2>1, <2>2
<1>11. Tells(q, p, s, 1) /\ q[1] \in 0 .. 127 /\ (\A n \in 1 .. Len(t) : ~ Tells(t, e, s, n))
         => Decides(1)
  <2> SUFFICES ASSUME \A n \in 1 .. Len(t) : ~ Tells(t, e, s, n), NEW m \in 1 .. Len(q), Tells(q, p, s, m)
               PROVE  m <= 1
    OBVIOUS
  <2>1. CASE m = 1
    BY <2>1
  <2>2. CASE m # 1
    <3>1. m - 1 \in 1 .. Len(t) /\ (m - 1) + 1 = m
      BY <1>7, <2>2
    <3> QED
      BY <1>5, <3>1
  <2> QED
    BY <2>1, <2>2
<1>12. (\A n \in 1 .. Len(q) : ~ Tells(q, p, s, n)) <=>
         ~ Tells(q, p, s, 1) /\ \A n \in 1 .. Len(t) : ~ Tells(t, e, s, n)
  <2>1. 1 \in 1 .. Len(q)
    BY <1>1
  <2>2. ASSUME \A n \in 1 .. Len(q) : ~ Tells(q, p, s, n)
        PROVE  ~ Tells(q, p, s, 1) /\ \A n \in 1 .. Len(t) : ~ Tells(t, e, s, n)
    BY <1>5, <1>6, <2>1, <2>2
  <2>3. ASSUME ~ Tells(q, p, s, 1), \A n \in 1 .. Len(t) : ~ Tells(t, e, s, n),
               NEW m \in 1 .. Len(q), Tells(q, p, s, m)
        PROVE  FALSE
    <3>1. m # 1
      BY <2>3
    <3>2. m - 1 \in 1 .. Len(t) /\ (m - 1) + 1 = m
      BY <1>7, <3>1
    <3> QED
      BY <1>5, <2>3, <3>2
  <2> QED
    BY <2>2, <2>3
<1>13. /\ Up(q, p, s) <=> \E n \in 1 .. Len(q) : Decides(n)
       /\ Silent(q, p, s) <=> \A n \in 1 .. Len(q) : ~ Tells(q, p, s, n)
  BY DEF Up, Silent
<1>14. /\ Up(t, e, s) <=> \E n \in 1 .. Len(t) : Decides2(n)
       /\ Silent(t, e, s) <=> \A n \in 1 .. Len(t) : ~ Tells(t, e, s, n)
  BY DEF Up, Silent
<1>15. 1 \in 1 .. Len(q)
  BY <1>1
<1> HIDE DEF Decides, Decides2
<1>16. /\ Silent(q, p, s) <=> ~ IsKeyOf(s, Head(q), p) /\ Silent(t, e, s)
       /\ Up(q, p, s) <=> \/ Up(t, e, s)
                          \/ IsKeyOf(s, Head(q), p) /\ Head(q) \in 0 .. 127 /\ Silent(t, e, s)
  BY <1>1, <1>4, <1>9, <1>10, <1>11, <1>12, <1>13, <1>14, <1>15
<1> QED
  BY <1>3, <1>16 DEF t, e

\* Bytes that fit are appended, whichever the overflow policy.
LEMMA PushRoom ==
  ASSUME NEW q \in Seq(Byte), NEW b, NEW fix, kbd_free(q) >= Len(b)
  PROVE  kbd_push(q, b, fix) = q \o b
BY DEF kbd_push, kbd_ensure, Evicted

\* The keys of the two flippers.
LEMMA SideKeys ==
  /\ KeysOf("left") = Keys \cap {42, 56, 29}
  /\ KeysOf("right") = Keys \cap {54, 184, 157}
<1>1. LeftKeys # RightKeys /\ LeftKeys # <<>> /\ RightKeys # <<>>
  BY DEF LeftKeys, RightKeys
<1>2. \A i : (\E n \in 1 .. 3 : LeftKeys[n] = i) <=> i \in {42, 56, 29}
  <2>1. LeftKeys[1] = 42 /\ LeftKeys[2] = 56 /\ LeftKeys[3] = 29
    BY DEF LeftKeys
  <2>2. \A n \in 1 .. 3 : n = 1 \/ n = 2 \/ n = 3
    OBVIOUS
  <2>3. 1 \in 1 .. 3 /\ 2 \in 1 .. 3 /\ 3 \in 1 .. 3
    OBVIOUS
  <2> QED
    BY <2>1, <2>2, <2>3
<1>3. \A i : (\E n \in 1 .. 3 : RightKeys[n] = i) <=> i \in {54, 184, 157}
  <2>1. RightKeys[1] = 54 /\ RightKeys[2] = 184 /\ RightKeys[3] = 157
    BY DEF RightKeys
  <2>2. \A n \in 1 .. 3 : n = 1 \/ n = 2 \/ n = 3
    OBVIOUS
  <2>3. 1 \in 1 .. 3 /\ 2 \in 1 .. 3 /\ 3 \in 1 .. 3
    OBVIOUS
  <2> QED
    BY <2>1, <2>2, <2>3
<1>4. \A i : /\ SideOf(i) = LeftKeys <=> i \in {42, 56, 29}
             /\ SideOf(i) = RightKeys <=> i \in {54, 184, 157}
  <2> TAKE i
  <2> DEFINE L == \E n \in 1 .. 3 : LeftKeys[n] = i
             R == \E n \in 1 .. 3 : RightKeys[n] = i
  <2>1. SideOf(i) = IF L THEN LeftKeys ELSE IF R THEN RightKeys ELSE <<>>
    BY DEF SideOf
  <2>2. (L <=> i \in {42, 56, 29}) /\ (R <=> i \in {54, 184, 157})
    BY <1>2, <1>3, Zenon
  <2> HIDE DEF L, R
  <2>3. i \in {54, 184, 157} => i \notin {42, 56, 29}
    OBVIOUS
  <2> QED
    BY <1>1, <2>1, <2>2, <2>3, Zenon
<1>5. KeysOf("left") = {i \in Keys : SideOf(i) = LeftKeys}
      /\ KeysOf("right") = {i \in Keys : SideOf(i) = RightKeys}
  BY DEF KeysOf
<1> QED
  BY <1>4, <1>5

\* The sibling kbd_reassert finds is of the broken key's side, and it finds
\* one whenever a key of the side is held.
LEMMA SiblingOfSide ==
  ASSUME NEW held \in SUBSET Keys, NEW idx \in Keys, NEW s \in Sides
  PROVE  /\ Sibling(idx, held) # <<>> =>
              (Sibling(idx, held)[1] \in KeysOf(s) <=> idx \in KeysOf(s))
         /\ Sibling(idx, held) = <<>> /\ idx \in KeysOf(s) => held \cap KeysOf(s) = {}
<1>1. \A i \in Keys : /\ i \in KeysOf("left") <=> i \in {42, 56, 29}
                      /\ i \in KeysOf("right") <=> i \in {54, 184, 157}
  BY SideKeys
<1>2. s = "left" \/ s = "right"
  BY DEF Sides
<1> DEFINE side == SideOf(idx)
<1>3. \/ side = LeftKeys /\ idx \in {42, 56, 29}
      \/ side = RightKeys /\ idx \in {54, 184, 157}
      \/ side = <<>> /\ idx \notin KeysOf("left") /\ idx \notin KeysOf("right")
  <2>1. /\ LeftKeys[1] = 42 /\ LeftKeys[2] = 56 /\ LeftKeys[3] = 29
        /\ RightKeys[1] = 54 /\ RightKeys[2] = 184 /\ RightKeys[3] = 157
    BY DEF LeftKeys, RightKeys
  <2>2. \A n \in 1 .. 3 : n = 1 \/ n = 2 \/ n = 3
    OBVIOUS
  <2>3. 1 \in 1 .. 3 /\ 2 \in 1 .. 3 /\ 3 \in 1 .. 3
    OBVIOUS
  <2> QED
    BY <1>1, <2>1, <2>2, <2>3 DEF SideOf
<1>4. Sibling(idx, held) =
        IF side = <<>> THEN <<>>
        ELSE IF side[1] \in held THEN <<side[1]>>
        ELSE IF side[2] \in held THEN <<side[2]>>
        ELSE IF side[3] \in held THEN <<side[3]>>
        ELSE <<>>
  BY DEF Sibling
<1> HIDE DEF side
<1>5. CASE side = LeftKeys /\ idx \in {42, 56, 29}
  <2>1. side # <<>> /\ side[1] = 42 /\ side[2] = 56 /\ side[3] = 29
    BY <1>5 DEF LeftKeys
  <2>2. idx \in KeysOf("left") /\ idx \notin KeysOf("right")
    BY <1>1, <1>5
  <2>3. Sibling(idx, held) # <<>> =>
          Sibling(idx, held)[1] \in held /\ Sibling(idx, held)[1] \in {42, 56, 29}
    BY <1>4, <2>1
  <2>4. Sibling(idx, held) = <<>> => held \cap {42, 56, 29} = {}
    BY <1>4, <2>1
  <2> QED
    BY <1>1, <1>2, <2>2, <2>3, <2>4
<1>6. CASE side = RightKeys /\ idx \in {54, 184, 157}
  <2>1. side # <<>> /\ side[1] = 54 /\ side[2] = 184 /\ side[3] = 157
    BY <1>6 DEF RightKeys
  <2>2. idx \in KeysOf("right") /\ idx \notin KeysOf("left")
    BY <1>1, <1>6
  <2>3. Sibling(idx, held) # <<>> =>
          Sibling(idx, held)[1] \in held /\ Sibling(idx, held)[1] \in {54, 184, 157}
    BY <1>4, <2>1
  <2>4. Sibling(idx, held) = <<>> => held \cap {54, 184, 157} = {}
    BY <1>4, <2>1
  <2> QED
    BY <1>1, <1>2, <2>2, <2>3, <2>4
<1>7. CASE side = <<>> /\ idx \notin KeysOf("left") /\ idx \notin KeysOf("right")
  BY <1>2, <1>4, <1>7
<1> QED
  BY <1>3, <1>5, <1>6, <1>7

\* The bytes of the repair behind a break, and room for both.
Repair(held, idx, fix) ==
  IF fix /\ Sibling(idx, held \ {idx}) # <<>>
  THEN Len(MakeBytes(Sibling(idx, held \ {idx})[1])) ELSE 0
Room(q, held, idx, fix) ==
  kbd_free(q) >= Len(BreakBytes(idx)) + Repair(held, idx, fix)

\* What kbd_key sends on a break, when it has room: another side's flipper
\* is left alone, and the broken key's own rises if it is repaired.
LEMMA BreakSends ==
  ASSUME NEW q \in Seq(Byte), NEW p \in BOOLEAN, ~ Prefixed(q, p), NEW f, NEW s \in Sides,
         NEW held \in SUBSET Keys, NEW idx \in Keys, NEW fix \in BOOLEAN,
         Room(q, held, idx, fix)
  PROVE  /\ ~ Prefixed(AfterBreak(q, held, idx, fix), p)
         /\ Rises(AfterBreak(q, held, idx, fix), p, f, s) <=>
              IF idx \in KeysOf(s) THEN fix /\ (held \ {idx}) \cap KeysOf(s) # {}
              ELSE Rises(q, p, f, s)
<1>r. SUFFICES ASSUME NEW r, r = AfterBreak(q, held, idx, fix)
              PROVE  /\ ~ Prefixed(r, p)
                     /\ Rises(r, p, f, s) <=>
                          IF idx \in KeysOf(s) THEN fix /\ (held \ {idx}) \cap KeysOf(s) # {}
                          ELSE Rises(q, p, f, s)
  OBVIOUS
<1>n. PICK need : need = Repair(held, idx, fix)
  OBVIOUS
<1> DEFINE sib == Sibling(idx, held \ {idx})
           r1 == q \o BreakBytes(idx)
<1>1. /\ BreakBytes(idx) \in Seq(Byte) /\ Len(BreakBytes(idx)) \in Nat
      /\ Len(q) \in Nat /\ Cap \in Nat
  BY KeyBytes, CapAssumption DEF CapAssumption
<1>9. need \in Nat /\ kbd_free(q) >= Len(BreakBytes(idx)) + need
  <2>1. Sibling(idx, held \ {idx}) # <<>> => Sibling(idx, held \ {idx})[1] \in Keys
    BY SiblingHeld
  <2> QED
    BY <1>n, <2>1, KeyBytes DEF Repair, Room
<1>2. kbd_push(q, BreakBytes(idx), fix) = r1
  <2>1. kbd_free(q) >= Len(BreakBytes(idx))
    BY <1>1, <1>9 DEF kbd_free
  <2> QED
    BY <2>1, PushRoom
<1>3. /\ r1 \in Seq(Byte) /\ ~ Prefixed(r1, p)
      /\ Rises(r1, p, f, s) <=> idx \notin KeysOf(s) /\ Rises(q, p, f, s)
  <2>1. Sc(idx) \in Nat /\ Sc(idx) + 128 # Sc(idx)
    BY KeysAssumption DEF Sc, KeysAssumption
  <2>2. r1 = q \o Bytes(idx, Sc(idx) + 128)
    BY DEF BreakBytes
  <2> HIDE DEF r1
  <2>3. PICK c : c = Sc(idx) + 128
    OBVIOUS
  <2>4. (c = Sc(idx) \/ c = Sc(idx) + 128) /\ c # Sc(idx) /\ r1 = q \o Bytes(idx, c)
    BY <2>1, <2>2, <2>3
  <2>5. /\ r1 \in Seq(Byte) /\ ~ Prefixed(r1, p)
        /\ Rises(r1, p, f, s) <=> IF idx \in KeysOf(s) THEN c = Sc(idx) ELSE Rises(q, p, f, s)
    BY <2>4, Sends
  <2> QED
    BY <2>4, <2>5, Zenon
<1>4. /\ sib # <<>> => sib[1] \in Keys /\ sib[1] \in held \ {idx}
      /\ sib # <<>> => (sib[1] \in KeysOf(s) <=> idx \in KeysOf(s))
      /\ sib = <<>> /\ idx \in KeysOf(s) => (held \ {idx}) \cap KeysOf(s) = {}
  <2>1. held \ {idx} \in SUBSET Keys
    OBVIOUS
  <2> QED
    BY <2>1, SiblingHeld, SiblingOfSide
<1>5. r = IF fix /\ sib # <<>> THEN kbd_push(r1, MakeBytes(sib[1]), fix) ELSE r1
  BY <1>2, <1>r DEF AfterBreak
<1>6. Len(r1) = Len(q) + Len(BreakBytes(idx))
  BY <1>1
<1>7. CASE fix /\ sib # <<>>
  <2>1. sib[1] \in Keys
    BY <1>4, <1>7
  <2>2. kbd_free(r1) >= Len(MakeBytes(sib[1]))
    <3>1. need = Len(MakeBytes(sib[1]))
      BY <1>7, <1>n DEF Repair
    <3> HIDE DEF sib, r1
    <3> QED
      BY <1>1, <1>6, <1>9, <3>1 DEF kbd_free
  <2> HIDE DEF r1, sib
  <2>3. r = r1 \o MakeBytes(sib[1])
    BY <1>3, <1>5, <1>7, <2>2, PushRoom
  <2>4. r = r1 \o Bytes(sib[1], Sc(sib[1]))
    BY <2>3 DEF MakeBytes
  <2>5. /\ ~ Prefixed(r, p)
        /\ Rises(r, p, f, s) <=> IF sib[1] \in KeysOf(s) THEN TRUE ELSE Rises(r1, p, f, s)
    <3>1. PICK k : k = sib[1]
      OBVIOUS
    <3>2. PICK c : c = Sc(k)
      OBVIOUS
    <3>3. k \in Keys /\ (c = Sc(k) \/ c = Sc(k) + 128) /\ r = r1 \o Bytes(k, c)
      BY <2>1, <2>4, <3>1, <3>2
    <3>4. /\ r \in Seq(Byte) /\ ~ Prefixed(r, p)
          /\ Rises(r, p, f, s) <=> IF k \in KeysOf(s) THEN c = Sc(k) ELSE Rises(r1, p, f, s)
      <4>1. r1 \in Seq(Byte) /\ ~ Prefixed(r1, p)
        BY <1>3
      <4> QED
        BY <3>3, <4>1, Sends
    <3> QED
      BY <3>1, <3>2, <3>4, Zenon
  <2> QED
    BY <1>3, <1>4, <1>7, <2>5
<1>8. CASE ~ (fix /\ sib # <<>>)
  <2> HIDE DEF r1, sib
  <2> QED
    BY <1>3, <1>4, <1>5, <1>8
<1> QED
  BY <1>7, <1>8

\* What is left to show of a step that keeps whole, flipper by flipper.
FollowsOn(s) ==
  /\ WillRise(s) => kbd_held \cap KeysOf(s) # {}
  /\ fix_on /\ call # "release" /\ made \cap KeysOf(s) # {} => WillRise(s)

\* A press keeps the flippers following their keys.
LEMMA MakeFollows ==
  ASSUME TypeOK, Follows, NEW idx \in Keys, Make(idx)
  PROVE  Follows'
<1> DEFINE co == Coalesced(kbd_held, idx, fix_on)
<1>1. /\ call = "none" /\ call' = call /\ pfx' = pfx /\ flip' = flip /\ fix_on' = fix_on
      /\ kbd_held' = kbd_held \cup {idx} /\ idx \in Keys
  BY DEF Make, HeldAfter, guestVars
<1>2. made' \subseteq kbd_held'
  BY <1>1 DEF Make, Follows
<1>3. CASE co
  <2>1. kbd_buf' = kbd_buf /\ kbd_held' = kbd_held /\ made' = made /\ (whole' => whole)
    BY <1>1, <1>3 DEF Make, AfterMake, MakeRaises, Coalesced
  <2> QED
    BY <1>1, <1>2, <2>1 DEF Follows, WillRise
<1>4. CASE ~ co
  <2> SUFFICES ASSUME whole' PROVE ~ Prefixed(kbd_buf, pfx)' /\ \A s \in Sides : FollowsOn(s)'
    BY <1>1, <1>2 DEF Follows, FollowsOn
  <2>1. whole /\ ~ Overflows(kbd_buf, MakeBytes(idx))
    BY <1>4 DEF Make
  <2>2. kbd_free(kbd_buf) >= Len(MakeBytes(idx))
    <3>1. Len(MakeBytes(idx)) \in Nat /\ kbd_free(kbd_buf) \in Int
      BY KeyBytes, CapAssumption DEF TypeOK, kbd_free, CapAssumption
    <3> QED
      BY <2>1, <3>1 DEF Overflows
  <2>3. kbd_buf' = kbd_buf \o MakeBytes(idx) /\ made' = made \cup {idx}
    BY <1>4, <2>2, PushRoom DEF Make, AfterMake, MakeRaises, kbd_ensure, TypeOK
  <2>4. PICK c : c = Sc(idx)
    OBVIOUS
  <2>5. kbd_buf' = kbd_buf \o Bytes(idx, c)
    BY <2>3, <2>4 DEF MakeBytes
  <2>6. kbd_buf \in Seq(Byte) /\ pfx \in BOOLEAN /\ ~ Prefixed(kbd_buf, pfx)
    BY <2>1 DEF TypeOK, Follows
  <2>7. ~ Prefixed(kbd_buf', pfx)
    BY <2>4, <2>5, <2>6, Sends
  <2>8. ASSUME NEW s \in Sides
        PROVE  FollowsOn(s)'
    <3>1. /\ kbd_buf' \in Seq(Byte) /\ ~ Prefixed(kbd_buf', pfx)
          /\ Rises(kbd_buf', pfx, flip[s], s) <=>
               IF idx \in KeysOf(s) THEN c = Sc(idx) ELSE Rises(kbd_buf, pfx, flip[s], s)
      <4>1. c = Sc(idx) \/ c = Sc(idx) + 128
        BY <2>4
      <4> QED
        BY <2>5, <2>6, <4>1, Sends
    <3>2. WillRise(s)' <=> idx \in KeysOf(s) \/ WillRise(s)
      BY <1>1, <2>4, <3>1 DEF WillRise
    <3>3. FollowsOn(s)
      BY <2>1 DEF Follows, FollowsOn
    <3> QED
      BY <1>1, <2>3, <3>2, <3>3 DEF FollowsOn
  <2> QED
    BY <1>1, <2>7, <2>8
<1> QED
  BY <1>3, <1>4

\* A break with its repair keeps the flippers following their keys, whoever
\* calls kbd_key.
LEMMA BreakFollows ==
  ASSUME TypeOK, Follows, NEW idx \in Keys, KeyBreak(idx), call # "release"
  PROVE  Follows'
<1>1. /\ pfx' = pfx /\ flip' = flip /\ fix_on' = fix_on
      /\ kbd_held' = kbd_held \ {idx} /\ made' = made \ {idx}
      /\ kbd_buf' = AfterBreak(kbd_buf, kbd_held, idx, fix_on)
  BY DEF KeyBreak, HeldAfter, guestVars
<1>2. made \subseteq kbd_held /\ (~ fix_on => \A s \in Sides : ~ flip[s])
  BY DEF Follows
<1> SUFFICES ASSUME whole' PROVE ~ Prefixed(kbd_buf, pfx)' /\ \A s \in Sides : FollowsOn(s)'
  BY <1>1, <1>2 DEF Follows, FollowsOn
<1>3. whole /\ kbd_free(kbd_buf) >= Len(BreakBytes(idx)) + RepairBytes(idx)
  BY DEF KeyBreak
<1>4. RepairBytes(idx) = Repair(kbd_held, idx, fix_on)
  BY DEF RepairBytes, Repair
<1>7. /\ kbd_buf \in Seq(Byte) /\ pfx \in BOOLEAN /\ ~ Prefixed(kbd_buf, pfx)
      /\ kbd_held \in SUBSET Keys /\ fix_on \in BOOLEAN
      /\ Room(kbd_buf, kbd_held, idx, fix_on)
  BY <1>3, <1>4 DEF TypeOK, Follows, Room
<1>8. ASSUME NEW s \in Sides
      PROVE  ~ Prefixed(kbd_buf', pfx) /\ FollowsOn(s)'
  <2>1. /\ ~ Prefixed(kbd_buf', pfx)
        /\ Rises(kbd_buf', pfx, flip[s], s) <=>
             IF idx \in KeysOf(s) THEN fix_on /\ (kbd_held \ {idx}) \cap KeysOf(s) # {}
             ELSE Rises(kbd_buf, pfx, flip[s], s)
    <3>1. kbd_buf' = AfterBreak(kbd_buf, kbd_held, idx, fix_on)
      BY <1>1
    <3>2. ASSUME NEW q, NEW p, NEW held, NEW fix, NEW up,
                 q = kbd_buf, p = pfx, held = kbd_held, fix = fix_on
          PROVE  /\ ~ Prefixed(AfterBreak(q, held, idx, fix), p)
                 /\ Rises(AfterBreak(q, held, idx, fix), p, up, s) <=>
                      IF idx \in KeysOf(s) THEN fix /\ (held \ {idx}) \cap KeysOf(s) # {}
                      ELSE Rises(q, p, up, s)
      <4>1. /\ q \in Seq(Byte) /\ p \in BOOLEAN /\ ~ Prefixed(q, p)
            /\ held \in SUBSET Keys /\ fix \in BOOLEAN
            /\ Room(q, held, idx, fix)
        BY <1>7, <3>2
      <4>2. ~ Prefixed(AfterBreak(q, held, idx, fix), p)
        BY <4>1, BreakSends
      <4>3. Rises(AfterBreak(q, held, idx, fix), p, up, s) <=>
              IF idx \in KeysOf(s) THEN fix /\ (held \ {idx}) \cap KeysOf(s) # {}
              ELSE Rises(q, p, up, s)
        BY <4>1, BreakSends
      <4> QED
        BY <4>2, <4>3
    <3> QED
      BY <3>1, <3>2, Zenon
  <2>2. WillRise(s)' <=> IF idx \in KeysOf(s) THEN fix_on /\ (kbd_held \ {idx}) \cap KeysOf(s) # {}
                         ELSE WillRise(s)
    BY <1>1, <2>1 DEF WillRise
  <2>3. FollowsOn(s)
    BY <1>3 DEF Follows, FollowsOn
  <2> QED
    BY <1>1, <1>2, <2>1, <2>2, <2>3 DEF FollowsOn
<1> QED
  BY <1>1, <1>8 DEF Sides

\* A focus loss breaks the lowest held key and keeps them too.
LEMMA ReleaseFollows ==
  ASSUME TypeOK, Follows, ReleaseKey
  PROVE  Follows'
<1>1. PICK idx \in kbd_held :
        LET room == kbd_ensure(kbd_buf, Len(BreakBytes(idx)), fix_on)
            over == ~ room \/ kbd_held = {idx}
        IN  /\ kbd_buf' = kbd_push(kbd_buf, BreakBytes(idx), fix_on)
            /\ kbd_held' = kbd_held \ {idx}
            /\ irr' = (irr \/ over)
            /\ call' = IF over THEN "none" ELSE "release"
            /\ whole' = (whole /\ ~ Overflows(kbd_buf, BreakBytes(idx)))
            /\ made' = made \ {idx}
  BY DEF ReleaseKey
<1>2. pfx' = pfx /\ flip' = flip /\ fix_on' = fix_on /\ idx \in Keys
  BY DEF ReleaseKey, guestVars, TypeOK
<1>3. made \subseteq kbd_held /\ (~ fix_on => \A s \in Sides : ~ flip[s])
  BY DEF Follows
<1> SUFFICES ASSUME whole' PROVE ~ Prefixed(kbd_buf, pfx)' /\ \A s \in Sides : FollowsOn(s)'
  BY <1>1, <1>2, <1>3 DEF Follows, FollowsOn
<1>4. whole /\ ~ Overflows(kbd_buf, BreakBytes(idx))
  BY <1>1
<1>5. kbd_free(kbd_buf) >= Len(BreakBytes(idx))
  <2>1. Len(BreakBytes(idx)) \in Nat /\ kbd_free(kbd_buf) \in Int
    BY <1>2, KeyBytes, CapAssumption DEF TypeOK, kbd_free, CapAssumption
  <2> QED
    BY <1>4, <2>1 DEF Overflows
<1>6. call' # "release" => kbd_held' = {}
  BY <1>1, <1>5 DEF kbd_ensure
<1>7. PICK c : c = Sc(idx) + 128
  OBVIOUS
<1>8. c # Sc(idx)
  <2>1. Sc(idx) \in Nat
    BY <1>2, KeysAssumption DEF Sc, KeysAssumption
  <2> QED
    BY <1>7, <2>1
<1>9. /\ kbd_buf \in Seq(Byte) /\ pfx \in BOOLEAN /\ ~ Prefixed(kbd_buf, pfx)
      /\ kbd_buf' = kbd_buf \o Bytes(idx, c)
  BY <1>1, <1>4, <1>5, <1>7, PushRoom DEF TypeOK, Follows, BreakBytes
<1>10. ASSUME NEW s \in Sides
       PROVE  ~ Prefixed(kbd_buf', pfx) /\ FollowsOn(s)'
  <2>1. /\ kbd_buf' \in Seq(Byte) /\ ~ Prefixed(kbd_buf', pfx)
        /\ Rises(kbd_buf', pfx, flip[s], s) <=>
             IF idx \in KeysOf(s) THEN c = Sc(idx) ELSE Rises(kbd_buf, pfx, flip[s], s)
    <3>1. c = Sc(idx) \/ c = Sc(idx) + 128
      BY <1>7
    <3> QED
      BY <1>2, <1>9, <3>1, Sends
  <2>2. WillRise(s)' <=> idx \notin KeysOf(s) /\ WillRise(s)
    BY <1>2, <1>8, <2>1 DEF WillRise
  <2>3. FollowsOn(s)
    BY <1>4 DEF Follows, FollowsOn
  <2> QED
    BY <1>1, <1>2, <1>3, <1>6, <2>1, <2>2, <2>3 DEF FollowsOn
<1> QED
  BY <1>2, <1>10 DEF Sides

\* So does the handler's read of a byte.
LEMMA ReadFollows ==
  ASSUME TypeOK, Follows, ReadPort
  PROVE  Follows'
<1>1. /\ kbd_held' = kbd_held /\ fix_on' = fix_on /\ call' = call /\ whole' = whole
      /\ made' = made
  BY DEF ReadPort
<1>2. CASE kbd_buf = <<>>
  BY <1>1, <1>2 DEF ReadPort, Follows, WillRise
<1>3. CASE kbd_buf # <<>>
  <2>1. PICK b : b = Head(kbd_buf)
    OBVIOUS
  <2>2. /\ kbd_buf' = Tail(kbd_buf) /\ flip' = FlipAfter(b) /\ pfx' = (b = PrefixE0)
    BY <1>3, <2>1 DEF ReadPort
  <2>3. pfx' \in BOOLEAN /\ (pfx' <=> Head(kbd_buf) = PrefixE0)
    BY <2>1, <2>2
  <2>4. ASSUME NEW s \in Sides
        PROVE  /\ fix_on => (flip'[s] <=> IF IsKeyOf(s, b, pfx) THEN b \in 0 .. 127 ELSE flip[s])
               /\ ~ fix_on => ~ flip'[s]
    <3> DEFINE G == fix_on /\ b # PrefixE0 /\ KeyOfCode(b) \in KeysOf(s)
    <3>1. FlipAfter(b)[s] = IF G THEN b \in 0 .. 127 ELSE flip[s]
      BY Zenon DEF FlipAfter
    <3>2. fix_on => (G <=> IsKeyOf(s, b, pfx))
      BY DEF IsKeyOf, KeyOfCode
    <3>3. ~ fix_on => ~ G /\ ~ flip[s]
      BY DEF Follows
    <3> HIDE DEF G
    <3> QED
      BY <2>2, <3>1, <3>2, <3>3, Zenon
  <2>5. kbd_buf \in Seq(Byte) /\ pfx \in BOOLEAN
    BY DEF TypeOK
  <2>6. ASSUME NEW s \in Sides
        PROVE  /\ Prefixed(kbd_buf', pfx') <=> Prefixed(kbd_buf, pfx)
               /\ WillRise(s)' => WillRise(s)
               /\ fix_on => (WillRise(s)' <=> WillRise(s))
    <3>1. /\ Prefixed(kbd_buf', pfx') <=> Prefixed(kbd_buf, pfx)
          /\ Silent(kbd_buf, pfx, s) <=> ~ IsKeyOf(s, b, pfx) /\ Silent(kbd_buf', pfx', s)
          /\ Up(kbd_buf, pfx, s) <=>
               \/ Up(kbd_buf', pfx', s)
               \/ IsKeyOf(s, b, pfx) /\ b \in 0 .. 127 /\ Silent(kbd_buf', pfx', s)
      <4>1. /\ Prefixed(Tail(kbd_buf), Head(kbd_buf) = PrefixE0) <=> Prefixed(kbd_buf, pfx)
            /\ Silent(kbd_buf, pfx, s) <=>
                 /\ ~ IsKeyOf(s, Head(kbd_buf), pfx)
                 /\ Silent(Tail(kbd_buf), Head(kbd_buf) = PrefixE0, s)
            /\ Up(kbd_buf, pfx, s) <=>
                 \/ Up(Tail(kbd_buf), Head(kbd_buf) = PrefixE0, s)
                 \/ /\ IsKeyOf(s, Head(kbd_buf), pfx) /\ Head(kbd_buf) \in 0 .. 127
                    /\ Silent(Tail(kbd_buf), Head(kbd_buf) = PrefixE0, s)
        BY <1>3, <2>5, Reads
      <4> QED
        BY <2>1, <2>2, <4>1, Zenon
    <3>2. fix_on \in BOOLEAN
      BY DEF TypeOK
    <3> QED
      BY <2>1, <2>3, <2>4, <3>1, <3>2, Zenon DEF WillRise, Rises
  <2>7. ~ fix_on => \A s \in Sides : ~ flip'[s]
    BY <2>4
  <2>8. Prefixed(kbd_buf', pfx') <=> Prefixed(kbd_buf, pfx)
    BY <2>6 DEF Sides
  <2> QED
    BY <1>1, <2>6, <2>7, <2>8 DEF Follows
<1> QED
  BY <1>2, <1>3

\* An EXEC keeps them: the new program's flippers are down.
LEMMA ExecFollows ==
  ASSUME TypeOK, Follows, NEW table \in BOOLEAN, Exec(table)
  PROVE  Follows'
<1>1. /\ made' = {} /\ kbd_buf' = kbd_buf /\ pfx' = FALSE
      /\ flip' = [s \in Sides |-> FALSE]
      /\ kbd_held' = IF table THEN kbd_held ELSE {}
      /\ whole' = (kbd_buf = <<>> \/ (table /\ whole /\ ~ pfx))
  BY DEF Exec
<1>2. \A s \in Sides : ~ flip'[s]
  BY <1>1
<1> SUFFICES ASSUME whole'
             PROVE  /\ ~ Prefixed(kbd_buf, pfx)'
                    /\ \A s \in Sides : WillRise(s)' => kbd_held' \cap KeysOf(s) # {}
  BY <1>1, <1>2 DEF Follows
<1>3. CASE kbd_buf = <<>>
  <2>1. 1 .. Len(kbd_buf) = {}
    BY <1>3
  <2>2. \A s \in Sides : ~ WillRise(s)'
    BY <1>1, <1>2, <2>1 DEF WillRise, Rises, Up, Silent
  <2> QED
    BY <1>1, <1>3, <2>2 DEF Prefixed
<1>4. CASE kbd_buf # <<>>
  <2>1. table /\ whole /\ ~ pfx /\ kbd_held' = kbd_held
    BY <1>1, <1>4
  <2>2. pfx' = pfx
    BY <1>1, <2>1 DEF TypeOK
  <2>3. \A s \in Sides : WillRise(s)' => WillRise(s)
    BY <1>1, <1>2, <2>2 DEF WillRise, Rises, Up, Silent
  <2> QED
    BY <1>1, <2>1, <2>2, <2>3 DEF Follows
<1> QED
  BY <1>3, <1>4

\* Every step of the host and of the guest keeps the flippers following.
LEMMA FollowsStep == TypeOK /\ Follows /\ [Next]_vars => Follows'
<1> SUFFICES ASSUME TypeOK, Follows, [Next]_vars
             PROVE  Follows'
  OBVIOUS
<1>1. ASSUME NEW idx \in Keys, Make(idx)
      PROVE  Follows'
  BY <1>1, MakeFollows
<1>2. ASSUME NEW idx \in Keys, Break(idx)
      PROVE  Follows'
  BY <1>2, BreakFollows DEF Break
<1>3. ASSUME NEW idx \in Keys, LoseKeyUp(idx)
      PROVE  Follows'
  BY <1>3 DEF LoseKeyUp, kbdVars, guestVars, Follows, WillRise
<1>4. CASE FocusLost
  BY <1>4 DEF FocusLost, kbdVars, guestVars, Follows, WillRise
<1>5. CASE ReleaseKey
  BY <1>5, ReleaseFollows
<1>6. CASE ReconcileKey
  <2>1. PICK n \in Stale : KeyBreak(ReconcileKeys[n])
    BY <1>6 DEF ReconcileKey
  <2>2. ReconcileKeys[n] \in Keys /\ call # "release"
    BY <1>6, <2>1 DEF Stale, TypeOK, ReconcileKey
  <2> QED
    BY <2>1, <2>2, BreakFollows
<1>7. CASE TakeIrq
  BY <1>7 DEF TakeIrq, Follows, WillRise
<1>8. CASE ReadPort
  BY <1>8, ReadFollows
<1>9. CASE Eoi
  BY <1>9 DEF Eoi, kbdVars, Follows, WillRise
<1>10. ASSUME NEW table \in BOOLEAN, Exec(table)
       PROVE  Follows'
  BY <1>10, ExecFollows
<1>11. CASE UNCHANGED vars
  BY <1>11 DEF vars, kbdVars, guestVars, Follows, WillRise
<1> QED
  BY <1>1, <1>2, <1>3, <1>4, <1>5, <1>6, <1>7, <1>8, <1>9, <1>10, <1>11
  DEF Next, Host, Guest

(***************************************************************************)
(* With the fix on and no byte lost, a drained queue leaves each flipper   *)
(* up while a key of it the table was sent is held, and down when none is: *)
(* what kbd_key's coalescing and repair, the focus loss and the reconcile  *)
(* do to the shared bit between them.                                      *)
(***************************************************************************)
THEOREM FlippersFollow == Spec => []FlippersFollowKeys
<1>1. Init => Follows
  <2> SUFFICES ASSUME Init PROVE Follows
    OBVIOUS
  <2>1. 1 .. Len(kbd_buf) = {} /\ kbd_buf = <<>> /\ pfx = FALSE /\ made = {} /\ kbd_held = {}
    BY DEF Init
  <2>2. \A s \in Sides : ~ flip[s]
    BY DEF Init
  <2> QED
    BY <2>1, <2>2 DEF Follows, WillRise, Rises, Up, Silent, Prefixed
<1>2. TypeOK /\ Follows => FlippersFollowKeys
  <2> SUFFICES ASSUME Follows, fix_on, whole, Drained, NEW s \in Sides
               PROVE  /\ flip[s] => kbd_held \cap KeysOf(s) # {}
                      /\ made \cap KeysOf(s) # {} => flip[s]
    BY DEF FlippersFollowKeys, NoStuckFlipper, HeldFlipperUp
  <2>1. 1 .. Len(kbd_buf) = {} /\ call = "none"
    BY DEF Drained
  <2>2. WillRise(s) <=> flip[s]
    BY <2>1 DEF WillRise, Rises, Up, Silent
  <2> QED
    BY <2>1, <2>2 DEF Follows
<1> QED
  BY <1>1, <1>2, FollowsStep, TypeCorrect, PTL DEF Spec
=============================================================================
