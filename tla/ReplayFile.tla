----------------------------- MODULE ReplayFile ------------------------------
(***************************************************************************)
(* The .pfr file (src/replay.c): the recorder that writes it line by line  *)
(* and may die at any of them, and the reader, which meets that file, or   *)
(* any other sequence of lines, refuses it or lives off it to its end.     *)
(*                                                                         *)
(* A line is a pair.  Time and cycles share one unit; what a file claims   *)
(* of the two is independent.                                              *)
(*   <<"head", d>>       the magic and the header lines, d their defect    *)
(*   <<"key", c>>        an event stamped with a cycle                     *)
(*   <<"old", t>>        an event of a pre-cycle file, stamped with time   *)
(*   <<"end_emu", t>>    <<"end_cycles", c>>                               *)
(*   <<"file_hash", b>>  the integrity line; b: it is the digest of        *)
(*                       everything above it                               *)
(*   <<"other", 0>>      a line that is no event                           *)
(***************************************************************************)
EXTENDS Integers, SequencesExt

CONSTANTS
  Last_,       \* bound: the largest stamp (LIM_END_EMU, LIM_END_CYCLES)
  LIM_EVENTS,  \* events a file may hold
  HashedLines, \* the longest file whose digest is compared (16 MB), in lines
  MaxLines     \* bound: lines behind the header of a file from elsewhere

VARIABLES
  lines,    \* the file on disk
  strict,   \* -strict
  pc,       \* "record", "footer", "load", "refused", "run" or "stopped"
  f,        \* what parse_file made of the lines
  cycles,   \* cpu.cycles, and emu_now() with it
  ev_idx,   \* events injected
  pressed,  \* history: the cycles at which the recorder logged a key
  ended     \* history: the cycle at which the session was closed, -1 if it
            \* was not, -2 for a file from elsewhere

vars == <<lines, strict, pc, f, cycles, ev_idx, pressed, ended>>

\* What the bounds must be.
Constants == Last_ \in Nat /\ LIM_EVENTS \in Nat /\ HashedLines \in Nat /\ MaxLines \in Nat

\* Sound headers name the canonical state or none.  The defects: no magic
\* line, no release, a number out of its range, a state this build does not
\* know, an overlay that is not the canonical one.
Ranked  == "ranked"
Sound   == {Ranked, "install"}
Defects == {"magic", "release", "range", "state", "overlay"}

\* Files from elsewhere: any order of any few lines behind a sound header,
\* any header, and longer files that are at least closed.  Never is a stamp
\* no session of this bound reaches.
Never == Last_ + 2
Line ==
  ({"key", "old", "end_emu", "end_cycles"} \X (0 .. Last_))
    \cup ({"end_emu", "end_cycles"} \X {Last_ + 1}) \cup {<<"end_emu", -1>>, <<"key", Never>>}
    \cup {<<"file_hash", TRUE>>, <<"file_hash", FALSE>>, <<"other", 0>>}
Closing(t, c, hash) == << <<"end_emu", t>>, <<"end_cycles", c>> >> \o hash
Headed(h, body) == << <<"head", h>> >> \o body
Inputs ==
  {Headed(h, body) : h \in Sound, body \in SeqOf(Line, MaxLines)}
    \cup {Headed(d, Closing(0, 0, << <<"file_hash", TRUE>> >>)) : d \in Defects}
    \cup {Headed(Ranked, body \o Closing(t, c, hash)) :
            body \in SeqOf({"key", "old"} \X ({0, 1, Never}), 2), t, c \in 0 .. Last_,
            hash \in {<<>>, << <<"file_hash", TRUE>> >>}}

-----------------------------------------------------------------------------
(***************************************************************************)
(* parse_file: one pass over the lines, then the checks that need all of   *)
(* it.                                                                     *)
(***************************************************************************)
NoFile == [err |-> FALSE, head |-> "magic", ev |-> <<>>, end_emu |-> -1, end_cycles |-> 0,
           have_emu |-> FALSE, have_cycles |-> FALSE]

Event(h, have_cyc, at) ==
  IF Len(h.ev) >= LIM_EVENTS THEN [h EXCEPT !.err = TRUE]
  ELSE [h EXCEPT !.ev = Append(@, [have_cyc |-> have_cyc, at |-> at])]

ReadLine(h, line) ==
  CASE line[1] = "head"        -> [h EXCEPT !.head = line[2]]
    [] line[1] = "end_emu"     -> [h EXCEPT !.end_emu = line[2], !.have_emu = TRUE]
    [] line[1] = "end_cycles"  -> [h EXCEPT !.end_cycles = line[2], !.have_cycles = TRUE]
    [] line[1] = "file_hash"   -> h
    [] line[1] = "key"         -> Event(h, TRUE, line[2])
    [] line[1] = "old"         -> Event(h, FALSE, line[2])
    [] line[1] = "other"       -> [h EXCEPT !.err = TRUE]

parse_file ==
  LET read[n \in 0 .. Len(lines)] == IF n = 0 THEN NoFile ELSE ReadLine(read[n - 1], lines[n])
  IN  read[Len(lines)]

\* 1 the digest matches, 0 it does not, -1 there is no such line or the file is
\* too long to be read for it.  The first line of that name is the one that
\* counts.
verify_file_hash ==
  LET n == SelectInSeq(lines, LAMBDA l : l[1] = "file_hash") IN
  IF n = 0 \/ Len(lines) > HashedLines THEN -1 ELSE IF lines[n][2] THEN 1 ELSE 0

validate_header(h) ==
  /\ h.head \in Sound
  /\ h.have_emu => h.end_emu \in 0 .. Last_
  /\ h.have_cycles => h.end_cycles <= Last_

Stamped(h) == {n \in DOMAIN h.ev : h.ev[n].have_cyc}
OldForm(h) == DOMAIN h.ev \ Stamped(h)

InOrder(h) ==
  \A n \in DOMAIN h.ev \ {1} :
    h.ev[n].have_cyc = h.ev[n - 1].have_cyc => h.ev[n - 1].at <= h.ev[n].at
InTime(h) ==
  /\ \A n \in OldForm(h) : h.ev[n].at \in 0 .. Last_
  /\ \A n \in Stamped(h) : h.end_cycles > 0 => h.ev[n].at <= h.end_cycles
  /\ \A n \in OldForm(h) : h.end_emu >= 0 => h.ev[n].at <= h.end_emu
OneClock(h) ==
  /\ Stamped(h) = {} \/ OldForm(h) = {}
  /\ Stamped(h) # {} => h.end_cycles # 0

\* Mutants: a footer of no cycles is taken for one that bounds nothing; the
\* order goes unchecked.
ZeroFooterPasses(h) ==
  InOrder(h) /\ InTime(h) /\ (Stamped(h) = {} \/ OldForm(h) = {}) /\ (strict => OldForm(h) = {})
Unordered(h) == InTime(h) /\ OneClock(h) /\ (strict => OldForm(h) = {})

validate_events(h) ==
  InOrder(h) /\ InTime(h) /\ OneClock(h) /\ (strict => OldForm(h) = {})

Accepted(h) ==
  /\ ~h.err
  /\ validate_header(h)
  /\ h.have_emu /\ h.have_cycles
  /\ verify_file_hash # 0
  /\ strict => verify_file_hash = 1
  /\ validate_events(h)

-----------------------------------------------------------------------------
(***************************************************************************)
(* Recording.  Every key is flushed as it is logged, the footer is not     *)
(* before it is closed, and the digest is appended to the closed file: the *)
(* process may die between any two of these lines.                         *)
(***************************************************************************)
Recording(more) == lines' = Append(lines, more) /\ UNCHANGED <<strict, f, ev_idx>>

replay_log_key ==
  /\ pc = "record" /\ Len(pressed) < LIM_EVENTS
  /\ Recording(<<"key", cycles>>)
  /\ pressed' = Append(pressed, cycles)
  /\ UNCHANGED <<pc, cycles, ended>>

RecordTurn ==
  /\ pc = "record" /\ cycles < Last_
  /\ cycles' = cycles + 1
  /\ UNCHANGED <<lines, strict, pc, f, ev_idx, pressed, ended>>

replay_end_record ==
  /\ pc = "record"
  /\ Recording(<<"end_emu", cycles>>)
  /\ pc' = "footer" /\ ended' = cycles
  /\ UNCHANGED <<cycles, pressed>>

Footer ==
  IF Last(lines)[1] = "end_emu"
  THEN Recording(<<"end_cycles", cycles>>) /\ UNCHANGED <<pc, cycles>>
  ELSE Recording(<<"file_hash", TRUE>>) /\ pc' = "load" /\ cycles' = 0

EndLine == pc = "footer" /\ Footer /\ UNCHANGED <<pressed, ended>>

Crash ==
  /\ pc \in {"record", "footer"}
  /\ pc' = "load" /\ cycles' = 0
  /\ UNCHANGED <<lines, strict, f, ev_idx, pressed, ended>>

-----------------------------------------------------------------------------
\* -strict refuses a file that is not ranked as well (run.c).
replay_begin_replay ==
  /\ pc = "load"
  /\ f' = parse_file
  /\ pc' = IF Accepted(f') /\ (strict => f'.head = Ranked) THEN "run" ELSE "refused"
  /\ UNCHANGED <<lines, strict, cycles, ev_idx, pressed, ended>>

event_due(n) == f.ev[n].at <= cycles

\* The list is walked once, up to the first event that is not due.
replay_inject_due ==
  LET due == {n \in ev_idx + 1 .. Len(f.ev) : \A k \in ev_idx + 1 .. n : event_due(k)}
  IN  ev_idx + Cardinality(due)

replay_should_stop(idx, now) ==
  /\ idx = Len(f.ev)
  /\ (f.end_cycles > 0 /\ now >= f.end_cycles) \/ (f.end_emu >= 0 /\ now >= f.end_emu)

\* One turn of the loop: the due events go in, the clock moves on, and the
\* stop is looked at.
Turn ==
  /\ pc = "run"
  /\ ev_idx' = replay_inject_due
  /\ cycles' = IF cycles <= Last_ THEN cycles + 1 ELSE cycles
  /\ pc' = IF replay_should_stop(ev_idx', cycles') THEN "stopped" ELSE "run"
  /\ UNCHANGED <<lines, strict, f, pressed, ended>>

Over == pc \in {"refused", "stopped"} /\ UNCHANGED vars

Init ==
  /\ strict \in BOOLEAN
  /\ \/ pc = "load" /\ lines \in Inputs /\ ended = -2
     \/ pc = "record" /\ lines \in {<< <<"head", h>> >> : h \in Sound} /\ ended = -1
  /\ f = NoFile /\ cycles = 0 /\ ev_idx = 0 /\ pressed = <<>>

Next ==
  \/ replay_log_key \/ RecordTurn \/ replay_end_record \/ EndLine \/ Crash
  \/ replay_begin_replay \/ Turn \/ Over

Spec == Init /\ [][Next]_vars /\ WF_vars(Turn)

-----------------------------------------------------------------------------
\* The types, and the bound every accepted file keeps to: a run is over
\* before the clock passes the largest footer there may be.
TypeOK ==
  /\ pc \in {"record", "footer", "load", "refused", "run", "stopped"}
  /\ cycles \in 0 .. Last_ + 1 /\ ev_idx \in 0 .. Len(f.ev)
  /\ pc = "run" => cycles <= Last_

\* A file that is accepted, whatever its lines and their order, is a replay
\* that ends: no event waits for a cycle behind the footer ("an event stamped
\* past the footer makes replay_should_stop() unreachable").
AcceptedEnds == (pc = "run") ~> (pc = "stopped")

\* No event of an accepted file goes in late: once the clock is past a
\* stamp, the event behind it and every one before it are in.
NothingLate ==
  pc \in {"run", "stopped"} => \A n \in DOMAIN f.ev : f.ev[n].at < cycles => n <= ev_idx

\* A recording that a crash cut short before its footer was complete is
\* never played; what is played of the recorder's own files is the whole
\* session, every key at its cycle, up to the cycle at which it was closed.
PlaysWholeSession ==
  pc \in {"run", "stopped"} /\ ended # -2 =>
    /\ ended >= 0
    /\ [n \in DOMAIN f.ev |-> f.ev[n].at] = pressed
    /\ f.end_cycles = ended

\* A session that was closed in order is a file its own reader accepts,
\* strict or not if it is ranked, unless keys were logged and no instruction
\* was ever run, or -strict wants the digest of a file too long for one.
OwnFileAccepted ==
  pc = "refused" /\ Last(lines) = <<"file_hash", TRUE>> /\ ended # -2 =>
    \/ strict /\ (f.head # Ranked \/ Len(lines) > HashedLines)
    \/ pressed # <<>> /\ ended = 0
=============================================================================
