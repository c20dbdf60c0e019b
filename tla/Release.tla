------------------------------- MODULE Release -------------------------------
(***************************************************************************)
(* What a folder holds (src/release.c).  Every release ships the same five *)
(* programs under the same names with bytes of its own; two of them share  *)
(* some of those bytes, and the intro decides which one the others are     *)
(* held against.  A folder is a function from the names in it to what      *)
(* their files hold; the user moves files in and out.                      *)
(***************************************************************************)
EXTENDS Naturals, Sequences, SequencesExt

CONSTANTS
  Programs,  \* the programs' names, the intro first (prog_names)
  Releases,  \* the database's order
  Table,     \* per release, its files: name -> contents
  Boot,      \* per release, the name of the program that starts it
  Needed,    \* per release, the data files the game cannot run without
  Odd,       \* contents no release has
  None

VARIABLES
  folder,    \* the folder's files
  dup        \* two of its names differ only by case

Intro == Programs[1]
\* What the proofs assume of them: a release ships all its programs, and no two
\* ship the same intro.
Constants ==
  /\ 1 \in DOMAIN Programs
  /\ Releases \in Seq(Range(Releases)) /\ None \notin Range(Releases)
  /\ \A r \in Range(Releases) :
       /\ Range(Programs) \cup Needed[r] \cup {Boot[r]} \subseteq DOMAIN Table[r]
       /\ \A q \in Range(Releases) : Table[r][Intro] = Table[q][Intro] => r = q

Names == UNION {DOMAIN Table[r] : r \in Range(Releases)}
Contents(n) == {Odd} \cup {Table[r][n] : r \in {q \in Range(Releases) : n \in DOMAIN Table[q]}}

Matches(r, n, f) == n \in DOMAIN f /\ n \in DOMAIN Table[r] /\ f[n] = Table[r][n]

\* The first release this program is a copy from, if any.
Origin(n, f) ==
  LET i == SelectInSeq(Releases, LAMBDA r : Matches(r, n, f)) IN
  IF i = 0 THEN None ELSE Releases[i]

Is(s, r) == [state |-> s, rel |-> r]

Wrong(r, f) == {n \in Range(Programs) \cap DOMAIN f : ~Matches(r, n, f)}
Foreign(r, f) == {n \in Wrong(r, f) : Origin(n, f) # None}
BootWrong(r, f) == Boot[r] \in DOMAIN f /\ ~Matches(r, Boot[r], f)
Missing(r, f) == (Range(Programs) \cup Needed[r] \cup {Boot[r]}) \ DOMAIN f

Coherent(r, f) ==
  CASE Foreign(r, f) # {} -> "mixed"
    [] Foreign(r, f) = {} /\ Wrong(r, f) # {} -> "modified"
    [] OTHER -> IF BootWrong(r, f) THEN "modified"
                ELSE IF Missing(r, f) # {} THEN "incomplete" ELSE "recognized"

release_detect(f, twice) ==
  LET cand == Origin(Intro, f) IN
  IF twice THEN Is("ambiguous", None)
  ELSE IF Intro \notin DOMAIN f THEN Is("absent", None)
  ELSE IF cand = None THEN Is("unknown", None)
  ELSE Is(Coherent(cand, f), cand)

release_runnable(r) == r.state = "recognized" /\ r.rel # None

Emptied == [n \in {} |-> None]
Without(f, gone) == [n \in DOMAIN f \ gone |-> f[n]]
With(f, n, c) == [m \in DOMAIN f \cup {n} |-> IF m = n THEN c ELSE f[m]]

-----------------------------------------------------------------------------
Put(n, c) == folder' = With(folder, n, c) /\ UNCHANGED dup
Take(n) == n \in DOMAIN folder /\ folder' = Without(folder, {n}) /\ UNCHANGED dup
Twin == dup' = ~dup /\ UNCHANGED folder

Init == folder = Emptied /\ dup = FALSE
Next ==
  \/ \E n \in Names : \E c \in Contents(n) : Put(n, c)
  \/ \E n \in Names : Take(n)
  \/ Twin
Spec == Init /\ [][Next]_<<folder, dup>>

Verdict == release_detect(folder, dup)
-----------------------------------------------------------------------------
\* A verdict is one of the six a readable folder can have, and it names a
\* release exactly when the intro is one's (release_detect).
TypeOK ==
  /\ Verdict.state \in {"ambiguous", "absent", "unknown", "mixed", "modified", "incomplete", "recognized"}
  /\ Verdict.rel # None <=> Verdict.state \in {"mixed", "modified", "incomplete", "recognized"}

\* A folder may be run exactly when one release's whole code vector, its boot
\* program and the data it cannot run without are there - whatever it shares
\* with another release (release_runnable, docs/RELEASES.md).
RunnableIsWhole ==
  release_runnable(Verdict) <=>
    /\ ~dup
    /\ \E r \in Range(Releases) :
         /\ \A n \in Range(Programs) \cup {Boot[r]} : n \in DOMAIN folder /\ folder[n] = Table[r][n]
         /\ Needed[r] \subseteq DOMAIN folder

\* "Incomplete" means what the user will take it to mean: bringing in the
\* files that are not there, and changing none, makes the folder run - and of
\* a folder told it is mixed or modified that is never true (release_detect).
FillingIsEnough ==
  Verdict.rel # None =>
    LET whole == [n \in DOMAIN folder \cup DOMAIN Table[Verdict.rel] |->
                    IF n \in DOMAIN folder THEN folder[n] ELSE Table[Verdict.rel][n]] IN
    release_runnable(release_detect(whole, dup)) <=> Verdict.state \in {"incomplete", "recognized"}
=============================================================================
