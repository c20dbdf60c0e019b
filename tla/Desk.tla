--------------------------------- MODULE Desk ---------------------------------
(***************************************************************************)
(* The launcher's side of pfemu, part by part on a small instance: the     *)
(* launcher window, the leaderboard's requests and the login that is kept. *)
(* A behaviour is one part's, `which' says whose, and the others stand     *)
(* still.                                                                  *)
(***************************************************************************)
EXTENDS Integers, FiniteSets, Sequences

CONSTANTS
  None,
  Installs, Elsewhere, Release, Names, Kept, MaxLaunches,             \* of Launcher
  Accounts, Files, MaxLogins, MaxWindows, MaxJobs, MaxLosses,         \* of Leaderboard
  Tokens, MaxDeaths                                                   \* of Account

VARIABLES
  which,
  ui, installs, recs, procs, last_rec, origin, launches,
  st, login, ask, jobs, server, windows, losses,
  cfg, ring, reach, up, mem, last, only, blind, deaths

launcher    == <<ui, installs, recs, procs, last_rec, origin, launches>>
leaderboard == <<st, login, ask, jobs, server, windows, losses>>
account     == <<cfg, ring, reach, up, mem, last, only, blind, deaths>>
vars        == <<which, launcher, leaderboard, account>>

-----------------------------------------------------------------------------
\* For the small instance: installs of one release, and a ranked recording of
\* a copy that is gone.
OneRelease == [i \in Installs \cup {Elsewhere} |-> 1]
OneRanked  == [f \in Names |-> [st |-> IF f = 1 THEN "whole" ELSE "none", ranked |-> f = 1,
                                inst |-> Elsewhere]]

La == INSTANCE Launcher WITH cfg <- installs, disk <- recs, games <- procs

Le == INSTANCE Leaderboard

Ac == INSTANCE Account WITH Deaths <- MaxDeaths

\* What the proofs about the parts assume of their constants.
ASSUME PartsAssumption == La!Constants /\ Le!Constants /\ Ac!Constants

-----------------------------------------------------------------------------
Only(part) ==
  /\ which = part /\ UNCHANGED which
  /\ IF part = "launcher"    THEN TRUE ELSE UNCHANGED launcher
  /\ IF part = "leaderboard" THEN TRUE ELSE UNCHANGED leaderboard
  /\ IF part = "account"     THEN TRUE ELSE UNCHANGED account

\* A window that is not there holds nothing.
NoLauncher ==
  /\ ui = None /\ installs = None /\ recs = None /\ procs = None /\ last_rec = None
  /\ origin = None /\ launches = None

Init ==
  /\ which \in {"launcher", "leaderboard", "account"}
  /\ IF which = "launcher" THEN La!Init ELSE NoLauncher
  /\ Le!Init
  /\ Ac!Init /\ (which = "account" \/ reach)

Next ==
  \/ Only("launcher") /\ La!Next
  \/ Only("leaderboard") /\ Le!Next
  \/ Only("account") /\ Ac!Next

Spec == Init /\ [][Next]_vars

-----------------------------------------------------------------------------
\* Every part's variables have their types.
TypeOK ==
  /\ which \in {"launcher", "leaderboard", "account"}
  /\ which = "launcher" => La!TypeOK
  /\ Le!TypeOK /\ Ac!TypeOK

\* Launch starts what the window shows: an install keeps its own settings, the
\* trainer is off in a session's, a record target the launcher chose is a name
\* nobody has, and what it offers afterwards was ranked and is still there.
LaunchesAsShown ==
  /\ [](which = "launcher" =>
          /\ La!SettingsStayOwn /\ La!TrainerOffInSession
          /\ La!LastRecExists /\ La!OwnTargetsFresh)
  /\ La!OffersRanked

\* A login goes by Log out, or once the server takes it no more, whatever comes
\* back late or not at all; a cancelled window logs nobody in; and one request
\* of a kind is out at a time.  It is where the window says it is, and a save
\* neither takes the other builds' nor forgets one it never read.
LoginKept ==
  /\ [](which = "leaderboard" => Le!OneUpload)
  /\ Le!TokenKept
  /\ Le!CancelledStaysOut
  /\ [](which = "account" => Ac!SaysWhatItHolds)
  /\ Ac!OthersLoginStays
  /\ Ac!ForgottenOnlySo

\* Violated: a recording is recorded over only if the user named it for that.
OverwritesOnlyNamed == La!OverwritesOnlyNamed
\* Violated: what Submit would send is a complete ranked recording.
CandidateQualifies == which = "launcher" => La!CandidateQualifies
\* Violated: the answer to a token given up says nothing about the next one.
StaleSaysNothing == Le!StaleSaysNothing
=============================================================================
