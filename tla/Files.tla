-------------------------------- MODULE Files --------------------------------
(***************************************************************************)
(* What pfemu keeps on disk and reads back, part by part on a small        *)
(* instance: recordings and the window that lists them, settings, the      *)
(* folders of the game and the import of one, and the processes of a       *)
(* recording, a replay and a verification.  A behaviour is one part's,     *)
(* `which' says whose, and the others stand still.                         *)
(***************************************************************************)
EXTENDS Integers, FiniteSets, Sequences

CONSTANTS
  None,
  LastStamp, MaxEvents, HashedLines, MaxLines,                  \* of ReplayFile
  CommandLines, MaxRuns,                                        \* of Play
  Volumes, Vol0, Notches, Opts, Opt0, MaxLaunches, MaxCrashes,  \* of Config
  Programs, Releases, Table, Boot, Needed, Odd,                 \* of Release
  Kept, Discs, Listing, GogImage, Part, MaxDeaths,              \* of Install
  Recordings, Present, MaxGames, MaxLists                       \* of Replays

VARIABLES
  which,
  lines, strict, reading, file, cycles, ev_idx, pressed, ended,
  settings, legacy, sound, ui, game, wins, set, launches, crashes,
  folder, dup,
  gog, work, declined, last, importing, by, disc, at, sel, imported, deaths,
  running, opts, process, disk, runs,
  dir, newest, child, run, games, token, sent, upload, lists, finished, win

recording == <<lines, strict, reading, file, cycles, ev_idx, pressed, ended>>
config    == <<settings, legacy, sound, ui, game, wins, set, launches, crashes>>
release   == <<folder, dup>>
install   == <<gog, work, declined, last, importing, by, disc, at, sel, imported, deaths>>
play      == <<running, opts, process, disk, runs>>
listing   == <<dir, newest, child, run, games, token, sent, upload, lists, finished, win>>
vars      == <<which, recording, config, release, install, play, listing>>

-----------------------------------------------------------------------------
Rf == INSTANCE ReplayFile WITH
  Last_ <- LastStamp, LIM_EVENTS <- MaxEvents, pc <- reading, f <- file

Cf == INSTANCE Config WITH file <- settings

Rl == INSTANCE Release

In == INSTANCE Install WITH Crashes <- MaxDeaths, pc <- importing

\* For the small instance: the intro, a table program each release has its own
\* copy of, one two of them share, and one data file; two boot programs have
\* the same bytes.
Shipped == [
  floppy |-> [INTRO |-> "fi", TABLE1 |-> "f1", TABLE3 |-> "f3", MOD |-> "fm", PINBALL |-> "boot"],
  power_pack |-> [INTRO |-> "pi", TABLE1 |-> "p1", TABLE3 |-> "f3", MOD |-> "fm", PF |-> "boot"],
  deluxe |-> [INTRO |-> "di", TABLE1 |-> "d1", TABLE3 |-> "d3", MOD |-> "dm", PINBALL |-> "db"]]
ThreePrograms == <<"INTRO", "TABLE1", "TABLE3">>
ThreeReleases == <<"floppy", "power_pack", "deluxe">>
StartedBy     == [floppy |-> "PINBALL", power_pack |-> "PF", deluxe |-> "PINBALL"]
MusicNeeded   == [r \in DOMAIN Shipped |-> {"MOD"}]

\* GOG's disc, one with a file more that is not whole, and one of another game.
ThreeDiscs == [gog |-> Shipped.deluxe, retail |-> [INTRO |-> "di", EXTRA |-> "x"],
               other |-> [EXTRA |-> "y"]]
AsListed   == [gog |-> <<"INTRO", "TABLE1", "TABLE3", "MOD", "PINBALL">>,
               retail |-> <<"INTRO", "EXTRA">>, other |-> <<"EXTRA">>]
UserMade   == {None, Rl!Emptied, Shipped.floppy, Rl!Without(Shipped.floppy, {"MOD"}), Shipped.deluxe}

\* Two recordings, and the name of one more.
TwoOfThem == CHOOSE s \in [1 .. 2 -> Recordings] : s[1] # s[2]

\* The flags tried: none, every one and every two, every set of those of a
\* replay, a recording and a game, and a verification with what is refused ahead
\* of it.
Flags == {"-record", "-replay", "-ranked", "-strict", "-verify", "-launched", "-nolauncher",
          "-load", "-snapsave", "-setup", "-p", "-res", "-table", "-keepoverlay", "-video",
          "-videowav", "-release", "-import", "-releases", "-secs", "-res low", "-table 9"}
FlagSets ==
  {{}} \cup {{x, y} : x, y \in Flags}
    \cup {{"-replay"} \cup s : s \in SUBSET {"-strict", "-verify", "-launched", "-keepoverlay", "-res", "-video"}}
    \cup {{"-replay", "-verify"} \cup s : s \in SUBSET {"-video", "-res low", "-table 9"}}
    \cup {{"-record"} \cup s : s \in SUBSET {"-ranked", "-verify", "-keepoverlay", "-p"}}
    \cup {{"-nolauncher"} \cup s : s \in SUBSET {"-load", "-snapsave", "-verify", "-video"}}

Pl == INSTANCE Play WITH Inputs <- CommandLines, pc <- running, p <- process

Re == INSTANCE Replays WITH Files <- Recordings, disk <- dir, last_rec <- finished

\* What the proofs about the parts assume of their constants.
ASSUME PartsAssumption ==
  Rf!Constants /\ Cf!Constants /\ Rl!Constants /\ In!InstallConstants /\ Re!Constants

-----------------------------------------------------------------------------
Only(part) ==
  /\ which = part /\ UNCHANGED which
  /\ IF which = "replay"   THEN TRUE ELSE UNCHANGED recording
  /\ IF which = "config"   THEN TRUE ELSE UNCHANGED config
  /\ IF which \in {"release", "install"} THEN TRUE ELSE UNCHANGED release
  /\ IF which = "install"  THEN TRUE ELSE UNCHANGED install
  /\ IF which = "play"     THEN TRUE ELSE UNCHANGED play
  /\ IF which = "listing"  THEN TRUE ELSE UNCHANGED listing

\* No file and no settings to look at.
NoReplay ==
  /\ lines = None /\ strict = None /\ reading = None /\ file = None /\ cycles = None
  /\ ev_idx = None /\ pressed = None /\ ended = None
NoConfig ==
  /\ settings = None /\ legacy = None /\ sound = None /\ ui = None /\ game = None /\ wins = None
  /\ set = None /\ launches = None /\ crashes = None
NoListing ==
  /\ dir = None /\ newest = None /\ child = None /\ run = None /\ games = None /\ token = None
  /\ sent = None /\ upload = None /\ lists = None /\ finished = None /\ win = None

Init ==
  /\ which \in {"replay", "config", "release", "install", "play", "listing"}
  /\ IF which = "replay" THEN Rf!Init ELSE NoReplay
  /\ IF which = "config" THEN Cf!Init ELSE NoConfig
  /\ In!InstallInit /\ (which = "install" \/ folder = Rl!Emptied)
  /\ Pl!Init /\ (which = "play" \/ disk.games = "none")
  /\ IF which = "listing" THEN Re!Init ELSE NoListing

Next ==
  \/ Only("replay") /\ Rf!Next
  \/ Only("config") /\ Cf!Next
  \/ Only("release") /\ Rl!Next
  \/ Only("install") /\ In!InstallNext
  \/ Only("play") /\ Pl!Next
  \/ Only("listing") /\ Re!Next

Spec == Init /\ [][Next]_vars

-----------------------------------------------------------------------------
\* Every part's variables have their types.
TypeOK ==
  CASE which = "replay"   -> Rf!TypeOK
    [] which = "config"   -> Cf!TypeOK
    [] which = "release"  -> Rl!TypeOK
    [] which = "install"  -> In!InstallTypeOK
    [] which = "play"     -> Pl!TypeOK
    [] which = "listing"  -> Re!TypeOK

\* What is accepted as a recording is a whole session with its events in order,
\* and a session closed in order is accepted.
WholeSessions == which = "replay" => Rf!NothingLate /\ Rf!PlaysWholeSession /\ Rf!OwnFileAccepted

\* What the player set is what is read, by whichever program wrote last, and a
\* writer that dies takes no other file with it.
SettingsKept ==
  /\ [](which = "config" => Cf!SettingsStay /\ Cf!QualityStays /\ Cf!PairsTogether)
  /\ Cf!LegacyOutlivesCut

\* A folder runs exactly when one release is whole in it; an import leaves no
\* half-filled folder, is not refused for an earlier one's leavings, and changes
\* no installation that stands; and what is picked can run when something can.
InstallsWhole ==
  /\ [](which = "release" => Rl!RunnableIsWhole /\ Rl!FillingIsEnough)
  /\ [](which = "install" => In!NeverHalf /\ In!LeftoversCleared /\ In!PicksRunnable)
  /\ In!StandingStays

\* A process ends as its verdict says: a refusal speaks, zero means reproduced,
\* no session ran with the trainer on, and it leaves neither its private copy,
\* if that can be removed, nor a trace in the install's state or in the games
\* counted before.
EndsAsItSays == Pl!EndsAsItSays

\* The list shows what is on disk once the game's end was heard of, nothing
\* points at a recording that is gone, and the one being made is left alone.
ListIsCurrent ==
  /\ [](which = "listing" => Re!RowsAreCurrent /\ Re!PointsAtNothingGone)
  /\ Re!BusyLeftAlone

\* Violated: what goes to the Trash is what the question named.
DeletesWhatItNamed == Re!DeletesWhatItNamed
\* Violated: a session that is refused leaves no copy and no empty recording.
RefusedLeavesNothing == which = "play" => Pl!RefusedLeavesNothing
=============================================================================
