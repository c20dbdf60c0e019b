------------------------------- MODULE Install -------------------------------
(***************************************************************************)
(* Getting an installation from a CD image and choosing the one to run     *)
(* (src/cdimage.c, src/gog.c, the start of both hosts' launchers and the   *)
(* memory of src/cfg.c).  The two folders scanned are GAME, whose files    *)
(* the user keeps as he likes (folder, of Release), and GOG, which the     *)
(* import makes.  A disc is a function from the names on it to contents;   *)
(* any step of the import can fail, and the process can die at any.        *)
(***************************************************************************)
EXTENDS Release

CONSTANTS
  Kept,      \* what the user may make of GAME: None (no such folder) or its files
  Discs,     \* the images there are: name -> the disc's files
  Listing,   \* per disc, its names as its directories list them
  GogImage,  \* the one GOG's installer leaves
  Part,      \* contents of a file whose writing was cut short
  Crashes    \* bound: deaths of an importing process

VARIABLES
  gog,       \* the folder GOG: None, or its files
  work,      \* the hidden sibling the copy is made in: None, or its files
  declined,  \* pfemu-gog.cfg is there
  last,      \* pfemu-last.cfg: None, or the directory and release launched
  pc, by,    \* the process: what it does, and which front end it is
  disc, at,  \* the image being imported, files of it copied
  sel,       \* the installation picked
  imported,  \* this start filled GOG
  deaths

ivars == <<folder, dup, gog, work, declined, last, pc, by, disc, at, sel, imported, deaths>>
import == <<disc, at>>
process == <<by, disc, at, sel, imported>>
disk == <<folder, dup, gog, work, declined, last>>

Files(d) == Listing[d]
Dirs == {"GAME", "GOG"}
FolderOf(dir) == IF dir = "GAME" THEN folder ELSE gog
There(dir) == FolderOf(dir) # None
Detect(dir) == IF There(dir) THEN release_detect(FolderOf(dir), FALSE) ELSE Is("absent", None)

\* GAME first, then by name; only directories that hold the intro.
Scanned(dir) == There(dir) /\ Intro \in DOMAIN FolderOf(dir)
release_scan == (IF Scanned("GAME") THEN <<"GAME">> ELSE <<>>)
                  \o (IF Scanned("GOG") THEN <<"GOG">> ELSE <<>>)
Runs(dir) == release_runnable(Detect(dir))

gog_candidate ==
  /\ \A dir \in Range(release_scan) : ~(Runs(dir) /\ Detect(dir).rel = "deluxe")
  /\ ~There("GOG")
  /\ ~declined

\* The first of a set of them, in that order.
FirstOf(dirs) == LET here == dirs \cap Range(release_scan) IN
                 IF here = {} THEN None ELSE IF "GAME" \in here THEN "GAME" ELSE "GOG"

\* The directory launched last if it is still scanned, else the first runnable
\* folder of its release.
last_pick ==
  IF last = None THEN None
  ELSE IF last.dir \in Range(release_scan) THEN last.dir
  ELSE FirstOf({d \in Dirs : Runs(d) /\ Detect(d).rel = last.rel})

\* run_launcher of src/launch_gtk.c, and that of src/host_sdl.c, which starts
\* at once what it picks and so lets nothing displace a folder that runs.
FirstRuns == FirstOf({d \in Dirs : Runs(d)})
GtkPick(new) ==
  IF new /\ "GOG" \in Range(release_scan) THEN "GOG"
  ELSE IF last_pick # None THEN last_pick
  ELSE IF FirstRuns # None THEN FirstRuns
  ELSE IF release_scan # <<>> THEN release_scan[1] ELSE None
SdlPick(new) ==
  IF new /\ Runs("GOG") THEN "GOG"
  ELSE IF last_pick # None /\ Runs(last_pick) THEN last_pick ELSE FirstRuns

-----------------------------------------------------------------------------
Open(host) ==
  /\ pc = "closed"
  /\ by' = host
  /\ pc' = IF gog_candidate THEN "ask" ELSE "pick"
  /\ imported' = FALSE
  /\ UNCHANGED <<disk, import, sel, deaths>>

StartImport(d) == pc' = "list" /\ disc' = d /\ at' = 0

Answer ==
  /\ pc = "ask"
  /\ \/ StartImport(GogImage) /\ UNCHANGED declined                \* Yes
     \/ pc' = "pick" /\ declined' = TRUE /\ UNCHANGED import       \* No
     \/ pc' = "pick" /\ UNCHANGED <<declined, import>>             \* nowhere to ask, or to keep the No
  /\ UNCHANGED <<folder, dup, gog, work, last, by, sel, imported, deaths>>

\* pfemu -import IMAGE GOG
CommandImport(d) ==
  /\ pc = "closed"
  /\ StartImport(d) /\ by' = "command" /\ imported' = FALSE
  /\ UNCHANGED <<disk, sel, deaths>>

\* No process: nothing of one is left but what it put on the disk.
Gone == pc' = "closed" /\ by' = "gtk" /\ disc' = GogImage /\ at' = 0 /\ sel' = None /\ imported' = FALSE

\* The import is over: back to the launcher that offered it, or out.
Over(new) ==
  IF by = "command" THEN Gone
  ELSE pc' = "pick" /\ imported' = new /\ disc' = GogImage /\ at' = 0 /\ UNCHANGED <<by, sel>>

remove_tree_flat(w, d) ==
  IF w = None THEN None
  ELSE IF DOMAIN w \subseteq DOMAIN Discs[d] THEN None ELSE Without(w, DOMAIN Discs[d])
\* Both directories are listed before anything is touched.
List ==
  /\ pc = "list"
  /\ IF Intro \in DOMAIN Discs[disc] THEN pc' = "clear" /\ UNCHANGED process ELSE Over(FALSE)
  /\ UNCHANGED <<disk, deaths>>

Clear ==
  /\ pc = "clear"
  /\ work' = remove_tree_flat(work, disc)
  /\ pc' = "mkdir"
  /\ UNCHANGED <<folder, dup, gog, declined, last, import, by, sel, imported, deaths>>

Mkdir ==
  /\ pc = "mkdir"
  /\ IF work = None THEN work' = Emptied /\ pc' = "copy" /\ UNCHANGED process
     ELSE UNCHANGED work /\ Over(FALSE)
  /\ UNCHANGED <<folder, dup, gog, declined, last, deaths>>

\* Mutant: one file early.
EarlyLast == at + 2 >= Len(Files(disc))
LastFile == at + 1 = Len(Files(disc))
Copy ==
  /\ pc = "copy"
  /\ LET n == Files(disc)[at + 1] IN
     \/ /\ work' = With(work, n, Discs[disc][n])
        /\ IF LastFile THEN at' = 0 /\ pc' = "rename" ELSE at' = at + 1 /\ UNCHANGED pc
        /\ UNCHANGED <<disc, by, sel, imported>>
     \/ work' = remove_tree_flat(work, disc) /\ Over(FALSE)   \* unreadable, or no room
  /\ UNCHANGED <<folder, dup, gog, declined, last, deaths>>

Refuses == gog # None /\ gog # Emptied
Rename ==
  /\ pc = "rename"
  /\ IF Refuses THEN work' = remove_tree_flat(work, disc) /\ UNCHANGED gog /\ Over(FALSE)
     ELSE gog' = work /\ work' = None /\ Over(TRUE)
  /\ UNCHANGED <<folder, dup, declined, last, deaths>>

\* The process dies importing: some of the clearing done, or a file cut short.
Crash ==
  /\ pc \in {"clear", "mkdir", "copy", "rename"} /\ deaths < Crashes
  /\ deaths' = deaths + 1
  /\ CASE pc = "clear" /\ work # None ->
            \E k \in 0..Len(Files(disc)) : work' = Without(work, Range(SubSeq(Files(disc), 1, k)))
       [] pc = "copy" -> work' \in {work, With(work, Files(disc)[at + 1], Part)}
       [] OTHER -> UNCHANGED work
  /\ Gone
  /\ UNCHANGED <<folder, dup, gog, declined, last>>

Pick ==
  /\ pc = "pick"
  /\ sel' = IF by = "gtk" THEN GtkPick(imported) ELSE SdlPick(imported)
  /\ pc' = "picked"
  /\ UNCHANGED <<disk, import, by, imported, deaths>>

\* Launched - by hand where there is a window, at once where there is none -
\* or closed.
Launch ==
  /\ pc = "picked"
  /\ \/ sel # None /\ Runs(sel) /\ last' = [dir |-> sel, rel |-> Detect(sel).rel]
     \/ ~(by = "sdl" /\ sel # None /\ Runs(sel)) /\ UNCHANGED last
  /\ Gone
  /\ UNCHANGED <<folder, dup, gog, work, declined, deaths>>

\* What the user does to the folders between two starts.
Refill(f) == pc = "closed" /\ folder' = f /\ UNCHANGED <<dup, gog, work, declined, last, pc, by, import, sel, imported, deaths>>
DropGog == pc \in {"closed", "ask"} /\ gog' \in {None, Emptied} /\ UNCHANGED <<folder, dup, work, declined, last, pc, by, import, sel, imported, deaths>>
AskAgain == pc = "closed" /\ declined' = FALSE /\ UNCHANGED <<folder, dup, gog, work, last, pc, by, import, sel, imported, deaths>>

\* What the proofs assume of the constants: a disc's listing is of its files.
InstallConstants ==
  /\ GogImage \in DOMAIN Discs /\ Crashes \in Nat /\ None \notin Dirs
  /\ \A d \in DOMAIN Discs :
       /\ Listing[d] \in Seq(DOMAIN Discs[d]) /\ Range(Listing[d]) = DOMAIN Discs[d]
       /\ Discs[d] = [n \in DOMAIN Discs[d] |-> Discs[d][n]]

InstallInit ==
  /\ folder \in Kept /\ dup = FALSE
  /\ gog = None /\ work = None /\ declined = FALSE /\ last = None
  /\ pc = "closed" /\ by = "gtk" /\ disc = GogImage /\ at = 0
  /\ sel = None /\ imported = FALSE /\ deaths = 0

Importing == List \/ Clear \/ Mkdir \/ Copy \/ Rename

InstallNext ==
  \/ \E host \in {"gtk", "sdl"} : Open(host)
  \/ Answer \/ List \/ Clear \/ Mkdir \/ Copy \/ Rename \/ Crash \/ Pick \/ Launch
  \/ \E d \in DOMAIN Discs : CommandImport(d)
  \/ \E f \in Kept : Refill(f)
  \/ DropGog \/ AskAgain

InstallSpec == InstallInit /\ [][InstallNext]_ivars
-----------------------------------------------------------------------------
\* The work folder holds only what some disc has, whole or cut short; the
\* process is at one of its steps (cdimage_import).
InstallTypeOK ==
  /\ pc \in {"closed", "ask", "list", "clear", "mkdir", "copy", "rename", "pick", "picked"}
  /\ work # None => \A n \in DOMAIN work : \E d \in DOMAIN Discs : n \in DOMAIN Discs[d] /\ work[n] \in {Discs[d][n], Part}
  /\ pc = "copy" => at < Len(Files(disc)) /\ DOMAIN work = Range(SubSeq(Files(disc), 1, at))
  /\ sel \in {None, "GAME", "GOG"} /\ deaths <= Crashes

\* "A failed or interrupted import never leaves a half-filled folder for
\* release_scan() to find": whatever fails and whenever the process dies, the
\* folder is not there, empty as the user made it, or one disc's every file.
NeverHalf == gog \in {None, Emptied} \/ \E d \in DOMAIN Discs : gog = Discs[d]

\* "Cleared of any earlier attempt": an import of the image an earlier one
\* died on is not refused for what that one left; only a different disc's
\* leftovers can be in its way (remove_tree_flat, mkdir_1).
LeftoversCleared == pc = "mkdir" /\ work # None => \E n \in DOMAIN work : n \notin DOMAIN Discs[disc]

\* What the window stands on, or the other host starts, can run whenever
\* something can - but for the directory launched last, which the window
\* keeps even when its files changed (run_launcher, last_pick).
PicksRunnable ==
  pc = "picked" /\ (\E dir \in Range(release_scan) : Runs(dir)) =>
    /\ sel # None
    /\ ~Runs(sel) => by = "gtk" /\ (imported \/ last.dir = sel)

\* Importing touches nothing but its own folder: no step of it changes an
\* installation that stands, not even one the user put there while the
\* question was open (cdimage_import, rename).
StandingStays == [][Importing => folder' = folder /\ (gog \in {None, Emptied} \/ gog' = gog)]_ivars
=============================================================================
