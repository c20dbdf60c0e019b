------------------------------- MODULE Replays -------------------------------
(***************************************************************************)
(* The Replays window of the GTK launcher (src/launch_gtk.c): a list of    *)
(* the recordings on disk, read when the window opens and when a game      *)
(* ends, with Submit and Delete on its rows.  Both open windows of their   *)
(* own first, and while one is up the main loop goes on: the running game  *)
(* may end and answers may arrive.  The list is then read again, and what  *)
(* the caller kept of the old one is not.                                  *)
(***************************************************************************)
EXTENDS Integers, FiniteSets, SequencesExt

CONSTANTS
  Files,      \* recordings that may be in sessions/
  None,       \* no file
  Present,    \* Present: those there at first, newest first
  MaxGames,   \* bound: games recorded
  MaxLists    \* bound: list requests out; one more does not start

\* What the proofs assume of them.
Constants == None \notin Files

VARIABLES
  disk,      \* disk[f]: "absent", "open" (being written), "ranked", "plain", "cut"
  newest,    \* the files there, newest first
  child,     \* the recording of the running game
  run,       \* its process: "none", "starting", "writing", "ended" (not yet heard of)
  games,     \* games started
  token,     \* logged in
  sent,      \* contents the server has
  upload,    \* the recording being uploaded (st->submitting)
  lists,     \* list requests out: the server's answer once it gave one
  last_rec,  \* the finished ranked recording
  win        \* the window's RlState: see NoWindow

vars == <<disk, newest, child, run, games, token, sent, upload, lists, last_rec, win>>

\* open; it, the rows; sel and cur, the selected rows and the cursor's;
\* subs, the last answer; listing; box, the window on top and what its
\* caller holds: rows of the list it read, whose files it named.
NoBox == [kind |-> "none", rows |-> {}, named |-> {}, stale |-> FALSE]
NoWindow == [open |-> FALSE, it |-> <<>>, sel |-> {}, cur |-> 0, subs |-> {},
             listing |-> FALSE, box |-> NoBox]

rl_busy(f) == child = f

-----------------------------------------------------------------------------
\* rl_scan, with what rl_match adds: the rows of the files there.
Scanned(order, on, subs, writing) ==
  [i \in DOMAIN order |->
     [file |-> order[i], hd |-> on[order[i]], uploading |-> FALSE,
      sub |-> order[i] \in subs /\ order[i] # writing]]

\* rl_fill: the asked-for row selected, else the first.
Fill(w, f) ==
  LET at == {i \in DOMAIN w.it : w.it[i].file = f}
      i == IF at # {} THEN CHOOSE k \in at : TRUE ELSE IF 1 \in DOMAIN w.it THEN 1 ELSE 0
  IN [w EXCEPT !.cur = i, !.sel = {i} \ {0}]

\* rl_selected: the cursor's row when it is selected, else the first that is.
Selected(w) ==
  IF w.cur \in w.sel THEN w.cur
  ELSE IF w.sel = {} THEN 0 ELSE CHOOSE i \in w.sel : \A k \in w.sel : i <= k

FileAt(w, i) == IF i \in DOMAIN w.it THEN w.it[i].file ELSE None

\* rl_rescan.  What a box's caller holds is of the list just freed.
\* Mutant: the list is left as it was (as src/launch.c leaves it).
LeavesList(w, order, on, writing) == w

Rescan(w, order, on, writing) ==
  IF ~w.open THEN w
  ELSE Fill([w EXCEPT !.it = Scanned(order, on, w.subs, writing), !.box.stale = TRUE],
            FileAt(w, Selected(w)))

\* rl_can_submit
CanSubmit(row) == row.hd = "ranked" /\ ~row.sub /\ ~rl_busy(row.file)

\* rl_request: <<the window, the requests>> after it.
Request(w, out, logged) ==
  IF ~w.open \/ w.listing \/ ~logged \/ Len(out) = MaxLists THEN <<w, out>>
  ELSE <<[w EXCEPT !.listing = TRUE], Append(out, [served |-> FALSE, subs |-> {}])>>

Ask(w, logged) ==
  LET r == Request(w, lists, logged) IN win' = r[1] /\ lists' = r[2]

\* rl_sync: an upload is over.
Synced(w) == [w EXCEPT !.it = [i \in DOMAIN w.it |-> [w.it[i] EXCEPT !.uploading = FALSE]]]

ToFront(f) == <<f>> \o Remove(newest, f)
Idle == win.box.kind = "none"

-----------------------------------------------------------------------------
\* Launch in record mode; the main window is out of reach of the player
\* while the list is open.  Bound: nothing records over what is uploading.
GameStarts(f) ==
  /\ ~win.open /\ child = None /\ games < MaxGames /\ upload # f
  /\ child' = f /\ run' = "starting" /\ games' = games + 1
  /\ UNCHANGED <<disk, newest, token, sent, upload, lists, last_rec, win>>

\* The process opens its file some time after.  A new file under an old
\* name has contents the server never saw.
GameWrites ==
  /\ run = "starting" /\ run' = "writing"
  /\ disk' = [disk EXCEPT ![child] = "open"]
  /\ newest' = ToFront(child)
  /\ sent' = sent \ {child}
  /\ lists' = [i \in DOMAIN lists |-> [lists[i] EXCEPT !.subs = @ \ {child}]]
  /\ win' = [win EXCEPT !.subs = @ \ {child}]
  /\ UNCHANGED <<child, games, token, upload, last_rec>>

\* The process ends: its file with or without an end, or never made.
GameEnds(o) ==
  /\ run \in {"starting", "writing"} /\ run' = "ended"
  /\ IF run = "starting" THEN UNCHANGED <<disk, newest>>
     ELSE disk' = [disk EXCEPT ![child] = o] /\ newest' = ToFront(child)
  /\ UNCHANGED <<child, games, token, sent, upload, lists, last_rec, win>>

\* child_exited and on_child_done: the main loop hears of it.
ChildExited ==
  /\ run = "ended"
  /\ child' = None /\ run' = "none"
  /\ last_rec' = CASE disk[child] = "ranked" -> child
                   [] disk[child] = "plain" -> None
                   [] OTHER -> last_rec
  /\ win' = Rescan(win, newest, disk, None)
  /\ UNCHANGED <<disk, newest, games, token, sent, upload, lists>>

\* show_replays, up to its loop.
Open ==
  /\ ~win.open
  /\ Ask(Fill([NoWindow EXCEPT !.open = TRUE, !.it = Scanned(newest, disk, {}, child)], None),
         token)
  /\ UNCHANGED <<disk, newest, child, run, games, token, sent, upload, last_rec>>

Close ==
  /\ win.open /\ Idle
  /\ win' = NoWindow
  /\ UNCHANGED <<disk, newest, child, run, games, token, sent, upload, lists, last_rec>>

\* rl_on_changed: rows selected, the cursor on one of the list's; a cursor
\* outside the selection stands for its first row.
Select(S, i) ==
  /\ win.open /\ Idle
  /\ win' = [win EXCEPT !.sel = S, !.cur = Selected([win EXCEPT !.sel = S, !.cur = i])]
  /\ UNCHANGED <<disk, newest, child, run, games, token, sent, upload, lists, last_rec>>

\* start_submit_check from rl_submit, for the row x points at.
Starts(w, x) ==
  /\ upload' = w.it[x].file
  /\ win' = [w EXCEPT !.it[x].uploading = TRUE, !.box = NoBox]

\* rl_submit, up to the login window it may need.
Submit ==
  LET x == Selected(win) IN
  /\ win.open /\ Idle /\ x \in DOMAIN win.it /\ CanSubmit(win.it[x])
  /\ IF ~token
     THEN win' = [win EXCEPT !.box = [kind |-> "login", rows |-> {x},
                                      named |-> {win.it[x].file}, stale |-> FALSE]]
          /\ UNCHANGED upload
     ELSE upload = None /\ Starts(win, x)
  /\ UNCHANGED <<disk, newest, child, run, games, token, sent, lists, last_rec>>

\* show_login ended.  x is a pointer into the list: once that was freed
\* the path read through it may be any.
LoginEnds(ok) ==
  /\ win.box.kind = "login"
  /\ token' = ok
  /\ IF ~ok THEN win' = [win EXCEPT !.box = NoBox] /\ UNCHANGED <<upload, lists>>
     ELSE LET r == Request(win, lists, TRUE) IN
          /\ lists' = r[2]
          /\ IF upload # None THEN win' = [r[1] EXCEPT !.box = NoBox] /\ UNCHANGED upload
             ELSE IF win.box.stale
                  THEN win' = [r[1] EXCEPT !.box = NoBox] /\ upload' \in {f \in Files : disk[f] # "absent"}
                  ELSE \E x \in win.box.rows : Starts(r[1], x)
  /\ UNCHANGED <<disk, newest, child, run, games, sent, last_rec>>

\* rl_delete: the selected rows it may take.
FreeRows(w) == {i \in w.sel : ~rl_busy(w.it[i].file)}

\* rl_delete, up to its question.
Delete ==
  /\ win.open /\ Idle /\ FreeRows(win) # {}
  /\ win' = [win EXCEPT !.box = [kind |-> "delete", rows |-> FreeRows(win), stale |-> FALSE,
                                 named |-> {win.it[i].file : i \in FreeRows(win)}]]
  /\ UNCHANGED <<disk, newest, child, run, games, token, sent, upload, lists, last_rec>>

DeleteNo ==
  /\ win.box.kind = "delete"
  /\ win' = [win EXCEPT !.box = NoBox]
  /\ UNCHANGED <<disk, newest, child, run, games, token, sent, upload, lists, last_rec>>

\* The rows go to the Trash, whatever the list now has there; some may not go.
\* The launcher lets go of the ones that went.
LetsGo(gone) == IF last_rec \in gone THEN None ELSE last_rec

DeleteYes(stays) ==
  LET gone == {win.it[i].file : i \in win.box.rows \cap DOMAIN win.it} \ stays
      left == SelectSeq(newest, LAMBDA f : f \notin gone)
      on == [f \in Files |-> IF f \in gone THEN "absent" ELSE disk[f]]
      after == {i \in DOMAIN win.it : /\ i \notin win.box.rows
                                      /\ \E k \in win.box.rows : k < i}
      next == IF after = {} THEN 0 ELSE CHOOSE i \in after : \A k \in after : i <= k
  IN /\ win.box.kind = "delete"
     /\ disk' = on /\ newest' = left
     /\ last_rec' = LetsGo(gone)
     /\ win' = Fill([win EXCEPT !.it = Scanned(left, on, win.subs, child), !.box = NoBox],
                    FileAt(win, next))
     /\ UNCHANGED <<child, run, games, token, sent, upload, lists>>

\* The upload's answer, and whether the token still counts (on_net_done).
UploadAnswer(took, logged) ==
  /\ upload # None
  /\ upload' = None
  /\ sent' = IF took /\ disk[upload] \notin {"absent", "open"} THEN sent \cup {upload} ELSE sent
  /\ last_rec' = IF took /\ last_rec = upload THEN None ELSE last_rec
  /\ token' = (token /\ logged)
  /\ Ask(Synced(win), token /\ logged)
  /\ UNCHANGED <<disk, newest, child, run, games>>

\* A poll's 401 (auth_lost).
TokenLost ==
  /\ token /\ token' = FALSE
  /\ win' = IF upload = None THEN Synced(win) ELSE win
  /\ UNCHANGED <<disk, newest, child, run, games, sent, upload, lists, last_rec>>

Serve(i) ==
  /\ i \in DOMAIN lists /\ ~lists[i].served
  /\ lists' = [lists EXCEPT ![i] = [served |-> TRUE, subs |-> sent]]
  /\ UNCHANGED <<disk, newest, child, run, games, token, sent, upload, last_rec, win>>

\* rl_match: the rows against the server's answer.
Matched(it, subs) ==
  [k \in DOMAIN it |-> [it[k] EXCEPT !.sub = it[k].file \in subs /\ ~rl_busy(it[k].file)]]

\* rl_net_list: to whichever window is open.
ListAnswer(i) ==
  LET w == [win EXCEPT !.listing = FALSE, !.subs = lists[i].subs,
                       !.it = Matched(@, lists[i].subs)]
  IN /\ i \in DOMAIN lists /\ lists[i].served
     /\ lists' = RemoveAt(lists, i)
     /\ win' = IF win.open THEN w ELSE win
     /\ UNCHANGED <<disk, newest, child, run, games, token, sent, upload, last_rec>>

Outcomes == {"ranked", "plain", "cut"}

Init ==
  /\ disk \in [Files -> {"absent", "ranked", "plain"}]
  /\ \A f \in Files : disk[f] = "absent" <=> f \notin {Present[i] : i \in DOMAIN Present}
  /\ newest = Present /\ child = None /\ run = "none" /\ games = 0 /\ token \in BOOLEAN
  /\ sent = {} /\ upload = None /\ lists = <<>> /\ last_rec = None /\ win = NoWindow

Next ==
  \/ \E f \in Files : GameStarts(f)
  \/ GameWrites
  \/ \E o \in Outcomes : GameEnds(o)
  \/ ChildExited
  \/ Open \/ Close
  \/ \E S \in SUBSET DOMAIN win.it : \E i \in DOMAIN win.it : Select(S, i)
  \/ Submit \/ Delete \/ DeleteNo
  \/ \E ok \in BOOLEAN : LoginEnds(ok)
  \/ \E stays \in SUBSET Files : DeleteYes(stays)
  \/ \E took, logged \in BOOLEAN : UploadAnswer(took, logged)
  \/ TokenLost
  \/ \E i \in DOMAIN lists : Serve(i) \/ ListAnswer(i)

Spec == Init /\ [][Next]_vars

-----------------------------------------------------------------------------
RowType == [file : Files, hd : {"open"} \cup Outcomes, sub : BOOLEAN, uploading : BOOLEAN]

\* Every variable keeps its type; the selection is of rows the list has, and
\* the files there are exactly the ones in order.
TypeOK ==
  /\ disk \in [Files -> {"absent", "open"} \cup Outcomes]
  /\ newest \in Seq(Files) /\ IsInjective(newest)
  /\ ToSet(newest) = {f \in Files : disk[f] # "absent"}
  /\ child \in Files \cup {None} /\ (child = None <=> run = "none")
  /\ upload \in Files \cup {None}
  /\ win.it \in Seq(RowType)
  /\ win.sel \subseteq DOMAIN win.it /\ win.cur \in {0} \cup DOMAIN win.it
  /\ Len(lists) <= MaxLists

\* The recording the running game writes is never moved to the Trash, and
\* its upload never starts: rl_delete and rl_can_submit leave it out, and the
\* list says which one it is whenever the window opened.
BusyLeftAlone ==
  [][run = "writing" => /\ disk'[child] # "absent"
                        /\ upload' = child => upload = child]_vars

\* Once the launcher has heard of the game's end, the list is the directory's:
\* the same files, newest first, each with the header now on disk.
RowsAreCurrent ==
  win.open /\ child = None =>
    /\ DOMAIN win.it = DOMAIN newest
    /\ \A i \in DOMAIN win.it : win.it[i].file = newest[i] /\ win.it[i].hd = disk[newest[i]]

\* The launcher never offers for Submit a recording that is gone, however
\* the list moved under the question.
PointsAtNothingGone == last_rec # None => disk[last_rec] # "absent"

\* What goes to the Trash is what the question named.
DeletesWhatItNamed ==
  [][disk' # disk =>
       \A f \in Files : disk[f] # "absent" /\ disk'[f] = "absent" => f \in win.box.named]_vars
=============================================================================
