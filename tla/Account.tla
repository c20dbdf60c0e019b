------------------------------- MODULE Account -------------------------------
(***************************************************************************)
(* Where the leaderboard login is kept between two runs of the launcher    *)
(* (src/online.c).  pfemu-online.cfg holds the settings and, for the       *)
(* Windows build, the login; the others keep the login in the desktop's    *)
(* keyring, one item a server, which may be out of reach at any moment.    *)
(* One folder can serve both builds (WSL), one at a time.                  *)
(***************************************************************************)
EXTENDS Naturals

CONSTANTS
  Tokens,   \* logins the server hands out
  None,
  Deaths    \* bound: processes that die writing

\* What the proofs assume of them.
Constants == None \notin Tokens /\ Deaths \in Nat

VARIABLES
  cfg,      \* pfemu-online.cfg: None, or its lines [ranked, login]
  ring,     \* the keyring's item
  reach,    \* the keyring can be reached
  up,       \* the launcher that runs: "none", "gtk" or "win"
  mem,      \* its OnlineCfg: [token, ranked]
  last,     \* what token_store last gave the keyring, and whether it took it
  only,     \* session_only: the window says this login is kept nowhere
  blind,    \* this launcher could not read the keyring when it started
  deaths

vars == <<cfg, ring, reach, up, mem, last, only, blind, deaths>>

Empty == [token |-> None, ranked |-> TRUE]
Fresh == [want |-> "nothing", ok |-> FALSE]   \* the statics of a new process
Lines(r, l) == [ranked |-> r, login |-> l]
Login == IF cfg = None THEN None ELSE cfg.login

\* A line that is not there reads as its default; a token only with its build.
RankedRead == cfg = None \/ cfg.ranked # FALSE
online_load(kind) ==
  [token |-> IF kind = "win" THEN Login ELSE IF reach THEN ring ELSE None, ranked |-> RankedRead]

Idle == /\ up' = "none" /\ mem' = Empty /\ last' = Fresh /\ only' = FALSE /\ blind' = FALSE

Dies == deaths < Deaths /\ deaths' = deaths + 1 /\ Idle

\* keyring_put when the login is not the one it was last given.
token_store(m) ==
  IF last.want = m.token THEN UNCHANGED <<ring, last>>
  ELSE /\ last' = [want |-> m.token, ok |-> reach]
       /\ ring' = IF reach THEN m.token ELSE ring

\* The rewrite of the other builds: line by line into a file of its own that is
\* renamed over, so its outcomes are the old file and the new one.
Rewritten(m) == cfg' \in {Lines(m.ranked, Login), cfg}

\* online_save, to its end or to where the process dies.
GtkSave(m, call) ==
  \/ /\ Rewritten(m) /\ token_store(m)
     /\ mem' = m
     /\ only' = CASE call = "login" -> ~last'.ok [] call = "logout" -> FALSE [] OTHER -> only
     /\ UNCHANGED <<up, blind, deaths>>
  \/ Rewritten(m) /\ UNCHANGED ring /\ Dies

\* The Windows build's: the file is emptied first and written top to bottom.
WinSave(m) ==
  \/ /\ cfg' = Lines(m.ranked, m.token) /\ mem' = m
     /\ UNCHANGED <<up, last, only, blind, deaths>>
  \/ cfg' \in {Lines(None, None), Lines(m.ranked, None)} /\ Dies
WinFails(m) == UNCHANGED <<cfg, up, last, only, blind, deaths>> /\ mem' = m   \* fopen

Save(m, call) ==
  /\ \/ up = "gtk" /\ GtkSave(m, call)
     \/ up = "win" /\ (WinSave(m) \/ WinFails(m)) /\ UNCHANGED ring
  /\ UNCHANGED reach

-----------------------------------------------------------------------------
Start(kind) ==
  /\ up = "none"
  /\ up' = kind /\ mem' = online_load(kind) /\ last' = Fresh
  /\ only' = FALSE /\ blind' = (kind = "gtk" /\ ~reach)
  /\ UNCHANGED <<cfg, ring, reach, deaths>>

\* login_net_done; the window says so when the login could not be kept.
LoggedIn(t) == up # "none" /\ mem.token = None /\ Save([mem EXCEPT !.token = t], "login")
\* on_login of one who is logged in; auth_lost after a 401.
Logout == up # "none" /\ mem.token # None /\ Save([mem EXCEPT !.token = None], "logout")
AuthLost == up # "none" /\ mem.token # None /\ Save([mem EXCEPT !.token = None], "lost")
\* The Ranked checkbox.
Ranked == up # "none" /\ Save([mem EXCEPT !.ranked = ~@], "settings")
Close == up # "none" /\ Idle /\ UNCHANGED <<cfg, ring, reach, deaths>>
Keyring == reach' = ~reach /\ UNCHANGED <<cfg, ring, up, mem, last, only, blind, deaths>>

Init ==
  /\ cfg = None /\ ring = None /\ reach \in BOOLEAN
  /\ up = "none" /\ mem = Empty /\ last = Fresh /\ only = FALSE /\ blind = FALSE /\ deaths = 0
Next ==
  \/ \E kind \in {"gtk", "win"} : Start(kind)
  \/ \E t \in Tokens : LoggedIn(t)
  \/ Logout \/ AuthLost \/ Ranked \/ Close \/ Keyring
Spec == Init /\ [][Next]_vars

-----------------------------------------------------------------------------
\* No launcher holds a login while none runs, and the file's lines are ones
\* some save writes (OnlineCfg).
TypeOK ==
  /\ cfg = None \/ (cfg.ranked \in {TRUE, FALSE, None} /\ cfg.login \in Tokens \cup {None})
  /\ ring \in Tokens \cup {None} /\ mem.token \in Tokens \cup {None}
  /\ up = "none" => mem = Empty /\ last = Fresh
  /\ deaths <= Deaths

\* A login the window does not call "only as long as this launcher" is the one
\* the keyring has, whatever was out of reach before or since (token_store,
\* session_only).
SaysWhatItHolds == up = "gtk" /\ mem.token # None /\ ~only => ring = mem.token

\* "Kept as they are": no step of the other builds, finished or cut short,
\* changes the Windows build's login, or leaves half of a file (online_save).
OthersLoginStays ==
  [][up = "gtk" /\ cfg' # cfg =>
       /\ cfg'.login = Login
       /\ cfg'.ranked \in BOOLEAN]_vars

\* The keyring's login goes only with a logout or a 401 - or with any save at
\* all of a launcher that could not read the keyring when it started.
ForgottenOnlySo == [][ring # None /\ ring' = None => mem.token # None \/ blind]_vars
=============================================================================
