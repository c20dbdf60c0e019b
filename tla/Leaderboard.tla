----------------------------- MODULE Leaderboard -----------------------------
(***************************************************************************)
(* The launcher's leaderboard account (src/launch_gtk.c): log in and out,  *)
(* submit a recording after asking where the player stands, and follow     *)
(* the submission until the service has an answer.  Every request runs on  *)
(* a thread of its own and its answer comes back to the main loop, in any  *)
(* order and possibly not at all, while the player goes on, closes the     *)
(* login window or logs in as somebody else.  What it offers to submit is  *)
(* Launcher's and Replays'.                                                *)
(***************************************************************************)
EXTENDS Integers, FiniteSets, Sequences

CONSTANTS
  Accounts, Files, None,
  MaxLogins,   \* bound: tokens the server gives out
  MaxWindows,  \* bound: login windows opened
  MaxJobs,     \* bound: requests out; one more does not start
  MaxLosses    \* bound: answers lost or refused by the network

\* What the proofs assume of them.
Constants == {MaxLogins, MaxWindows, MaxJobs, MaxLosses} \subseteq Nat

VARIABLES
  st,       \* the LaunchState: see Started
  login,    \* the login window: see NoLogin
  ask,      \* the recording the Submit question is about
  jobs,     \* the requests out
  server,   \* tokens given (owner and whether they still count), submissions
  windows, losses

vars == <<st, login, ask, jobs, server, windows, losses>>

NoToken == 0
Started == [token |-> NoToken, submitting |-> FALSE, polling |-> FALSE,
            sub_id |-> 0, sub_pending |-> FALSE]

\* gen, 0 when closed; busy, a request is out; ok, it ended logged in;
\* next, the recording rl_submit opened it for.
NoLogin == [gen |-> 0, busy |-> FALSE, ok |-> FALSE, next |-> None]

NoAnswer == [status |-> 0, id |-> 0, pending |-> FALSE, token |-> NoToken, beats |-> FALSE]

\* net_new; of, the submission polled or the account logging in.
Job(kind, token, file, of, gen) ==
  [kind |-> kind, token |-> token, file |-> file, of |-> of, gen |-> gen,
   back |-> FALSE, r |-> NoAnswer]

Submits(j) == j.kind \in {"me", "submit"}
Logged == st.token # NoToken
\* The window in front is the launcher's; a question blocks all of them.
Free == login.gen = 0 /\ ask = None

\* net_start: the request is out, or it could not be started.
Start(out, j) == IF Len(out) < MaxJobs THEN Append(out, j) ELSE out
Without(i) == [k \in 1 .. Len(jobs) - 1 |-> IF k < i THEN jobs[k] ELSE jobs[k + 1]]

-----------------------------------------------------------------------------
\* follow: what the poll timer is about; it runs while one is pending.
Follow(s, id, pending) == [s EXCEPT !.sub_id = id, !.sub_pending = pending]

\* auth_lost
AuthLost(s) == Follow([s EXCEPT !.token = NoToken], 0, FALSE)

\* start_submit: <<state, requests>>.
StartSubmit(s, out, f) ==
  IF s.submitting \/ s.token = NoToken THEN <<s, out>>
  ELSE <<[s EXCEPT !.submitting = Len(out) < MaxJobs],
         Start(out, Job("submit", s.token, f, 0, 0))>>

\* start_submit_check, with a .games file to hold against the standings.
StartCheck(s, out, f) ==
  IF s.submitting \/ s.token = NoToken THEN <<s, out>>
  ELSE IF Len(out) < MaxJobs
       THEN <<[s EXCEPT !.submitting = TRUE], Append(out, Job("me", s.token, f, 0, 0))>>
       ELSE StartSubmit(s, out, f)

\* start_list
StartList(s, out) ==
  IF s.token = NoToken THEN out ELSE Start(out, Job("list", s.token, None, 0, 0))

-----------------------------------------------------------------------------
\* on_login and rl_submit open the window; show_login counts them.
OpenLogin(f) ==
  /\ Free /\ ~Logged /\ windows < MaxWindows
  /\ windows' = windows + 1
  /\ login' = [NoLogin EXCEPT !.gen = windows + 1, !.next = f]
  /\ UNCHANGED <<st, ask, jobs, server, losses>>

\* login_send
LoginSend(a) ==
  /\ login.gen # 0 /\ ~login.busy /\ ask = None /\ Len(jobs) < MaxJobs
  /\ login' = [login EXCEPT !.busy = TRUE]
  /\ jobs' = Append(jobs, Job("login", NoToken, None, a, login.gen))
  /\ UNCHANGED <<st, ask, server, windows, losses>>

\* The window closes, logged in or cancelled: after_login, and the Submit
\* it was opened for.
LoginCloses ==
  LET listed == StartList(st, jobs)
      sent == IF login.next = None THEN <<st, listed>> ELSE StartCheck(st, listed, login.next)
  IN /\ login.gen # 0 /\ ask = None
     /\ login' = NoLogin
     /\ IF login.ok THEN st' = sent[1] /\ jobs' = sent[2] ELSE UNCHANGED <<st, jobs>>
     /\ UNCHANGED <<ask, server, windows, losses>>

\* on_login, logged in: forgotten here at once, whatever the server says.
Logout ==
  /\ Free /\ Logged
  /\ jobs' = Start(jobs, Job("logout", st.token, None, 0, 0))
  /\ st' = AuthLost(st)
  /\ UNCHANGED <<login, ask, server, windows, losses>>

\* on_submit
Submit(f) ==
  /\ Free /\ Logged /\ ~st.submitting
  /\ LET c == StartCheck(st, jobs, f) IN st' = c[1] /\ jobs' = c[2]
  /\ UNCHANGED <<login, ask, server, windows, losses>>

\* The question of submit_after_check.
Answer(yes) ==
  /\ ask # None /\ ask' = None
  /\ LET c == StartSubmit(st, jobs, ask) IN
     IF yes THEN st' = c[1] /\ jobs' = c[2] ELSE UNCHANGED <<st, jobs>>
  /\ UNCHANGED <<login, server, windows, losses>>

\* poll_tick, every ten seconds while the timer runs.
PollTick ==
  /\ st.sub_pending /\ ~st.polling /\ Logged /\ Len(jobs) < MaxJobs
  /\ jobs' = Append(jobs, Job("poll", st.token, None, st.sub_id, 0))
  /\ st' = [st EXCEPT !.polling = TRUE]
  /\ UNCHANGED <<login, ask, server, windows, losses>>

\* on_focus_in, its last list more than 30 s ago.
FocusIn ==
  /\ Logged /\ ~st.sub_pending /\ Len(jobs) < MaxJobs
  /\ jobs' = StartList(st, jobs)
  /\ UNCHANGED <<st, login, ask, server, windows, losses>>

-----------------------------------------------------------------------------
(* The server.                                                             *)

Counts(t) == t # NoToken /\ server.tokens[t].valid
Owner(t) == server.tokens[t].account
Latest(a) ==
  LET own == {i \in DOMAIN server.subs : server.subs[i].account = a}
  IN IF own = {} THEN 0 ELSE CHOOSE i \in own : \A k \in own : k <= i

Status(id) == [NoAnswer EXCEPT !.status = 200, !.id = id,
               !.pending = id # 0 /\ ~server.subs[id].done]

Reply(i, r) == jobs' = [jobs EXCEPT ![i].back = TRUE, ![i].r = r]

ServeLogin(i, j) ==
  \/ j.kind = "login" /\ UNCHANGED server /\ Reply(i, NoAnswer)
  \/ /\ j.kind = "login" /\ Len(server.tokens) < MaxLogins
     /\ server' = [server EXCEPT !.tokens = Append(@, [account |-> j.of, valid |-> TRUE])]
     /\ Reply(i, [NoAnswer EXCEPT !.status = 200, !.token = Len(server.tokens) + 1])

ServeOther(i, j) ==
  IF j.kind = "logout"
  THEN server' = [server EXCEPT !.tokens[j.token].valid = FALSE] /\ Reply(i, NoAnswer)
  ELSE IF ~Counts(j.token)
  THEN UNCHANGED server /\ Reply(i, [NoAnswer EXCEPT !.status = 401])
  ELSE LET a == Owner(j.token)
           same == {k \in DOMAIN server.subs :
                      server.subs[k].file = j.file /\ server.subs[k].account = a}
       IN \/ /\ j.kind = "me" /\ UNCHANGED server
             /\ \E b \in BOOLEAN : Reply(i, [NoAnswer EXCEPT !.status = 200, !.beats = b])
          \/ /\ j.kind = "submit" /\ same = {}
             /\ server' = [server EXCEPT !.subs =
                             Append(@, [file |-> j.file, account |-> a, done |-> FALSE])]
             /\ Reply(i, [NoAnswer EXCEPT !.status = 202, !.id = Len(server.subs) + 1,
                          !.pending = TRUE])
          \/ /\ j.kind = "submit" /\ same # {} /\ UNCHANGED server
             /\ \E k \in same : Reply(i, Status(k))
          \/ /\ j.kind = "poll" /\ UNCHANGED server
             /\ IF server.subs[j.of].account = a THEN Reply(i, Status(j.of))
                ELSE Reply(i, [NoAnswer EXCEPT !.status = 404])
          \/ j.kind = "list" /\ UNCHANGED server /\ Reply(i, Status(Latest(a)))

Serve(i) ==
  /\ i \in DOMAIN jobs /\ ~jobs[i].back
  /\ ServeLogin(i, jobs[i]) \/ (jobs[i].kind # "login" /\ ServeOther(i, jobs[i]))
  /\ UNCHANGED <<st, login, ask, windows, losses>>

\* The request, or what the server made of it, does not get through.
Lost(i) ==
  /\ i \in DOMAIN jobs /\ losses < MaxLosses
  /\ ~jobs[i].back \/ jobs[i].kind # "logout"
  /\ losses' = losses + 1
  /\ Reply(i, NoAnswer)
  /\ UNCHANGED <<st, login, ask, server, windows>>

Verified(k) ==
  /\ k \in DOMAIN server.subs /\ ~server.subs[k].done
  /\ server' = [server EXCEPT !.subs[k].done = TRUE]
  /\ UNCHANGED <<st, login, ask, jobs, windows, losses>>

\* A password change logs out every client of the account.
PasswordChanged(a) ==
  /\ \E t \in DOMAIN server.tokens : Counts(t) /\ Owner(t) = a
  /\ server' = [server EXCEPT !.tokens =
                  [t \in DOMAIN server.tokens |->
                     [server.tokens[t] EXCEPT !.valid = @ /\ Owner(t) # a]]]
  /\ UNCHANGED <<st, login, ask, jobs, windows, losses>>

-----------------------------------------------------------------------------
(* on_net_done: the answers arrive.  Quiet is what no window shows.        *)

\* login_net_done, for the window that asked.
ItsWindow(j) == login.gen = j.gen

LoginDone(j) ==
  /\ j.kind = "login"
  /\ IF ~ItsWindow(j) THEN UNCHANGED <<st, login>>
     ELSE IF j.r.status = 200
          THEN st' = [st EXCEPT !.token = j.r.token] /\ login' = [login EXCEPT !.ok = TRUE]
          ELSE login' = [login EXCEPT !.busy = FALSE] /\ UNCHANGED st
  /\ UNCHANGED ask

\* The flags a 401 clears.
Cleared(s, j) == [s EXCEPT !.submitting = @ /\ ~Submits(j), !.polling = @ /\ j.kind # "poll"]

\* Whether the 401 is about the token in use.  Mutant: any is.
AnyToken(j) == TRUE
OwnToken(j) == j.token = st.token

Refused(j) ==
  /\ j.kind \notin {"login", "logout"} /\ j.r.status = 401
  /\ st' = IF OwnToken(j) THEN AuthLost(Cleared(st, j)) ELSE Cleared(st, j)
  /\ UNCHANGED <<login, ask>>

SubmitDone(j) ==
  /\ j.kind = "submit" /\ j.r.status # 401
  /\ st' = IF j.r.status \notin {200, 202} THEN [st EXCEPT !.submitting = FALSE]
           ELSE Follow([st EXCEPT !.submitting = FALSE], j.r.id, j.r.pending)
  /\ UNCHANGED <<login, ask>>

\* Mutant: one that got no answer stays out.
PollHangs(j) ==
  /\ j.kind = "poll" /\ j.r.status # 401
  /\ LET s == [st EXCEPT !.polling = j.r.status \notin {200, 404}] IN
     st' = IF j.r.status = 200 /\ j.r.id = st.sub_id THEN Follow(s, j.r.id, j.r.pending)
           ELSE IF j.r.status = 404 THEN Follow(s, 0, FALSE) ELSE s
  /\ UNCHANGED <<login, ask>>
PollDone(j) ==
  /\ j.kind = "poll" /\ j.r.status # 401
  /\ LET s == [st EXCEPT !.polling = FALSE] IN
     st' = IF j.r.status = 200 /\ j.r.id = st.sub_id THEN Follow(s, j.r.id, j.r.pending)
           ELSE IF j.r.status = 404 THEN Follow(s, 0, FALSE) ELSE s
  /\ UNCHANGED <<login, ask>>

ListDone(j) ==
  /\ j.kind = "list" /\ j.r.status # 401
  /\ st' = IF j.r.status = 200 /\ j.r.id # 0 THEN Follow(st, j.r.id, j.r.pending) ELSE st
  /\ UNCHANGED <<login, ask>>

\* submit_after_check: upload, or ask first when no board would change.
submit_check(j) == j.r.status # 200 \/ j.r.beats

\* The requests left, and the state, once the check is back.
MeDone(j, i) ==
  /\ j.kind = "me" /\ j.r.status # 401
  /\ LET s == [st EXCEPT !.submitting = FALSE]
         c == StartSubmit(s, Without(i), j.file)
     IN IF submit_check(j) THEN st' = c[1] /\ jobs' = c[2] /\ UNCHANGED ask
        ELSE st' = s /\ jobs' = Without(i) /\ ask' = j.file
  /\ UNCHANGED login

Deliver(i) ==
  /\ i \in DOMAIN jobs /\ jobs[i].back
  /\ LET j == jobs[i] IN
     \/ MeDone(j, i)
     \/ /\ jobs' = Without(i)
        /\ \/ LoginDone(j) \/ Refused(j) \/ SubmitDone(j) \/ PollDone(j) \/ ListDone(j)
           \/ j.kind = "logout" /\ UNCHANGED <<st, login, ask>>
  /\ UNCHANGED <<server, windows, losses>>

-----------------------------------------------------------------------------
Init ==
  /\ st = Started /\ login = NoLogin /\ ask = None /\ jobs = <<>>
  /\ server = [tokens |-> <<>>, subs |-> <<>>]
  /\ windows = 0 /\ losses = 0

Player ==
  \/ \E f \in Files \cup {None} : OpenLogin(f)
  \/ \E a \in Accounts : LoginSend(a)
  \/ LoginCloses \/ Logout \/ FocusIn
  \/ \E f \in Files : Submit(f)
  \/ \E yes \in BOOLEAN : Answer(yes)

Service ==
  \/ \E i \in DOMAIN jobs : Lost(i)
  \/ \E a \in Accounts : PasswordChanged(a)

Next ==
  \/ Player \/ Service \/ PollTick
  \/ \E i \in DOMAIN jobs : Serve(i) \/ Deliver(i)
  \/ \E k \in DOMAIN server.subs : Verified(k)

\* The timer ticks, the server works and the network delivers in the end;
\* of the player nothing is assumed.
Spec ==
  /\ Init /\ [][Next]_vars
  /\ WF_vars(PollTick)
  /\ \A i \in 1 .. MaxJobs : WF_vars(Serve(i)) /\ WF_vars(Deliver(i))
  /\ WF_vars(\E k \in DOMAIN server.subs : Verified(k))

-----------------------------------------------------------------------------
\* Every variable keeps its type, and what is polled is a submission.
TypeOK ==
  /\ st \in [token : 0 .. MaxLogins, submitting : BOOLEAN, polling : BOOLEAN,
             sub_id : 0 .. Len(server.subs), sub_pending : BOOLEAN]
  /\ st.sub_pending => st.sub_id # 0
  /\ login \in [gen : 0 .. MaxWindows, busy : BOOLEAN, ok : BOOLEAN, next : Files \cup {None}]
  /\ ask \in Files \cup {None}
  /\ Len(jobs) <= MaxJobs

\* One upload at a time: a check or an upload out, or the question about
\* one, across lost tokens and new logins; and "Uploading..." is shown exactly
\* while one is out, so Submit comes back in the end.
OneUpload ==
  LET out == {i \in DOMAIN jobs : Submits(jobs[i])} IN
  /\ Cardinality(out) + (IF ask = None THEN 0 ELSE 1) <= 1
  /\ st.submitting <=> out # {}

\* The login in use is given up only by Log out or once the server no longer
\* takes it; an answer to an older one cannot cost the player this one.
TokenKept == [][Logged /\ st'.token = NoToken => Logout \/ ~Counts(st.token)]_vars

\* A login window that was cancelled logs nobody in, whenever its answer
\* comes and whatever window is open by then.
CancelledStaysOut ==
  [][~Logged /\ st'.token # NoToken =>
       \E i \in DOMAIN jobs :
         jobs[i].kind = "login" /\ jobs[i].gen = login.gen /\ jobs[i].r.token = st'.token]_vars

\* A submission being followed is followed until the service has an answer,
\* through lost answers and lost logins, or the login goes.
FollowedSettles == st.sub_pending /\ Logged ~> ~st.sub_pending \/ ~Logged

\* An answer to a token this launcher already dropped says nothing about the
\* current one: it starts no upload and moves no status line.
StaleSaysNothing ==
  [][\A i \in DOMAIN jobs :
       Deliver(i) /\ jobs[i].kind # "login" /\ jobs[i].token # st.token =>
         /\ st'.sub_id = st.sub_id /\ st'.sub_pending = st.sub_pending
         /\ Len(jobs') < Len(jobs) /\ ask' = ask]_vars
=============================================================================
