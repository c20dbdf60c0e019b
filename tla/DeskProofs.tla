------------------------------ MODULE DeskProofs ------------------------------
EXTENDS Desk, TLAPS, SequenceTheorems, FiniteSetTheorems, WellFoundedInduction

(***************************************************************************)
(* Account: where the login is kept, and which saves touch it.             *)
(***************************************************************************)

IsLines(c) == \E r \in BOOLEAN \cup {None}, l \in Tokens \cup {None} : c = Ac!Lines(r, l)

LEMMA LinesSay ==
  ASSUME NEW r, NEW l
  PROVE  Ac!Lines(r, l).ranked = r /\ Ac!Lines(r, l).login = l
  BY DEF Ac!Lines

LEMMA LinesTyped ==
  ASSUME NEW c, IsLines(c)
  PROVE  c.ranked \in BOOLEAN \cup {None} /\ c.login \in Tokens \cup {None}
  BY LinesSay DEF IsLines

LEMMA MemSays ==
  ASSUME NEW t, NEW r \in BOOLEAN
  PROVE  /\ [token |-> t, ranked |-> r].token = t /\ [token |-> t, ranked |-> r].ranked = r
         /\ \A u : [[token |-> t, ranked |-> r] EXCEPT !.token = u] = [token |-> u, ranked |-> r]
         /\ [[token |-> t, ranked |-> r] EXCEPT !.ranked = ~@] = [token |-> t, ranked |-> ~r]
         /\ (~ r) \in BOOLEAN
<1>1. [token |-> t, ranked |-> r].token = t /\ [token |-> t, ranked |-> r].ranked = r
  OBVIOUS
<1>2. ASSUME NEW u PROVE [[token |-> t, ranked |-> r] EXCEPT !.token = u] = [token |-> u, ranked |-> r]
  OBVIOUS
<1>3. ASSUME NEW u PROVE [[token |-> t, ranked |-> r] EXCEPT !.ranked = u] = [token |-> t, ranked |-> u]
  OBVIOUS
<1>4. [[token |-> t, ranked |-> r] EXCEPT !.ranked = ~@] = [[token |-> t, ranked |-> r] EXCEPT !.ranked = ~r]
  BY <1>1
<1>5. (~ r) \in BOOLEAN
  OBVIOUS
<1> QED
  BY <1>1, <1>2, <1>3, <1>4, <1>5, Zenon

LEMMA LastSays ==
  ASSUME NEW w, NEW k \in BOOLEAN
  PROVE  [want |-> w, ok |-> k].want = w /\ [want |-> w, ok |-> k].ok = k
<1>1. CASE k = TRUE
  BY <1>1
<1>2. CASE k = FALSE
  BY <1>2
<1> QED
  BY <1>1, <1>2

IsMem(x)  == \E t \in Tokens \cup {None}, r \in BOOLEAN : x = [token |-> t, ranked |-> r]
IsLast(x) == \E w : \E k \in BOOLEAN : x = [want |-> w, ok |-> k]

LEMMA EmptySays ==
  /\ IsMem(Ac!Empty) /\ (Ac!Empty).token = None /\ (Ac!Empty).ranked = TRUE
  /\ IsLast(Ac!Fresh) /\ (Ac!Fresh).ok = FALSE
<1>1. IsMem(Ac!Empty)
  BY DEF IsMem, Ac!Empty
<1>2. IsLast(Ac!Fresh)
  BY DEF IsLast, Ac!Fresh
<1>3. (Ac!Empty).token = None /\ (Ac!Empty).ranked = TRUE
  BY MemSays DEF Ac!Empty
<1> QED
  BY <1>1, <1>2, <1>3, LastSays DEF Ac!Fresh

LEMMA MemTyped ==
  ASSUME NEW x, IsMem(x)
  PROVE  /\ x.token \in Tokens \cup {None} /\ x.ranked \in BOOLEAN
         /\ \A u : [x EXCEPT !.token = u] = [token |-> u, ranked |-> x.ranked]
         /\ [x EXCEPT !.ranked = ~@] = [token |-> x.token, ranked |-> ~ x.ranked]
         /\ (~ x.ranked) \in BOOLEAN
<1>1. PICK t \in Tokens \cup {None}, r \in BOOLEAN : x = [token |-> t, ranked |-> r]
  BY DEF IsMem
<1>2. x.token = t /\ x.ranked = r
  BY <1>1, MemSays
<1>3. \A u : [x EXCEPT !.token = u] = [token |-> u, ranked |-> r]
  BY <1>1, MemSays
<1>4. [x EXCEPT !.ranked = ~@] = [token |-> t, ranked |-> ~r] /\ (~ r) \in BOOLEAN
  BY <1>1, MemSays
<1> QED
  BY <1>2, <1>3, <1>4

\* What the lines of the file, the keyring and the launcher that runs hold.
Holds ==
  /\ cfg = None \/ IsLines(cfg)
  /\ ring \in Tokens \cup {None}
  /\ IsMem(mem)
  /\ up = "none" => mem = Ac!Empty /\ last = Ac!Fresh
  /\ reach \in BOOLEAN /\ deaths \in Nat /\ deaths <= MaxDeaths

\* What the keyring took it has; a launcher with no login that could read the
\* keyring knows it to be empty, or has tried to empty it.
Remembers ==
  /\ IsLast(last)
  /\ last.ok => ring = last.want
  /\ Ac!SaysWhatItHolds
  /\ up = "gtk" /\ ~blind /\ mem.token = None => ring = None \/ last.want = None

LEMMA LoginTyped ==
  ASSUME Holds
  PROVE  Ac!Login \in Tokens \cup {None}
  BY LinesTyped DEF Holds, Ac!Login

\* A save, finished or cut short.
LEMMA SaveHolds ==
  ASSUME Ac!Constants, Holds, Remembers, up # "none",
         NEW token \in Tokens \cup {None}, NEW ranked \in BOOLEAN,
         NEW call \in {"login", "logout", "lost", "settings"},
         call = "settings" => token = mem.token, call \in {"logout", "lost"} => token = None,
         Ac!Save([token |-> token, ranked |-> ranked], call)
  PROVE  /\ Holds' /\ Remembers'
         /\ up = "gtk" /\ cfg' # cfg => cfg'.login = Ac!Login /\ cfg'.ranked \in BOOLEAN
         /\ ring # None /\ ring' = None => mem.token # None \/ blind
<1> DEFINE m == [token |-> token, ranked |-> ranked]
<1>1. Ac!Login \in Tokens \cup {None}
  BY LoginTyped
<1>2. m.token = token /\ m.ranked = ranked
  BY MemSays
<1>3. IsMem(m)
  BY DEF IsMem
<1>4. Ac!Save(m, call)
  OBVIOUS
<1> HIDE DEF m
<1>5. reach' = reach
  BY <1>4 DEF Ac!Save
<1>6. ASSUME Ac!Dies, ring' = ring, cfg' = cfg \/ IsLines(cfg')
      PROVE  Holds' /\ Remembers'
  <2>1. up' = "none" /\ mem' = Ac!Empty /\ last' = Ac!Fresh /\ deaths' \in Nat /\ deaths' <= MaxDeaths
    BY <1>6 DEF Ac!Dies, Ac!Idle, Holds, Ac!Constants
  <2>2. IsMem(mem') /\ IsLast(last') /\ last'.ok = FALSE
    BY <2>1, EmptySays
  <2> QED
    BY <1>5, <1>6, <2>1, <2>2 DEF Holds, Remembers, Ac!SaysWhatItHolds
<1>7. CASE up = "gtk" /\ Ac!GtkSave(m, call)
  <2>1. cfg' = cfg \/ cfg' = Ac!Lines(ranked, Ac!Login)
    BY <1>2, <1>7 DEF Ac!GtkSave, Ac!Rewritten
  <2>2. cfg' # cfg => cfg'.login = Ac!Login /\ cfg'.ranked = ranked
    BY <2>1, LinesSay
  <2>3. cfg' = cfg \/ IsLines(cfg')
    BY <1>1, <2>1 DEF IsLines
  <2>4. CASE Ac!Dies /\ UNCHANGED ring
    BY <1>6, <2>2, <2>3, <2>4
  <2>5. CASE /\ Ac!token_store(m) /\ mem' = m
             /\ only' = (CASE call = "login" -> ~last'.ok [] call = "logout" -> FALSE [] OTHER -> only)
             /\ UNCHANGED <<up, blind, deaths>>
    <3>1. CASE last.want = token
      <4>1. UNCHANGED <<ring, last>>
        BY <1>2, <2>5, <3>1 DEF Ac!token_store
      <4>2. Holds'
        BY <1>2, <1>3, <1>5, <1>7, <2>3, <2>5, <4>1 DEF Holds
      <4>3. Ac!SaysWhatItHolds'
        BY <1>2, <2>5, <3>1, <4>1, <1>7 DEF Ac!SaysWhatItHolds, Remembers
      <4>4. Remembers'
        BY <1>2, <2>5, <3>1, <4>1, <4>3 DEF Remembers
      <4> QED
        BY <2>2, <4>1, <4>2, <4>4
    <3>2. CASE last.want # token
      <4>1. last' = [want |-> token, ok |-> reach] /\ ring' = IF reach THEN token ELSE ring
        BY <1>2, <2>5, <3>2 DEF Ac!token_store
      <4>2. IsLast(last') /\ last'.want = token /\ last'.ok = reach
        BY <4>1, LastSays DEF Holds, IsLast
      <4>3. Holds'
        BY <1>2, <1>3, <1>5, <1>7, <2>3, <2>5, <4>1 DEF Holds
      <4>4. Ac!SaysWhatItHolds'
        <5>1. CASE reach
          BY <1>2, <2>5, <4>1, <5>1 DEF Ac!SaysWhatItHolds
        <5>2. CASE ~ reach /\ call = "settings"
          BY <1>2, <1>7, <2>5, <4>1, <5>2 DEF Ac!SaysWhatItHolds, Remembers
        <5>3. CASE ~ reach /\ call # "settings"
          BY <1>2, <2>5, <4>1, <4>2, <5>3 DEF Ac!SaysWhatItHolds
        <5> QED
          BY <5>1, <5>2, <5>3 DEF Holds
      <4>5. Remembers'
        BY <1>2, <1>7, <2>5, <4>1, <4>2, <4>4 DEF Remembers
      <4>6. ring # None /\ ring' = None => mem.token # None \/ blind
        BY <1>7, <3>2, <4>1 DEF Remembers
      <4> QED
        BY <2>2, <4>3, <4>5, <4>6
    <3> QED
      BY <3>1, <3>2
  <2> QED
    BY <1>7, <2>4, <2>5 DEF Ac!GtkSave
<1>8. CASE up = "win" /\ (Ac!WinSave(m) \/ Ac!WinFails(m)) /\ UNCHANGED ring
  <2>1. CASE Ac!Dies /\ cfg' \in {Ac!Lines(None, None), Ac!Lines(m.ranked, None)}
    <3>1. IsLines(cfg')
      BY <1>2, <2>1 DEF IsLines
    <3> QED
      BY <1>6, <1>8, <2>1, <3>1
  <2>2. CASE /\ cfg' = cfg \/ cfg' = Ac!Lines(m.ranked, m.token)
             /\ mem' = m /\ UNCHANGED <<up, last, only, blind, deaths>>
    <3>1. cfg' = cfg \/ IsLines(cfg')
      BY <1>2, <2>2 DEF IsLines
    <3>2. Holds'
      BY <1>2, <1>3, <1>5, <1>8, <2>2, <3>1 DEF Holds
    <3> QED
      BY <1>8, <2>2, <3>2 DEF Remembers, Ac!SaysWhatItHolds
  <2> QED
    BY <1>8, <2>1, <2>2 DEF Ac!WinSave, Ac!WinFails
<1> QED
  BY <1>4, <1>7, <1>8 DEF Ac!Save

LEMMA SaveSteps ==
  ASSUME Ac!Constants, Holds, Remembers,
         \/ \E t \in Tokens : Ac!LoggedIn(t)
         \/ Ac!Logout \/ Ac!AuthLost \/ Ac!Ranked
  PROVE  /\ Holds' /\ Remembers'
         /\ up = "gtk" /\ cfg' # cfg => cfg'.login = Ac!Login /\ cfg'.ranked \in BOOLEAN
         /\ ring # None /\ ring' = None => mem.token # None \/ blind
<1>1. /\ mem.token \in Tokens \cup {None} /\ mem.ranked \in BOOLEAN
      /\ \A u : [mem EXCEPT !.token = u] = [token |-> u, ranked |-> mem.ranked]
      /\ [mem EXCEPT !.ranked = ~@] = [token |-> mem.token, ranked |-> ~ mem.ranked]
      /\ (~ mem.ranked) \in BOOLEAN
  BY MemTyped DEF Holds
<1>2. CASE \E t \in Tokens : Ac!LoggedIn(t)
  <2>1. PICK t \in Tokens : Ac!LoggedIn(t)
    BY <1>2
  <2>2. up # "none" /\ Ac!Save([token |-> t, ranked |-> mem.ranked], "login")
    BY <1>1, <2>1 DEF Ac!LoggedIn
  <2> QED
    BY <1>1, <2>2, SaveHolds
<1>3. CASE Ac!Logout
  <2>1. up # "none" /\ Ac!Save([token |-> None, ranked |-> mem.ranked], "logout")
    BY <1>1, <1>3 DEF Ac!Logout
  <2> QED
    BY <1>1, <2>1, SaveHolds
<1>4. CASE Ac!AuthLost
  <2>1. up # "none" /\ Ac!Save([token |-> None, ranked |-> mem.ranked], "lost")
    BY <1>1, <1>4 DEF Ac!AuthLost
  <2> QED
    BY <1>1, <2>1, SaveHolds
<1>5. CASE Ac!Ranked
  <2>1. up # "none" /\ Ac!Save([token |-> mem.token, ranked |-> ~ mem.ranked], "settings")
    BY <1>1, <1>5 DEF Ac!Ranked
  <2> QED
    BY <1>1, <2>1, SaveHolds
<1> QED
  BY <1>2, <1>3, <1>4, <1>5

LEMMA StartHolds ==
  ASSUME Ac!Constants, Holds, Remembers, NEW kind \in {"gtk", "win"}, Ac!Start(kind)
  PROVE  Holds' /\ Remembers' /\ cfg' = cfg /\ ring' = ring
<1>1. /\ up' = kind /\ last' = Ac!Fresh /\ only' = FALSE /\ blind' = (kind = "gtk" /\ ~reach)
      /\ UNCHANGED <<cfg, ring, reach, deaths>>
      /\ mem' = [token |-> IF kind = "win" THEN Ac!Login ELSE IF reach THEN ring ELSE None,
                 ranked |-> Ac!RankedRead]
  BY DEF Ac!Start, Ac!online_load
<1>2. Ac!RankedRead \in BOOLEAN /\ Ac!Login \in Tokens \cup {None}
  BY LoginTyped, LinesTyped DEF Ac!RankedRead, Holds
<1>3. last'.ok = FALSE /\ IsLast(last')
  BY <1>1, EmptySays
<1>4. IsMem(mem') /\ (kind = "gtk" => mem'.token = IF reach THEN ring ELSE None)
  <2>1. (IF kind = "win" THEN Ac!Login ELSE IF reach THEN ring ELSE None) \in Tokens \cup {None}
    BY <1>2 DEF Holds
  <2> QED
    BY <1>1, <1>2, <2>1, MemSays DEF IsMem
<1>5. Holds'
  BY <1>1, <1>4 DEF Holds
<1>6. Remembers'
  BY <1>1, <1>3, <1>4 DEF Remembers, Ac!SaysWhatItHolds, Holds
<1> QED
  BY <1>1, <1>5, <1>6

LEMMA AccountStep ==
  ASSUME Ac!Constants, Holds, Remembers, [Ac!Next]_(Ac!vars)
  PROVE  /\ Holds' /\ Remembers'
         /\ up = "gtk" /\ cfg' # cfg => cfg'.login = Ac!Login /\ cfg'.ranked \in BOOLEAN
         /\ ring # None /\ ring' = None => mem.token # None \/ blind
<1>1. CASE \E kind \in {"gtk", "win"} : Ac!Start(kind)
  BY <1>1, StartHolds
<1>2. CASE Ac!Close
  <2>1. up' = "none" /\ mem' = Ac!Empty /\ last' = Ac!Fresh /\ UNCHANGED <<cfg, ring, reach, deaths>>
    BY <1>2 DEF Ac!Close, Ac!Idle
  <2> QED
    BY <2>1, EmptySays DEF Holds, Remembers, Ac!SaysWhatItHolds
<1>3. CASE Ac!Keyring
  BY <1>3 DEF Ac!Keyring, Holds, Remembers, Ac!SaysWhatItHolds
<1>4. CASE UNCHANGED Ac!vars
  BY <1>4 DEF Ac!vars, Holds, Remembers, Ac!SaysWhatItHolds
<1> QED
  BY <1>1, <1>2, <1>3, <1>4, SaveSteps DEF Ac!Next

LEMMA AccountInit ==
  ASSUME Ac!Constants, Ac!Init
  PROVE  Holds /\ Remembers
<1> QED
  BY EmptySays DEF Ac!Init, Ac!Constants, Holds, Remembers, Ac!SaysWhatItHolds

\* The login is where the window says it is; no save of the other builds
\* touches the Windows build's or leaves half a file; and the keyring's goes
\* only with a logout, a 401, or a save of a launcher that could not read it.
THEOREM LoginStays ==
  ASSUME Ac!Constants
  PROVE  Ac!Spec => []Ac!SaysWhatItHolds /\ Ac!OthersLoginStays /\ Ac!ForgottenOnlySo
<1>1. Ac!Init => Holds /\ Remembers
  BY AccountInit
<1>2. Holds /\ Remembers /\ [Ac!Next]_(Ac!vars)
        => /\ Holds' /\ Remembers'
           /\ [up = "gtk" /\ cfg' # cfg => cfg'.login = Ac!Login /\ cfg'.ranked \in BOOLEAN]_(Ac!vars)
           /\ [ring # None /\ ring' = None => mem.token # None \/ blind]_(Ac!vars)
  BY AccountStep
<1>3. Remembers => Ac!SaysWhatItHolds
  BY DEF Remembers
<1> QED
  BY <1>1, <1>2, <1>3, PTL DEF Ac!Spec, Ac!OthersLoginStays, Ac!ForgottenOnlySo

\* The file, the keyring and the launcher that runs keep their types.
THEOREM AccountTyped ==
  ASSUME Ac!Constants
  PROVE  Ac!Spec => []Ac!TypeOK
<1>1. Ac!Init => Holds /\ Remembers
  BY AccountInit
<1>2. Holds /\ Remembers /\ [Ac!Next]_(Ac!vars) => Holds' /\ Remembers'
  BY AccountStep
<1>3. Holds => Ac!TypeOK
  BY LinesTyped, MemTyped DEF Holds, Ac!TypeOK
<1> QED
  BY <1>1, <1>2, <1>3, PTL DEF Ac!Spec

(***************************************************************************)
(* Leaderboard: one upload, one login, and answers that come when they     *)
(* come.                                                                   *)
(***************************************************************************)

\* The launcher's state and the requests as records, and what writing one of
\* their fields leaves of the others.
States == [token : Nat, submitting : BOOLEAN, polling : BOOLEAN, sub_id : Nat,
           sub_pending : BOOLEAN]
Kinds == {"login", "logout", "me", "submit", "poll", "list"}
Answers == [status : Nat, id : Nat, pending : BOOLEAN, token : Nat, beats : BOOLEAN]
Requests == [kind : Kinds, token : Nat, file : Files \cup {None}, of : Accounts \cup Nat,
             gen : Nat, back : BOOLEAN, r : Answers]
Given == [account : Accounts \cup Nat, valid : BOOLEAN]
Sent  == [file : Files \cup {None}, account : Accounts \cup Nat, done : BOOLEAN]
Servers == [tokens : Seq(Given), subs : Seq(Sent)]

LEMMA StateFields ==
  ASSUME NEW s \in States
  PROVE  /\ s.token \in Nat /\ s.submitting \in BOOLEAN /\ s.polling \in BOOLEAN
         /\ s.sub_id \in Nat /\ s.sub_pending \in BOOLEAN
  BY DEF States

LEMMA StateWith ==
  ASSUME NEW s \in States
  PROVE  /\ \A n \in Nat : [s EXCEPT !.token = n] \in States
         /\ \A n \in Nat : [s EXCEPT !.sub_id = n] \in States
         /\ \A b \in BOOLEAN : [s EXCEPT !.submitting = b] \in States
         /\ \A b \in BOOLEAN : [s EXCEPT !.polling = b] \in States
         /\ \A b \in BOOLEAN : [s EXCEPT !.sub_pending = b] \in States
  BY DEF States

LEMMA TokenSet ==
  ASSUME NEW s \in States, NEW n \in Nat, NEW t, t = [s EXCEPT !.token = n]
  PROVE  /\ t \in States /\ t.token = n /\ t.submitting = s.submitting /\ t.polling = s.polling
         /\ t.sub_id = s.sub_id /\ t.sub_pending = s.sub_pending
  BY DEF States

LEMMA SubmittingSet ==
  ASSUME NEW s \in States, NEW b \in BOOLEAN, NEW t, t = [s EXCEPT !.submitting = b]
  PROVE  /\ t \in States /\ t.token = s.token /\ t.submitting = b /\ t.polling = s.polling
         /\ t.sub_id = s.sub_id /\ t.sub_pending = s.sub_pending
  BY DEF States

LEMMA PollingSet ==
  ASSUME NEW s \in States, NEW b \in BOOLEAN, NEW t, t = [s EXCEPT !.polling = b]
  PROVE  /\ t \in States /\ t.token = s.token /\ t.submitting = s.submitting /\ t.polling = b
         /\ t.sub_id = s.sub_id /\ t.sub_pending = s.sub_pending
  BY DEF States

LEMMA Followed ==
  ASSUME NEW s \in States, NEW n \in Nat, NEW b \in BOOLEAN, NEW t, t = Le!Follow(s, n, b)
  PROVE  /\ t \in States /\ t.token = s.token /\ t.submitting = s.submitting
         /\ t.polling = s.polling /\ t.sub_id = n /\ t.sub_pending = b
  BY DEF States, Le!Follow

LEMMA TokenLost ==
  ASSUME NEW s \in States, NEW t, t = Le!AuthLost(s)
  PROVE  /\ t \in States /\ t.token = 0 /\ t.submitting = s.submitting
         /\ t.polling = s.polling /\ t.sub_id = 0 /\ t.sub_pending = FALSE
<1> DEFINE u == [s EXCEPT !.token = 0]
<1>1. /\ u \in States /\ u.token = 0 /\ u.submitting = s.submitting /\ u.polling = s.polling
      /\ u.sub_id = s.sub_id /\ u.sub_pending = s.sub_pending
  BY TokenSet
<1>2. t = Le!Follow(u, 0, FALSE)
  BY DEF Le!AuthLost, Le!NoToken
<1>3. u \in States /\ 0 \in Nat /\ FALSE \in BOOLEAN
  BY <1>1
<1> HIDE DEF u
<1>4. /\ t \in States /\ t.token = u.token /\ t.submitting = u.submitting
      /\ t.polling = u.polling /\ t.sub_id = 0 /\ t.sub_pending = FALSE
  BY <1>2, <1>3, Followed
<1> QED
  BY <1>1, <1>4

LEMMA FlagsCleared ==
  ASSUME NEW s \in States, NEW j, NEW t, t = Le!Cleared(s, j)
  PROVE  /\ t \in States /\ t.token = s.token /\ t.submitting = (s.submitting /\ ~Le!Submits(j))
         /\ t.sub_id = s.sub_id /\ t.sub_pending = s.sub_pending
<1> DEFINE b == s.submitting /\ ~Le!Submits(j)
           c == s.polling /\ j.kind # "poll"
<1>1. t = [s EXCEPT !.submitting = b, !.polling = c] /\ b \in BOOLEAN /\ c \in BOOLEAN
  BY StateFields DEF Le!Cleared
<1> HIDE DEF b, c
<1>2. /\ t \in States /\ t.token = s.token /\ t.submitting = b /\ t.sub_id = s.sub_id
      /\ t.sub_pending = s.sub_pending
  BY <1>1 DEF States
<1> QED
  BY <1>2 DEF b

-----------------------------------------------------------------------------
LEMMA RequestMade ==
  ASSUME NEW kind \in Kinds, NEW token \in Nat, NEW file \in Files \cup {None},
         NEW of \in Accounts \cup Nat, NEW gen \in Nat, NEW j, j = Le!Job(kind, token, file, of, gen)
  PROVE  /\ j \in Requests /\ j.kind = kind /\ j.token = token /\ j.file = file /\ j.of = of
         /\ j.gen = gen /\ ~ j.back /\ j.r = Le!NoAnswer
<1>1. Le!NoAnswer \in Answers
  BY DEF Answers, Le!NoAnswer, Le!NoToken
<1>2. j = [kind |-> kind, token |-> token, file |-> file, of |-> of, gen |-> gen,
           back |-> FALSE, r |-> Le!NoAnswer]
  BY DEF Le!Job
<1> QED
  BY <1>1, <1>2 DEF Requests

LEMMA RequestFields ==
  ASSUME NEW j \in Requests
  PROVE  /\ j.kind \in Kinds /\ j.token \in Nat /\ j.file \in Files \cup {None}
         /\ j.of \in Accounts \cup Nat /\ j.gen \in Nat /\ j.back \in BOOLEAN /\ j.r \in Answers
         /\ j.r.status \in Nat /\ j.r.id \in Nat /\ j.r.pending \in BOOLEAN /\ j.r.token \in Nat
         /\ j.r.beats \in BOOLEAN
<1>1. /\ j.kind \in Kinds /\ j.token \in Nat /\ j.file \in Files \cup {None}
      /\ j.of \in Accounts \cup Nat /\ j.gen \in Nat /\ j.back \in BOOLEAN /\ j.r \in Answers
  BY DEF Requests
<1> QED
  BY <1>1 DEF Answers

ReplyTo(s, i, r) == [s EXCEPT ![i].back = TRUE, ![i].r = r]

LEMMA Replied ==
  ASSUME NEW s \in Seq(Requests), NEW i \in DOMAIN s, NEW r \in Answers,
         NEW t, t = ReplyTo(s, i, r)
  PROVE  /\ t \in Seq(Requests) /\ Len(t) = Len(s) /\ DOMAIN t = DOMAIN s
         /\ \A k \in DOMAIN s : k # i => t[k] = s[k]
         /\ t[i].kind = s[i].kind /\ t[i].token = s[i].token /\ t[i].file = s[i].file
         /\ t[i].of = s[i].of /\ t[i].gen = s[i].gen /\ t[i].back /\ t[i].r = r
<1> DEFINE u == [s[i] EXCEPT !.back = TRUE, !.r = r]
<1>1. s[i] \in Requests
  BY ElementOfSeq, LenProperties
<1>2. /\ u \in Requests /\ u.kind = s[i].kind /\ u.token = s[i].token /\ u.file = s[i].file
      /\ u.of = s[i].of /\ u.gen = s[i].gen /\ u.back = TRUE /\ u.r = r
  BY <1>1 DEF Requests
<1>3. t = [s EXCEPT ![i] = u]
  BY <1>1 DEF ReplyTo
<1> HIDE DEF u
<1>4. t \in Seq(Requests) /\ Len(t) = Len(s) /\ DOMAIN t = DOMAIN s
  <2>1. u \in Requests
    BY <1>2
  <2>2. i \in 1 .. Len(s)
    BY LenProperties
  <2>3. [s EXCEPT ![i] = u] \in Seq(Requests) /\ Len([s EXCEPT ![i] = u]) = Len(s)
    BY <2>1, <2>2, ExceptSeq, Zenon
  <2>4. t \in Seq(Requests) /\ Len(t) = Len(s)
    BY <1>3, <2>3
  <2> QED
    BY <2>4, LenProperties
<1>5. t[i] = u /\ \A k \in DOMAIN s : k # i => t[k] = s[k]
  BY <1>3
<1> QED
  BY <1>2, <1>4, <1>5

\* The answers there are.
LEMMA AnswersMade ==
  /\ Le!NoAnswer \in Answers
  /\ Le!NoAnswer.status = 0 /\ Le!NoAnswer.id = 0 /\ ~ Le!NoAnswer.pending
  /\ Le!NoAnswer.token = 0
  BY DEF Answers, Le!NoAnswer, Le!NoToken
Say(m)        == [Le!NoAnswer EXCEPT !.status = m]
Give(m, n)    == [Le!NoAnswer EXCEPT !.status = m, !.token = n]
Rate(m, b)    == [Le!NoAnswer EXCEPT !.status = m, !.beats = b]
Tell(m, n, b) == [Le!NoAnswer EXCEPT !.status = m, !.id = n, !.pending = b]

LEMMA AnswerStatus ==
  ASSUME NEW m \in Nat
  PROVE  /\ Say(m) \in Answers /\ Say(m).status = m /\ Say(m).id = 0
         /\ ~ Say(m).pending /\ Say(m).token = 0
  BY AnswersMade DEF Answers, Say
LEMMA AnswerToken ==
  ASSUME NEW m \in Nat, NEW n \in Nat
  PROVE  /\ Give(m, n) \in Answers /\ Give(m, n).status = m /\ Give(m, n).id = 0
         /\ ~ Give(m, n).pending /\ Give(m, n).token = n
  BY AnswersMade DEF Answers, Give
LEMMA AnswerBeats ==
  ASSUME NEW m \in Nat, NEW b \in BOOLEAN
  PROVE  /\ Rate(m, b) \in Answers /\ Rate(m, b).status = m /\ Rate(m, b).id = 0
         /\ ~ Rate(m, b).pending /\ Rate(m, b).token = 0
  BY AnswersMade DEF Answers, Rate
LEMMA AnswerTold ==
  ASSUME NEW m \in Nat, NEW n \in Nat, NEW b \in BOOLEAN
  PROVE  /\ Tell(m, n, b) \in Answers /\ Tell(m, n, b).status = m /\ Tell(m, n, b).id = n
         /\ (Tell(m, n, b).pending => b) /\ Tell(m, n, b).token = 0
  BY AnswersMade DEF Answers, Tell

-----------------------------------------------------------------------------
\* What an answer on its way may say: no token or submission the server never
\* gave, and no 401 for a token that counts.
Taken(sv, t) == t # 0 /\ sv.tokens[t].valid
Truthful(j, sv) ==
  /\ j.token <= Len(sv.tokens) /\ j.r.token <= Len(sv.tokens) /\ j.r.id <= Len(sv.subs)
  /\ j.r.pending => j.r.id # 0
  /\ j.r.status = 401 => ~ Taken(sv, j.token)
  /\ j.kind = "login" /\ j.r.status = 200 => j.r.token # 0
  /\ j.kind = "poll" => j.of \in 1 .. Len(sv.subs)

\* The server gives out more, and takes back for good.
Later(s, t) ==
  /\ Len(s.tokens) <= Len(t.tokens) /\ Len(s.subs) <= Len(t.subs)
  /\ \A k \in 1 .. Len(s.tokens) : t.tokens[k].valid => s.tokens[k].valid

Out(out, sv) ==
  /\ out \in Seq(Requests) /\ Len(out) <= MaxJobs
  /\ \A i \in DOMAIN out : Truthful(out[i], sv)

\* A check or an upload is out, and no second one.
Uploading(out) == \E i \in DOMAIN out : Le!Submits(out[i])
Single(out) == \A i, k \in DOMAIN out : Le!Submits(out[i]) /\ Le!Submits(out[k]) => i = k

StateOK(s, sv) ==
  /\ s \in States /\ s.token <= Len(sv.tokens) /\ s.sub_id <= Len(sv.subs)
  /\ s.sub_pending => s.sub_id # 0

ServerOK(sv) == sv \in Servers /\ Len(sv.tokens) <= MaxLogins

WindowOK ==
  /\ login \in [gen : 0 .. MaxWindows, busy : BOOLEAN, ok : BOOLEAN, next : Files \cup {None}]
  /\ windows \in 0 .. MaxWindows /\ ask \in Files \cup {None}

Board ==
  /\ StateOK(st, server) /\ WindowOK /\ ServerOK(server)
  /\ Out(jobs, server) /\ Single(jobs)
  /\ st.submitting <=> Uploading(jobs)
  /\ ask # None => ~ Uploading(jobs)

LEMMA ServerFields ==
  ASSUME NEW sv \in Servers
  PROVE  /\ sv.tokens \in Seq(Given) /\ sv.subs \in Seq(Sent)
         /\ Len(sv.tokens) \in Nat /\ Len(sv.subs) \in Nat
         /\ DOMAIN sv.tokens = 1 .. Len(sv.tokens) /\ DOMAIN sv.subs = 1 .. Len(sv.subs)
<1>1. sv.tokens \in Seq(Given) /\ sv.subs \in Seq(Sent)
  BY DEF Servers
<1> QED
  BY <1>1, LenProperties

LEMMA StillTruthful ==
  ASSUME NEW s \in Servers, NEW t \in Servers, Later(s, t), NEW j \in Requests, Truthful(j, s)
  PROVE  Truthful(j, t)
<1>1. /\ Len(s.tokens) \in Nat /\ Len(s.subs) \in Nat /\ Len(t.tokens) \in Nat
      /\ Len(t.subs) \in Nat
  BY ServerFields
<1>2. /\ j.token \in Nat /\ j.r.token \in Nat /\ j.r.id \in Nat
  BY RequestFields
<1>3. /\ j.token <= Len(t.tokens) /\ j.r.token <= Len(t.tokens) /\ j.r.id <= Len(t.subs)
  BY <1>1, <1>2 DEF Truthful, Later
<1>4. j.r.status = 401 => ~ Taken(t, j.token)
  BY <1>1, <1>2 DEF Truthful, Later, Taken
<1>5. j.kind = "poll" => j.of \in 1 .. Len(t.subs)
  BY <1>1 DEF Truthful, Later
<1> QED
  BY <1>3, <1>4, <1>5 DEF Truthful

LEMMA StillOut ==
  ASSUME NEW s \in Servers, NEW t \in Servers, Later(s, t), NEW out, Out(out, s)
  PROVE  Out(out, t)
<1>1. \A i \in DOMAIN out : out[i] \in Requests
  BY ElementOfSeq, LenProperties DEF Out
<1> QED
  BY <1>1, StillTruthful DEF Out

LEMMA OneMoreOut ==
  ASSUME NEW sv, NEW out, Out(out, sv), Len(out) < MaxJobs, MaxJobs \in Nat,
         NEW j \in Requests, Truthful(j, sv)
  PROVE  /\ Out(Append(out, j), sv)
         /\ DOMAIN Append(out, j) = 1 .. Len(out) + 1 /\ DOMAIN out = 1 .. Len(out)
         /\ Len(out) \in Nat
         /\ \A i \in 1 .. Len(out) : Append(out, j)[i] = out[i]
         /\ Append(out, j)[Len(out) + 1] = j
<1>1. out \in Seq(Requests) /\ Len(out) \in Nat /\ DOMAIN out = 1 .. Len(out)
  BY LenProperties DEF Out
<1>2. /\ Append(out, j) \in Seq(Requests) /\ Len(Append(out, j)) = Len(out) + 1
      /\ \A i \in 1 .. Len(out) : Append(out, j)[i] = out[i]
      /\ Append(out, j)[Len(out) + 1] = j
  BY <1>1, AppendProperties
<1>3. DOMAIN Append(out, j) = 1 .. Len(out) + 1
  BY <1>2, LenProperties
<1>4. Len(Append(out, j)) <= MaxJobs
  BY <1>1, <1>2
<1>5. \A i \in 1 .. Len(out) + 1 : i \in 1 .. Len(out) \/ i = Len(out) + 1
  BY <1>1
<1>6. \A i \in DOMAIN Append(out, j) : Truthful(Append(out, j)[i], sv)
  BY <1>1, <1>2, <1>3, <1>5 DEF Out
<1> QED
  BY <1>1, <1>2, <1>3, <1>4, <1>6 DEF Out

\* A request of another kind changes nothing about the upload; a check or an
\* upload goes out when none is.
LEMMA OtherOut ==
  ASSUME NEW sv, NEW out, Out(out, sv), Len(out) < MaxJobs, MaxJobs \in Nat,
         NEW j \in Requests, Truthful(j, sv), Single(out)
  PROVE  /\ ~ Le!Submits(j) => /\ Single(Append(out, j))
                               /\ Uploading(Append(out, j)) <=> Uploading(out)
         /\ Le!Submits(j) /\ ~ Uploading(out) => Single(Append(out, j)) /\ Uploading(Append(out, j))
<1> DEFINE more == Append(out, j)
           n == Len(out)
<1>1. /\ DOMAIN more = 1 .. n + 1 /\ DOMAIN out = 1 .. n /\ n \in Nat
      /\ \A i \in 1 .. n : more[i] = out[i]
      /\ more[n + 1] = j
  BY OneMoreOut
<1> HIDE DEF more, n
<1>2. \A i \in 1 .. n + 1 : i \in 1 .. n \/ i = n + 1
  BY <1>1
<1>3. n + 1 \in 1 .. n + 1 /\ \A i \in 1 .. n : i \in 1 .. n + 1
  BY <1>1
<1>4. ASSUME ~ Le!Submits(j) PROVE Single(more) /\ (Uploading(more) <=> Uploading(out))
  <2>1. \A i \in DOMAIN more : Le!Submits(more[i]) => i \in DOMAIN out /\ more[i] = out[i]
    BY <1>1, <1>2, <1>4
  <2>2. \A i \in DOMAIN out : i \in DOMAIN more /\ more[i] = out[i]
    BY <1>1, <1>3
  <2> QED
    BY <2>1, <2>2 DEF Single, Uploading
<1>5. ASSUME Le!Submits(j), ~ Uploading(out) PROVE Single(more) /\ Uploading(more)
  <2>1. \A i \in DOMAIN more : Le!Submits(more[i]) => i = n + 1
    BY <1>1, <1>2, <1>5 DEF Uploading
  <2> QED
    BY <1>1, <1>3, <1>5, <2>1 DEF Single, Uploading
<1> QED
  BY <1>4, <1>5 DEF more

\* One that came back is taken out, and the others stay in their order.
LEMMA TakenOut ==
  ASSUME NEW sv, Out(jobs, sv), MaxJobs \in Nat, NEW i \in DOMAIN jobs
  PROVE  /\ Out(Le!Without(i), sv) /\ Len(Le!Without(i)) < MaxJobs
         /\ \A k \in DOMAIN Le!Without(i) :
              /\ (IF k < i THEN k ELSE k + 1) \in DOMAIN jobs \ {i}
              /\ Le!Without(i)[k] = jobs[IF k < i THEN k ELSE k + 1]
         /\ \A h \in DOMAIN jobs \ {i} :
              /\ (IF h < i THEN h ELSE h - 1) \in DOMAIN Le!Without(i)
              /\ Le!Without(i)[IF h < i THEN h ELSE h - 1] = jobs[h]
<1> DEFINE n == Len(jobs)
           w == Le!Without(i)
<1>1. jobs \in Seq(Requests) /\ n \in Nat /\ DOMAIN jobs = 1 .. n
  BY LenProperties DEF Out
<1>2. \A k \in 1 .. n : jobs[k] \in Requests
  BY <1>1, ElementOfSeq
<1>3. w = [k \in 1 .. n - 1 |-> IF k < i THEN jobs[k] ELSE jobs[k + 1]] /\ n - 1 \in Nat
  BY <1>1 DEF Le!Without
<1> HIDE DEF w, n
<1>4. \A k \in 1 .. n - 1 : w[k] = IF k < i THEN jobs[k] ELSE jobs[k + 1]
  BY <1>3
<1>5. DOMAIN w = 1 .. n - 1
  BY <1>3
<1>6. \A k \in 1 .. n - 1 : /\ (IF k < i THEN k ELSE k + 1) \in 1 .. n
                           /\ (IF k < i THEN k ELSE k + 1) # i
  BY <1>1, <1>3
<1>7. \A k \in 1 .. n - 1 : w[k] = jobs[IF k < i THEN k ELSE k + 1]
  BY <1>4
<1>8. \A h \in 1 .. n : h # i => (IF h < i THEN h ELSE h - 1) \in 1 .. n - 1
  BY <1>1
<1>9. \A h \in 1 .. n : h # i => w[IF h < i THEN h ELSE h - 1] = jobs[h]
  BY <1>1, <1>4, <1>8
<1>10. \A k \in 1 .. n - 1 : w[k] \in Requests
  BY <1>2, <1>6, <1>7
<1>11. w \in Seq(Requests) /\ Len(w) = n - 1
  BY <1>3, <1>4, <1>10
<1>12. \A k \in 1 .. n - 1 : Truthful(w[k], sv)
  BY <1>1, <1>6, <1>7 DEF Out
<1>13. Len(w) < MaxJobs
  BY <1>1, <1>11 DEF Out, n
<1>14. Out(w, sv)
  BY <1>1, <1>5, <1>11, <1>12, <1>13 DEF Out
<1> QED
  BY <1>1, <1>5, <1>6, <1>7, <1>8, <1>9, <1>13, <1>14 DEF w

LEMMA NewIsTruthful ==
  ASSUME NEW kind \in Kinds, NEW token \in Nat, NEW file \in Files \cup {None},
         NEW of \in Accounts \cup Nat, NEW gen \in Nat, NEW sv \in Servers,
         token <= Len(sv.tokens), kind = "poll" => of \in 1 .. Len(sv.subs),
         NEW j, j = Le!Job(kind, token, file, of, gen)
  PROVE  j \in Requests /\ Truthful(j, sv) /\ j.kind = kind
<1>1. /\ j \in Requests /\ j.kind = kind /\ j.token = token /\ j.of = of /\ j.r = Le!NoAnswer
  BY RequestMade
<1>2. /\ j.r.status = 0 /\ j.r.id = 0 /\ ~ j.r.pending /\ j.r.token = 0
  BY <1>1, AnswersMade
<1>3. Len(sv.tokens) \in Nat /\ Len(sv.subs) \in Nat
  BY ServerFields
<1>4. 0 <= Len(sv.tokens) /\ 0 <= Len(sv.subs)
  BY <1>3
<1>5. Truthful(j, sv)
  BY <1>1, <1>2, <1>4 DEF Truthful
<1> QED
  BY <1>1, <1>5

LEMMA PlainRequest ==
  ASSUME NEW kind \in {"logout", "me", "submit", "list"}, NEW token \in Nat,
         NEW file \in Files \cup {None}, NEW sv \in Servers, token <= Len(sv.tokens),
         NEW j, j = Le!Job(kind, token, file, 0, 0)
  PROVE  j \in Requests /\ Truthful(j, sv) /\ j.kind = kind
<1>1. kind \in Kinds /\ 0 \in Accounts \cup Nat /\ 0 \in Nat /\ kind # "poll"
  BY DEF Kinds
<1>2. kind = "poll" => 0 \in 1 .. Len(sv.subs)
  BY <1>1
<1>3. \A g \in Nat, o \in Accounts \cup Nat :
        (kind = "poll" => o \in 1 .. Len(sv.subs))
          => /\ Le!Job(kind, token, file, o, g) \in Requests
             /\ Truthful(Le!Job(kind, token, file, o, g), sv)
             /\ Le!Job(kind, token, file, o, g).kind = kind
  BY <1>1, NewIsTruthful
<1> QED
  BY <1>1, <1>2, <1>3

LEMMA PollRequest ==
  ASSUME NEW token \in Nat, NEW sv \in Servers, token <= Len(sv.tokens),
         NEW of \in 1 .. Len(sv.subs), NEW j, j = Le!Job("poll", token, None, of, 0)
  PROVE  j \in Requests /\ Truthful(j, sv) /\ j.kind = "poll"
<1>1. "poll" \in Kinds /\ of \in Accounts \cup Nat /\ 0 \in Nat
  BY ServerFields DEF Kinds
<1>2. \A k \in Kinds, g \in Nat, o \in Accounts \cup Nat, f \in Files \cup {None} :
        (k = "poll" => o \in 1 .. Len(sv.subs))
          => /\ Le!Job(k, token, f, o, g) \in Requests
             /\ Truthful(Le!Job(k, token, f, o, g), sv)
             /\ Le!Job(k, token, f, o, g).kind = k
  BY NewIsTruthful
<1> QED
  BY <1>1, <1>2

LEMMA Started ==
  ASSUME NEW sv, NEW out, Out(out, sv), MaxJobs \in Nat,
         NEW j \in Requests, Truthful(j, sv), ~ Le!Submits(j), Single(out)
  PROVE  /\ Out(Le!Start(out, j), sv) /\ Single(Le!Start(out, j))
         /\ Uploading(Le!Start(out, j)) <=> Uploading(out)
  BY OneMoreOut, OtherOut DEF Le!Start

LEMMA ListStarted ==
  ASSUME NEW sv, ServerOK(sv), NEW out, Out(out, sv), MaxJobs \in Nat, NEW s, StateOK(s, sv),
         Single(out)
  PROVE  /\ Out(Le!StartList(s, out), sv) /\ Single(Le!StartList(s, out))
         /\ Uploading(Le!StartList(s, out)) <=> Uploading(out)
<1> DEFINE j == Le!Job("list", s.token, None, 0, 0)
<1>1. s.token \in Nat /\ s.token <= Len(sv.tokens) /\ sv \in Servers
  BY StateFields DEF StateOK, ServerOK
<1>2. j \in Requests /\ Truthful(j, sv) /\ j.kind = "list"
  BY <1>1, PlainRequest
<1>3. ~ Le!Submits(j)
  BY <1>2 DEF Le!Submits
<1> QED
  BY <1>2, <1>3, Started DEF Le!StartList

LEMMA SubmitStarted ==
  ASSUME NEW sv, ServerOK(sv), NEW out, Out(out, sv), MaxJobs \in Nat, NEW s, StateOK(s, sv),
         Single(out), s.submitting <=> Uploading(out), NEW f \in Files \cup {None},
         NEW c, c = Le!StartSubmit(s, out, f)
  PROVE  /\ StateOK(c[1], sv) /\ c[1].token = s.token
         /\ Out(c[2], sv) /\ Single(c[2])
         /\ c[1].submitting <=> Uploading(c[2])
<1>1. s.token \in Nat /\ s.token <= Len(sv.tokens) /\ sv \in Servers /\ s \in States
  BY StateFields DEF StateOK, ServerOK
<1>2. CASE s.submitting \/ s.token = 0
  <2>1. c = <<s, out>>
    BY <1>2 DEF Le!StartSubmit, Le!NoToken
  <2> QED
    BY <2>1
<1>3. CASE ~ s.submitting /\ s.token # 0
  <2> DEFINE j == Le!Job("submit", s.token, f, 0, 0)
             b == Len(out) < MaxJobs
             t == [s EXCEPT !.submitting = b]
  <2>1. c[1] = t /\ c[2] = Le!Start(out, j)
    BY <1>3 DEF Le!StartSubmit, Le!NoToken
  <2>2. j \in Requests /\ Truthful(j, sv) /\ j.kind = "submit"
    BY <1>1, PlainRequest
  <2>3. b \in BOOLEAN
    OBVIOUS
  <2>4. /\ t \in States /\ t.token = s.token /\ t.submitting = b /\ t.sub_id = s.sub_id
        /\ t.sub_pending = s.sub_pending
    <3> HIDE DEF b
    <3> QED
      BY <1>1, <2>3, SubmittingSet
  <2>5. Le!Submits(j)
    BY <2>2 DEF Le!Submits
  <2>6. StateOK(c[1], sv) /\ c[1].token = s.token
    BY <2>1, <2>4 DEF StateOK
  <2>7. CASE b
    <3>1. Le!Start(out, j) = Append(out, j) /\ c[1].submitting = TRUE
      BY <2>1, <2>4, <2>7 DEF Le!Start
    <3> HIDE DEF j, t
    <3>2. Out(Append(out, j), sv)
      BY <2>2, <2>7, OneMoreOut
    <3>3. Single(Append(out, j)) /\ Uploading(Append(out, j))
      BY <1>3, <2>2, <2>5, <2>7, OtherOut
    <3> QED
      BY <2>1, <2>6, <3>1, <3>2, <3>3
  <2>8. CASE ~ b
    <3>1. Le!Start(out, j) = out
      BY <2>8 DEF Le!Start
    <3>2. ~ c[1].submitting
      <4> HIDE DEF b, t
      <4> QED
        BY <2>1, <2>4, <2>8
    <3> QED
      BY <1>3, <2>1, <2>6, <3>1, <3>2
  <2> QED
    BY <2>7, <2>8
<1> QED
  BY <1>2, <1>3

LEMMA CheckStarted ==
  ASSUME NEW sv, ServerOK(sv), NEW out, Out(out, sv), MaxJobs \in Nat, NEW s, StateOK(s, sv),
         Single(out), s.submitting <=> Uploading(out), NEW f \in Files \cup {None},
         NEW c, c = Le!StartCheck(s, out, f)
  PROVE  /\ StateOK(c[1], sv) /\ c[1].token = s.token
         /\ Out(c[2], sv) /\ Single(c[2])
         /\ c[1].submitting <=> Uploading(c[2])
<1>1. s.token \in Nat /\ s.token <= Len(sv.tokens) /\ sv \in Servers /\ s \in States
  BY StateFields DEF StateOK, ServerOK
<1>2. CASE s.submitting \/ s.token = 0
  <2>1. c = <<s, out>>
    BY <1>2 DEF Le!StartCheck, Le!NoToken
  <2> QED
    BY <2>1
<1>3. CASE ~ s.submitting /\ s.token # 0 /\ Len(out) < MaxJobs
  <2> DEFINE j == Le!Job("me", s.token, f, 0, 0)
             t == [s EXCEPT !.submitting = TRUE]
  <2>1. c[1] = t /\ c[2] = Append(out, j)
    BY <1>3 DEF Le!StartCheck, Le!NoToken
  <2>2. j \in Requests /\ Truthful(j, sv) /\ j.kind = "me"
    BY <1>1, PlainRequest
  <2>3. /\ t \in States /\ t.token = s.token /\ t.submitting = TRUE /\ t.sub_id = s.sub_id
        /\ t.sub_pending = s.sub_pending
    BY <1>1, SubmittingSet
  <2>4. Le!Submits(j)
    BY <2>2 DEF Le!Submits
  <2>5. StateOK(c[1], sv) /\ c[1].token = s.token
    BY <2>1, <2>3 DEF StateOK
  <2> HIDE DEF j, t
  <2>6. Out(Append(out, j), sv)
    BY <1>3, <2>2, OneMoreOut
  <2>7. Single(Append(out, j)) /\ Uploading(Append(out, j))
    BY <1>3, <2>2, <2>4, OtherOut
  <2> QED
    BY <2>1, <2>3, <2>5, <2>6, <2>7
<1>4. CASE ~ s.submitting /\ s.token # 0 /\ ~ Len(out) < MaxJobs
  <2>1. c = Le!StartSubmit(s, out, f)
    BY <1>4 DEF Le!StartCheck, Le!NoToken
  <2> QED
    BY <2>1, SubmitStarted
<1> QED
  BY <1>2, <1>3, <1>4

-----------------------------------------------------------------------------
\* What a step does to the token in use: it goes only with a logout or once
\* the server takes it no more, and comes only with the answer to the window
\* that is open.
Steps ==
  /\ Le!Logged /\ st'.token = 0 => Le!Logout \/ ~ Taken(server, st.token)
  /\ ~ Le!Logged /\ st'.token # 0 =>
       \E i \in DOMAIN jobs :
         jobs[i].kind = "login" /\ jobs[i].gen = login.gen /\ jobs[i].r.token = st'.token

LEMMA TokenStays ==
  ASSUME st'.token = st.token
  PROVE  Steps
  BY DEF Steps, Le!Logged, Le!NoToken

LEMMA WindowSteps ==
  ASSUME Le!Constants, Board,
         \/ \E f \in Files \cup {None} : Le!OpenLogin(f)
         \/ \E a \in Accounts : Le!LoginSend(a)
         \/ Le!LoginCloses
  PROVE  Board' /\ Steps
<1>1. MaxJobs \in Nat /\ MaxWindows \in Nat
  BY DEF Le!Constants
<1>2. CASE \E f \in Files \cup {None} : Le!OpenLogin(f)
  <2>1. PICK f \in Files \cup {None} : Le!OpenLogin(f)
    BY <1>2
  <2>2. windows' \in 0 .. MaxWindows
    <3>1. windows \in 0 .. MaxWindows /\ windows < MaxWindows /\ windows' = windows + 1
      BY <2>1 DEF Le!OpenLogin, Board, WindowOK
    <3> QED
      BY <1>1, <3>1
  <2>3. login' = [gen |-> windows', busy |-> FALSE, ok |-> FALSE, next |-> f]
    BY <2>1 DEF Le!OpenLogin, Le!NoLogin
  <2>4. login' \in [gen : 0 .. MaxWindows, busy : BOOLEAN, ok : BOOLEAN, next : Files \cup {None}]
    BY <2>2, <2>3
  <2>5. UNCHANGED <<st, ask, jobs, server>>
    BY <2>1 DEF Le!OpenLogin
  <2>6. WindowOK'
    BY <2>2, <2>4, <2>5 DEF WindowOK, Board
  <2> QED
    BY <2>5, <2>6, TokenStays DEF Board
<1>3. CASE \E a \in Accounts : Le!LoginSend(a)
  <2>1. PICK a \in Accounts : Le!LoginSend(a)
    BY <1>3
  <2>2. login \in [gen : 0 .. MaxWindows, busy : BOOLEAN, ok : BOOLEAN, next : Files \cup {None}]
    BY DEF Board, WindowOK
  <2>3. login' \in [gen : 0 .. MaxWindows, busy : BOOLEAN, ok : BOOLEAN, next : Files \cup {None}]
    BY <2>1, <2>2 DEF Le!LoginSend
  <2>4. WindowOK'
    BY <2>1, <2>3 DEF WindowOK, Board, Le!LoginSend
  <2> DEFINE j == Le!Job("login", 0, None, a, login.gen)
  <2>5. login.gen \in Nat /\ server \in Servers /\ 0 <= Len(server.tokens)
    BY <1>1, <2>2, ServerFields DEF Board, ServerOK
  <2>6. j \in Requests /\ Truthful(j, server) /\ j.kind = "login"
    <3>1. "login" \in Kinds /\ 0 \in Nat /\ None \in Files \cup {None} /\ a \in Accounts \cup Nat
          /\ "login" # "poll"
      BY DEF Kinds
    <3> QED
      BY <2>5, <3>1, NewIsTruthful
  <2>7. ~ Le!Submits(j)
    BY <2>6 DEF Le!Submits
  <2>8. jobs' = Append(jobs, j) /\ Len(jobs) < MaxJobs
    BY <2>1 DEF Le!LoginSend, Le!NoToken
  <2> HIDE DEF j
  <2>9. Out(jobs', server)
    BY <1>1, <2>6, <2>8, OneMoreOut DEF Board
  <2>10. Single(jobs') /\ (Uploading(jobs') <=> Uploading(jobs))
    BY <1>1, <2>6, <2>7, <2>8, OtherOut DEF Board
  <2>11. UNCHANGED <<st, ask, server>>
    BY <2>1 DEF Le!LoginSend
  <2> QED
    BY <2>4, <2>9, <2>10, <2>11, TokenStays DEF Board
<1>4. CASE Le!LoginCloses
  <2> DEFINE listed == Le!StartList(st, jobs)
             sent == IF login.next = None THEN <<st, listed>>
                     ELSE Le!StartCheck(st, listed, login.next)
  <2>1. /\ ask = None /\ login' = Le!NoLogin /\ UNCHANGED <<ask, server, windows>>
        /\ \/ st' = sent[1] /\ jobs' = sent[2]
           \/ UNCHANGED <<st, jobs>>
    BY <1>4 DEF Le!LoginCloses
  <2>2. WindowOK'
    <3>1. 0 \in 0 .. MaxWindows
      BY <1>1
    <3>2. login' \in [gen : 0 .. MaxWindows, busy : BOOLEAN, ok : BOOLEAN, next : Files \cup {None}]
      BY <2>1, <3>1 DEF Le!NoLogin
    <3> QED
      BY <2>1, <3>2 DEF WindowOK, Board
  <2>3. Single(jobs) /\ (st.submitting <=> Uploading(jobs))
    BY DEF Board
  <2>4. StateOK(st, server) /\ ServerOK(server) /\ Out(jobs, server)
    BY DEF Board
  <2>5. Out(listed, server) /\ Single(listed) /\ (st.submitting <=> Uploading(listed))
    BY <1>1, <2>3, <2>4, ListStarted
  <2> HIDE DEF listed
  <2>6. login.next \in Files \cup {None}
    BY DEF Board, WindowOK
  <2>7. /\ StateOK(sent[1], server) /\ sent[1].token = st.token
        /\ Out(sent[2], server) /\ Single(sent[2]) /\ (sent[1].submitting <=> Uploading(sent[2]))
    <3>1. CASE login.next = None
      BY <2>4, <2>5, <3>1
    <3>2. CASE login.next # None
      BY <1>1, <2>4, <2>5, <2>6, <3>2, CheckStarted
    <3> QED
      BY <3>1, <3>2
  <2> HIDE DEF sent
  <2>8. CASE st' = sent[1] /\ jobs' = sent[2]
    BY <2>1, <2>2, <2>4, <2>7, <2>8, TokenStays DEF Board
  <2>9. CASE UNCHANGED <<st, jobs>>
    BY <2>1, <2>2, <2>9, TokenStays DEF Board
  <2> QED
    BY <2>1, <2>8, <2>9
<1> QED
  BY <1>2, <1>3, <1>4

LEMMA PlayerSteps ==
  ASSUME Le!Constants, Board,
         \/ Le!Logout \/ Le!FocusIn \/ Le!PollTick
         \/ \E f \in Files : Le!Submit(f)
         \/ \E yes \in BOOLEAN : Le!Answer(yes)
  PROVE  Board' /\ Steps
<1>1. /\ MaxJobs \in Nat /\ StateOK(st, server) /\ ServerOK(server) /\ Out(jobs, server)
      /\ Single(jobs) /\ (st.submitting <=> Uploading(jobs)) /\ server \in Servers
      /\ st \in States
  BY DEF Le!Constants, Board, ServerOK, StateOK
<1>2. st.token \in Nat /\ st.sub_id \in Nat /\ st.token <= Len(server.tokens)
  BY <1>1, StateFields DEF StateOK
<1>3. CASE Le!Logout
  <2> DEFINE j == Le!Job("logout", st.token, None, 0, 0)
  <2>1. j \in Requests /\ Truthful(j, server) /\ j.kind = "logout"
    BY <1>1, <1>2, PlainRequest
  <2>2. ~ Le!Submits(j)
    BY <2>1 DEF Le!Submits
  <2>3. /\ jobs' = Le!Start(jobs, j) /\ st' = Le!AuthLost(st)
        /\ UNCHANGED <<login, ask, server, windows>>
    BY <1>3 DEF Le!Logout
  <2> HIDE DEF j
  <2>4. Out(jobs', server) /\ Single(jobs') /\ (Uploading(jobs') <=> Uploading(jobs))
    BY <1>1, <2>1, <2>2, <2>3, Started
  <2>5. /\ st' \in States /\ st'.token = 0 /\ st'.submitting = st.submitting
        /\ st'.sub_id = 0 /\ st'.sub_pending = FALSE
    BY <1>1, <2>3, TokenLost
  <2>6. StateOK(st', server)
    <3>1. 0 <= Len(server.tokens) /\ 0 <= Len(server.subs)
      BY <1>1, ServerFields
    <3> QED
      BY <2>5, <3>1 DEF StateOK
  <2>7. Steps
    BY <1>3, <2>5 DEF Steps
  <2> QED
    BY <2>3, <2>4, <2>5, <2>6, <2>7 DEF Board, WindowOK
<1>4. CASE Le!FocusIn
  <2>1. jobs' = Le!StartList(st, jobs) /\ UNCHANGED <<st, login, ask, server, windows>>
    BY <1>4 DEF Le!FocusIn
  <2>2. Out(jobs', server) /\ Single(jobs') /\ (Uploading(jobs') <=> Uploading(jobs))
    BY <1>1, <2>1, ListStarted
  <2> QED
    BY <2>1, <2>2, TokenStays DEF Board, WindowOK
<1>5. CASE Le!PollTick
  <2> DEFINE j == Le!Job("poll", st.token, None, st.sub_id, 0)
  <2>1. /\ st.sub_pending /\ Len(jobs) < MaxJobs /\ jobs' = Append(jobs, j)
        /\ st' = [st EXCEPT !.polling = TRUE] /\ UNCHANGED <<login, ask, server, windows>>
    BY <1>5 DEF Le!PollTick
  <2>2. st.sub_id \in 1 .. Len(server.subs)
    <3>1. Len(server.subs) \in Nat /\ st.sub_id <= Len(server.subs) /\ st.sub_id # 0
      BY <1>1, <2>1, ServerFields DEF StateOK
    <3> QED
      BY <1>2, <3>1
  <2>3. j \in Requests /\ Truthful(j, server) /\ j.kind = "poll"
    BY <1>1, <1>2, <2>2, PollRequest
  <2>4. ~ Le!Submits(j)
    BY <2>3 DEF Le!Submits
  <2>5. /\ st' \in States /\ st'.token = st.token /\ st'.submitting = st.submitting
        /\ st'.sub_id = st.sub_id /\ st'.sub_pending = st.sub_pending
    BY <1>1, <2>1, PollingSet
  <2> HIDE DEF j
  <2>6. Out(jobs', server)
    BY <1>1, <2>1, <2>3, OneMoreOut
  <2>7. Single(jobs') /\ (Uploading(jobs') <=> Uploading(jobs))
    BY <1>1, <2>1, <2>3, <2>4, OtherOut
  <2>8. StateOK(st', server)
    BY <1>1, <2>5 DEF StateOK
  <2> QED
    BY <2>1, <2>5, <2>6, <2>7, <2>8, TokenStays DEF Board, WindowOK
<1>6. CASE \E f \in Files : Le!Submit(f)
  <2>1. PICK f \in Files : Le!Submit(f)
    BY <1>6
  <2> DEFINE c == Le!StartCheck(st, jobs, f)
  <2>2. /\ ask = None /\ st' = c[1] /\ jobs' = c[2] /\ UNCHANGED <<login, ask, server, windows>>
    BY <2>1 DEF Le!Submit, Le!Free
  <2>3. /\ StateOK(c[1], server) /\ c[1].token = st.token
        /\ Out(c[2], server) /\ Single(c[2]) /\ (c[1].submitting <=> Uploading(c[2]))
    BY <1>1, CheckStarted
  <2> HIDE DEF c
  <2> QED
    BY <2>2, <2>3, TokenStays DEF Board, WindowOK
<1>7. CASE \E yes \in BOOLEAN : Le!Answer(yes)
  <2> DEFINE c == Le!StartSubmit(st, jobs, ask)
  <2>1. /\ ask' = None /\ UNCHANGED <<login, server, windows>>
        /\ (st' = c[1] /\ jobs' = c[2]) \/ UNCHANGED <<st, jobs>>
    BY <1>7 DEF Le!Answer
  <2>2. ask \in Files \cup {None}
    BY DEF Board, WindowOK
  <2>3. /\ StateOK(c[1], server) /\ c[1].token = st.token
        /\ Out(c[2], server) /\ Single(c[2]) /\ (c[1].submitting <=> Uploading(c[2]))
    BY <1>1, <2>2, SubmitStarted
  <2> HIDE DEF c
  <2>4. CASE st' = c[1] /\ jobs' = c[2]
    BY <2>1, <2>3, <2>4, TokenStays DEF Board, WindowOK
  <2>5. CASE UNCHANGED <<st, jobs>>
    BY <2>1, <2>5, TokenStays DEF Board, WindowOK
  <2> QED
    BY <2>1, <2>4, <2>5
<1> QED
  BY <1>3, <1>4, <1>5, <1>6, <1>7

\* An answer put into a request, and the requests as they were otherwise.
LEMMA AnswerPut ==
  ASSUME NEW sv, Out(jobs, sv), Single(jobs), NEW i \in DOMAIN jobs, NEW r \in Answers,
         Le!Reply(i, r),
         \A j \in Requests :
           /\ j.kind = jobs[i].kind /\ j.token = jobs[i].token /\ j.of = jobs[i].of /\ j.r = r
           => Truthful(j, sv)
  PROVE  Out(jobs', sv) /\ Single(jobs') /\ (Uploading(jobs') <=> Uploading(jobs))
<1>1. jobs' = ReplyTo(jobs, i, r) /\ jobs \in Seq(Requests)
  BY DEF Le!Reply, ReplyTo, Out
<1>2. /\ jobs' \in Seq(Requests) /\ Len(jobs') = Len(jobs) /\ DOMAIN jobs' = DOMAIN jobs
      /\ \A k \in DOMAIN jobs : k # i => jobs'[k] = jobs[k]
      /\ jobs'[i].kind = jobs[i].kind /\ jobs'[i].token = jobs[i].token
      /\ jobs'[i].of = jobs[i].of /\ jobs'[i].r = r
  BY <1>1, Replied
<1>3. jobs'[i] \in Requests
  BY <1>2, ElementOfSeq, LenProperties
<1>4. Truthful(jobs'[i], sv)
  BY <1>2, <1>3
<1>5. \A k \in DOMAIN jobs : Truthful(jobs'[k], sv)
  BY <1>2, <1>4 DEF Out
<1>6. Out(jobs', sv)
  BY <1>2, <1>5 DEF Out
<1>7. \A k \in DOMAIN jobs : Le!Submits(jobs'[k]) <=> Le!Submits(jobs[k])
  BY <1>2 DEF Le!Submits
<1> QED
  BY <1>2, <1>6, <1>7 DEF Single, Uploading

\* The server goes on, and the launcher's own stands.
LEMMA ServerGoesOn ==
  ASSUME Board, ServerOK(server'), Later(server, server'), UNCHANGED <<st, login, ask, windows>>,
         Out(jobs', server'), Single(jobs'), Uploading(jobs') <=> Uploading(jobs)
  PROVE  Board' /\ Steps
<1>1. StateOK(st', server')
  <2>1. /\ Len(server.tokens) \in Nat /\ Len(server'.tokens) \in Nat
        /\ Len(server.subs) \in Nat /\ Len(server'.subs) \in Nat
    BY ServerFields DEF Board, ServerOK
  <2>2. st.token \in Nat /\ st.sub_id \in Nat
    BY StateFields DEF Board, StateOK
  <2>3. st'.token <= Len(server'.tokens) /\ st'.sub_id <= Len(server'.subs)
    BY <2>1, <2>2 DEF Board, StateOK, Later
  <2> QED
    BY <2>3 DEF Board, StateOK
<1> QED
  BY <1>1, TokenStays DEF Board, WindowOK

LEMMA SameServer ==
  ASSUME NEW sv \in Servers
  PROVE  Later(sv, sv)
<1>1. Len(sv.tokens) \in Nat /\ Len(sv.subs) \in Nat
  BY ServerFields
<1> QED
  BY <1>1 DEF Later

-----------------------------------------------------------------------------
\* What the server does to its tokens and submissions.
LEMMA Greatest ==
  ASSUME NEW n \in Nat, NEW T \in SUBSET (1 .. n), T # {}
  PROVE  \E x \in T : \A u \in T : u <= x
<1> DEFINE D == {n - u : u \in T}
<1>1. D \in SUBSET Nat /\ D # {}
  <2>1. PICK u : u \in T
    OBVIOUS
  <2>2. n - u \in D
    BY <2>1
  <2> QED
    BY <2>2
<1>2. \A u \in T : n - u \in D
  OBVIOUS
<1>3. \A d \in D : \E u \in T : d = n - u
  OBVIOUS
<1> HIDE DEF D
<1>4. PICK d \in D : \A e \in D : ~ (<<e, d>> \in OpToRel(<, Nat))
  BY <1>1, NatLessThanWellFounded, WFMin
<1>5. \A e \in D : ~ (e < d)
  BY <1>1, <1>4 DEF OpToRel
<1>6. PICK x \in T : d = n - x
  BY <1>3
<1>7. \A u \in T : ~ (n - u < n - x)
  BY <1>2, <1>5, <1>6
<1>8. \A u \in T : u <= x
  BY <1>7
<1> QED
  BY <1>8

LEMMA LatestIsOne ==
  ASSUME server \in Servers, NEW a
  PROVE  Le!Latest(a) \in 0 .. Len(server.subs)
<1> DEFINE own == {i \in DOMAIN server.subs : server.subs[i].account = a}
           n == Len(server.subs)
<1>1. n \in Nat /\ own \in SUBSET (1 .. n)
  BY ServerFields
<1>2. Le!Latest(a) = IF own = {} THEN 0 ELSE CHOOSE i \in own : \A k \in own : k <= i
  BY DEF Le!Latest
<1> HIDE DEF own, n
<1>3. CASE own = {}
  BY <1>1, <1>2, <1>3
<1>4. CASE own # {}
  <2>1. \E i \in own : \A k \in own : k <= i
    BY <1>1, <1>4, Greatest
  <2>2. Le!Latest(a) \in own
    BY <1>2, <1>4, <2>1
  <2>3. \A i \in own : i \in 0 .. n
    BY <1>1
  <2> QED
    BY <2>2, <2>3 DEF n
<1> QED
  BY <1>3, <1>4 DEF n

LEMMA TokenGiven ==
  ASSUME NEW sv \in Servers, NEW a \in Accounts \cup Nat, NEW t,
         t = [sv EXCEPT !.tokens = Append(@, [account |-> a, valid |-> TRUE])]
  PROVE  /\ t \in Servers /\ Later(sv, t) /\ Len(t.tokens) = Len(sv.tokens) + 1
         /\ t.subs = sv.subs
<1> DEFINE g == [account |-> a, valid |-> TRUE]
<1>1. sv.tokens \in Seq(Given) /\ Len(sv.tokens) \in Nat /\ g \in Given
  BY ServerFields DEF Given
<1> HIDE DEF g
<1>2. /\ Append(sv.tokens, g) \in Seq(Given) /\ Len(Append(sv.tokens, g)) = Len(sv.tokens) + 1
      /\ \A k \in 1 .. Len(sv.tokens) : Append(sv.tokens, g)[k] = sv.tokens[k]
  BY <1>1, AppendProperties
<1>3. t = [sv EXCEPT !.tokens = Append(sv.tokens, g)]
  BY DEF g
<1>4. t.tokens = Append(sv.tokens, g) /\ t.subs = sv.subs /\ t \in Servers
  BY <1>2, <1>3 DEF Servers
<1>5. Len(sv.subs) \in Nat
  BY ServerFields
<1> QED
  BY <1>1, <1>2, <1>4, <1>5 DEF Later

LEMMA TokenTaken ==
  ASSUME NEW sv \in Servers, NEW k \in Nat, NEW t,
         t = [sv EXCEPT !.tokens[k].valid = FALSE]
  PROVE  /\ t \in Servers /\ Later(sv, t) /\ Len(t.tokens) = Len(sv.tokens) /\ t.subs = sv.subs
<1> DEFINE n == Len(sv.tokens)
           u == [sv.tokens EXCEPT ![k].valid = FALSE]
<1>1. sv.tokens \in Seq(Given) /\ n \in Nat /\ DOMAIN sv.tokens = 1 .. n
  BY ServerFields
<1>2. \A i \in 1 .. n : sv.tokens[i] \in Given
  BY <1>1, ElementOfSeq
<1>3. t = [sv EXCEPT !.tokens = u]
  OBVIOUS
<1>4. DOMAIN u = 1 .. n /\ \A i \in 1 .. n : u[i] = IF i = k THEN [sv.tokens[i] EXCEPT !.valid = FALSE]
                                                   ELSE sv.tokens[i]
  BY <1>1
<1>5. \A i \in 1 .. n : u[i] \in Given /\ (u[i].valid => sv.tokens[i].valid)
  <2>1. \A g \in Given : [g EXCEPT !.valid = FALSE] \in Given /\ ~ [g EXCEPT !.valid = FALSE].valid
    BY DEF Given
  <2> HIDE DEF u, n
  <2> QED
    BY <1>2, <1>4, <2>1
<1>6. u \in Seq(Given) /\ Len(u) = n
  <2>1. u = [i \in 1 .. n |-> u[i]]
    BY <1>4
  <2> HIDE DEF u, n
  <2> QED
    BY <1>1, <1>5, <2>1
<1> HIDE DEF u
<1>7. t.tokens = u /\ t.subs = sv.subs /\ t \in Servers
  BY <1>3, <1>6 DEF Servers
<1>8. Len(sv.subs) \in Nat
  BY ServerFields
<1> QED
  BY <1>1, <1>5, <1>6, <1>7, <1>8 DEF Later

LEMMA SubmissionSent ==
  ASSUME NEW sv \in Servers, NEW g \in Sent, NEW t, t = [sv EXCEPT !.subs = Append(@, g)]
  PROVE  /\ t \in Servers /\ Later(sv, t) /\ t.tokens = sv.tokens
         /\ Len(t.subs) = Len(sv.subs) + 1
<1>1. sv.subs \in Seq(Sent) /\ Len(sv.subs) \in Nat /\ Len(sv.tokens) \in Nat
  BY ServerFields
<1>2. Append(sv.subs, g) \in Seq(Sent) /\ Len(Append(sv.subs, g)) = Len(sv.subs) + 1
  BY <1>1, AppendProperties
<1>3. t.subs = Append(sv.subs, g) /\ t.tokens = sv.tokens /\ t \in Servers
  BY <1>2 DEF Servers
<1> QED
  BY <1>1, <1>2, <1>3 DEF Later

LEMMA SubmissionDone ==
  ASSUME NEW sv \in Servers, NEW k, NEW t, t = [sv EXCEPT !.subs[k].done = TRUE]
  PROVE  /\ t \in Servers /\ Later(sv, t) /\ t.tokens = sv.tokens
<1> DEFINE n == Len(sv.subs)
           u == [sv.subs EXCEPT ![k].done = TRUE]
<1>1. sv.subs \in Seq(Sent) /\ n \in Nat /\ DOMAIN sv.subs = 1 .. n
  BY ServerFields
<1>2. \A i \in 1 .. n : sv.subs[i] \in Sent
  BY <1>1, ElementOfSeq
<1>3. t = [sv EXCEPT !.subs = u]
  OBVIOUS
<1>4. DOMAIN u = 1 .. n /\ \A i \in 1 .. n : u[i] = IF i = k THEN [sv.subs[i] EXCEPT !.done = TRUE]
                                                   ELSE sv.subs[i]
  BY <1>1
<1>5. \A i \in 1 .. n : u[i] \in Sent
  <2>1. \A g \in Sent : [g EXCEPT !.done = TRUE] \in Sent
    BY DEF Sent
  <2> HIDE DEF u, n
  <2> QED
    BY <1>2, <1>4, <2>1
<1>6. u \in Seq(Sent) /\ Len(u) = n
  <2>1. u = [i \in 1 .. n |-> u[i]]
    BY <1>4
  <2> HIDE DEF u, n
  <2> QED
    BY <1>1, <1>5, <2>1
<1> HIDE DEF u
<1>7. t.subs = u /\ t.tokens = sv.tokens /\ t \in Servers
  BY <1>3, <1>6 DEF Servers
<1>8. Len(sv.tokens) \in Nat
  BY ServerFields
<1> QED
  BY <1>1, <1>6, <1>7, <1>8 DEF Later

LEMMA PasswordSteps ==
  ASSUME Board, NEW a, Le!PasswordChanged(a)
  PROVE  Board' /\ Steps
<1> DEFINE n == Len(server.tokens)
           u == [t \in DOMAIN server.tokens |->
                   [server.tokens[t] EXCEPT !.valid = @ /\ Le!Owner(t) # a]]
<1>0. server \in Servers /\ Out(jobs, server) /\ Single(jobs) /\ Len(server.tokens) <= MaxLogins
  BY DEF Board, ServerOK
<1>1. server.tokens \in Seq(Given) /\ n \in Nat /\ DOMAIN server.tokens = 1 .. n
  BY <1>0, ServerFields
<1>2. \A i \in 1 .. n : server.tokens[i] \in Given
  BY <1>1, ElementOfSeq
<1>3. server' = [server EXCEPT !.tokens = u] /\ UNCHANGED <<st, login, ask, jobs, windows>>
  BY DEF Le!PasswordChanged
<1>4. DOMAIN u = 1 .. n
      /\ \A i \in 1 .. n : u[i] = [server.tokens[i] EXCEPT !.valid = @ /\ Le!Owner(i) # a]
  BY <1>1
<1>5. \A i \in 1 .. n : u[i] \in Given /\ (u[i].valid => server.tokens[i].valid)
  <2> SUFFICES ASSUME NEW i \in 1 .. n
               PROVE  u[i] \in Given /\ (u[i].valid => server.tokens[i].valid)
    OBVIOUS
  <2> DEFINE b == server.tokens[i].valid /\ Le!Owner(i) # a
  <2>1. u[i] = [server.tokens[i] EXCEPT !.valid = b] /\ b \in BOOLEAN
    BY <1>4
  <2>2. b => server.tokens[i].valid
    OBVIOUS
  <2> HIDE DEF b, u
  <2>3. u[i] \in Given /\ u[i].valid = b
    BY <1>2, <2>1 DEF Given
  <2> QED
    BY <2>2, <2>3
<1>6. u \in Seq(Given) /\ Len(u) = n
  <2>1. u = [i \in 1 .. n |-> u[i]]
    BY <1>4
  <2> HIDE DEF u, n
  <2> QED
    BY <1>1, <1>5, <2>1
<1> HIDE DEF u
<1>7. server'.tokens = u /\ server'.subs = server.subs /\ server' \in Servers
  BY <1>0, <1>3, <1>6 DEF Servers
<1>8. Len(server.subs) \in Nat
  BY <1>0, ServerFields
<1>9. Later(server, server') /\ ServerOK(server')
  BY <1>0, <1>1, <1>5, <1>6, <1>7, <1>8 DEF Later, ServerOK
<1>10. Out(jobs', server') /\ Single(jobs') /\ (Uploading(jobs') <=> Uploading(jobs))
  BY <1>0, <1>3, <1>7, <1>9, StillOut
<1> QED
  BY <1>3, <1>9, <1>10, ServerGoesOn

\* The submission polled, or the latest, as the server tells of it.
LEMMA StatusSays ==
  ASSUME server \in Servers, NEW id \in 0 .. Len(server.subs), NEW r, r = Le!Status(id)
  PROVE  /\ r \in Answers /\ r.status = 200 /\ r.token = 0 /\ r.id = id /\ (r.pending => id # 0)
<1> DEFINE b == id # 0 /\ ~server.subs[id].done
<1>1. r = Tell(200, id, b) /\ b \in BOOLEAN
  BY DEF Le!Status, Tell
<1>2. b => id # 0
  OBVIOUS
<1> HIDE DEF b
<1>3. id \in Nat /\ 200 \in Nat
  BY ServerFields
<1>4. /\ r \in Answers /\ r.status = 200 /\ r.id = id /\ (r.pending => b) /\ r.token = 0
  BY <1>1, <1>3, AnswerTold
<1> QED
  BY <1>2, <1>4

\* An answer says the truth wherever what it names is there.
Fits(r, old, sv) ==
  /\ r \in Answers /\ r.token <= Len(sv.tokens) /\ r.id <= Len(sv.subs)
  /\ r.pending => r.id # 0
  /\ r.status = 401 => ~ Taken(sv, old.token)
  /\ old.kind = "login" /\ r.status = 200 => r.token # 0

LEMMA AnswerSteps ==
  ASSUME Board, NEW i \in DOMAIN jobs, UNCHANGED <<st, login, ask, windows>>,
         ServerOK(server'), Later(server, server'), NEW r, Le!Reply(i, r),
         Fits(r, jobs[i], server')
  PROVE  Board' /\ Steps
<1>1. /\ server \in Servers /\ server' \in Servers /\ Out(jobs, server) /\ Single(jobs)
  BY DEF Board, ServerOK
<1>2. Out(jobs, server')
  BY <1>1, StillOut
<1>3. jobs[i] \in Requests /\ Truthful(jobs[i], server')
  BY <1>2, ElementOfSeq, LenProperties DEF Out
<1>4. ASSUME NEW q \in Requests, q.kind = jobs[i].kind, q.token = jobs[i].token,
             q.of = jobs[i].of, q.r = r
      PROVE  Truthful(q, server')
  BY <1>3, <1>4 DEF Fits, Truthful
<1>5. r \in Answers
  BY DEF Fits
<1>6. Out(jobs', server') /\ Single(jobs') /\ (Uploading(jobs') <=> Uploading(jobs))
  BY <1>1, <1>2, <1>4, <1>5, AnswerPut
<1> QED
  BY <1>6, ServerGoesOn

LEMMA ServeSteps ==
  ASSUME Le!Constants, Board, NEW i, Le!Serve(i)
  PROVE  Board' /\ Steps
<1> DEFINE j == jobs[i]
<1>0. /\ i \in DOMAIN jobs /\ UNCHANGED <<st, login, ask, windows>>
      /\ Le!ServeLogin(i, j) \/ (j.kind # "login" /\ Le!ServeOther(i, j))
  BY DEF Le!Serve
<1>1. /\ server \in Servers /\ Out(jobs, server) /\ Single(jobs) /\ ServerOK(server)
      /\ Len(server.tokens) <= MaxLogins /\ MaxLogins \in Nat
  BY DEF Board, ServerOK, Le!Constants
<1>2. j \in Requests /\ Truthful(j, server)
  BY <1>0, <1>1, ElementOfSeq, LenProperties DEF Out
<1>5. ASSUME ServerOK(server'), Later(server, server'), NEW r, Le!Reply(i, r), Fits(r, j, server')
      PROVE  Board' /\ Steps
  BY <1>0, <1>5, AnswerSteps
<1> HIDE DEF j
<1>3. /\ j.kind \in Kinds /\ j.token \in Nat /\ j.file \in Files \cup {None}
      /\ j.of \in Accounts \cup Nat
      /\ Len(server.tokens) \in Nat /\ Len(server.subs) \in Nat
  BY <1>1, <1>2, RequestFields, ServerFields
<1>4. /\ j.token <= Len(server.tokens)
      /\ j.kind = "poll" => j.of \in 1 .. Len(server.subs)
  BY <1>2 DEF Truthful
<1>6. Later(server, server) /\ 200 \in Nat /\ 401 \in Nat /\ 202 \in Nat /\ 404 \in Nat /\ 0 \in Nat
  BY <1>1, SameServer
<1>7. /\ Le!NoAnswer \in Answers /\ Le!NoAnswer.status = 0 /\ Le!NoAnswer.id = 0
      /\ ~ Le!NoAnswer.pending /\ Le!NoAnswer.token = 0
  BY AnswersMade
<1>11. ASSUME NEW sv \in Servers, NEW r \in Answers, ~ r.pending, r.token = 0, r.id = 0,
             r.status # 401, j.kind = "login" => r.status # 200
      PROVE  Fits(r, j, sv)
  <2>1. 0 <= Len(sv.tokens) /\ 0 <= Len(sv.subs)
    BY ServerFields
  <2> QED
    BY <1>11, <2>1 DEF Fits
<1>8. CASE UNCHANGED server /\ Le!Reply(i, Le!NoAnswer)
  <2>1. Le!NoAnswer.status # 401 /\ Le!NoAnswer.status # 200
    BY <1>7
  <2>2. Fits(Le!NoAnswer, j, server)
    BY <1>1, <1>7, <1>11, <2>1
  <2> QED
    BY <1>1, <1>5, <1>6, <1>8, <2>2
<1>9. CASE /\ j.kind = "login" /\ Len(server.tokens) < MaxLogins
           /\ server' = [server EXCEPT !.tokens = Append(@, [account |-> j.of, valid |-> TRUE])]
           /\ Le!Reply(i, [Le!NoAnswer EXCEPT !.status = 200, !.token = Len(server.tokens) + 1])
  <2> DEFINE n == Len(server.tokens) + 1
             r == Give(200, n)
  <2>1. n \in Nat /\ n # 0 /\ n <= MaxLogins /\ n = Len(server.tokens) + 1
    BY <1>1, <1>3, <1>9
  <2>2. r \in Answers /\ r.status = 200 /\ r.id = 0 /\ ~ r.pending /\ r.token = n
    BY <1>6, <2>1, AnswerToken
  <2>3. /\ server' \in Servers /\ Later(server, server') /\ Len(server'.tokens) = n
        /\ server'.subs = server.subs
    BY <1>1, <1>3, <1>9, <2>1, TokenGiven
  <2> HIDE DEF n, r
  <2>4. n <= n /\ 0 <= Len(server'.subs)
    BY <1>3, <2>1, <2>3
  <2>5. Le!Reply(i, r)
    BY <1>9 DEF r, n, Give
  <2>6. Fits(r, j, server') /\ ServerOK(server')
    BY <2>1, <2>2, <2>3, <2>4 DEF Fits, ServerOK
  <2> QED
    BY <1>5, <2>3, <2>5, <2>6
<1>10. CASE j.kind # "login" /\ Le!ServeOther(i, j)
  <2>1. CASE j.kind = "logout"
    <3>1. server' = [server EXCEPT !.tokens[j.token].valid = FALSE] /\ Le!Reply(i, Le!NoAnswer)
      BY <1>10, <2>1 DEF Le!ServeOther
    <3>2. /\ server' \in Servers /\ Later(server, server')
          /\ Len(server'.tokens) = Len(server.tokens) /\ server'.subs = server.subs
      BY <1>1, <1>3, <3>1, TokenTaken
    <3>3. Le!NoAnswer.status # 401 /\ Le!NoAnswer.status # 200
      BY <1>7
    <3>4. Fits(Le!NoAnswer, j, server') /\ ServerOK(server')
      BY <1>1, <1>7, <1>11, <3>2, <3>3 DEF ServerOK
    <3> QED
      BY <1>5, <3>1, <3>2, <3>4
  <2>2. CASE j.kind # "logout" /\ ~ Le!Counts(j.token)
    <3> DEFINE r == Say(401)
    <3>1. UNCHANGED server /\ Le!Reply(i, r)
      BY <1>10, <2>2 DEF Le!ServeOther, Say
    <3>2. r \in Answers /\ r.status = 401 /\ r.id = 0 /\ ~ r.pending /\ r.token = 0
      BY <1>6, AnswerStatus
    <3>3. ~ Taken(server, j.token)
      BY <2>2 DEF Taken, Le!Counts, Le!NoToken
    <3>4. 0 <= Len(server.tokens) /\ 0 <= Len(server.subs)
      BY <1>3
    <3> HIDE DEF r
    <3>5. Fits(r, j, server)
      BY <1>10, <3>2, <3>3, <3>4 DEF Fits
    <3> QED
      BY <1>1, <1>5, <1>6, <3>1, <3>5
  <2>3. CASE j.kind # "logout" /\ Le!Counts(j.token)
    <3> DEFINE a == Le!Owner(j.token)
               same == {k \in DOMAIN server.subs :
                          server.subs[k].file = j.file /\ server.subs[k].account = a}
    <3>1. ASSUME UNCHANGED server, NEW id \in 0 .. Len(server.subs), Le!Reply(i, Le!Status(id))
          PROVE  Board' /\ Steps
      <4> DEFINE r == Le!Status(id)
      <4>1. r \in Answers /\ r.status = 200 /\ r.token = 0 /\ r.id = id /\ (r.pending => id # 0)
        BY <1>1, StatusSays
      <4>2. 0 <= Len(server.tokens) /\ id <= Len(server.subs)
        BY <1>3
      <4> HIDE DEF r
      <4> QED
        <5>1. Fits(r, j, server)
          BY <1>10, <4>1, <4>2 DEF Fits
        <5> QED
          BY <1>1, <1>5, <1>6, <3>1, <5>1 DEF r
    <3>2. ASSUME UNCHANGED server, NEW b \in BOOLEAN, NEW m \in {200, 404}, NEW r,
                 r = Rate(m, b) \/ r = Say(m),
                 Le!Reply(i, r)
          PROVE  Board' /\ Steps
      <4>1. r \in Answers /\ r.status = m /\ r.id = 0 /\ ~ r.pending /\ r.token = 0
        <5>1. m \in Nat
          OBVIOUS
        <5>2. CASE r = Rate(m, b)
          BY <5>1, <5>2, AnswerBeats
        <5>3. CASE r = Say(m)
          BY <5>1, <5>3, AnswerStatus
        <5> QED
          BY <3>2, <5>2, <5>3
      <4>2. r.status # 401 /\ (j.kind = "login" => r.status # 200)
        BY <1>10, <4>1
      <4>3. Fits(r, j, server)
        BY <1>1, <1>11, <4>1, <4>2
      <4> QED
        BY <1>1, <1>5, <1>6, <3>2, <4>3
    <3>3. CASE /\ j.kind = "me" /\ UNCHANGED server
               /\ \E b \in BOOLEAN : Le!Reply(i, [Le!NoAnswer EXCEPT !.status = 200, !.beats = b])
      BY <3>2, <3>3 DEF Rate
    <3>4. CASE /\ server' = [server EXCEPT !.subs =
                               Append(@, [file |-> j.file, account |-> a, done |-> FALSE])]
               /\ Le!Reply(i, [Le!NoAnswer EXCEPT !.status = 202, !.id = Len(server.subs) + 1,
                                                  !.pending = TRUE])
      <4> DEFINE g == [file |-> j.file, account |-> a, done |-> FALSE]
                 n == Len(server.subs) + 1
                 r == Tell(202, n, TRUE)
      <4>1. a \in Accounts \cup Nat
        <5>1. j.token \in 1 .. Len(server.tokens)
          <6>1. j.token # 0
            BY <2>3 DEF Le!Counts, Le!NoToken
          <6> QED
            BY <1>3, <1>4, <6>1
        <5>2. server.tokens \in Seq(Given)
          BY <1>1, ServerFields
        <5>3. server.tokens[j.token] \in Given
          BY <5>1, <5>2, ElementOfSeq
        <5> QED
          BY <5>3 DEF Given, Le!Owner
      <4> HIDE DEF a
      <4>2. g \in Sent
        BY <1>3, <4>1 DEF Sent
      <4>3. server' = [server EXCEPT !.subs = Append(@, g)] /\ Le!Reply(i, r)
        BY <3>4 DEF a, Tell
      <4>4. n \in Nat /\ n # 0 /\ TRUE \in BOOLEAN
        BY <1>3
      <4>5. r \in Answers /\ r.status = 202 /\ r.id = n /\ r.token = 0
        <5> HIDE DEF n
        <5>1. \A b \in BOOLEAN : /\ Tell(202, n, b) \in Answers /\ Tell(202, n, b).status = 202
                                /\ Tell(202, n, b).id = n /\ Tell(202, n, b).token = 0
          BY <1>6, <4>4, AnswerTold
        <5> QED
          BY <4>4, <5>1
      <4> HIDE DEF g, r
      <4>6. /\ server' \in Servers /\ Later(server, server') /\ server'.tokens = server.tokens
            /\ Len(server'.subs) = n
        BY <1>1, <4>2, <4>3, SubmissionSent
      <4>7. 0 <= Len(server'.tokens) /\ n <= Len(server'.subs) /\ Len(server'.tokens) <= MaxLogins
        BY <1>1, <1>3, <4>4, <4>6
      <4> HIDE DEF n
      <4>8. Fits(r, j, server') /\ ServerOK(server')
        BY <1>10, <4>4, <4>5, <4>6, <4>7 DEF Fits, ServerOK
      <4> QED
        BY <1>5, <4>3, <4>6, <4>8
    <3>5. CASE UNCHANGED server /\ \E k \in same : Le!Reply(i, Le!Status(k))
      <4>1. same \subseteq 0 .. Len(server.subs)
        BY <1>1, <1>3, ServerFields
      <4> HIDE DEF same
      <4> QED
        BY <3>1, <3>5, <4>1
    <3>6. CASE /\ j.kind = "poll" /\ UNCHANGED server
               /\ IF server.subs[j.of].account = a THEN Le!Reply(i, Le!Status(j.of))
                  ELSE Le!Reply(i, [Le!NoAnswer EXCEPT !.status = 404])
      <4>1. j.of \in 0 .. Len(server.subs)
        <5>1. j.of \in 1 .. Len(server.subs)
          BY <1>4, <3>6
        <5> QED
          BY <1>3, <5>1
      <4> QED
        BY <3>1, <3>2, <3>6, <4>1 DEF Say
    <3>7. CASE j.kind = "list" /\ UNCHANGED server /\ Le!Reply(i, Le!Status(Le!Latest(a)))
      <4>1. Le!Latest(a) \in 0 .. Len(server.subs)
        BY <1>1, LatestIsOne
      <4> QED
        BY <3>1, <3>7, <4>1
    <3> QED
      BY <1>10, <2>3, <3>3, <3>4, <3>5, <3>6, <3>7 DEF Le!ServeOther
  <2> QED
    BY <2>1, <2>2, <2>3
<1> QED
  BY <1>0, <1>8, <1>9, <1>10 DEF Le!ServeLogin

LEMMA LostAndVerified ==
  ASSUME Board, (\E i \in DOMAIN jobs : Le!Lost(i)) \/ (\E k \in DOMAIN server.subs : Le!Verified(k))
  PROVE  Board' /\ Steps
<1>1. server \in Servers /\ Out(jobs, server) /\ Single(jobs) /\ ServerOK(server)
  BY DEF Board, ServerOK
<1>2. CASE \E i \in DOMAIN jobs : Le!Lost(i)
  <2>1. PICK i \in DOMAIN jobs : Le!Lost(i)
    BY <1>2
  <2>2. Le!Reply(i, Le!NoAnswer) /\ UNCHANGED <<st, login, ask, server, windows>>
    BY <2>1 DEF Le!Lost
  <2>3. jobs[i] \in Requests /\ Truthful(jobs[i], server)
    BY <1>1, <2>1, ElementOfSeq, LenProperties DEF Out
  <2>4. /\ Le!NoAnswer \in Answers /\ Le!NoAnswer.status = 0 /\ Le!NoAnswer.id = 0
        /\ ~ Le!NoAnswer.pending /\ Le!NoAnswer.token = 0
    BY AnswersMade
  <2>5. 0 <= Len(server.tokens) /\ 0 <= Len(server.subs)
    BY <1>1, ServerFields
  <2>6. \A q \in Requests :
          /\ q.kind = jobs[i].kind /\ q.token = jobs[i].token /\ q.of = jobs[i].of
          /\ q.r = Le!NoAnswer
          => Truthful(q, server)
    BY <2>3, <2>4, <2>5 DEF Truthful
  <2>7. Out(jobs', server) /\ Single(jobs') /\ (Uploading(jobs') <=> Uploading(jobs))
    BY <1>1, <2>1, <2>2, <2>4, <2>6, AnswerPut
  <2> QED
    BY <1>1, <2>2, <2>7, ServerGoesOn, SameServer
<1>3. CASE \E k \in DOMAIN server.subs : Le!Verified(k)
  <2>1. PICK k \in DOMAIN server.subs : Le!Verified(k)
    BY <1>3
  <2>2. /\ server' = [server EXCEPT !.subs[k].done = TRUE]
        /\ UNCHANGED <<st, login, ask, jobs, windows>>
    BY <2>1 DEF Le!Verified
  <2>3. server' \in Servers /\ Later(server, server') /\ server'.tokens = server.tokens
    BY <1>1, <2>2, SubmissionDone
  <2>4. Out(jobs', server') /\ ServerOK(server')
    BY <1>1, <2>2, <2>3, StillOut DEF ServerOK
  <2> QED
    BY <1>1, <2>2, <2>3, <2>4, ServerGoesOn
<1> QED
  BY <1>2, <1>3

\* What is still out when an answer has come.
LEMMA LeftOut ==
  ASSUME NEW sv, Out(jobs, sv), Single(jobs), MaxJobs \in Nat, NEW i \in DOMAIN jobs
  PROVE  /\ Out(Le!Without(i), sv) /\ Single(Le!Without(i))
         /\ ~ Le!Submits(jobs[i]) => (Uploading(Le!Without(i)) <=> Uploading(jobs))
         /\ Le!Submits(jobs[i]) => ~ Uploading(Le!Without(i))
<1> DEFINE w == Le!Without(i)
           Old(k) == IF k < i THEN k ELSE k + 1
           New(h) == IF h < i THEN h ELSE h - 1
<1>1. /\ Out(w, sv)
      /\ \A k \in DOMAIN w : Old(k) \in DOMAIN jobs \ {i} /\ w[k] = jobs[Old(k)]
      /\ \A h \in DOMAIN jobs \ {i} : New(h) \in DOMAIN w /\ w[New(h)] = jobs[h]
  BY TakenOut
<1>2. /\ DOMAIN jobs \in SUBSET Int /\ DOMAIN w \in SUBSET Int
  BY <1>1, LenProperties DEF Out
<1> HIDE DEF w
<1>3. \A k, l \in DOMAIN w : Old(k) = Old(l) => k = l
  <2>1. \A k, l, n \in Int : (IF k < n THEN k ELSE k + 1) = (IF l < n THEN l ELSE l + 1) => k = l
    OBVIOUS
  <2> QED
    BY <1>2, <2>1
<1> HIDE DEF Old, New
<1>4. Single(w)
  BY <1>1, <1>3 DEF Single
<1>5. ASSUME ~ Le!Submits(jobs[i]) PROVE Uploading(w) <=> Uploading(jobs)
  <2>1. Uploading(w) => Uploading(jobs)
    BY <1>1 DEF Uploading
  <2>2. \A h \in DOMAIN jobs : Le!Submits(jobs[h]) => h # i
    BY <1>5
  <2>3. Uploading(jobs) => Uploading(w)
    BY <1>1, <2>2 DEF Uploading
  <2> QED
    BY <2>1, <2>3
<1>6. Le!Submits(jobs[i]) => ~ Uploading(w)
  BY <1>1 DEF Uploading, Single
<1> QED
  BY <1>1, <1>4, <1>5, <1>6 DEF w

LEMMA DeliverSteps ==
  ASSUME Le!Constants, Board, NEW i, Le!Deliver(i)
  PROVE  Board' /\ Steps
<1> DEFINE j == jobs[i]
           w == Le!Without(i)
<1>0. /\ i \in DOMAIN jobs /\ UNCHANGED <<server, windows>>
      /\ \/ Le!MeDone(j, i)
         \/ /\ jobs' = w
            /\ \/ Le!LoginDone(j) \/ Le!Refused(j) \/ Le!SubmitDone(j) \/ Le!PollDone(j)
               \/ Le!ListDone(j)
               \/ j.kind = "logout" /\ UNCHANGED <<st, login, ask>>
  BY DEF Le!Deliver
<1>1. /\ server \in Servers /\ Out(jobs, server) /\ Single(jobs) /\ ServerOK(server)
      /\ st \in States /\ StateOK(st, server) /\ (st.submitting <=> Uploading(jobs))
      /\ (ask # None => ~ Uploading(jobs)) /\ MaxJobs \in Nat
  BY DEF Board, ServerOK, StateOK, Le!Constants
<1>2. j \in Requests /\ Truthful(j, server)
  BY <1>0, <1>1, ElementOfSeq, LenProperties DEF Out
<1>3. /\ Out(w, server) /\ Single(w)
      /\ ~ Le!Submits(j) => (Uploading(w) <=> Uploading(jobs))
      /\ Le!Submits(j) => ~ Uploading(w)
  BY <1>0, <1>1, LeftOut
<1>4. Le!Submits(j) => Uploading(jobs)
  BY <1>0 DEF Uploading
<1>5. CASE jobs' = w /\ Le!LoginDone(j)
  <2>1. j.kind = "login" /\ UNCHANGED ask
    BY <1>5 DEF Le!LoginDone
  <2>2. ~ Le!Submits(j)
    BY <2>1 DEF Le!Submits
  <2>3. CASE st' = [st EXCEPT !.token = j.r.token] /\ login' = [login EXCEPT !.ok = TRUE]
             /\ Le!ItsWindow(j) /\ j.r.status = 200
    <3> DEFINE n == j.r.token
    <3>1. n \in Nat /\ n # 0 /\ n <= Len(server.tokens)
      BY <1>2, <2>1, <2>3, RequestFields DEF Truthful
    <3>2. st' = [st EXCEPT !.token = n]
      BY <2>3
    <3>3. i \in DOMAIN jobs /\ jobs[i].kind = "login" /\ jobs[i].gen = login.gen
          /\ jobs[i].r.token = n
      BY <1>0, <2>1, <2>3 DEF Le!ItsWindow
    <3> HIDE DEF n
    <3>4. /\ st' \in States /\ st'.token = n /\ st'.submitting = st.submitting
          /\ st'.sub_id = st.sub_id /\ st'.sub_pending = st.sub_pending
      BY <1>1, <3>1, <3>2, TokenSet
    <3>5. StateOK(st', server)
      BY <1>1, <3>1, <3>4 DEF StateOK
    <3>6. WindowOK'
      BY <1>0, <2>1, <2>3 DEF Board, WindowOK
    <3>7. Steps
      BY <3>1, <3>3, <3>4 DEF Steps
    <3> HIDE DEF j, w
    <3> QED
      BY <1>0, <1>1, <1>3, <1>5, <2>1, <2>2, <3>4, <3>5, <3>6, <3>7 DEF Board
  <2>4. CASE UNCHANGED st /\ login' \in {login, [login EXCEPT !.busy = FALSE]}
    <3>1. WindowOK'
      BY <1>0, <2>1, <2>4 DEF Board, WindowOK
    <3> HIDE DEF j, w
    <3> QED
      BY <1>0, <1>1, <1>3, <1>5, <2>1, <2>2, <2>4, <3>1, TokenStays DEF Board
  <2> QED
    BY <1>5, <2>3, <2>4 DEF Le!LoginDone
<1> HIDE DEF w
<1>6. CASE jobs' = w /\ Le!Refused(j)
  <2> DEFINE c == Le!Cleared(st, j)
  <2>1. /\ j.r.status = 401 /\ UNCHANGED <<login, ask>>
        /\ \/ st' = Le!AuthLost(c) /\ j.token = st.token
           \/ st' = c
    BY <1>6 DEF Le!Refused, Le!OwnToken
  <2>2. /\ c \in States /\ c.token = st.token /\ c.submitting = (st.submitting /\ ~ Le!Submits(j))
        /\ c.sub_id = st.sub_id /\ c.sub_pending = st.sub_pending
    BY <1>1, FlagsCleared
  <2> HIDE DEF c, j
  <2>3. c.submitting <=> Uploading(w)
    BY <1>1, <1>3, <1>4, <2>2
  <2>4. ask # None => ~ Uploading(w)
    BY <1>1, <1>3
  <2>5. CASE st' = c
    <3>1. StateOK(st', server)
      BY <1>1, <2>2, <2>5 DEF StateOK
    <3> QED
      BY <1>0, <1>1, <1>3, <1>6, <2>1, <2>2, <2>3, <2>4, <2>5, <3>1, TokenStays DEF Board, WindowOK
  <2>6. CASE st' = Le!AuthLost(c) /\ j.token = st.token
    <3>1. /\ st' \in States /\ st'.token = 0 /\ st'.submitting = c.submitting
          /\ st'.sub_id = 0 /\ st'.sub_pending = FALSE
      BY <2>2, <2>6, TokenLost
    <3>2. StateOK(st', server)
      <4>1. 0 <= Len(server.tokens) /\ 0 <= Len(server.subs)
        BY <1>1, ServerFields
      <4> QED
        BY <3>1, <4>1 DEF StateOK
    <3>3. ~ Taken(server, st.token)
      BY <1>2, <2>1, <2>6 DEF Truthful
    <3>4. Steps
      BY <3>1, <3>3 DEF Steps
    <3> QED
      BY <1>0, <1>1, <1>3, <1>6, <2>1, <2>3, <2>4, <3>1, <3>2, <3>4 DEF Board, WindowOK
  <2> QED
    BY <2>1, <2>5, <2>6
\* The answers that move the status line.
<1>7. ASSUME NEW s \in States, s.token = st.token, s.sub_id = st.sub_id,
             s.sub_pending = st.sub_pending, s.submitting <=> Uploading(w),
             jobs' = w, UNCHANGED <<login, ask>>,
             \/ st' = s \/ st' = Le!Follow(s, 0, FALSE)
             \/ st' = Le!Follow(s, j.r.id, j.r.pending)
      PROVE  Board' /\ Steps
  <2>1. /\ j.r.id \in Nat /\ j.r.pending \in BOOLEAN /\ j.r.id <= Len(server.subs)
        /\ (j.r.pending => j.r.id # 0)
    BY <1>2, RequestFields DEF Truthful
  <2> HIDE DEF j
  <2>2. 0 <= Len(server.subs) /\ st.sub_id <= Len(server.subs) /\ (st.sub_pending => st.sub_id # 0)
        /\ st.token <= Len(server.tokens)
    BY <1>1, ServerFields DEF StateOK
  <2>3. /\ st' \in States /\ st'.token = st.token /\ st'.submitting = s.submitting
        /\ st'.sub_id <= Len(server.subs) /\ (st'.sub_pending => st'.sub_id # 0)
    <3>1. CASE st' = s
      BY <1>7, <2>2, <3>1
    <3>2. CASE st' = Le!Follow(s, 0, FALSE)
      <4>1. 0 \in Nat /\ FALSE \in BOOLEAN
        OBVIOUS
      <4>2. /\ st' \in States /\ st'.token = s.token /\ st'.submitting = s.submitting
            /\ st'.sub_id = 0 /\ ~ st'.sub_pending
        <5>1. \A b \in BOOLEAN :
                /\ Le!Follow(s, 0, b) \in States /\ Le!Follow(s, 0, b).token = s.token
                /\ Le!Follow(s, 0, b).submitting = s.submitting
                /\ Le!Follow(s, 0, b).sub_id = 0 /\ (Le!Follow(s, 0, b).sub_pending <=> b)
          BY <4>1, Followed
        <5> QED
          BY <3>2, <4>1, <5>1
      <4> QED
        BY <1>7, <2>2, <4>2
    <3>3. CASE st' = Le!Follow(s, j.r.id, j.r.pending)
      <4>1. /\ st' \in States /\ st'.token = s.token /\ st'.submitting = s.submitting
            /\ st'.sub_id = j.r.id /\ st'.sub_pending = j.r.pending
        BY <1>7, <2>1, <3>3, Followed
      <4> QED
        BY <1>7, <2>1, <4>1
    <3> QED
      BY <1>7, <3>1, <3>2, <3>3
  <2>4. StateOK(st', server)
    BY <2>2, <2>3 DEF StateOK
  <2>5. ask # None => ~ Uploading(w)
    BY <1>1, <1>3
  <2> QED
    BY <1>0, <1>1, <1>3, <1>7, <2>3, <2>4, <2>5, TokenStays DEF Board, WindowOK
<1>8. CASE jobs' = w /\ Le!SubmitDone(j)
  <2> DEFINE s == [st EXCEPT !.submitting = FALSE]
  <2>1. /\ j.kind = "submit" /\ UNCHANGED <<login, ask>>
        /\ st' = s \/ st' = Le!Follow(s, j.r.id, j.r.pending)
    BY <1>8 DEF Le!SubmitDone
  <2>2. Le!Submits(j)
    BY <2>1 DEF Le!Submits
  <2>3. /\ s \in States /\ s.token = st.token /\ ~ s.submitting /\ s.sub_id = st.sub_id
        /\ s.sub_pending = st.sub_pending
    BY <1>1, SubmittingSet
  <2> HIDE DEF s, j
  <2> QED
    BY <1>3, <1>7, <1>8, <2>1, <2>2, <2>3
<1>9. CASE jobs' = w /\ Le!PollDone(j)
  <2> DEFINE s == [st EXCEPT !.polling = FALSE]
  <2>1. /\ j.kind = "poll" /\ UNCHANGED <<login, ask>>
        /\ \/ st' = s \/ st' = Le!Follow(s, 0, FALSE)
           \/ st' = Le!Follow(s, j.r.id, j.r.pending)
    BY <1>9 DEF Le!PollDone
  <2>2. ~ Le!Submits(j)
    BY <2>1 DEF Le!Submits
  <2>3. /\ s \in States /\ s.token = st.token /\ s.submitting = st.submitting
        /\ s.sub_id = st.sub_id /\ s.sub_pending = st.sub_pending
    BY <1>1, PollingSet
  <2> HIDE DEF s, j
  <2> QED
    BY <1>1, <1>3, <1>7, <1>9, <2>1, <2>2, <2>3
<1>10. CASE jobs' = w /\ Le!ListDone(j)
  <2>1. /\ j.kind = "list" /\ UNCHANGED <<login, ask>>
        /\ st' = st \/ st' = Le!Follow(st, j.r.id, j.r.pending)
    BY <1>10 DEF Le!ListDone
  <2>2. ~ Le!Submits(j)
    BY <2>1 DEF Le!Submits
  <2> HIDE DEF j
  <2> QED
    BY <1>1, <1>3, <1>7, <1>10, <2>1, <2>2
<1>11. CASE jobs' = w /\ j.kind = "logout" /\ UNCHANGED <<st, login, ask>>
  <2>1. ~ Le!Submits(j)
    BY <1>11 DEF Le!Submits
  <2> HIDE DEF j
  <2> QED
    BY <1>1, <1>3, <1>7, <1>11, <2>1
<1>12. CASE Le!MeDone(j, i)
  <2> DEFINE s == [st EXCEPT !.submitting = FALSE]
             c == Le!StartSubmit(s, w, j.file)
  <2>1. /\ j.kind = "me" /\ UNCHANGED login
        /\ \/ st' = c[1] /\ jobs' = c[2] /\ UNCHANGED ask
           \/ st' = s /\ jobs' = w /\ ask' = j.file
    BY <1>12 DEF Le!MeDone, w
  <2>2. Le!Submits(j) /\ j.file \in Files \cup {None}
    BY <1>2, <2>1, RequestFields DEF Le!Submits
  <2>3. /\ s \in States /\ s.token = st.token /\ ~ s.submitting /\ s.sub_id = st.sub_id
        /\ s.sub_pending = st.sub_pending
    BY <1>1, SubmittingSet
  <2> HIDE DEF s, j
  <2>4. StateOK(s, server) /\ ~ Uploading(w) /\ ask = None
    BY <1>1, <1>3, <1>4, <2>2, <2>3 DEF StateOK
  <2>5. /\ StateOK(c[1], server) /\ c[1].token = s.token
        /\ Out(c[2], server) /\ Single(c[2]) /\ (c[1].submitting <=> Uploading(c[2]))
    BY <1>1, <1>3, <2>2, <2>3, <2>4, SubmitStarted
  <2> HIDE DEF c
  <2>6. CASE st' = c[1] /\ jobs' = c[2] /\ UNCHANGED ask
    BY <1>0, <1>1, <2>1, <2>3, <2>4, <2>5, <2>6, TokenStays DEF Board, WindowOK
  <2>7. CASE st' = s /\ jobs' = w /\ ask' = j.file
    BY <1>0, <1>1, <1>3, <2>1, <2>2, <2>3, <2>4, <2>7, TokenStays DEF Board, WindowOK
  <2> QED
    BY <2>1, <2>6, <2>7
<1> QED
  BY <1>0, <1>5, <1>6, <1>8, <1>9, <1>10, <1>11, <1>12

LEMMA BoardStep ==
  ASSUME Le!Constants, Board, [Le!Next]_(Le!vars)
  PROVE  /\ Board'
         /\ [Le!Logged /\ st'.token = 0 => Le!Logout \/ ~ Taken(server, st.token)]_(Le!vars)
         /\ [~ Le!Logged /\ st'.token # 0 =>
               \E i \in DOMAIN jobs :
                 jobs[i].kind = "login" /\ jobs[i].gen = login.gen /\ jobs[i].r.token = st'.token
            ]_(Le!vars)
<1>1. CASE UNCHANGED Le!vars
  BY <1>1 DEF Le!vars, Board, WindowOK
<1>2. CASE Le!Next
  <2>1. Board' /\ Steps
    BY <1>2, WindowSteps, PlayerSteps, ServeSteps, LostAndVerified, PasswordSteps, DeliverSteps
       DEF Le!Next, Le!Player, Le!Service
  <2> QED
    BY <2>1 DEF Steps
<1> QED
  BY <1>1, <1>2

LEMMA BoardInit ==
  ASSUME Le!Constants, Le!Init
  PROVE  Board
<1>1. /\ st = Le!Started /\ login = Le!NoLogin /\ ask = None /\ jobs = <<>>
      /\ server = [tokens |-> <<>>, subs |-> <<>>] /\ windows = 0
  BY DEF Le!Init
<1>2. server.tokens = <<>> /\ server.subs = <<>> /\ server \in Servers
  BY <1>1 DEF Servers
<1>3. StateOK(st, server)
  BY <1>1, <1>2 DEF StateOK, Le!Started, Le!NoToken, States
<1>4. ServerOK(server)
  BY <1>2 DEF ServerOK, Le!Constants
<1>5. Out(jobs, server) /\ Single(jobs) /\ ~ Uploading(jobs)
  BY <1>1 DEF Out, Single, Uploading, Le!Constants
<1>6. WindowOK
  BY <1>1 DEF WindowOK, Le!NoLogin, Le!Constants
<1>7. ~ st.submitting
  BY <1>1 DEF Le!Started
<1> QED
  BY <1>1, <1>3, <1>4, <1>5, <1>6, <1>7 DEF Board

LEMMA BoardSays ==
  ASSUME Le!Constants, Board
  PROVE  Le!OneUpload /\ Le!TypeOK
<1>1. Le!OneUpload
  <2> DEFINE out == {i \in DOMAIN jobs : Le!Submits(jobs[i])}
  <2>1. \A i, k \in out : i = k
    BY DEF Board, Single
  <2>2. st.submitting <=> out # {}
    BY DEF Board, Uploading
  <2>3. ask # None => out = {}
    BY DEF Board, Uploading
  <2>0. Le!Cardinality(out) = Cardinality(out)
    BY DEF Le!Cardinality, Cardinality
  <2> HIDE DEF out
  <2>4. CASE out = {}
    <3>1. Cardinality(out) = 0
      BY <2>4, FS_EmptySet
    <3>2. Cardinality(out) + (IF ask = None THEN 0 ELSE 1) <= 1
      BY <3>1
    <3> QED
      BY <2>0, <2>2, <3>2 DEF Le!OneUpload, out
  <2>5. CASE out # {}
    <3>1. PICK k : k \in out
      BY <2>5
    <3>2. out = {k}
      BY <2>1, <3>1
    <3>3. Cardinality(out) = 1 /\ ask = None
      BY <2>3, <2>5, <3>2, FS_Singleton
    <3>4. Cardinality(out) + (IF ask = None THEN 0 ELSE 1) <= 1
      BY <3>3
    <3> QED
      BY <2>0, <2>2, <3>4 DEF Le!OneUpload, out
  <2> QED
    BY <2>4, <2>5
<1>2. Le!TypeOK
  <2>1. /\ Len(server.tokens) \in Nat /\ Len(server.subs) \in Nat /\ Len(server.tokens) <= MaxLogins
        /\ MaxLogins \in Nat
    BY ServerFields DEF Board, ServerOK, Le!Constants
  <2>2. /\ st \in States /\ st.token \in Nat /\ st.sub_id \in Nat
        /\ st.token <= Len(server.tokens) /\ st.sub_id <= Len(server.subs)
    BY StateFields DEF Board, StateOK
  <2>3. st.token \in 0 .. MaxLogins /\ st.sub_id \in 0 .. Len(server.subs)
    BY <2>1, <2>2
  <2>4. st \in [token : 0 .. MaxLogins, submitting : BOOLEAN, polling : BOOLEAN,
                sub_id : 0 .. Len(server.subs), sub_pending : BOOLEAN]
    BY <2>2, <2>3 DEF States
  <2> QED
    BY <2>4 DEF Le!TypeOK, Board, StateOK, WindowOK, Out
<1> QED
  BY <1>1, <1>2

\* Whatever answers come, late or never, the upload is one, the login goes only
\* with a logout or a token the server takes no more, and a window that was
\* cancelled logs nobody in.
THEOREM LoginOnlySo ==
  ASSUME Le!Constants
  PROVE  Le!Init /\ [][Le!Next]_(Le!vars)
           => []Le!OneUpload /\ Le!TokenKept /\ Le!CancelledStaysOut
<1>1. Le!Init => Board
  BY BoardInit
<1>2. Board /\ [Le!Next]_(Le!vars)
        => /\ Board'
           /\ [Le!Logged /\ st'.token = Le!NoToken => Le!Logout \/ ~ Le!Counts(st.token)]_(Le!vars)
           /\ [~ Le!Logged /\ st'.token # Le!NoToken =>
                 \E i \in DOMAIN jobs :
                   jobs[i].kind = "login" /\ jobs[i].gen = login.gen /\ jobs[i].r.token = st'.token
              ]_(Le!vars)
  BY BoardStep DEF Taken, Le!Counts, Le!NoToken
<1>3. Board => Le!OneUpload
  BY BoardSays
<1> QED
  BY <1>1, <1>2, <1>3, PTL DEF Le!TokenKept, Le!CancelledStaysOut

\* The launcher's state, its windows and its requests keep their types, and
\* what is polled is a submission.
THEOREM BoardTyped ==
  ASSUME Le!Constants
  PROVE  Le!Init /\ [][Le!Next]_(Le!vars) => []Le!TypeOK
<1>1. Le!Init => Board
  BY BoardInit
<1>2. Board /\ [Le!Next]_(Le!vars) => Board'
  BY BoardStep
<1>3. Board => Le!TypeOK
  BY BoardSays
<1> QED
  BY <1>1, <1>2, <1>3, PTL

(***************************************************************************)
(* Launcher: the window, the installs' files, the recordings and the       *)
(* games.                                                                  *)
(***************************************************************************)

\* The window, the installs' files, the recordings and the games.
Paths    == Names \cup {0}
Recorded == [st : {"none", "part", "whole"}, ranked : BOOLEAN, inst : Installs \cup {Elsewhere}]
Headers  == [ok : BOOLEAN,
             rec : {La!NoFile} \cup [st : {"part", "whole"}, ranked : BOOLEAN,
                                     inst : Installs \cup {Elsewhere}]]
Windows  == [mode : La!Modes, shown : La!Modes, sel : Installs, path : Paths,
             custom : BOOLEAN, hdr : Headers, cheat : BOOLEAN, settings : Installs \cup {"file"}]
Settings == [trainer : BOOLEAN, session : Paths, settings : Installs \cup {"file"}]
Games    == [mode : La!Modes, inst : Installs, tracked : BOOLEAN,
             phase : {"starts", "runs", "gone"}, path : Paths, id : Nat]

\* A name is free; what the window shows is its install's, unless it replays;
\* and the target it chose itself is free, or the running game's.
SomeFree == \E f \in Names : ~ La!Exists(f) /\ f \notin La!Taken
Shown ==
  /\ ui \in Windows /\ ui.shown = ui.mode
  /\ ui.mode # "replay" => ui.settings = ui.sel
Own ==
  ui.mode = "record" /\ origin = "own" =>
    \/ ui.path \in Names /\ ~ La!Exists(ui.path) /\ ui.path \notin La!Taken
    \/ \E g \in La!Child : g.mode = "record" /\ g.path = ui.path
OnDisk ==
  /\ installs \in [Installs -> Settings] /\ \A i \in Installs : installs[i].settings = i
  /\ recs \in [Names -> Recorded]
Playing ==
  /\ procs \in SUBSET Games /\ \A g \in procs : g.mode = "record" => g.path \in Names
  /\ \A g, h \in La!Child : g = h
  /\ \A g \in La!Child : g.mode # "play" => ~ installs[g.inst].trainer
Offered ==
  /\ last_rec \in Paths /\ (last_rec # 0 => La!Exists(last_rec))
  /\ origin \in La!Origins /\ launches \in Nat
Launching == Shown /\ Own /\ OnDisk /\ Playing /\ Offered /\ SomeFree

LEMMA FreshIsFree ==
  ASSUME SomeFree
  PROVE  La!Fresh \in Names /\ ~ La!Exists(La!Fresh) /\ La!Fresh \notin La!Taken
  BY DEF SomeFree, La!Fresh

LEMMA WindowFields ==
  ASSUME NEW u \in Windows
  PROVE  /\ u.mode \in La!Modes /\ u.shown \in La!Modes /\ u.sel \in Installs /\ u.path \in Paths
         /\ u.custom \in BOOLEAN /\ u.hdr \in Headers /\ u.cheat \in BOOLEAN
         /\ u.settings \in Installs \cup {"file"}
  BY DEF Windows

LEMMA SettingsFields ==
  ASSUME OnDisk, NEW i \in Installs
  PROVE  /\ installs[i] \in Settings /\ installs[i].trainer \in BOOLEAN
         /\ installs[i].session \in Paths /\ installs[i].settings = i
  BY DEF OnDisk, Settings

\* reload_for_dir puts the install's settings into the window, and in record
\* mode a target of its own.
LEMMA Reloaded ==
  ASSUME OnDisk, SomeFree, NEW u \in Windows, NEW t, t = La!ReloadForDir(u)
  PROVE  /\ t \in Windows /\ t.mode = u.mode /\ t.shown = u.shown /\ t.sel = u.sel
         /\ t.custom = u.custom /\ t.hdr = u.hdr
         /\ t.mode # "replay" => t.settings = t.sel
         /\ t.path = IF u.mode = "record" /\ ~ u.custom THEN La!Fresh ELSE u.path
<1> DEFINE own == [u EXCEPT !.settings = installs[u.sel].settings,
                            !.cheat = installs[u.sel].trainer]
<1>1. /\ u.sel \in Installs /\ installs[u.sel].settings = u.sel
      /\ installs[u.sel].trainer \in BOOLEAN
  BY WindowFields, SettingsFields
<1>2. /\ own \in Windows /\ own.mode = u.mode /\ own.shown = u.shown /\ own.sel = u.sel
      /\ own.custom = u.custom /\ own.hdr = u.hdr /\ own.path = u.path
      /\ own.settings = u.sel
  BY <1>1 DEF Windows
<1>3. t = IF u.mode = "play" THEN own
          ELSE IF u.mode = "record"
               THEN [own EXCEPT !.cheat = FALSE, !.path = IF u.custom THEN own.path ELSE La!Fresh]
               ELSE [own EXCEPT !.cheat = FALSE,
                                !.settings = IF u.hdr.ok THEN "file" ELSE own.settings]
  BY DEF La!ReloadForDir
<1> HIDE DEF own
<1>4. CASE u.mode = "play"
  BY <1>2, <1>3, <1>4
<1>5. CASE u.mode = "record"
  <2> DEFINE p == IF u.custom THEN own.path ELSE La!Fresh
  <2>1. p \in Paths /\ p = IF u.mode = "record" /\ ~ u.custom THEN La!Fresh ELSE u.path
    BY <1>2, <1>5, WindowFields, FreshIsFree DEF Paths
  <2>2. t = [own EXCEPT !.cheat = FALSE, !.path = p]
    BY <1>3, <1>5
  <2> HIDE DEF p
  <2>3. /\ t \in Windows /\ t.mode = own.mode /\ t.shown = own.shown /\ t.sel = own.sel
        /\ t.custom = own.custom /\ t.hdr = own.hdr /\ t.path = p /\ t.settings = own.settings
    BY <1>2, <2>1, <2>2 DEF Windows
  <2> QED
    BY <1>2, <2>1, <2>3
<1>6. CASE u.mode # "play" /\ u.mode # "record"
  <2> DEFINE x == IF u.hdr.ok THEN "file" ELSE own.settings
  <2>1. x \in Installs \cup {"file"} /\ u.mode = "replay"
    BY <1>1, <1>2, <1>6, WindowFields DEF La!Modes
  <2>2. t = [own EXCEPT !.cheat = FALSE, !.settings = x]
    BY <1>3, <1>6
  <2> HIDE DEF x
  <2>3. /\ t \in Windows /\ t.mode = own.mode /\ t.shown = own.shown /\ t.sel = own.sel
        /\ t.custom = own.custom /\ t.hdr = own.hdr /\ t.path = own.path
    BY <1>2, <2>1, <2>2 DEF Windows
  <2> QED
    BY <1>2, <2>1, <2>3
<1> QED
  BY <1>4, <1>5, <1>6

LEMMA Restored ==
  ASSUME OnDisk, SomeFree, NEW u \in Windows, u.mode = "replay", NEW t, t = La!Autorestore(u)
  PROVE  /\ t \in Windows /\ t.mode = u.mode /\ t.shown = u.shown /\ t.custom = u.custom
         /\ t.path = u.path
<1> DEFINE exact == {i \in Installs : La!SameVector(u.hdr.rec, i)}
           alike == {i \in Installs : Release[i] = Release[u.hdr.rec.inst]}
<1>1. ASSUME NEW i \in Installs, t = La!ReloadForDir([u EXCEPT !.sel = i])
      PROVE  /\ t \in Windows /\ t.mode = u.mode /\ t.shown = u.shown /\ t.custom = u.custom
             /\ t.path = u.path
  <2> DEFINE v == [u EXCEPT !.sel = i]
  <2>1. /\ v \in Windows /\ v.mode = u.mode /\ v.shown = u.shown /\ v.custom = u.custom
        /\ v.path = u.path
    BY DEF Windows
  <2> HIDE DEF v
  <2>2. /\ t \in Windows /\ t.mode = v.mode /\ t.shown = v.shown /\ t.custom = v.custom
        /\ t.path = IF v.mode = "record" /\ ~ v.custom THEN La!Fresh ELSE v.path
    BY <1>1, <2>1, Reloaded DEF v
  <2> QED
    BY <2>1, <2>2
<1>2. t = IF exact # {} THEN La!ReloadForDir([u EXCEPT !.sel = CHOOSE i \in exact : TRUE])
          ELSE IF alike # {} THEN La!ReloadForDir([u EXCEPT !.sel = CHOOSE i \in alike : TRUE])
          ELSE u
  BY DEF La!Autorestore
<1>3. exact \subseteq Installs /\ alike \subseteq Installs
  OBVIOUS
<1> HIDE DEF exact, alike
<1>4. /\ exact # {} => (CHOOSE i \in exact : TRUE) \in Installs
      /\ alike # {} => (CHOOSE i \in alike : TRUE) \in Installs
  BY <1>3
<1> QED
  BY <1>1, <1>2, <1>4

LEMMA Loaded ==
  ASSUME OnDisk, SomeFree, NEW u \in Windows, u.mode = "replay", NEW t, t = La!LoadFile(u)
  PROVE  /\ t \in Windows /\ t.mode = u.mode /\ t.shown = u.shown /\ t.custom = u.custom
         /\ t.path = u.path
<1>1. ASSUME NEW h \in Headers, NEW v, v = [u EXCEPT !.hdr = h]
      PROVE  /\ v \in Windows /\ v.mode = u.mode /\ v.shown = u.shown /\ v.custom = u.custom
             /\ v.path = u.path
  BY <1>1 DEF Windows
<1>2. CASE ~ La!Exists(u.path)
  <2>1. La!NoHeader \in Headers
    BY DEF La!NoHeader, Headers
  <2>2. t = [u EXCEPT !.hdr = La!NoHeader]
    BY <1>2 DEF La!LoadFile
  <2> QED
    BY <1>1, <2>1, <2>2
<1>3. CASE La!Exists(u.path)
  <2> DEFINE h == [ok |-> TRUE, rec |-> recs[u.path]]
             v == [u EXCEPT !.hdr = h]
  <2>1. u.path \in Names /\ recs[u.path].st # "none"
    BY <1>3, WindowFields DEF La!Exists, La!NoPath, Paths
  <2>2. recs[u.path] \in Recorded
    BY <2>1 DEF OnDisk
  <2>3. recs[u.path] \in [st : {"part", "whole"}, ranked : BOOLEAN, inst : Installs \cup {Elsewhere}]
    BY <2>1, <2>2 DEF Recorded
  <2>4. h \in Headers
    BY <2>3 DEF Headers
  <2> HIDE DEF h
  <2>5. /\ v \in Windows /\ v.mode = u.mode /\ v.shown = u.shown /\ v.custom = u.custom
        /\ v.path = u.path
    BY <1>1, <2>4
  <2>6. t = La!Autorestore(v)
    BY <1>3 DEF La!LoadFile, h
  <2> HIDE DEF v
  <2> QED
    BY <2>5, <2>6, Restored
<1> QED
  BY <1>2, <1>3

LEMMA PathSet ==
  ASSUME NEW u \in Windows, NEW p \in Paths, NEW t, t = La!SetPath(u, p)
  PROVE  /\ t \in Windows /\ t.mode = u.mode /\ t.shown = u.shown /\ t.sel = u.sel
         /\ t.custom = u.custom /\ t.settings = u.settings /\ t.path = p
  BY DEF Windows, La!SetPath

\* restore_session_path: a fresh target to record under, the install's last
\* recording to replay, and the user's own path stays.
LEMMA PathRestored ==
  ASSUME OnDisk, SomeFree, NEW u \in Windows, u.mode # "play", NEW t, t = La!RestorePath(u)
  PROVE  /\ t \in Windows /\ t.mode = u.mode /\ t.shown = u.shown /\ t.custom = u.custom
         /\ u.mode = "record" => t.settings = u.settings /\ t.sel = u.sel
         /\ u.custom => t.path = u.path
         /\ u.mode = "record" /\ ~ u.custom => t.path = La!Fresh
<1>1. CASE u.custom
  <2>1. t = u
    BY <1>1 DEF La!RestorePath
  <2> QED
    BY <1>1, <2>1
<1>2. CASE ~ u.custom /\ u.mode = "record"
  <2>1. t = La!SetPath(u, La!Fresh) /\ La!Fresh \in Paths
    BY <1>2, FreshIsFree DEF La!RestorePath, Paths
  <2>2. /\ t \in Windows /\ t.mode = u.mode /\ t.shown = u.shown /\ t.sel = u.sel
        /\ t.custom = u.custom /\ t.settings = u.settings /\ t.path = La!Fresh
    BY <2>1, PathSet
  <2> QED
    BY <1>2, <2>2
<1>3. CASE ~ u.custom /\ u.mode # "record"
  <2> DEFINE v == La!SetPath(u, installs[u.sel].session)
  <2>1. installs[u.sel].session \in Paths /\ u.mode = "replay"
    BY <1>3, WindowFields, SettingsFields DEF La!Modes
  <2>2. v \in Windows /\ v.mode = u.mode /\ v.shown = u.shown /\ v.custom = u.custom
    BY <2>1, PathSet
  <2>3. t = La!LoadFile(v)
    BY <1>3 DEF La!RestorePath
  <2> HIDE DEF v
  <2>4. t \in Windows /\ t.mode = v.mode /\ t.shown = v.shown /\ t.custom = v.custom
    BY <2>1, <2>2, <2>3, Loaded
  <2> QED
    BY <1>3, <2>2, <2>4
<1> QED
  BY <1>1, <1>2, <1>3

\* apply_mode_ui, from a window whose mode has just changed from the one that
\* is shown.
LEMMA ModeApplied ==
  ASSUME OnDisk, SomeFree, NEW u \in Windows, u.shown # "replay" => u.settings = u.sel,
         NEW t, t = La!ApplyMode(u)
  PROVE  /\ t \in Windows /\ t.mode = u.mode /\ t.shown = u.mode /\ t.custom = u.custom
         /\ t.mode # "replay" => t.settings = t.sel
         /\ u.mode = "record" /\ ~ u.custom => t.path = La!Fresh
         /\ u.mode = "record" /\ u.custom => t.path = u.path
<1> DEFINE b == IF u.shown = "replay" /\ u.mode # "replay" THEN La!ReloadForDir(u) ELSE u
           v == [b EXCEPT !.shown = u.mode]
           w == [v EXCEPT !.cheat = FALSE]
<1>1. /\ b \in Windows /\ b.mode = u.mode /\ b.custom = u.custom
      /\ u.mode # "replay" => b.settings = b.sel
      /\ u.custom => b.path = u.path
  <2>1. CASE u.shown = "replay" /\ u.mode # "replay"
    <3>1. b = La!ReloadForDir(u)
      BY <2>1
    <3> HIDE DEF b
    <3> QED
      BY <2>1, <3>1, Reloaded
  <2>2. CASE ~ (u.shown = "replay" /\ u.mode # "replay")
    <3>1. b = u
      BY <2>2
    <3> QED
      BY <2>2, <3>1
  <2> QED
    BY <2>1, <2>2
<1> HIDE DEF b
<1>2. u.mode \in La!Modes
  BY WindowFields
<1>3. /\ v \in Windows /\ v.mode = u.mode /\ v.shown = u.mode /\ v.custom = u.custom
      /\ v.settings = b.settings /\ v.sel = b.sel /\ v.path = b.path
  BY <1>1, <1>2 DEF Windows
<1>4. t = IF u.mode = "play" THEN [v EXCEPT !.cheat = installs[u.sel].trainer] ELSE La!RestorePath(w)
  BY DEF La!ApplyMode, b
<1> HIDE DEF v
<1>5. CASE u.mode = "play"
  <2> DEFINE x == installs[u.sel].trainer
  <2>1. x \in BOOLEAN
    BY WindowFields, SettingsFields
  <2>2. t = [v EXCEPT !.cheat = x]
    BY <1>4, <1>5
  <2> HIDE DEF x
  <2>3. /\ t \in Windows /\ t.mode = v.mode /\ t.shown = v.shown /\ t.custom = v.custom
        /\ t.settings = v.settings /\ t.sel = v.sel
    BY <1>3, <2>1, <2>2 DEF Windows
  <2> QED
    BY <1>1, <1>3, <1>5, <2>3
<1>6. CASE u.mode # "play"
  <2>1. /\ w \in Windows /\ w.mode = u.mode /\ w.shown = u.mode /\ w.custom = u.custom
        /\ w.settings = v.settings /\ w.sel = v.sel /\ w.path = v.path
    BY <1>3 DEF Windows
  <2>2. t = La!RestorePath(w)
    BY <1>4, <1>6
  <2> HIDE DEF w
  <2>3. /\ t \in Windows /\ t.mode = w.mode /\ t.shown = w.shown /\ t.custom = w.custom
        /\ w.mode = "record" => t.settings = w.settings /\ t.sel = w.sel
        /\ w.custom => t.path = w.path
        /\ w.mode = "record" /\ ~ w.custom => t.path = La!Fresh
    BY <1>6, <2>1, <2>2, PathRestored
  <2>4. u.mode # "replay" => u.mode = "record"
    BY <1>2, <1>6 DEF La!Modes
  <2> QED
    BY <1>1, <1>3, <2>1, <2>3, <2>4
<1> QED
  BY <1>5, <1>6

LEMMA WindowOpened ==
  ASSUME OnDisk, NEW i \in Installs, NEW t, t = La!Opened(i)
  PROVE  t \in Windows /\ t.mode = "play" /\ t.shown = "play" /\ t.settings = t.sel
<1> DEFINE b == installs[i].trainer
           s == installs[i].settings
<1>1. b \in BOOLEAN /\ s = i
  BY SettingsFields
<1>2. La!NoHeader \in Headers
  BY DEF La!NoHeader, Headers
<1>3. t = [mode |-> "play", shown |-> "play", sel |-> i, path |-> 0, custom |-> FALSE,
           hdr |-> La!NoHeader, cheat |-> b, settings |-> s]
  BY DEF La!Opened, La!NoPath
<1> HIDE DEF b, s
<1>4. 0 \in Paths /\ "play" \in La!Modes /\ s \in Installs \cup {"file"}
  BY <1>1 DEF Paths, La!Modes
<1> QED
  BY <1>1, <1>2, <1>3, <1>4 DEF Windows

-----------------------------------------------------------------------------
\* The steps of the window alone: the disk, the installs and the games stay.
LEMMA WindowStays ==
  ASSUME Launching, Shown', UNCHANGED <<installs, recs, procs, last_rec, launches>>,
         origin' \in La!Origins,
         ui'.mode = "record" /\ origin' = "own" =>
           \/ ui'.path = La!Fresh
           \/ ui.mode = "record" /\ origin = "own" /\ ui'.path = ui.path
  PROVE  Launching'
<1>1. /\ La!Taken' = La!Taken /\ La!Child' = La!Child
      /\ \A f : La!Exists(f)' <=> La!Exists(f)
  BY DEF La!Taken, La!Child, La!Exists
<1>2. Own'
  <2>1. CASE ui'.path = La!Fresh
    BY <1>1, <2>1, FreshIsFree DEF Launching, Own, La!Exists
  <2>2. CASE ui.mode = "record" /\ origin = "own" /\ ui'.path = ui.path
    BY <1>1, <2>2 DEF Launching, Own, La!Exists
  <2> QED
    BY <2>1, <2>2 DEF Own
<1>3. OnDisk' /\ Playing'
  BY <1>1 DEF Launching, OnDisk, Playing
<1>4. Offered' /\ SomeFree'
  BY <1>1 DEF Launching, Offered, SomeFree, La!Exists
<1> QED
  BY <1>2, <1>3, <1>4 DEF Launching

LEMMA ModeSteps ==
  ASSUME Launching,
         \/ \E m \in La!Modes : La!SetMode(m)
         \/ \E i \in Installs : La!PickInstall(i)
         \/ La!TickTrainer
         \/ \E f \in Names \cup {La!NoPath} : La!TypePath(f)
         \/ \E f \in Names : La!PickReplay(f)
  PROVE  Launching'
<1>1. OnDisk /\ SomeFree /\ ui \in Windows /\ ui.shown = ui.mode
      /\ (ui.mode # "replay" => ui.settings = ui.sel) /\ origin \in La!Origins
  BY DEF Launching, Shown, Offered
<1>2. CASE \E m \in La!Modes : La!SetMode(m)
  <2>1. PICK m \in La!Modes : La!SetMode(m)
    BY <1>2
  <2> DEFINE u == [ui EXCEPT !.mode = m]
  <2>2. /\ u \in Windows /\ u.mode = m /\ u.shown = ui.mode /\ u.custom = ui.custom
        /\ u.settings = ui.settings /\ u.sel = ui.sel /\ u.path = ui.path
    BY <1>1 DEF Windows
  <2>3. /\ ui' = La!ApplyMode(u)
        /\ origin' = IF ~ ui.custom THEN "own" ELSE IF m = ui.mode THEN origin ELSE "kept"
        /\ UNCHANGED <<installs, recs, procs, last_rec, launches>>
    BY <2>1 DEF La!SetMode, La!Idle
  <2> HIDE DEF u
  <2>4. /\ ui' \in Windows /\ ui'.mode = m /\ ui'.shown = m
        /\ ui'.mode # "replay" => ui'.settings = ui'.sel
        /\ m = "record" /\ ~ ui.custom => ui'.path = La!Fresh
        /\ m = "record" /\ ui.custom => ui'.path = ui.path
    <3>1. u.shown # "replay" => u.settings = u.sel
      BY <1>1, <2>2
    <3>2. /\ ui' \in Windows /\ ui'.mode = u.mode /\ ui'.shown = u.mode /\ ui'.custom = u.custom
          /\ ui'.mode # "replay" => ui'.settings = ui'.sel
          /\ u.mode = "record" /\ ~ u.custom => ui'.path = La!Fresh
          /\ u.mode = "record" /\ u.custom => ui'.path = u.path
      BY <1>1, <2>2, <2>3, <3>1, ModeApplied
    <3> QED
      BY <2>2, <3>2
  <2>5. Shown'
    BY <2>4 DEF Shown
  <2>6. origin' \in La!Origins
    BY <1>1, <2>3 DEF La!Origins
  <2>7. ui'.mode = "record" /\ origin' = "own" =>
           \/ ui'.path = La!Fresh
           \/ ui.mode = "record" /\ origin = "own" /\ ui'.path = ui.path
    BY <2>3, <2>4
  <2> QED
    BY <2>3, <2>5, <2>6, <2>7, WindowStays
<1>3. CASE \E i \in Installs : La!PickInstall(i)
  <2>1. PICK i \in Installs : La!PickInstall(i)
    BY <1>3
  <2> DEFINE u == [ui EXCEPT !.sel = i]
  <2>2. /\ u \in Windows /\ u.mode = ui.mode /\ u.shown = ui.shown /\ u.custom = ui.custom
        /\ u.path = ui.path
    BY <1>1 DEF Windows
  <2>3. /\ ui' = La!ReloadForDir(u)
        /\ origin' = IF ui.mode = "record" /\ ~ ui.custom THEN "own" ELSE origin
        /\ UNCHANGED <<installs, recs, procs, last_rec, launches>>
    BY <2>1 DEF La!PickInstall, La!Idle
  <2> HIDE DEF u
  <2>4. /\ ui' \in Windows /\ ui'.mode = u.mode /\ ui'.shown = u.shown /\ ui'.custom = u.custom
        /\ ui'.mode # "replay" => ui'.settings = ui'.sel
        /\ ui'.path = IF u.mode = "record" /\ ~ u.custom THEN La!Fresh ELSE u.path
    BY <1>1, <2>2, <2>3, Reloaded
  <2>5. Shown'
    BY <1>1, <2>2, <2>4 DEF Shown
  <2>6. origin' \in La!Origins
    BY <1>1, <2>3 DEF La!Origins
  <2>7. ui'.mode = "record" /\ origin' = "own" =>
           \/ ui'.path = La!Fresh
           \/ ui.mode = "record" /\ origin = "own" /\ ui'.path = ui.path
    BY <2>2, <2>3, <2>4
  <2> QED
    BY <2>3, <2>5, <2>6, <2>7, WindowStays
<1>4. CASE La!TickTrainer
  <2>1. /\ ui.mode = "play" /\ ui' = [ui EXCEPT !.cheat = ~@]
        /\ UNCHANGED <<installs, recs, procs, last_rec, launches, origin>>
    BY <1>4 DEF La!TickTrainer, La!Idle
  <2> DEFINE b == ~ ui.cheat
  <2>2. ui' = [ui EXCEPT !.cheat = b] /\ b \in BOOLEAN
    BY <2>1
  <2> HIDE DEF b
  <2>3. /\ ui' \in Windows /\ ui'.mode = ui.mode /\ ui'.shown = ui.shown
        /\ ui'.settings = ui.settings /\ ui'.sel = ui.sel
    BY <1>1, <2>2 DEF Windows
  <2>4. Shown'
    BY <1>1, <2>3 DEF Shown
  <2> QED
    BY <1>1, <2>1, <2>3, <2>4, WindowStays
<1>5. CASE \E f \in Names \cup {La!NoPath} : La!TypePath(f)
  <2>1. PICK f \in Names \cup {La!NoPath} : La!TypePath(f)
    BY <1>5
  <2> DEFINE u == [ui EXCEPT !.path = f, !.custom = TRUE]
  <2>2. f \in Paths
    BY DEF Paths, La!NoPath
  <2>3. /\ u \in Windows /\ u.mode = ui.mode /\ u.shown = ui.shown /\ u.settings = ui.settings
        /\ u.sel = ui.sel
    BY <1>1, <2>2 DEF Windows
  <2>4. /\ ui.mode # "play" /\ ui' = IF u.mode = "replay" THEN La!LoadFile(u) ELSE u
        /\ origin' = IF ui.mode = "record" THEN "user" ELSE "kept"
        /\ UNCHANGED <<installs, recs, procs, last_rec, launches>>
    BY <2>1 DEF La!TypePath, La!Idle
  <2> HIDE DEF u
  <2>5. CASE u.mode = "replay"
    <3>1. ui' \in Windows /\ ui'.mode = u.mode /\ ui'.shown = u.shown
      BY <1>1, <2>3, <2>4, <2>5, Loaded
    <3>2. Shown'
      BY <1>1, <2>3, <2>5, <3>1 DEF Shown
    <3>3. origin' \in La!Origins /\ ui'.mode # "record"
      BY <2>3, <2>4, <2>5, <3>1 DEF La!Origins
    <3> QED
      BY <2>4, <3>2, <3>3, WindowStays
  <2>6. CASE u.mode # "replay"
    <3>1. ui' = u
      BY <2>4, <2>6
    <3>2. Shown'
      BY <1>1, <2>3, <2>6, <3>1 DEF Shown
    <3>3. origin' \in La!Origins /\ origin' # "own"
      BY <2>4 DEF La!Origins
    <3> QED
      BY <2>4, <3>2, <3>3, WindowStays
  <2> QED
    BY <2>5, <2>6
<1>6. CASE \E f \in Names : La!PickReplay(f)
  <2>1. PICK f \in Names : La!PickReplay(f)
    BY <1>6
  <2> DEFINE u == [ui EXCEPT !.path = f, !.custom = TRUE, !.mode = "replay"]
             v == IF ui.mode = "replay" THEN u ELSE La!ApplyMode(u)
  <2>2. f \in Paths /\ "replay" \in La!Modes
    BY DEF Paths, La!Modes
  <2>3. /\ u \in Windows /\ u.mode = "replay" /\ u.shown = ui.shown /\ u.settings = ui.settings
        /\ u.sel = ui.sel
    BY <1>1, <2>2 DEF Windows
  <2>4. /\ ui' = La!LoadFile(v) /\ origin' = "kept"
        /\ UNCHANGED <<installs, recs, procs, last_rec, launches>>
    BY <2>1 DEF La!PickReplay, La!Idle
  <2> HIDE DEF u
  <2>5. v \in Windows /\ v.mode = "replay" /\ v.shown = "replay"
    <3>1. CASE ui.mode = "replay"
      BY <1>1, <2>3, <3>1
    <3>2. CASE ui.mode # "replay"
      <4>1. u.shown # "replay" => u.settings = u.sel
        BY <1>1, <2>3
      <4>2. v = La!ApplyMode(u)
        BY <3>2
      <4> HIDE DEF v
      <4>3. v \in Windows /\ v.mode = u.mode /\ v.shown = u.mode
        BY <1>1, <2>3, <4>1, <4>2, ModeApplied
      <4> QED
        BY <2>3, <4>3
    <3> QED
      BY <3>1, <3>2
  <2> HIDE DEF v
  <2>6. ui' \in Windows /\ ui'.mode = "replay" /\ ui'.shown = "replay"
    BY <1>1, <2>4, <2>5, Loaded
  <2>7. Shown' /\ origin' \in La!Origins /\ origin' # "own"
    BY <2>4, <2>6 DEF Shown, La!Origins
  <2> QED
    BY <2>4, <2>7, WindowStays
<1> QED
  BY <1>2, <1>3, <1>4, <1>5, <1>6

LEMMA DeleteSteps ==
  ASSUME Launching, NEW f \in Names, La!Delete(f)
  PROVE  Launching'
<1>1. /\ ui \in Windows /\ ui.shown = ui.mode /\ (ui.mode # "replay" => ui.settings = ui.sel)
      /\ recs \in [Names -> Recorded] /\ ui.mode # "record"
      /\ recs' = [recs EXCEPT ![f] = La!NoFile]
      /\ last_rec' = IF last_rec = f THEN 0 ELSE last_rec
      /\ UNCHANGED <<installs, procs, origin, launches>>
  BY DEF La!Delete, La!Idle, La!NoPath, Launching, Shown, OnDisk
<1>2. Shown' /\ ui'.mode # "record"
  <2> DEFINE u == [ui EXCEPT !.path = 0]
             v == [u EXCEPT !.hdr = La!NoHeader]
  <2>1. /\ u \in Windows /\ u.shown = ui.shown /\ u.mode = ui.mode /\ u.settings = ui.settings
        /\ u.sel = ui.sel
    <3>1. 0 \in Paths
      BY DEF Paths
    <3> QED
      BY <1>1, <3>1 DEF Windows
  <2>2. ui' = IF ui.path # f THEN ui ELSE IF ui.mode = "replay" THEN v ELSE u
    BY DEF La!Delete, La!NoPath
  <2> HIDE DEF u
  <2>3. /\ v \in Windows /\ v.shown = u.shown /\ v.mode = u.mode /\ v.settings = u.settings
        /\ v.sel = u.sel
    <3>1. La!NoHeader \in Headers
      BY DEF La!NoHeader, Headers
    <3> QED
      BY <2>1, <3>1 DEF Windows
  <2> HIDE DEF v
  <2> QED
    BY <1>1, <2>1, <2>2, <2>3 DEF Shown
<1>3. La!NoFile \in Recorded /\ La!NoFile.st = "none"
  BY DEF La!NoFile, Recorded
<1>4. /\ recs' \in [Names -> Recorded] /\ recs'[f].st = "none"
      /\ \A p \in Names \ {f} : recs'[p] = recs[p]
  BY <1>1, <1>3
<1>5. OnDisk'
  BY <1>1, <1>4 DEF Launching, OnDisk
<1>6. La!Taken' = La!Taken /\ La!Child' = La!Child
  BY <1>1 DEF La!Taken, La!Child
<1>7. Own' /\ Playing'
  BY <1>1, <1>2, <1>6 DEF Own, Launching, Playing
<1>8. Offered'
  <2>1. last_rec \in Paths /\ 0 \in Paths /\ (last_rec # 0 => La!Exists(last_rec))
    BY DEF Launching, Offered, Paths
  <2>2. last_rec' \in Paths
    BY <1>1, <2>1
  <2>3. ASSUME last_rec' # 0
        PROVE  La!Exists(last_rec)'
    <3>1. last_rec' = last_rec /\ last_rec # f /\ last_rec \in Names
      BY <1>1, <2>1, <2>3 DEF Paths
    <3> QED
      BY <1>4, <2>1, <2>3, <3>1 DEF La!Exists, La!NoPath
  <2> QED
    BY <1>1, <2>2, <2>3 DEF Launching, Offered, La!Exists
<1>9. SomeFree'
  <2>1. PICK p \in Names : ~ La!Exists(p) /\ p \notin La!Taken
    BY DEF Launching, SomeFree
  <2>2. ~ La!Exists(p)'
    BY <1>4, <2>1 DEF La!Exists
  <2> QED
    BY <1>6, <2>1, <2>2 DEF SomeFree, La!Exists
<1> QED
  BY <1>2, <1>5, <1>7, <1>8, <1>9 DEF Launching

\* A game that reopening leaves behind is nobody's child.
LEMMA ReopenSteps ==
  ASSUME Launching, NEW i \in Installs, La!Reopen(i)
  PROVE  Launching'
<1> DEFINE Left(g) == [g EXCEPT !.tracked = FALSE]
<1>1. /\ ui' = La!Opened(i) /\ last_rec' = 0 /\ origin' = "own"
      /\ procs' = {Left(g) : g \in {h \in procs : h.phase # "gone"}}
      /\ UNCHANGED <<installs, recs, launches>>
  BY DEF La!Reopen, La!NoPath
<1>2. Shown' /\ ui'.mode = "play"
  BY <1>1, WindowOpened DEF Launching, Shown
<1>3. ASSUME NEW g \in Games
      PROVE  Left(g) \in Games /\ ~ Left(g).tracked /\ Left(g).mode = g.mode /\ Left(g).path = g.path
  BY DEF Games
<1> HIDE DEF Left
<1>4. procs \in SUBSET Games /\ \A g \in procs : g.mode = "record" => g.path \in Names
  BY DEF Launching, Playing
<1>5. \A g \in procs' : \E h \in procs : g = Left(h)
  BY <1>1
<1>6. La!Child' = {}
  BY <1>3, <1>4, <1>5 DEF La!Child
<1>7. La!Taken' \subseteq La!Taken
  BY <1>3, <1>4, <1>5 DEF La!Taken
<1>8. OnDisk' /\ Own'
  BY <1>1, <1>2 DEF Launching, OnDisk, Own
<1>9. Playing'
  BY <1>3, <1>4, <1>5, <1>6 DEF Playing
<1>10. Offered'
  BY <1>1 DEF Launching, Offered, La!Origins, Paths
<1>11. SomeFree'
  BY <1>1, <1>7 DEF Launching, SomeFree, La!Exists
<1> QED
  BY <1>2, <1>8, <1>9, <1>10, <1>11 DEF Launching

\* Launch runs no game while one is waited for, records with the trainer off,
\* and replays only where it is.
LEMMA LaunchSteps ==
  ASSUME Launching, La!Launch
  PROVE  Launching'
<1> DEFINE i == ui.sel
           o == installs[i]
           n == IF ui.mode = "replay" THEN [o EXCEPT !.session = ui.path]
                ELSE [trainer |-> ui.mode # "record" /\ ui.cheat, settings |-> ui.settings,
                      session |-> IF ui.mode = "record" THEN ui.path ELSE o.session]
           p == IF ui.mode = "play" THEN 0 ELSE ui.path
           New(b) == [mode |-> ui.mode, inst |-> i, tracked |-> b, phase |-> "starts",
                      path |-> p, id |-> launches]
<1>1. /\ ui \in Windows /\ (ui.mode # "replay" => ui.settings = ui.sel) /\ i \in Installs
      /\ installs \in [Installs -> Settings] /\ o \in Settings /\ o.settings = i
      /\ ui.path \in Paths /\ ui.cheat \in BOOLEAN /\ ui.mode \in La!Modes /\ launches \in Nat
  BY WindowFields, SettingsFields DEF Launching, Shown, OnDisk, Offered
<1>2. /\ La!Child = {} /\ installs' = La!Writes /\ launches' = launches + 1
      /\ (ui.mode = "replay" => ~ o.trainer) /\ (ui.mode = "record" => ui.path # 0)
      /\ ui.mode = "record" => \E f \in Names \ {ui.path} : ~ La!Exists(f) /\ f \notin La!Taken
      /\ UNCHANGED <<ui, recs, last_rec>>
  BY DEF La!Launch, La!MayLaunch, La!ReplayOk, La!NoPath
<1>3. \/ UNCHANGED <<procs, origin>>
      \/ \E b \in BOOLEAN : origin' = (IF b THEN origin ELSE "stale") /\ procs' = procs \cup {New(b)}
  BY DEF La!Launch, La!NoPath
<1>4. installs' = [installs EXCEPT ![i] = n]
  BY <1>1, <1>2 DEF La!Writes
<1>5. n \in Settings /\ n.settings = i /\ (ui.mode # "play" => ~ n.trainer)
  <2>1. CASE ui.mode = "replay"
    <3>1. n = [o EXCEPT !.session = ui.path]
      BY <2>1
    <3> HIDE DEF n, o
    <3> QED
      BY <1>1, <1>2, <2>1, <3>1 DEF Settings
  <2>2. CASE ui.mode # "replay"
    <3> DEFINE b == ui.mode # "record" /\ ui.cheat
               q == IF ui.mode = "record" THEN ui.path ELSE o.session
    <3>1. n = [trainer |-> b, settings |-> ui.settings, session |-> q]
      BY <2>2
    <3>2. q \in Paths /\ ui.settings = i /\ ui.settings \in Installs \cup {"file"}
      BY <1>1, <2>2 DEF Settings
    <3>3. b \in BOOLEAN /\ (ui.mode # "play" => ~ b)
      BY <1>1, <2>2 DEF La!Modes
    <3> HIDE DEF b, q, n
    <3>4. n \in Settings
      BY <3>1, <3>2, <3>3 DEF Settings
    <3> QED
      BY <3>1, <3>2, <3>3, <3>4
  <2> QED
    BY <2>1, <2>2
<1> HIDE DEF n, o
<1>6. OnDisk'
  <2>1. installs' \in [Installs -> Settings]
    BY <1>1, <1>4, <1>5
  <2>2. \A j \in Installs : installs'[j].settings = j
    BY <1>1, <1>4, <1>5 DEF Launching, OnDisk
  <2> QED
    BY <1>2, <2>1, <2>2 DEF Launching, OnDisk
<1>7. installs'[i] = n
  BY <1>1, <1>4
<1>8. p \in Paths /\ (ui.mode = "record" => p = ui.path /\ p \in Names)
  BY <1>1, <1>2 DEF Paths
<1> HIDE DEF p
<1>9. ASSUME NEW b \in BOOLEAN
      PROVE  /\ New(b) \in Games /\ New(b).mode = ui.mode /\ New(b).path = p /\ New(b).inst = i
             /\ New(b).tracked <=> b
  <2>1. "starts" \in {"starts", "runs", "gone"}
    OBVIOUS
  <2> QED
    BY <1>1, <1>8, <2>1 DEF Games
<1> HIDE DEF New, i
<1>10. \A f : La!Exists(f)' <=> La!Exists(f)
  BY <1>2 DEF La!Exists
<1>11. Shown' /\ SomeFree
  BY <1>2 DEF Launching, Shown
<1>12. CASE UNCHANGED <<procs, origin>>
  <2>1. La!Child' = La!Child /\ La!Taken' = La!Taken
    BY <1>12 DEF La!Child, La!Taken
  <2>2. Own' /\ SomeFree'
    BY <1>2, <1>10, <1>11, <1>12, <2>1 DEF Launching, Own, SomeFree, La!Exists
  <2>3. Playing'
    BY <1>2, <1>12, <2>1 DEF Launching, Playing
  <2>4. Offered'
    BY <1>1, <1>2, <1>12 DEF Launching, Offered, La!Exists
  <2> QED
    BY <1>6, <1>11, <2>2, <2>3, <2>4 DEF Launching
<1>13. ASSUME NEW b \in BOOLEAN, origin' = (IF b THEN origin ELSE "stale"),
              procs' = procs \cup {New(b)}
       PROVE  Launching'
  <2>1. La!Child' = IF b THEN {New(b)} ELSE {}
    BY <1>2, <1>9, <1>13 DEF La!Child
  <2>2. La!Taken' \subseteq La!Taken \cup (IF ui.mode = "record" THEN {ui.path} ELSE {})
    BY <1>8, <1>9, <1>13 DEF La!Taken
  <2>3. SomeFree'
    <3>1. PICK f \in Names : /\ ~ La!Exists(f) /\ f \notin La!Taken
                             /\ ui.mode = "record" => f # ui.path
      BY <1>2, <1>11 DEF SomeFree
    <3>2. f \notin La!Taken'
      BY <2>2, <3>1
    <3> QED
      BY <1>10, <3>1, <3>2 DEF SomeFree
  <2>4. Own'
    <3>1. CASE ~ b
      BY <1>13, <3>1 DEF Own
    <3>2. CASE b
      BY <1>2, <1>8, <1>9, <2>1, <3>2 DEF Own
    <3> QED
      BY <3>1, <3>2
  <2>5. Playing'
    <3>1. procs' \in SUBSET Games /\ \A g \in procs' : g.mode = "record" => g.path \in Names
      BY <1>8, <1>9, <1>13 DEF Launching, Playing
    <3>2. \A g \in La!Child' : g.mode # "play" => ~ installs'[g.inst].trainer
      BY <1>5, <1>7, <1>9, <2>1
    <3> QED
      BY <2>1, <3>1, <3>2 DEF Playing
  <2>6. Offered'
    BY <1>1, <1>2, <1>13 DEF Launching, Offered, La!Exists, La!Origins
  <2> QED
    BY <1>6, <1>11, <2>3, <2>4, <2>5, <2>6 DEF Launching
<1> QED
  BY <1>3, <1>12, <1>13

\* A game truncates the file it was given, and nobody else's.
LEMMA GameSteps ==
  ASSUME Launching, NEW g \in procs, La!GameRuns(g)
  PROVE  Launching'
<1>1. /\ g \in Games /\ procs \in SUBSET Games /\ recs \in [Names -> Recorded]
      /\ (g.mode = "record" => g.path \in Names /\ g.path \in La!Taken)
      /\ UNCHANGED <<ui, installs, last_rec, origin, launches>>
  BY DEF La!GameRuns, Launching, Playing, OnDisk, La!Taken
<1>2. Shown'
  BY <1>1 DEF Launching, Shown
<1>3. ASSUME recs' \in [Names -> Recorded], La!Taken' \subseteq La!Taken,
             \A f \in Names : f \notin La!Taken => recs'[f].st = recs[f].st,
             \A f \in Names : recs[f].st # "none" => recs'[f].st # "none",
             NEW h, h \in Games, h.mode = g.mode, h.path = g.path, h.inst = g.inst,
             (h.tracked <=> g.tracked),
             procs' = (procs \ {g}) \cup {h} \/ (~ g.tracked /\ procs' = procs \ {g})
      PROVE  Launching'
  <2>1. OnDisk'
    BY <1>1, <1>3 DEF Launching, OnDisk
  <2>2. SomeFree'
    BY <1>3 DEF Launching, SomeFree, La!Exists
  <2>3. Offered'
    BY <1>1, <1>3 DEF Launching, Offered, La!Exists, La!NoPath, Paths
  <2>4. La!Child' = IF g.tracked THEN (La!Child \ {g}) \cup {h} ELSE La!Child
    BY <1>3 DEF La!Child
  <2>5. \A c, d \in La!Child : c = d
    BY DEF Launching, Playing
  <2>6. g.tracked => g \in La!Child
    BY DEF La!Child
  <2>7. \A c, d \in La!Child' : c = d
    BY <2>4, <2>5, <2>6
  <2>8. \A c \in La!Child' : c.mode # "play" => ~ installs'[c.inst].trainer
    BY <1>1, <1>3, <2>4, <2>6 DEF Launching, Playing
  <2>9. procs' \in SUBSET Games /\ \A c \in procs' : c.mode = "record" => c.path \in Names
    BY <1>1, <1>3 DEF Launching, Playing
  <2>10. Playing'
    BY <2>7, <2>8, <2>9 DEF Playing
  <2>11. Own'
    <3>1. SUFFICES ASSUME ui.mode = "record", origin = "own"
                   PROVE  \/ /\ ui.path \in Names /\ ui.path \notin La!Taken'
                             /\ ~ La!Exists(ui.path)'
                          \/ \E c \in La!Child' : c.mode = "record" /\ c.path = ui.path
      BY <1>1 DEF Own, La!Exists
    <3>2. CASE ui.path \in Names /\ ~ La!Exists(ui.path) /\ ui.path \notin La!Taken
      BY <1>1, <1>3, <3>2 DEF La!Exists
    <3>3. CASE \E c \in La!Child : c.mode = "record" /\ c.path = ui.path
      BY <1>3, <2>4, <3>3
    <3> QED
      BY <3>1, <3>2, <3>3 DEF Launching, Own
  <2> QED
    BY <1>2, <2>1, <2>2, <2>3, <2>10, <2>11 DEF Launching
<1>4. ASSUME NEW h, h.mode = g.mode, h.path = g.path, procs' = (procs \ {g}) \cup {h}
      PROVE  La!Taken' \subseteq La!Taken
  BY <1>4 DEF La!Taken
<1>5. ASSUME procs' = procs \ {g}
      PROVE  La!Taken' \subseteq La!Taken
  BY <1>5 DEF La!Taken
<1>6. CASE /\ g.phase = "starts" /\ procs' = (procs \ {g}) \cup {[g EXCEPT !.phase = "runs"]}
           /\ \E r \in BOOLEAN :
                recs' = IF g.mode # "record" THEN recs
                        ELSE [recs EXCEPT ![g.path] = [st |-> "part", ranked |-> r, inst |-> g.inst]]
  <2> DEFINE h == [g EXCEPT !.phase = "runs"]
  <2>1. /\ h \in Games /\ h.mode = g.mode /\ h.path = g.path /\ h.inst = g.inst
        /\ h.tracked <=> g.tracked
    BY <1>1 DEF Games
  <2>2. procs' = (procs \ {g}) \cup {h}
    BY <1>6
  <2> HIDE DEF h
  <2>3. La!Taken' \subseteq La!Taken
    BY <1>4, <2>1, <2>2
  <2>4. PICK r \in BOOLEAN :
          recs' = IF g.mode # "record" THEN recs
                  ELSE [recs EXCEPT ![g.path] = [st |-> "part", ranked |-> r, inst |-> g.inst]]
    BY <1>6
  <2> DEFINE x == [st |-> "part", ranked |-> r, inst |-> g.inst]
  <2>5. x \in Recorded /\ x.st # "none"
    BY <1>1 DEF Recorded, Games
  <2>6. recs' = IF g.mode # "record" THEN recs ELSE [recs EXCEPT ![g.path] = x]
    BY <2>4
  <2> HIDE DEF x
  <2>7. /\ recs' \in [Names -> Recorded]
        /\ \A f \in Names : f \notin La!Taken => recs'[f].st = recs[f].st
        /\ \A f \in Names : recs[f].st # "none" => recs'[f].st # "none"
    BY <1>1, <2>5, <2>6
  <2> QED
    BY <1>3, <2>1, <2>2, <2>3, <2>7
<1>7. CASE /\ procs' = (procs \ {g}) \cup
                         (IF g.tracked THEN {[g EXCEPT !.phase = "gone"]} ELSE {})
           /\ recs' \in IF g.mode = "record" /\ g.phase = "runs" /\ La!Exists(g.path)
                        THEN {recs, [recs EXCEPT ![g.path].st = "whole"]} ELSE {recs}
  <2> DEFINE h == [g EXCEPT !.phase = "gone"]
  <2>1. /\ h \in Games /\ h.mode = g.mode /\ h.path = g.path /\ h.inst = g.inst
        /\ h.tracked <=> g.tracked
    BY <1>1 DEF Games
  <2>2. procs' = (procs \ {g}) \cup {h} \/ (~ g.tracked /\ procs' = procs \ {g})
    BY <1>7
  <2> HIDE DEF h
  <2>3. La!Taken' \subseteq La!Taken
    BY <1>4, <1>5, <2>1, <2>2
  <2>4. /\ recs' \in [Names -> Recorded]
        /\ \A f \in Names : f \notin La!Taken => recs'[f].st = recs[f].st
        /\ \A f \in Names : recs[f].st # "none" => recs'[f].st # "none"
    <3>1. CASE recs' = recs
      BY <1>1, <3>1
    <3>2. CASE g.mode = "record" /\ recs' = [recs EXCEPT ![g.path].st = "whole"]
      <4> DEFINE x == [recs[g.path] EXCEPT !.st = "whole"]
      <4>1. g.path \in Names /\ recs[g.path] \in Recorded
        BY <1>1, <3>2
      <4>2. x \in Recorded /\ x.st = "whole"
        BY <4>1 DEF Recorded
      <4>3. recs' = [recs EXCEPT ![g.path] = x]
        BY <3>2
      <4> HIDE DEF x
      <4> QED
        BY <1>1, <3>2, <4>1, <4>2, <4>3
    <3> QED
      BY <1>7, <3>1, <3>2
  <2> QED
    BY <1>3, <2>1, <2>2, <2>3, <2>4
<1> QED
  BY <1>6, <1>7 DEF La!GameRuns

\* on_child_done: what it offers is on disk, and the next recording has a
\* name of its own.
LEMMA DoneSteps ==
  ASSUME Launching, NEW g \in procs, La!Done(g)
  PROVE  Launching'
<1> DEFINE again == g.mode = "record" /\ ui.mode = "record"
           u == [ui EXCEPT !.custom = FALSE]
<1>1. /\ procs' = procs \ {g} /\ UNCHANGED <<installs, recs, launches>>
      /\ last_rec' = IF g.mode # "record" \/ recs[g.path].st # "whole" THEN last_rec
                     ELSE IF recs[g.path].ranked THEN g.path ELSE 0
      /\ ui' = IF again THEN La!RestorePath(u) ELSE ui
      /\ origin' = IF again THEN "own" ELSE origin
  BY DEF La!Done, La!ChildDone, La!NoPath
<1>2. /\ ui \in Windows /\ ui.shown = ui.mode /\ (ui.mode # "replay" => ui.settings = ui.sel)
      /\ OnDisk /\ SomeFree /\ g \in Games /\ (g.mode = "record" => g.path \in Names)
  BY DEF Launching, Shown, Playing
<1>3. /\ La!Child' = La!Child \ {g} /\ La!Taken' \subseteq La!Taken
      /\ \A f : La!Exists(f)' <=> La!Exists(f)
  BY <1>1 DEF La!Child, La!Taken, La!Exists
<1>4. /\ u \in Windows /\ u.mode = ui.mode /\ u.shown = ui.shown /\ ~ u.custom
      /\ u.settings = ui.settings /\ u.sel = ui.sel
  <2>1. FALSE \in BOOLEAN
    OBVIOUS
  <2> QED
    BY <1>2, <2>1 DEF Windows
<1> HIDE DEF u
<1>5. CASE again
  <2>1. ui' = La!RestorePath(u) /\ origin' = "own"
    BY <1>1, <1>5
  <2>2. /\ ui' \in Windows /\ ui'.mode = "record" /\ ui'.shown = "record"
        /\ ui'.settings = ui'.sel /\ ui'.path = La!Fresh
    <3>1. u.mode = "record" /\ u.mode # "play"
      BY <1>4, <1>5
    <3>2. /\ ui' \in Windows /\ ui'.mode = u.mode /\ ui'.shown = u.shown
          /\ ui'.settings = u.settings /\ ui'.sel = u.sel /\ ui'.path = La!Fresh
      BY <1>2, <1>4, <2>1, <3>1, PathRestored
    <3> QED
      BY <1>2, <1>4, <3>1, <3>2
  <2>3. Own'
    BY <1>2, <1>3, <2>2, FreshIsFree DEF Own
  <2>4. Shown' /\ origin' \in La!Origins
    BY <2>1, <2>2 DEF Shown, La!Origins
  <2> HIDE DEF again
  <2>5. OnDisk' /\ Playing' /\ SomeFree'
    BY <1>1, <1>2, <1>3 DEF OnDisk, Launching, Playing, SomeFree
  <2>6. Offered'
    BY <1>1, <1>2, <2>4 DEF Launching, Offered, La!Exists, La!NoPath, Paths
  <2> QED
    BY <2>3, <2>4, <2>5, <2>6 DEF Launching
<1>6. CASE ~ again
  <2>1. ui' = ui /\ origin' = origin /\ (ui.mode = "record" => g.mode # "record")
    BY <1>1, <1>6
  <2> HIDE DEF again
  <2>2. Own'
    BY <1>1, <1>3, <2>1 DEF Launching, Own, La!Exists
  <2>3. Shown'
    BY <2>1 DEF Launching, Shown
  <2>4. OnDisk' /\ Playing' /\ SomeFree'
    BY <1>1, <1>2, <1>3 DEF OnDisk, Launching, Playing, SomeFree
  <2>5. Offered'
    BY <1>1, <1>2, <2>1 DEF Launching, Offered, La!Exists, La!NoPath, Paths
  <2> QED
    BY <2>2, <2>3, <2>4, <2>5 DEF Launching
<1> QED
  BY <1>5, <1>6

-----------------------------------------------------------------------------
LEMMA LaunchingInit == PartsAssumption /\ La!Init => Launching
<1> SUFFICES ASSUME PartsAssumption, La!Init
             PROVE  Launching
  OBVIOUS
<1>1. /\ installs = [i \in Installs |-> [trainer |-> FALSE, session |-> 0, settings |-> i]]
      /\ recs = Kept /\ procs = {} /\ last_rec = 0 /\ origin = "own" /\ launches = 0
  BY DEF La!Init, La!NoPath
<1>2. /\ Kept \in [Names -> Recorded] /\ \E f \in Names : Kept[f].st = "none"
  BY DEF PartsAssumption, La!Constants, Recorded
<1>3. OnDisk
  <2>1. \A i \in Installs : [trainer |-> FALSE, session |-> 0, settings |-> i] \in Settings
    BY DEF Settings, Paths
  <2> QED
    BY <1>1, <1>2, <2>1 DEF OnDisk
<1>4. PICK i \in Installs : ui = La!Opened(i)
  BY DEF La!Init
<1>5. Shown /\ Own
  BY <1>3, <1>4, WindowOpened DEF Shown, Own
<1>6. La!Taken = {} /\ La!Child = {}
  BY <1>1 DEF La!Taken, La!Child
<1>7. Playing
  BY <1>1, <1>6 DEF Playing
<1>8. Offered /\ SomeFree
  BY <1>1, <1>2, <1>6 DEF Offered, SomeFree, La!Exists, La!Origins, Paths
<1> QED
  BY <1>3, <1>5, <1>7, <1>8 DEF Launching

\* What was sent is offered no longer, and nothing else changes.
LEMMA SubmittedSteps ==
  ASSUME Launching, La!Submitted
  PROVE  Launching'
<1>1. last_rec' = 0 /\ UNCHANGED <<ui, installs, recs, procs, origin, launches>>
  BY DEF La!Submitted, La!Idle, La!NoPath
<1>2. Shown' /\ OnDisk'
  BY <1>1 DEF Launching, Shown, OnDisk
<1>3. Own' /\ Playing'
  BY <1>1 DEF Launching, Own, Playing, La!Exists, La!Taken, La!Child
<1>4. Offered' /\ SomeFree'
  BY <1>1 DEF Launching, Offered, SomeFree, Paths, La!Exists, La!Taken
<1> QED
  BY <1>2, <1>3, <1>4 DEF Launching

LEMMA LaunchingStep == Launching /\ [La!Next]_(La!vars) => Launching'
<1> SUFFICES ASSUME Launching, [La!Next]_(La!vars)
             PROVE  Launching'
  OBVIOUS
<1>1. CASE UNCHANGED La!vars
  <2>1. /\ UNCHANGED <<ui, installs, recs, procs, last_rec, origin, launches>>
    BY <1>1 DEF La!vars
  <2>2. Shown' /\ OnDisk'
    BY <2>1 DEF Launching, Shown, OnDisk
  <2>3. Own' /\ Playing'
    BY <2>1 DEF Launching, Own, Playing, La!Exists, La!Taken, La!Child
  <2>4. Offered' /\ SomeFree'
    BY <2>1 DEF Launching, Offered, SomeFree, La!Exists, La!Taken
  <2> QED
    BY <2>2, <2>3, <2>4 DEF Launching
<1>2. CASE La!User
  BY <1>2, ModeSteps, DeleteSteps, ReopenSteps, LaunchSteps DEF La!User
<1>3. CASE \E g \in procs : La!GameRuns(g) \/ La!Done(g)
  BY <1>3, GameSteps, DoneSteps
<1>4. CASE La!Submitted
  BY <1>4, SubmittedSteps
<1> QED
  BY <1>1, <1>2, <1>3, <1>4 DEF La!Next

\* Only a game that is done changes what Submit would send, to a whole and
\* ranked recording.
LEMMA OfferedOnlySo ==
  ASSUME Launching, [La!Next]_(La!vars), last_rec' # last_rec, last_rec' # 0
  PROVE  recs[last_rec'].st = "whole" /\ recs[last_rec'].ranked
<1>1. PICK g \in procs : La!Done(g)
  BY DEF La!Next, La!User, La!vars, La!SetMode, La!PickInstall, La!Reopen, La!TickTrainer,
         La!TypePath, La!PickReplay, La!Delete, La!Launch, La!GameRuns, La!Submitted, La!NoPath
<1>2. last_rec' = IF g.mode # "record" \/ recs[g.path].st # "whole" THEN last_rec
                  ELSE IF recs[g.path].ranked THEN g.path ELSE 0
  BY <1>1 DEF La!Done, La!ChildDone, La!NoPath
<1> QED
  BY <1>2

LEMMA LaunchingShows ==
  ASSUME Launching
  PROVE  /\ La!SettingsStayOwn /\ La!TrainerOffInSession /\ La!LastRecExists
         /\ La!OwnTargetsFresh /\ La!TypeOK
<1>1. La!SettingsStayOwn
  BY DEF Launching, OnDisk, La!SettingsStayOwn
<1>2. La!TrainerOffInSession
  BY DEF Launching, Playing, La!TrainerOffInSession
<1>3. La!LastRecExists
  BY DEF Launching, Offered, La!LastRecExists, La!NoPath
<1>4. La!OwnTargetsFresh
  BY DEF Launching, Own, La!OwnTargetsFresh
<1>5. Cardinality(La!Child) <= 1
  <2>1. CASE La!Child = {}
    BY <2>1, FS_EmptySet
  <2>2. CASE La!Child # {}
    <3>1. PICK g \in La!Child : TRUE
      BY <2>2
    <3>2. La!Child = {g}
      BY <3>1 DEF Launching, Playing
    <3>3. Cardinality({g}) = 1
      BY FS_Singleton
    <3> QED
      BY <3>2, <3>3
  <2> QED
    BY <2>1, <2>2
<1>6. La!Cardinality(La!Child) = Cardinality(La!Child)
  BY DEF La!Cardinality, Cardinality
<1>7. La!TypeOK
  <2>1. ui \in Windows /\ installs \in [Installs -> Settings] /\ origin \in La!Origins /\ last_rec \in Paths
    BY DEF Launching, Shown, OnDisk, Offered
  <2> QED
    BY <1>5, <1>6, <2>1 DEF La!TypeOK, Windows, Headers, Settings, Paths, La!NoPath
<1> QED
  BY <1>1, <1>2, <1>3, <1>4, <1>7

(***************************************************************************)
(* The desk: each part steps or stands, so what holds of a part alone      *)
(* holds of the whole.                                                     *)
(***************************************************************************)

-----------------------------------------------------------------------------
LEMMA PartsStand ==
  /\ UNCHANGED launcher => UNCHANGED La!vars
  /\ UNCHANGED leaderboard => UNCHANGED Le!vars
  /\ UNCHANGED account => UNCHANGED Ac!vars
  BY DEF launcher, leaderboard, account, La!vars, Le!vars, Ac!vars

LEMMA EachPart ==
  [Next]_vars =>
    /\ UNCHANGED which
    /\ IF which = "launcher" THEN [La!Next]_(La!vars) ELSE UNCHANGED La!vars
    /\ [Le!Next]_(Le!vars)
    /\ [Ac!Next]_(Ac!vars)
<1> SUFFICES ASSUME [Next]_vars
             PROVE  /\ UNCHANGED which
                    /\ IF which = "launcher" THEN [La!Next]_(La!vars) ELSE UNCHANGED La!vars
                    /\ [Le!Next]_(Le!vars)
                    /\ [Ac!Next]_(Ac!vars)
  OBVIOUS
<1>1. CASE Only("launcher") /\ La!Next
  <2>1. which = "launcher" /\ UNCHANGED <<which, leaderboard, account>>
    BY <1>1 DEF Only
  <2> QED
    BY <1>1, <2>1, PartsStand
<1>2. CASE Only("leaderboard") /\ Le!Next
  <2>1. which = "leaderboard" /\ UNCHANGED <<which, launcher, account>>
    BY <1>2 DEF Only
  <2> QED
    BY <1>2, <2>1, PartsStand
<1>3. CASE Only("account") /\ Ac!Next
  <2>1. which = "account" /\ UNCHANGED <<which, launcher, leaderboard>>
    BY <1>3 DEF Only
  <2> QED
    BY <1>3, <2>1, PartsStand
<1>4. CASE UNCHANGED vars
  <2>1. UNCHANGED <<which, launcher, leaderboard, account>>
    BY <1>4 DEF vars
  <2> QED
    BY <2>1, PartsStand
<1> QED
  BY <1>1, <1>2, <1>3, <1>4 DEF Next

LEMMA BoardIsPart == Spec => Le!Init /\ [][Le!Next]_(Le!vars)
<1>1. Init => Le!Init
  BY DEF Init
<1> QED
  BY <1>1, EachPart, PTL DEF Spec

LEMMA AccountIsPart == Spec => Ac!Spec
<1>1. Init => Ac!Init
  BY DEF Init
<1> QED
  BY <1>1, EachPart, PTL DEF Spec, Ac!Spec

LEMMA LauncherStands ==
  /\ Init => (which = "launcher" => Launching)
  /\ (which = "launcher" => Launching) /\ [Next]_vars => (which = "launcher" => Launching)'
<1>1. Init => (which = "launcher" => Launching)
  BY PartsAssumption, LaunchingInit DEF Init
<1>2. ASSUME which = "launcher" => Launching, [Next]_vars, which' = "launcher"
      PROVE  Launching'
  BY <1>2, EachPart, LaunchingStep
<1> QED
  BY <1>1, <1>2

\* Through any order of mode, install, file and game, an install keeps its own
\* settings, a session's trainer is off, a chosen record target is nobody's,
\* and what Submit would send was whole and ranked when offered and exists.
THEOREM LaunchedAsShown == Spec => LaunchesAsShown
<1> DEFINE Here == which = "launcher" => Launching
           Says == which = "launcher" =>
                     /\ La!SettingsStayOwn /\ La!TrainerOffInSession
                     /\ La!LastRecExists /\ La!OwnTargetsFresh
<1>1. Init => Here
  BY LauncherStands
<1>2. Here /\ [Next]_vars => Here'
  BY LauncherStands
<1>3. Here => Says
  BY LaunchingShows
<1>4. Here /\ [Next]_vars
        => [last_rec' # last_rec /\ last_rec' # La!NoPath =>
              recs[last_rec'].st = "whole" /\ recs[last_rec'].ranked]_(La!vars)
  BY EachPart, OfferedOnlySo DEF La!NoPath
<1> QED
  BY <1>1, <1>2, <1>3, <1>4, PTL DEF Spec, LaunchesAsShown, La!OffersRanked

\* The login, at the server and in its files, goes only where it should.
THEOREM LoginsAreKept == Spec => LoginKept
<1>1. Le!Constants /\ Ac!Constants
  BY PartsAssumption
<1>2. Spec => []Le!OneUpload /\ Le!TokenKept /\ Le!CancelledStaysOut
  BY <1>1, BoardIsPart, LoginOnlySo, PTL
<1>3. Spec => []Ac!SaysWhatItHolds /\ Ac!OthersLoginStays /\ Ac!ForgottenOnlySo
  BY <1>1, AccountIsPart, LoginStays, PTL
<1> QED
  BY <1>2, <1>3, PTL DEF LoginKept

\* Every part's variables keep their types.
THEOREM DeskTyped == Spec => []TypeOK
<1>1. Le!Constants /\ Ac!Constants
  BY PartsAssumption
<1>2. Spec => []Le!TypeOK
  BY <1>1, BoardIsPart, BoardTyped, PTL
<1>3. Spec => []Ac!TypeOK
  BY <1>1, AccountIsPart, AccountTyped, PTL
<1>4. Spec => [](which = "launcher" => La!TypeOK)
  <2> DEFINE Here == which = "launcher" => Launching
  <2>1. Init => Here
    BY LauncherStands
  <2>2. Here /\ [Next]_vars => Here'
    BY LauncherStands
  <2>3. Here => (which = "launcher" => La!TypeOK)
    BY LaunchingShows
  <2> QED
    BY <2>1, <2>2, <2>3, PTL DEF Spec
<1>5. Spec => [](which \in {"launcher", "leaderboard", "account"})
  <2>1. Init => which \in {"launcher", "leaderboard", "account"}
    BY DEF Init
  <2>2. which \in {"launcher", "leaderboard", "account"} /\ [Next]_vars
          => (which \in {"launcher", "leaderboard", "account"})'
    BY EachPart
  <2> QED
    BY <2>1, <2>2, PTL DEF Spec
<1>6. which \in {"launcher", "leaderboard", "account"} /\ Le!TypeOK /\ Ac!TypeOK
        /\ (which = "launcher" => La!TypeOK) => TypeOK
  BY DEF TypeOK
<1> QED
  BY <1>2, <1>3, <1>4, <1>5, <1>6, PTL
=============================================================================
