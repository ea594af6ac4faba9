-------------------------- MODULE AccountPagesProofs --------------------------
(***************************************************************************)
(* Theorems about AccountPages, for any number of tabs, sessions, requests *)
(* and faults: its types, what outlives a change of the password, what     *)
(* signs a tab out, and which photos are on disk.                          *)
(***************************************************************************)
EXTENDS AccountPages, FiniteSetTheorems, TLAPS

SessionType == [live : BOOLEAN, mine : BOOLEAN, pw : Nat, raced : BOOLEAN]

\* The fields of the records that matter here.
IsCall(c) == {"op", "arg", "phase", "session", "raced"} \subseteq DOMAIN c

IsRefresh(r) == {"phase", "session", "raced"} \subseteq DOMAIN r

\* No session, or one of s.
Known(k, s) == k \in 0 .. Len(s)

\* A refresh of k will commit a session as good as the ones that live.
SoundRotation(k, raced, s, pw) ==
    k \in DOMAIN s /\ (s[k].pw = pw \/ s[k].raced \/ raced)

\* A login that has verified the password will commit a good session, too.
CallGood(c, s, pw) ==
    /\ IsCall(c) /\ c.raced \in BOOLEAN /\ Known(c.session, s)
    /\ c.op = "login" => c.arg \in Nat
    /\ c.op = "login" /\ c.phase = "read" => c.arg = pw \/ c.raced

RefreshGood(r, s, pw) ==
    /\ IsRefresh(r) /\ r.raced \in BOOLEAN /\ Known(r.session, s)
    /\ r.phase = "read" => SoundRotation(r.session, r.raced, s, pw)

DeviceGood(d, s, pw) ==
    /\ {"busy", "from", "pw", "raced"} \subseteq DOMAIN d
    /\ d.raced \in BOOLEAN /\ d.busy \in BOOLEAN /\ d.pw \in Nat
    /\ d.busy /\ d.from = 0 => d.pw = pw \/ d.raced
    /\ d.busy /\ d.from # 0 => SoundRotation(d.from, d.raced, s, pw)

JarGood(j, s) == "session" \in DOMAIN j /\ Known(j.session, s)

AccountGood == "pw" \in DOMAIN account /\ account.pw \in Nat

\* A session that lives is of the password of now, or raced with a change.
SessionsGood ==
    /\ sessions \in Seq(SessionType)
    /\ \A k \in Sessions :
          sessions[k].live => sessions[k].pw = account.pw \/ sessions[k].raced

CredInv ==
    /\ AccountGood /\ SessionsGood
    /\ \A c \in calls : CallGood(c, sessions, account.pw)
    /\ \A r \in refreshes : RefreshGood(r, sessions, account.pw)
    /\ DeviceGood(device, sessions, account.pw)
    /\ JarGood(jar, sessions)

-----------------------------------------------------------------------------
(* Sessions that grow: nothing is taken back but that some are live. *)

Grown(s, t, pw) ==
    /\ t \in Seq(SessionType)
    /\ Len(s) <= Len(t)
    /\ \A k \in DOMAIN s : t[k].pw = s[k].pw /\ t[k].raced = s[k].raced
    /\ \A k \in DOMAIN t : t[k].live => t[k].pw = pw \/ t[k].raced

\* A session that is ended keeps the rest.
LEMMA EndSame ==
  ASSUME NEW r \in SessionType
  PROVE  LET e == [r EXCEPT !.live = FALSE]
         IN  e \in SessionType /\ e.pw = r.pw /\ e.raced = r.raced /\ ~e.live
BY DEF SessionType

LEMMA IsSeq ==
  ASSUME NEW S, NEW n \in Nat, NEW f, f = [j \in 1 .. n |-> f[j]],
         \A j \in 1 .. n : f[j] \in S
  PROVE  f \in Seq(S) /\ Len(f) = n
<1>1. f \in [1 .. n -> S]
  OBVIOUS
<1> QED
  BY <1>1

LEMMA EndOne ==
  ASSUME NEW s \in Seq(SessionType), NEW k
  PROVE  LET t == [s EXCEPT ![k].live = FALSE]
         IN  /\ t \in Seq(SessionType) /\ Len(t) = Len(s)
             /\ \A j \in 1 .. Len(s) : /\ t[j].pw = s[j].pw /\ t[j].raced = s[j].raced
                                       /\ t[j].live => s[j].live
<1> DEFINE t == [s EXCEPT ![k].live = FALSE]
<1>1. DOMAIN t = 1 .. Len(s) /\ DOMAIN s = 1 .. Len(s) /\ Len(s) \in Nat
  OBVIOUS
<1>2. ASSUME NEW j \in 1 .. Len(s)
      PROVE  /\ t[j] \in SessionType
             /\ t[j].pw = s[j].pw /\ t[j].raced = s[j].raced
             /\ t[j].live => s[j].live
  <2>1. t[j] = IF j = k THEN [s[j] EXCEPT !.live = FALSE] ELSE s[j]
    BY <1>1
  <2>2. s[j] \in SessionType
    BY <1>1
  <2> QED
    BY <2>1, <2>2, EndSame
<1>3. t = [j \in 1 .. Len(s) |-> t[j]]
  BY <1>1
<1> HIDE DEF t
<1>4. t \in Seq(SessionType) /\ Len(t) = Len(s)
  BY <1>1, <1>2, <1>3, IsSeq
<1> QED
  BY <1>2, <1>4 DEF t

\* RevokedBut of any sessions.
EndedBut(s, k) ==
    [j \in DOMAIN s |-> IF j = k THEN s[j] ELSE [s[j] EXCEPT !.live = FALSE]]

LEMMA EndMany ==
  ASSUME NEW s \in Seq(SessionType), NEW k
  PROVE  LET t == EndedBut(s, k)
         IN  /\ t \in Seq(SessionType) /\ Len(t) = Len(s)
             /\ \A j \in 1 .. Len(s) : /\ t[j].pw = s[j].pw /\ t[j].raced = s[j].raced
                                       /\ t[j].live => s[j].live
                                       /\ j # k => ~t[j].live
<1> DEFINE t == EndedBut(s, k)
<1>1. DOMAIN s = 1 .. Len(s) /\ Len(s) \in Nat
  OBVIOUS
<1>2. ASSUME NEW j \in 1 .. Len(s)
      PROVE  /\ t[j] \in SessionType
             /\ t[j].pw = s[j].pw /\ t[j].raced = s[j].raced
             /\ t[j].live => s[j].live
             /\ j # k => ~t[j].live
  <2>1. t[j] = IF j = k THEN s[j] ELSE [s[j] EXCEPT !.live = FALSE]
    BY <1>1 DEF EndedBut
  <2>2. s[j] \in SessionType
    BY <1>1
  <2> QED
    BY <2>1, <2>2, EndSame
<1>3. t \in Seq(SessionType) /\ Len(t) = Len(s)
  <2>1. t = [j \in 1 .. Len(s) |-> t[j]]
    BY <1>1 DEF EndedBut
  <2> HIDE DEF t
  <2> QED
    BY <1>1, <1>2, <2>1, IsSeq
<1> QED
  BY <1>2, <1>3

LEMMA AddOne ==
  ASSUME NEW s \in Seq(SessionType), NEW e \in SessionType, NEW pw,
         \A k \in DOMAIN s : s[k].live => s[k].pw = pw \/ s[k].raced,
         e.pw = pw \/ e.raced
  PROVE  Grown(s, Append(s, e), pw) /\ Len(Append(s, e)) = Len(s) + 1
<1> DEFINE t == Append(s, e)
<1>1. /\ t \in Seq(SessionType) /\ Len(t) = Len(s) + 1 /\ Len(s) \in Nat
      /\ DOMAIN s = 1 .. Len(s) /\ DOMAIN t = 1 .. Len(t)
      /\ \A k \in 1 .. Len(s) : t[k] = s[k]
      /\ t[Len(s) + 1] = e
  OBVIOUS
<1> HIDE DEF t
<1>2. \A k \in DOMAIN t : t[k].live => t[k].pw = pw \/ t[k].raced
  <2> TAKE k \in DOMAIN t
  <2>1. CASE k \in 1 .. Len(s)
    BY <2>1, <1>1
  <2>2. CASE k = Len(s) + 1
    BY <2>2, <1>1
  <2> QED
    BY <2>1, <2>2, <1>1
<1>3. Grown(s, t, pw)
  BY <1>1, <1>2 DEF Grown
<1> QED
  BY <1>1, <1>3 DEF t

\* One session is ended and then another one added.
LEMMA GrownTwice ==
  ASSUME NEW s \in Seq(SessionType), NEW t, NEW u, NEW pw,
         Grown(s, t, pw), Grown(t, u, pw)
  PROVE  Grown(s, u, pw)
<1>1. /\ DOMAIN s = 1 .. Len(s) /\ Len(s) \in Nat
      /\ t \in Seq(SessionType) /\ DOMAIN t = 1 .. Len(t) /\ Len(t) \in Nat
      /\ u \in Seq(SessionType) /\ Len(u) \in Nat
      /\ Len(s) <= Len(t) /\ Len(t) <= Len(u)
  BY DEF Grown
<1>2. \A k \in DOMAIN s : k \in DOMAIN t
  BY <1>1
<1> QED
  BY <1>1, <1>2 DEF Grown

\* What an ended session leaves.
LEMMA EndGrown ==
  ASSUME NEW s \in Seq(SessionType), NEW pw, NEW t \in Seq(SessionType),
         Len(t) = Len(s),
         \A k \in 1 .. Len(s) : /\ t[k].pw = s[k].pw /\ t[k].raced = s[k].raced
                                /\ t[k].live => s[k].live,
         \A k \in DOMAIN s : s[k].live => s[k].pw = pw \/ s[k].raced
  PROVE  Grown(s, t, pw)
<1>1. DOMAIN s = 1 .. Len(s) /\ DOMAIN t = 1 .. Len(s) /\ Len(s) \in Nat
  OBVIOUS
<1> QED
  BY <1>1 DEF Grown

-----------------------------------------------------------------------------
(* Steps that keep the password. *)

CredStep ==
    /\ account'.pw = account.pw /\ "pw" \in DOMAIN account'
    /\ Grown(sessions, sessions', account.pw)
    /\ \A c \in calls' : c \in calls \/ CallGood(c, sessions', account.pw)
    /\ \A r \in refreshes' :
          r \in refreshes \/ RefreshGood(r, sessions', account.pw)
    /\ device' = device \/ DeviceGood(device', sessions', account.pw)
    /\ jar' = jar \/ JarGood(jar', sessions')

LEMMA KnownGrown ==
  ASSUME NEW s \in Seq(SessionType), NEW t, NEW pw, Grown(s, t, pw)
  PROVE  \A k : Known(k, s) => Known(k, t)
<1>1. Len(s) \in Nat /\ Len(t) \in Nat /\ Len(s) <= Len(t)
  BY DEF Grown
<1> QED
  BY <1>1 DEF Known

LEMMA RotationGrown ==
  ASSUME NEW s \in Seq(SessionType), NEW t, NEW pw, Grown(s, t, pw),
         NEW k, NEW raced, SoundRotation(k, raced, s, pw)
  PROVE  SoundRotation(k, raced, t, pw)
<1>1. /\ DOMAIN s = 1 .. Len(s) /\ Len(s) \in Nat
      /\ DOMAIN t = 1 .. Len(t) /\ Len(t) \in Nat /\ Len(s) <= Len(t)
  BY DEF Grown
<1>2. k \in DOMAIN s /\ k \in DOMAIN t
  BY <1>1 DEF SoundRotation
<1>3. t[k].pw = s[k].pw /\ t[k].raced = s[k].raced
  BY <1>2 DEF Grown
<1> QED
  BY <1>2, <1>3 DEF SoundRotation

LEMMA Kept ==
  ASSUME CredInv, CredStep
  PROVE  CredInv'
<1> DEFINE pw == account.pw
<1>1. /\ sessions \in Seq(SessionType) /\ account'.pw = pw
      /\ Grown(sessions, sessions', pw)
  BY DEF CredInv, CredStep, SessionsGood
<1>2. AccountGood' /\ SessionsGood'
  BY <1>1 DEF CredInv, CredStep, AccountGood, SessionsGood, Grown, Sessions
<1>3. ASSUME NEW c \in calls'
      PROVE  CallGood(c, sessions', pw)
  <2>1. CASE c \in calls
    <3>1. CallGood(c, sessions, pw)
      BY <2>1 DEF CredInv
    <3> QED
      BY <3>1, <1>1, KnownGrown DEF CallGood
  <2> QED
    BY <2>1 DEF CredStep
<1>4. ASSUME NEW r \in refreshes'
      PROVE  RefreshGood(r, sessions', pw)
  <2>1. CASE r \in refreshes
    <3>1. RefreshGood(r, sessions, pw)
      BY <2>1 DEF CredInv
    <3> QED
      BY <3>1, <1>1, KnownGrown, RotationGrown DEF RefreshGood
  <2> QED
    BY <2>1 DEF CredStep
<1>5. DeviceGood(device', sessions', pw)
  <2>1. CASE device' = device
    <3>1. DeviceGood(device, sessions, pw)
      BY DEF CredInv
    <3> QED
      BY <2>1, <3>1, <1>1, RotationGrown DEF DeviceGood
  <2> QED
    BY <2>1 DEF CredStep
<1>6. JarGood(jar', sessions')
  <2>1. CASE jar' = jar
    BY <2>1, <1>1, KnownGrown DEF CredInv, JarGood
  <2> QED
    BY <2>1 DEF CredStep
<1> QED
  BY <1>1, <1>2, <1>3, <1>4, <1>5, <1>6 DEF CredInv

\* Most steps leave the sessions alone.
LEMMA Still ==
  ASSUME CredInv, sessions' = sessions
  PROVE  Grown(sessions, sessions', account.pw)
<1>1. sessions \in Seq(SessionType) /\ Len(sessions) \in Nat
  BY DEF CredInv, SessionsGood
<1> QED
  BY <1>1 DEF CredInv, SessionsGood, Grown, Sessions

-----------------------------------------------------------------------------
(* What becomes of a request. *)

LEMMA Asked ==
  ASSUME JarGood(jar, sessions), NEW t, NEW op, NEW arg, op = "login" => arg \in Nat,
         NEW pw
  PROVE  CallGood(Call(t, op, arg), sessions, pw)
<1> DEFINE d == Call(t, op, arg)
<1>1. /\ IsCall(d) /\ d.raced = FALSE /\ d.session = jar.session /\ d.op = op
      /\ d.arg = arg /\ d.phase = "sent"
  BY DEF Call, IsCall
<1> QED
  BY <1>1 DEF JarGood, CallGood

\* What the steps write.
LEMMA Fields ==
  ASSUME NEW s, NEW pw, NEW c, CallGood(c, s, pw)
  PROVE  /\ CallGood([c EXCEPT !.heard = FALSE], s, pw)
         /\ \A v : v # "read" => CallGood([c EXCEPT !.phase = v], s, pw)
         /\ \A v, w : v # "read" /\ c.op # "login" =>
               CallGood([c EXCEPT !.phase = v, !.arg = w], s, pw)
         /\ \A v, w : v # "read" => CallGood([c EXCEPT !.phase = v, !.rows = w], s, pw)
         /\ \A v, w : v # "read" /\ Known(w, s) =>
               CallGood([c EXCEPT !.phase = v, !.session = w], s, pw)
         /\ \A w, x : c.op # "login" =>
               CallGood([c EXCEPT !.phase = "read", !.arg = w, !.old = x], s, pw)
         /\ \A j : Known(j.session, s) => CallGood(Resent(c, j), s, pw)
         /\ \A v, w : Known(v, s) =>
               CallGood([c EXCEPT !.session = v, !.fresh = w], s, pw)
<1>1. CallGood([c EXCEPT !.heard = FALSE], s, pw)
  BY DEF CallGood, IsCall
<1>2. ASSUME NEW v, v # "read"
      PROVE  CallGood([c EXCEPT !.phase = v], s, pw)
  BY <1>2 DEF CallGood, IsCall
<1>3. ASSUME NEW v, NEW w, v # "read", c.op # "login"
      PROVE  CallGood([c EXCEPT !.phase = v, !.arg = w], s, pw)
  BY <1>3 DEF CallGood, IsCall
<1>4. ASSUME NEW v, NEW w, v # "read"
      PROVE  CallGood([c EXCEPT !.phase = v, !.rows = w], s, pw)
  BY <1>4 DEF CallGood, IsCall
<1>5. ASSUME NEW v, NEW w, v # "read", Known(w, s)
      PROVE  CallGood([c EXCEPT !.phase = v, !.session = w], s, pw)
  BY <1>5 DEF CallGood, IsCall
<1>6. ASSUME NEW w, NEW x, c.op # "login"
      PROVE  CallGood([c EXCEPT !.phase = "read", !.arg = w, !.old = x], s, pw)
  BY <1>6 DEF CallGood, IsCall
<1>7. ASSUME NEW j, Known(j.session, s)
      PROVE  CallGood(Resent(c, j), s, pw)
  BY <1>7 DEF CallGood, IsCall, Resent
<1>8. ASSUME NEW v, NEW w, Known(v, s)
      PROVE  CallGood([c EXCEPT !.session = v, !.fresh = w], s, pw)
  BY <1>8 DEF CallGood, IsCall
<1> QED
  BY <1>1, <1>2, <1>3, <1>4, <1>5, <1>6, <1>7, <1>8

-----------------------------------------------------------------------------
(* What becomes of a refresh and of a tab that is loaded. *)

LEMMA RefreshFields ==
  ASSUME NEW s, NEW pw, NEW r, RefreshGood(r, s, pw)
  PROVE  /\ RefreshGood([r EXCEPT !.heard = FALSE], s, pw)
         /\ \A v : v # "read" => RefreshGood([r EXCEPT !.phase = v], s, pw)
         /\ \A v, k : v # "read" /\ Known(k, s) =>
               RefreshGood([r EXCEPT !.phase = v, !.session = k], s, pw)
         /\ SoundRotation(r.session, r.raced, s, pw) =>
               RefreshGood([r EXCEPT !.phase = "read"], s, pw)
<1>1. RefreshGood([r EXCEPT !.heard = FALSE], s, pw)
  BY DEF RefreshGood, IsRefresh
<1>2. ASSUME NEW v, v # "read"
      PROVE  RefreshGood([r EXCEPT !.phase = v], s, pw)
  BY <1>2 DEF RefreshGood, IsRefresh
<1>3. ASSUME NEW v, NEW k, v # "read", Known(k, s)
      PROVE  RefreshGood([r EXCEPT !.phase = v, !.session = k], s, pw)
  BY <1>3 DEF RefreshGood, IsRefresh
<1>4. ASSUME SoundRotation(r.session, r.raced, s, pw)
      PROVE  RefreshGood([r EXCEPT !.phase = "read"], s, pw)
  BY <1>4 DEF RefreshGood, IsRefresh
<1> QED
  BY <1>1, <1>2, <1>3, <1>4

LEMMA AbandonGood ==
  ASSUME NEW s, NEW pw, \A r \in refreshes : RefreshGood(r, s, pw), NEW t, Abandon(t)
  PROVE  \A r \in refreshes' : RefreshGood(r, s, pw)
<1> TAKE r \in refreshes'
<1>1. r \in refreshes \/ \E q \in refreshes : r = [q EXCEPT !.heard = FALSE]
  BY DEF Abandon, Joins
<1>2. ASSUME NEW q \in refreshes, r = [q EXCEPT !.heard = FALSE]
      PROVE  RefreshGood(r, s, pw)
  <2>1. RefreshGood(q, s, pw)
    OBVIOUS
  <2> QED
    BY <1>2, <2>1, RefreshFields
<1> QED
  BY <1>1, <1>2

LEMMA UnheardGood ==
  ASSUME NEW s, NEW pw, NEW C, \A c \in C : CallGood(c, s, pw), NEW t
  PROVE  \A c \in Unheard(t, C) : CallGood(c, s, pw)
<1> TAKE c \in Unheard(t, C)
<1>1. c \in C \/ \E d \in C : c = [d EXCEPT !.heard = FALSE]
  BY DEF Unheard
<1>2. ASSUME NEW d \in C, c = [d EXCEPT !.heard = FALSE]
      PROVE  CallGood(c, s, pw)
  <2>1. CallGood(d, s, pw)
    OBVIOUS
  <2> QED
    BY <1>2, <2>1, Fields
<1> QED
  BY <1>1, <1>2

LEMMA LoadGood ==
  ASSUME JarGood(jar, sessions), NEW cookies, JarGood(cookies, sessions), NEW pw,
         NEW C, \A c \in C : CallGood(c, sessions, pw), NEW t, Load(t, cookies, C)
  PROVE  \A c \in calls' : CallGood(c, sessions, pw)
<1> DEFINE me == [Call(t, "me", 0) EXCEPT !.session = cookies.session,
                                          !.fresh = cookies.fresh]
<1>1. calls' \subseteq Unheard(t, C) \cup {me}
  BY DEF Load
<1>2. CallGood(Call(t, "me", 0), sessions, pw)
  BY Asked
<1>3. CallGood(me, sessions, pw)
  <2>1. Known(cookies.session, sessions)
    BY DEF JarGood
  <2> QED
    BY <1>2, <2>1, Fields
<1> HIDE DEF me
<1> QED
  BY <1>1, <1>3, UnheardGood

\* Requests and refreshes may change, the rest stays.
LEMMA OnlyRequests ==
  ASSUME CredInv, account' = account, sessions' = sessions, device' = device,
         jar' = jar \/ JarGood(jar', sessions),
         \A c \in calls' : c \in calls \/ CallGood(c, sessions, account.pw),
         \A r \in refreshes' : r \in refreshes \/ RefreshGood(r, sessions, account.pw)
  PROVE  CredInv'
<1>1. CredStep
  BY Still DEF CredStep, CredInv, AccountGood
<1> QED
  BY <1>1, Kept

LEMMA UserKeeps ==
  ASSUME CredInv, NEW t, User(t)
  PROVE  CredInv'
<1>0. JarGood(jar, sessions)
  BY DEF CredInv
<1>1. ASSUME NEW op, NEW arg, op = "login" => arg \in Nat, Ask(Call(t, op, arg))
      PROVE  CredInv'
  <2>1. CallGood(Call(t, op, arg), sessions, account.pw)
    BY <1>0, <1>1, Asked
  <2>2. /\ account' = account /\ sessions' = sessions /\ device' = device /\ jar' = jar
        /\ refreshes' = refreshes /\ calls' = calls \cup {Call(t, op, arg)}
    BY <1>1 DEF Ask, server
  <2> QED
    BY <2>1, <2>2, OnlyRequests
<1>2. ASSUME NEW pw \in 1 .. account.pw, Login(t, pw)
      PROVE  CredInv'
  <2>1. pw \in Nat
    BY DEF CredInv, AccountGood
  <2> QED
    BY <1>1, <1>2, <2>1 DEF Login
<1>3. ASSUME NEW k \in Sessions, OnRevoke(t, k)
      PROVE  CredInv'
  BY <1>1, <1>3 DEF OnRevoke
<1>4. CASE ListSessions(t)
  BY <1>1, <1>4 DEF ListSessions
<1>5. CASE OnRevokeOthers(t)
  BY <1>1, <1>5 DEF OnRevokeOthers
<1>6. CASE ChangePassword(t)
  BY <1>1, <1>6 DEF ChangePassword
<1>7. CASE OnFile(t)
  BY <1>1, <1>7 DEF OnFile
<1>8. CASE OnRemove(t)
  BY <1>1, <1>8 DEF OnRemove
<1>9. CASE Logout(t)
  BY <1>1, <1>9 DEF Logout
<1>10. CASE Reload(t)
  <2>1. /\ account' = account /\ sessions' = sessions /\ device' = device /\ jar' = jar
        /\ Load(t, jar, calls) /\ Abandon(t)
    BY <1>10 DEF Reload, server
  <2>2. \A c \in calls' : CallGood(c, sessions, account.pw)
    BY <1>0, <2>1, LoadGood DEF CredInv
  <2>3. \A r \in refreshes' : RefreshGood(r, sessions, account.pw)
    BY <2>1, AbandonGood DEF CredInv
  <2> QED
    BY <2>1, <2>2, <2>3, OnlyRequests
<1> QED
  BY <1>2, <1>3, <1>4, <1>5, <1>6, <1>7, <1>8, <1>9, <1>10 DEF User

-----------------------------------------------------------------------------
(* Replies and refreshes. *)

LEMMA Cookies ==
  ASSUME NEW s \in Seq(SessionType)
  PROVE  JarGood(NoCookies, s) /\ \A k : Known(k, s) => JarGood(CookiesOf(k), s)
<1>1. Len(s) \in Nat
  OBVIOUS
<1> QED
  BY <1>1 DEF NoCookies, CookiesOf, JarGood, Known

LEMMA TryRefreshGood ==
  ASSUME JarGood(jar, sessions), NEW c, TryRefresh(c), NEW pw
  PROVE  \A r \in refreshes' : r \in refreshes \/ RefreshGood(r, sessions, pw)
<1>1. refreshes' \subseteq refreshes \cup {NewRefresh(c)}
  BY DEF TryRefresh, StartRefresh
<1>2. RefreshGood(NewRefresh(c), sessions, pw)
  BY DEF NewRefresh, RefreshGood, IsRefresh, JarGood
<1> QED
  BY <1>1, <1>2

\* A list that is asked for again is given up where it is under way.
LEMMA RevokeCalls ==
  ASSUME NEW c, RevokeReplied(c)
  PROVE  /\ \A x \in calls' : \/ x \in calls \/ x = Call(c.tab, "sessions", 0)
                             \/ \E d \in calls : d.op = "sessions" /\ x = GivenUp(d)
         /\ \A x \in calls \ calls' : x = c \/ x.op = "sessions"
<1>1. \A d \in Listing(c.tab) : d \in calls /\ d.op = "sessions"
  BY DEF Listing
<1>2. CASE calls' = calls \ {c}
  BY <1>2
<1>3. CASE calls' = {IF d \in Listing(c.tab) THEN GivenUp(d) ELSE d : d \in calls \ {c}}
                       \cup {Call(c.tab, "sessions", 0)}
  <2>1. ASSUME NEW x \in calls', x # Call(c.tab, "sessions", 0)
        PROVE  x \in calls \/ \E d \in calls : d.op = "sessions" /\ x = GivenUp(d)
    <3>1. PICK d \in calls \ {c} : x = IF d \in Listing(c.tab) THEN GivenUp(d) ELSE d
      BY <1>3, <2>1
    <3> QED
      BY <1>1, <3>1
  <2>2. ASSUME NEW x \in calls, x \notin calls', x # c, x.op # "sessions"
        PROVE  FALSE
    <3>1. x \notin Listing(c.tab)
      BY <1>1, <2>2
    <3> QED
      BY <1>3, <2>2, <3>1
  <2> QED
    BY <2>1, <2>2
<1> QED
  BY <1>2, <1>3 DEF RevokeReplied

LEMMA ReplyKeeps ==
  ASSUME CredInv, NEW c \in calls, Reply(c)
  PROVE  CredInv'
<1>0. /\ JarGood(jar, sessions) /\ sessions \in Seq(SessionType)
      /\ CallGood(c, sessions, account.pw)
      /\ \A d \in calls : CallGood(d, sessions, account.pw)
      /\ \A r \in refreshes : RefreshGood(r, sessions, account.pw)
  BY DEF CredInv, SessionsGood
<1>1. CASE MeReplied(c)
  BY <1>1, OnlyRequests DEF MeReplied, Quiet, server
<1>2. CASE SessionsReplied(c)
  BY <1>2, OnlyRequests DEF SessionsReplied, Quiet, server
<1>3. CASE AvatarReplied(c)
  BY <1>3, OnlyRequests DEF AvatarReplied, Quiet, server
<1>4. CASE RevokeReplied(c)
  <2>1. CallGood(Call(c.tab, "sessions", 0), sessions, account.pw)
    BY <1>0, Asked
  <2>2. ASSUME NEW d \in calls, d.op = "sessions"
        PROVE  CallGood(GivenUp(d), sessions, account.pw)
    <3>1. PICK x : x = GivenUp(d)
      OBVIOUS
    <3>2. /\ IsCall(x) /\ x.op = d.op /\ x.raced = d.raced
          /\ x.session = d.session
      BY <1>0, <3>1 DEF GivenUp, CallGood, IsCall
    <3> QED
      BY <1>0, <2>2, <3>1, <3>2 DEF CallGood
  <2>3. \A x \in calls' : x \in calls \/ CallGood(x, sessions, account.pw)
    BY <1>4, <2>1, <2>2, RevokeCalls
  <2> QED
    BY <1>4, <2>3, OnlyRequests DEF RevokeReplied, Quiet, server
<1>5. ASSUME NEW cookies, JarGood(cookies, sessions), Load(c.tab, cookies, calls \ {c}),
             account' = account, sessions' = sessions, device' = device,
             jar' = cookies, Abandon(c.tab)
      PROVE  CredInv'
  <2>1. \A d \in calls' : CallGood(d, sessions, account.pw)
    BY <1>0, <1>5, LoadGood
  <2>2. \A r \in refreshes' : RefreshGood(r, sessions, account.pw)
    BY <1>0, <1>5, AbandonGood
  <2> QED
    BY <1>5, <2>1, <2>2, OnlyRequests
<1>6. CASE LoginReplied(c)
  <2>1. Known(c.session, sessions)
    BY <1>0 DEF CallGood
  <2>2. JarGood(CookiesOf(c.session), sessions)
    BY <1>0, <2>1, Cookies
  <2> QED
    BY <1>5, <1>6, <2>2 DEF LoginReplied, server
<1>7. CASE LogoutReplied(c)
  <2>1. JarGood(NoCookies, sessions)
    BY <1>0, Cookies
  <2> QED
    BY <1>5, <1>7, <2>1 DEF LogoutReplied, server
<1>8. CASE Denied(c)
  <2>1. CallGood([c EXCEPT !.phase = "waits"], sessions, account.pw)
    BY <1>0, Fields
  <2>2. /\ calls' = (calls \ {c}) \cup {[c EXCEPT !.phase = "waits"]}
        /\ account' = account /\ sessions' = sessions /\ device' = device /\ jar' = jar
        /\ TryRefresh(c)
    BY <1>8 DEF Denied, server
  <2>3. \A r \in refreshes' : r \in refreshes \/ RefreshGood(r, sessions, account.pw)
    BY <1>0, <2>2, TryRefreshGood
  <2> QED
    BY <2>1, <2>2, <2>3, OnlyRequests
<1>9. CASE CallFails(c)
  <2>1. account' = account /\ sessions' = sessions /\ device' = device /\ jar' = jar
    BY <1>9 DEF CallFails, server
  <2>2. \/ Load(c.tab, jar, calls \ {c}) /\ Abandon(c.tab)
        \/ calls' = calls \ {c} /\ refreshes' = refreshes
    BY <1>9 DEF CallFails
  <2>3. CASE Load(c.tab, jar, calls \ {c}) /\ Abandon(c.tab)
    BY <1>0, <1>5, <2>1, <2>3
  <2>4. CASE calls' = calls \ {c} /\ refreshes' = refreshes
    BY <2>1, <2>4, OnlyRequests
  <2> QED
    BY <2>2, <2>3, <2>4
<1> QED
  BY <1>1, <1>2, <1>3, <1>4, <1>6, <1>7, <1>8, <1>9 DEF Reply

\* A refresh that commits ends one session and adds one like it.
LEMMA RotateGrown ==
  ASSUME SessionsGood, account.pw \in Nat, NEW k, NEW raced \in BOOLEAN,
         SoundRotation(k, raced, sessions, account.pw), Rotate(k, raced)
  PROVE  /\ Grown(sessions, sessions', account.pw)
         /\ Len(sessions') = Len(sessions) + 1
<1> DEFINE t == [sessions EXCEPT ![k].live = FALSE]
           e == Session(sessions[k].mine, sessions[k].pw, raced \/ sessions[k].raced)
<1>1. sessions \in Seq(SessionType) /\ k \in DOMAIN sessions
  BY DEF SessionsGood, SoundRotation
<1>2. sessions[k] \in SessionType
  BY <1>1
<1>3. /\ t \in Seq(SessionType) /\ Len(t) = Len(sessions)
      /\ \A j \in 1 .. Len(sessions) :
            /\ t[j].pw = sessions[j].pw /\ t[j].raced = sessions[j].raced
            /\ t[j].live => sessions[j].live
  BY <1>1, EndOne
<1>4. e \in SessionType
  <2>1. (raced \/ sessions[k].raced) \in BOOLEAN
    OBVIOUS
  <2> QED
    BY <1>2, <2>1 DEF SessionType, Session
<1>5. e.pw = account.pw \/ e.raced
  <2>1. e.pw = sessions[k].pw /\ e.raced = (raced \/ sessions[k].raced)
    BY DEF Session
  <2> HIDE DEF e
  <2> QED
    BY <2>1 DEF SoundRotation
<1>6. sessions' = Append(t, e)
  BY DEF Rotate
<1> HIDE DEF t, e
<1>7. Grown(sessions, t, account.pw)
  BY <1>1, <1>3, EndGrown DEF SessionsGood, Sessions
<1>8. Grown(t, Append(t, e), account.pw) /\ Len(Append(t, e)) = Len(t) + 1
  <2>1. \A j \in DOMAIN t : t[j].live => t[j].pw = account.pw \/ t[j].raced
    BY <1>7 DEF Grown
  <2> QED
    BY <1>3, <1>4, <1>5, <2>1, AddOne
<1> QED
  BY <1>1, <1>3, <1>6, <1>7, <1>8, GrownTwice

LEMMA RefreshKeeps ==
  ASSUME CredInv, NEW r \in refreshes, Refresh(r)
  PROVE  CredInv'
<1>0. /\ JarGood(jar, sessions) /\ sessions \in Seq(SessionType)
      /\ RefreshGood(r, sessions, account.pw)
      /\ \A d \in calls : CallGood(d, sessions, account.pw)
      /\ SessionsGood /\ account.pw \in Nat /\ "pw" \in DOMAIN account
      /\ Len(sessions) \in Nat /\ DOMAIN sessions = 1 .. Len(sessions)
  BY DEF CredInv, SessionsGood, AccountGood
<1>1. CASE Refreshed(r)
  <2> DEFINE cookies == CookiesOf(r.session)
  <2>1. JarGood(cookies, sessions) /\ Known(cookies.session, sessions)
    <3>1. Known(r.session, sessions)
      BY <1>0 DEF RefreshGood
    <3> QED
      BY <1>0, <3>1, Cookies DEF JarGood
  <2> HIDE DEF cookies
  <2>2. ASSUME NEW d \in Resume(r, cookies)
        PROVE  d \in calls \/ CallGood(d, sessions, account.pw)
    <3>1. d \in calls \/ \E c \in calls : d = Resent(c, cookies)
      BY <2>2 DEF Resume
    <3>2. ASSUME NEW c \in calls, d = Resent(c, cookies)
          PROVE  CallGood(d, sessions, account.pw)
      <4>1. CallGood(c, sessions, account.pw)
        BY <1>0
      <4> QED
        BY <2>1, <3>2, <4>1, Fields
    <3> QED
      BY <3>1, <3>2
  <2>3. /\ account' = account /\ sessions' = sessions /\ device' = device
        /\ jar' = cookies /\ calls' = Resume(r, cookies) /\ refreshes' = refreshes \ {r}
    BY <1>1 DEF Refreshed, server, cookies
  <2> QED
    BY <2>1, <2>2, <2>3, OnlyRequests
<1>2. CASE RefreshFails(r)
  <2>1. PICK cookies : /\ cookies = NoCookies \/ cookies = jar
                       /\ jar' = cookies /\ Load(r.tab, cookies, calls)
    BY <1>2 DEF RefreshFails
  <2>2. JarGood(cookies, sessions)
    BY <1>0, <2>1, Cookies
  <2>3. \A d \in calls' : CallGood(d, sessions, account.pw)
    BY <1>0, <2>1, <2>2, LoadGood
  <2>4. /\ account' = account /\ sessions' = sessions /\ device' = device
        /\ refreshes' = refreshes \ {r}
    BY <1>2 DEF RefreshFails, server
  <2> QED
    BY <2>1, <2>2, <2>3, <2>4, OnlyRequests
<1>3. CASE ReadRefresh(r)
  <2> DEFINE q == [r EXCEPT !.phase =
                      IF Refreshable(r.session) THEN "read" ELSE "refused"]
  <2>1. RefreshGood(q, sessions, account.pw)
    <3>1. CASE Refreshable(r.session)
      <4>1. SoundRotation(r.session, r.raced, sessions, account.pw)
        <5>1. Known(r.session, sessions) /\ r.session # 0 /\ sessions[r.session].live
          BY <1>0, <3>1 DEF RefreshGood, Refreshable, Live
        <5>2. r.session \in DOMAIN sessions
          BY <1>0, <5>1 DEF Known
        <5> QED
          BY <1>0, <5>1, <5>2 DEF SessionsGood, Sessions, SoundRotation
      <4>2. q = [r EXCEPT !.phase = "read"]
        BY <3>1
      <4> QED
        BY <1>0, <4>1, <4>2, RefreshFields
    <3>2. CASE ~Refreshable(r.session)
      <4>1. q = [r EXCEPT !.phase = "refused"]
        BY <3>2
      <4> QED
        BY <1>0, <4>1, RefreshFields
    <3> QED
      BY <3>1, <3>2
  <2>2. /\ account' = account /\ sessions' = sessions /\ device' = device
        /\ jar' = jar /\ calls' = calls /\ refreshes' \subseteq refreshes \cup {q}
    BY <1>3 DEF ReadRefresh, RefreshAnswered, server
  <2> HIDE DEF q
  <2> QED
    BY <2>1, <2>2, OnlyRequests
<1>4. CASE CommitRefresh(r)
  <2> DEFINE q == [r EXCEPT !.phase = "ok", !.session = Len(sessions) + 1]
  <2>1. /\ Rotate(r.session, r.raced)
        /\ account' = account /\ device' = device /\ jar' = jar /\ calls' = calls
        /\ refreshes' \subseteq (refreshes \ {r}) \cup {q}
    BY <1>4 DEF CommitRefresh, RefreshAnswered
  <2>2. SoundRotation(r.session, r.raced, sessions, account.pw) /\ r.raced \in BOOLEAN
    BY <1>0, <1>4 DEF CommitRefresh, RefreshGood
  <2>3. Grown(sessions, sessions', account.pw) /\ Len(sessions') = Len(sessions) + 1
    BY <1>0, <2>1, <2>2, RotateGrown
  <2>4. RefreshGood(q, sessions', account.pw)
    <3>1. Known(Len(sessions) + 1, sessions')
      BY <1>0, <2>3 DEF Known
    <3> QED
      BY <1>0, <3>1 DEF RefreshGood, IsRefresh
  <2> HIDE DEF q
  <2>5. CredStep
    BY <1>0, <2>1, <2>3, <2>4 DEF CredStep
  <2> QED
    BY <2>5, Kept
<1>5. CASE LoseRefresh(r)
  <2>1. RefreshGood([r EXCEPT !.phase = "lost"], sessions, account.pw)
    BY <1>0, RefreshFields
  <2> QED
    BY <1>5, <2>1, OnlyRequests DEF LoseRefresh, server
<1> QED
  BY <1>1, <1>2, <1>3, <1>4, <1>5 DEF Refresh

-----------------------------------------------------------------------------
(* The server. *)

\* Steps of a request that commit nothing a session depends on.
LEMMA ServeQuiet ==
  ASSUME CredInv, NEW c \in calls, NEW reply, Answered(c, reply),
         CallGood(reply, sessions, account.pw), account'.pw = account.pw,
         "pw" \in DOMAIN account', sessions' = sessions, device' = device,
         jar' = jar, refreshes' = refreshes
  PROVE  CredInv'
<1>1. calls' \subseteq calls \cup {reply}
  BY DEF Answered
<1>2. CredStep
  BY <1>1, Still DEF CredStep
<1> QED
  BY <1>2, Kept

\* One session or many are ended.
LEMMA ServeEnd ==
  ASSUME CredInv, NEW c \in calls, Answered(c, [c EXCEPT !.phase = "ok"]),
         account' = account, device' = device, jar' = jar, refreshes' = refreshes,
         NEW k, \/ sessions' = [sessions EXCEPT ![k].live = FALSE]
                \/ sessions' = RevokedBut(k)
  PROVE  CredInv'
<1>1. /\ sessions \in Seq(SessionType) /\ CallGood(c, sessions, account.pw)
      /\ \A j \in DOMAIN sessions :
            sessions[j].live => sessions[j].pw = account.pw \/ sessions[j].raced
  BY DEF CredInv, SessionsGood, Sessions
<1>2. Grown(sessions, sessions', account.pw)
  <2>1. CASE sessions' = [sessions EXCEPT ![k].live = FALSE]
    BY <1>1, <2>1, EndOne, EndGrown
  <2>2. CASE sessions' = RevokedBut(k)
    <3>1. sessions' = EndedBut(sessions, k)
      BY <2>2 DEF RevokedBut, Sessions, EndedBut
    <3> QED
      BY <1>1, <3>1, EndMany, EndGrown
  <2> QED
    BY <2>1, <2>2
<1>3. CallGood([c EXCEPT !.phase = "ok"], sessions', account.pw)
  <2>1. CallGood([c EXCEPT !.phase = "ok"], sessions, account.pw)
    BY <1>1, Fields
  <2> QED
    BY <1>1, <1>2, <2>1, KnownGrown DEF CallGood
<1>4. calls' \subseteq calls \cup {[c EXCEPT !.phase = "ok"]}
  BY DEF Answered
<1>5. CredStep
  BY <1>2, <1>3, <1>4 DEF CredStep, CredInv, AccountGood
<1> QED
  BY <1>5, Kept

-----------------------------------------------------------------------------
(* A change of the password. *)

\* Of the sessions, the kept one has the new password, and no other one lives.
LEMMA NewPasswordSessions ==
  ASSUME SessionsGood, AccountGood, NEW kept, NewPassword(kept)
  PROVE  /\ SessionsGood' /\ AccountGood' /\ Len(sessions') = Len(sessions)
         /\ account'.pw = account.pw + 1
<1> DEFINE t == EndedBut(sessions, kept)
<1>0. /\ t \in Seq(SessionType) /\ Len(t) = Len(sessions)
      /\ \A j \in 1 .. Len(sessions) :
            /\ t[j].pw = sessions[j].pw /\ t[j].raced = sessions[j].raced
            /\ t[j].live => sessions[j].live
            /\ j # kept => ~t[j].live
  BY EndMany DEF SessionsGood
<1> DEFINE u == [t EXCEPT ![kept].pw = account.pw + 1]
           v == [u EXCEPT ![kept].raced = FALSE]
<1>1. /\ sessions \in Seq(SessionType) /\ Len(sessions) \in Nat
      /\ DOMAIN sessions = 1 .. Len(sessions) /\ account.pw + 1 \in Nat
  BY DEF SessionsGood, AccountGood
<1>2. /\ t \in Seq(SessionType) /\ Len(t) = Len(sessions)
      /\ \A j \in 1 .. Len(sessions) : j # kept => ~t[j].live
  BY <1>0
<1>3. sessions' = v
  BY DEF NewPassword, RevokedBut, EndedBut, Sessions
<1>4. AccountGood' /\ account'.pw = account.pw + 1
  BY <1>1 DEF NewPassword, AccountGood
<1> HIDE DEF t
<1>5. /\ DOMAIN t = 1 .. Len(sessions)
      /\ \A j \in 1 .. Len(sessions) : t[j] \in SessionType
  BY <1>1, <1>2
<1>6. ASSUME NEW j \in 1 .. Len(sessions)
      PROVE  /\ v[j] \in SessionType
             /\ v[j].live => v[j].pw = account.pw + 1
  <2>1. t[j] \in SessionType
    BY <1>5
  <2>2. CASE j = kept
    <3>1. u[j] = [t[j] EXCEPT !.pw = account.pw + 1]
      BY <1>5, <2>2
    <3>2. DOMAIN u = 1 .. Len(sessions)
      BY <1>5
    <3> HIDE DEF u
    <3>3. v[j] = [u[j] EXCEPT !.raced = FALSE]
      BY <2>2, <3>2
    <3>4. u[j] \in SessionType /\ u[j].pw = account.pw + 1
      BY <1>1, <2>1, <3>1 DEF SessionType
    <3> HIDE DEF v
    <3> QED
      BY <3>3, <3>4 DEF SessionType
  <2>3. CASE j # kept
    <3>1. u[j] = t[j]
      BY <1>5, <2>3
    <3>2. DOMAIN u = 1 .. Len(sessions)
      BY <1>5
    <3> HIDE DEF u
    <3>3. v[j] = u[j]
      BY <2>3, <3>2
    <3> HIDE DEF v
    <3> QED
      BY <1>2, <2>1, <2>3, <3>1, <3>3
  <2> QED
    BY <2>2, <2>3
<1>7. v = [j \in 1 .. Len(sessions) |-> v[j]]
  BY <1>5
<1> HIDE DEF u, v
<1>8. v \in Seq(SessionType) /\ Len(v) = Len(sessions)
  BY <1>1, <1>6, <1>7, IsSeq
<1>9. SessionsGood'
  BY <1>1, <1>3, <1>4, <1>6, <1>8 DEF SessionsGood, Sessions
<1> QED
  BY <1>3, <1>4, <1>8, <1>9

\* A login that had verified the old password is marked.
LEMMA RacedGood ==
  ASSUME \A k : Known(k, sessions) => Known(k, sessions'),
         NEW C, \A c \in C : CallGood(c, sessions, account.pw)
  PROVE  \A d \in Raced(C) : CallGood(d, sessions', account.pw + 1)
<1> TAKE d \in Raced(C)
<1>1. PICK c \in C :
          d = [c EXCEPT !.raced = @ \/ (c.op = "login" /\ c.phase = "read")]
  BY DEF Raced
<1>2. CallGood(c, sessions, account.pw) /\ IsCall(c)
  BY DEF CallGood
<1>3. /\ DOMAIN d = DOMAIN c /\ d.op = c.op /\ d.phase = c.phase /\ d.arg = c.arg
      /\ d.session = c.session
      /\ d.raced = (c.raced \/ (c.op = "login" /\ c.phase = "read"))
  BY <1>1, <1>2 DEF IsCall
<1>4. d.raced \in BOOLEAN
  BY <1>3
<1>5. IsCall(d)
  BY <1>2, <1>3 DEF IsCall
<1> QED
  BY <1>2, <1>3, <1>4, <1>5 DEF CallGood

LEMMA NewPasswordKeeps ==
  ASSUME CredInv, NEW kept, NewPassword(kept), jar' = jar,
         \A c \in calls' : CallGood(c, sessions', account.pw + 1)
  PROVE  CredInv'
<1>0. /\ sessions \in Seq(SessionType) /\ Len(sessions) \in Nat
      /\ SessionsGood /\ AccountGood
      /\ DOMAIN sessions = 1 .. Len(sessions)
  BY DEF CredInv, SessionsGood
<1>1. /\ SessionsGood' /\ AccountGood' /\ Len(sessions') = Len(sessions)
      /\ account'.pw = account.pw + 1
  BY <1>0, NewPasswordSessions
<1>2. /\ \A k : Known(k, sessions) => Known(k, sessions')
      /\ DOMAIN sessions' = DOMAIN sessions
  BY <1>0, <1>1 DEF Known, SessionsGood
<1>3. ASSUME NEW q \in refreshes'
      PROVE  RefreshGood(q, sessions', account.pw + 1)
  <2>1. PICK r \in refreshes : q = [r EXCEPT !.raced = @ \/ r.phase = "read"]
    BY DEF NewPassword
  <2>2. RefreshGood(r, sessions, account.pw)
    BY DEF CredInv
  <2>3. /\ DOMAIN q = DOMAIN r /\ q.phase = r.phase /\ q.session = r.session
        /\ q.raced = (r.raced \/ r.phase = "read")
    BY <2>1, <2>2 DEF RefreshGood, IsRefresh
  <2>4. q.raced \in BOOLEAN /\ (q.phase = "read" => q.raced)
    BY <2>3
  <2> QED
    BY <1>2, <2>2, <2>3, <2>4 DEF RefreshGood, IsRefresh, SoundRotation
<1>4. DeviceGood(device', sessions', account.pw + 1)
  <2>1. DeviceGood(device, sessions, account.pw)
    BY DEF CredInv
  <2>2. device' = [device EXCEPT !.raced = @ \/ device.busy]
    BY DEF NewPassword
  <2>3. /\ DOMAIN device' = DOMAIN device /\ device'.busy = device.busy
        /\ device'.from = device.from /\ device'.pw = device.pw
        /\ device'.raced = (device.raced \/ device.busy)
    BY <2>1, <2>2 DEF DeviceGood
  <2>4. device'.raced \in BOOLEAN /\ (device'.busy => device'.raced)
    BY <2>3
  <2> QED
    BY <1>2, <2>1, <2>3, <2>4 DEF DeviceGood, SoundRotation
<1>5. JarGood(jar', sessions')
  BY <1>2 DEF CredInv, JarGood
<1> QED
  BY <1>1, <1>3, <1>4, <1>5 DEF CredInv

LEMMA ServePasswordKeeps ==
  ASSUME CredInv, NEW c \in calls, ServePassword(c)
  PROVE  CredInv'
<1>1. /\ sessions \in Seq(SessionType) /\ SessionsGood /\ AccountGood
      /\ CallGood(c, sessions, account.pw)
      /\ \A d \in calls : CallGood(d, sessions, account.pw)
  BY DEF CredInv, SessionsGood
<1>2. /\ NewPassword(c.session) /\ jar' = jar /\ c.op # "login"
      /\ calls' \subseteq Raced(calls \ {c}) \cup {[c EXCEPT !.phase = "ok"]}
  BY DEF ServePassword, Authentic
<1>3. \A k : Known(k, sessions) => Known(k, sessions')
  BY <1>1, <1>2, NewPasswordSessions DEF Known
<1>4. \A d \in Raced(calls \ {c}) : CallGood(d, sessions', account.pw + 1)
  <2> DEFINE C == calls \ {c}
  <2>1. \A d \in C : CallGood(d, sessions, account.pw)
    BY <1>1
  <2> HIDE DEF C
  <2>2. \A d \in Raced(C) : CallGood(d, sessions', account.pw + 1)
    BY <1>3, <2>1, RacedGood
  <2> QED
    BY <2>2 DEF C
<1>5. CallGood([c EXCEPT !.phase = "ok"], sessions', account.pw + 1)
  <2>1. CallGood(c, sessions', account.pw + 1)
    BY <1>1, <1>2, <1>3 DEF CallGood
  <2> QED
    BY <2>1, Fields
<1> QED
  BY <1>2, <1>4, <1>5, NewPasswordKeeps

LEMMA LoginKeeps ==
  ASSUME CredInv, NEW c \in calls, VerifyLogin(c) \/ CommitLogin(c)
  PROVE  CredInv'
<1>0. /\ CallGood(c, sessions, account.pw) /\ "pw" \in DOMAIN account
      /\ sessions \in Seq(SessionType) /\ Len(sessions) \in Nat
      /\ \A k \in DOMAIN sessions :
            sessions[k].live => sessions[k].pw = account.pw \/ sessions[k].raced
  BY DEF CredInv, AccountGood, SessionsGood, Sessions
<1>1. CASE VerifyLogin(c)
  <2>1. /\ account' = account /\ sessions' = sessions /\ device' = device
        /\ jar' = jar /\ refreshes' = refreshes
    BY <1>1 DEF VerifyLogin, server, Aside
  <2>2. CASE c.arg = account.pw
    <3>1. \A v : CallGood([c EXCEPT !.phase = v], sessions, account.pw)
      BY <1>0, <2>2 DEF CallGood, IsCall
    <3>2. PICK v : Answered(c, [c EXCEPT !.phase = v])
      BY <1>1 DEF VerifyLogin
    <3> QED
      BY <1>0, <2>1, <3>1, <3>2, ServeQuiet
  <2>3. CASE c.arg # account.pw
    <3>1. Answered(c, [c EXCEPT !.phase = "denied"])
      BY <1>1, <2>3 DEF VerifyLogin
    <3>2. CallGood([c EXCEPT !.phase = "denied"], sessions, account.pw)
      BY <1>0, Fields
    <3> QED
      BY <1>0, <2>1, <3>1, <3>2, ServeQuiet
  <2> QED
    BY <2>2, <2>3
<1>2. CASE CommitLogin(c)
  <2> DEFINE e == Session(TRUE, c.arg, c.raced)
             reply == [c EXCEPT !.phase = "ok", !.session = Len(sessions) + 1]
  <2>1. /\ account' = account /\ sessions' = Append(sessions, e) /\ device' = device
        /\ jar' = jar /\ refreshes' = refreshes /\ calls' \subseteq calls \cup {reply}
    BY <1>2 DEF CommitLogin, Aside, Answered
  <2>2. /\ e \in SessionType /\ e.pw = c.arg /\ e.raced = c.raced
        /\ e.pw = account.pw \/ e.raced
    BY <1>0, <1>2 DEF CommitLogin, CallGood, Session, SessionType
  <2> HIDE DEF e
  <2>3. Grown(sessions, sessions', account.pw) /\ Len(sessions') = Len(sessions) + 1
    BY <1>0, <2>1, <2>2, AddOne
  <2>4. CallGood(reply, sessions', account.pw)
    <3>1. Known(Len(sessions) + 1, sessions') /\ CallGood(c, sessions', account.pw)
      <4>1. Known(Len(sessions) + 1, sessions')
        BY <1>0, <2>3 DEF Known
      <4>2. Known(c.session, sessions')
        BY <1>0, <2>3, KnownGrown DEF CallGood
      <4> QED
        BY <1>0, <4>1, <4>2 DEF CallGood
    <3> QED
      BY <3>1, Fields
  <2> HIDE DEF reply
  <2>5. CredStep
    BY <1>0, <2>1, <2>3, <2>4 DEF CredStep
  <2> QED
    BY <2>5, Kept
<1> QED
  BY <1>1, <1>2

LEMMA ServeKeeps ==
  ASSUME CredInv, NEW c \in calls, Serve(c)
  PROVE  CredInv'
<1>0. CallGood(c, sessions, account.pw) /\ "pw" \in DOMAIN account
  BY DEF CredInv, AccountGood
<1>1. ASSUME NEW reply, Answered(c, reply), CallGood(reply, sessions, account.pw),
             account' = account, sessions' = sessions, device' = device, Aside
      PROVE  CredInv'
  BY <1>0, <1>1, ServeQuiet DEF Aside
<1>2. CASE Unauthorized(c)
  <2>1. CallGood([c EXCEPT !.phase = "denied"], sessions, account.pw)
    BY <1>0, Fields
  <2> QED
    BY <1>1, <1>2, <2>1 DEF Unauthorized, server
<1>3. CASE ServeMe(c)
  <2>1. CallGood([c EXCEPT !.phase = "ok", !.arg = account.avatar], sessions, account.pw)
    BY <1>0, <1>3, Fields DEF ServeMe, Authentic
  <2> QED
    BY <1>1, <1>3, <2>1 DEF ServeMe, server
<1>4. CASE ServeSessions(c)
  <2> DEFINE rows == {k \in Sessions : Live(k)} \ {c.session}
  <2>1. CallGood([c EXCEPT !.phase = "ok", !.rows = rows], sessions, account.pw)
    <3> HIDE DEF rows
    <3> QED
      BY <1>0, Fields
  <2> QED
    BY <1>1, <1>4, <2>1 DEF ServeSessions, server
<1>5. CASE ServeRevoke(c)
  BY <1>5, ServeEnd DEF ServeRevoke, EndSession, Aside
<1>6. CASE ServeLogout(c)
  BY <1>6, ServeEnd DEF ServeLogout, EndSession, Aside
<1>7. CASE ServeOthers(c)
  BY <1>7, ServeEnd DEF ServeOthers, Aside
<1>8. ASSUME NEW new, ReadAvatar(c, new), c.op # "login", account' = account,
             sessions' = sessions, device' = device, Aside
      PROVE  CredInv'
  <2>1. CallGood([c EXCEPT !.phase = "read", !.arg = new, !.old = account.avatar],
                 sessions, account.pw)
    BY <1>0, <1>8, Fields
  <2> QED
    BY <1>1, <1>8, <2>1 DEF ReadAvatar
<1>9. CASE SaveAvatarFile(c)
  BY <1>8, <1>9 DEF SaveAvatarFile, Authentic
<1>10. CASE ReadCleared(c)
  BY <1>8, <1>10 DEF ReadCleared, Authentic
<1>11. CASE CommitAvatar(c)
  <2>1. CallGood([c EXCEPT !.phase = "stored"], sessions, account.pw)
    BY <1>0, Fields
  <2>2. "pw" \in DOMAIN account' /\ account'.pw = account.pw
    BY <1>0, <1>11 DEF CommitAvatar
  <2> QED
    BY <1>11, <2>1, <2>2, ServeQuiet DEF CommitAvatar, Aside
<1>12. CASE DeleteAvatarFile(c)
  <2>1. CallGood([c EXCEPT !.phase = "ok"], sessions, account.pw)
    BY <1>0, Fields
  <2> QED
    BY <1>1, <1>12, <2>1 DEF DeleteAvatarFile
<1>13. CASE Crash(c)
  BY <1>13, OnlyRequests DEF Crash, server
<1> QED
  BY <1>2, <1>3, <1>4, <1>5, <1>6, <1>7, <1>9, <1>10, <1>11, <1>12, <1>13,
     ServePasswordKeeps, LoginKeeps DEF Serve

-----------------------------------------------------------------------------
(* The other devices and the administrator. *)

LEMMA OthersKeep ==
  ASSUME CredInv, Others
  PROVE  CredInv'
<1>0. /\ SessionsGood /\ AccountGood /\ "pw" \in DOMAIN account /\ account.pw \in Nat
      /\ sessions \in Seq(SessionType) /\ Len(sessions) \in Nat
      /\ DOMAIN sessions = 1 .. Len(sessions)
      /\ DeviceGood(device, sessions, account.pw)
      /\ \A d \in calls : CallGood(d, sessions, account.pw)
      /\ \A k \in DOMAIN sessions :
            sessions[k].live => sessions[k].pw = account.pw \/ sessions[k].raced
  BY DEF CredInv, AccountGood, SessionsGood, Sessions
\* The device reads, commits, or only the status changes.
<1>1. ASSUME account'.pw = account.pw, "pw" \in DOMAIN account', sessions' = sessions,
             calls' = calls, refreshes' = refreshes, jar' = jar,
             device' = device \/ DeviceGood(device', sessions, account.pw)
      PROVE  CredInv'
  <2>1. CredStep
    BY <1>1, Still DEF CredStep
  <2> QED
    BY <2>1, Kept
<1>2. CASE DeviceLogin
  <2>1. device' = [busy |-> TRUE, from |-> 0, pw |-> account.pw, raced |-> FALSE]
    BY <1>2 DEF DeviceLogin
  <2>2. DeviceGood(device', sessions, account.pw)
    BY <1>0, <2>1 DEF DeviceGood
  <2> QED
    BY <1>0, <1>1, <1>2, <2>2 DEF DeviceLogin, Elsewhere
<1>3. ASSUME NEW k \in Sessions, DeviceRefresh(k)
      PROVE  CredInv'
  <2>1. device' = [busy |-> TRUE, from |-> k, pw |-> 0, raced |-> FALSE]
    BY <1>3 DEF DeviceRefresh
  <2>2. SoundRotation(k, FALSE, sessions, account.pw)
    BY <1>0, <1>3 DEF DeviceRefresh, Refreshable, Live, SoundRotation, Sessions
  <2>3. DeviceGood(device', sessions, account.pw)
    <3>1. /\ device'.busy = TRUE /\ device'.from = k /\ device'.pw = 0
          /\ device'.raced = FALSE
          /\ {"busy", "from", "pw", "raced"} \subseteq DOMAIN device'
      BY <2>1
    <3>2. k # 0
      BY <1>0 DEF Sessions
    <3>3. SoundRotation(device'.from, device'.raced, sessions, account.pw)
      BY <2>2, <3>1
    <3>4. device'.raced \in BOOLEAN /\ device'.busy \in BOOLEAN
      BY <3>1, Zenon
    <3>5. device'.pw \in Nat
      BY <3>1
    <3> QED
      BY <3>1, <3>2, <3>3, <3>4, <3>5 DEF DeviceGood
  <2> QED
    BY <1>0, <1>1, <1>3, <2>3 DEF DeviceRefresh, Elsewhere
<1>4. CASE DeviceCommits
  <2>1. Grown(sessions, sessions', account.pw)
    <3>1. CASE device.from = 0
      <4> DEFINE e == Session(FALSE, device.pw, device.raced)
      <4>1. sessions' = Append(sessions, e)
        BY <1>4, <3>1 DEF DeviceCommits
      <4>2. e \in SessionType /\ (e.pw = account.pw \/ e.raced)
        BY <1>0, <1>4, <3>1 DEF DeviceCommits, DeviceGood, Session, SessionType
      <4> HIDE DEF e
      <4> QED
        BY <1>0, <4>1, <4>2, AddOne
    <3>2. CASE device.from # 0
      <4>1. Rotate(device.from, device.raced)
        BY <1>4, <3>2 DEF DeviceCommits
      <4>2. /\ SoundRotation(device.from, device.raced, sessions, account.pw)
            /\ device.raced \in BOOLEAN
        BY <1>0, <1>4, <3>2 DEF DeviceCommits, DeviceGood
      <4> QED
        BY <1>0, <4>1, <4>2, RotateGrown
    <3> QED
      BY <3>1, <3>2
  <2>2. DeviceGood(NoDevice, sessions', account.pw)
    BY DEF NoDevice, DeviceGood
  <2>3. CredStep
    BY <1>0, <1>4, <2>1, <2>2 DEF CredStep, DeviceCommits, Elsewhere
  <2> QED
    BY <2>3, Kept
<1>5. ASSUME NEW k \in Sessions, DevicePassword(k)
      PROVE  CredInv'
  <2>1. NewPassword(k) /\ jar' = jar /\ calls' = Raced(calls)
    BY <1>5 DEF DevicePassword, Elsewhere
  <2>2. \A j : Known(j, sessions) => Known(j, sessions')
    BY <1>0, <2>1, NewPasswordSessions DEF Known
  <2>3. \A d \in calls' : CallGood(d, sessions', account.pw + 1)
    BY <1>0, <2>1, <2>2, RacedGood
  <2> QED
    BY <2>1, <2>3, NewPasswordKeeps
<1>6. CASE SetStatus
  <2>1. account' = [account EXCEPT !.suspended = ~@]
    BY <1>6 DEF SetStatus
  <2>2. account'.pw = account.pw /\ "pw" \in DOMAIN account'
    BY <1>0, <2>1
  <2> QED
    BY <1>1, <1>6, <2>2 DEF SetStatus, Elsewhere
<1> QED
  BY <1>2, <1>3, <1>4, <1>5, <1>6 DEF Others

-----------------------------------------------------------------------------
LEMMA CredInit == Init => CredInv
<1> SUFFICES ASSUME Init
             PROVE  CredInv
  OBVIOUS
<1>1. /\ Session(TRUE, 1, FALSE) \in SessionType /\ Session(TRUE, 1, FALSE).pw = 1
      /\ Session(FALSE, 1, FALSE) \in SessionType /\ Session(FALSE, 1, FALSE).pw = 1
  BY DEF Session, SessionType
<1>2. sessions = <<Session(TRUE, 1, FALSE), Session(FALSE, 1, FALSE)>>
  BY DEF Init
<1>3. /\ sessions \in Seq(SessionType) /\ Len(sessions) = 2
      /\ \A k \in Sessions : sessions[k].pw = 1
  <2> DEFINE a == Session(TRUE, 1, FALSE)
             b == Session(FALSE, 1, FALSE)
  <2>1. a \in SessionType /\ b \in SessionType /\ a.pw = 1 /\ b.pw = 1
    BY <1>1
  <2>2. sessions = <<a, b>>
    BY <1>2
  <2> HIDE DEF a, b
  <2> QED
    BY <2>1, <2>2 DEF Sessions
<1>4. /\ account.pw = 1 /\ "pw" \in DOMAIN account /\ calls = {} /\ refreshes = {}
      /\ jar = CookiesOf(1) /\ device = NoDevice
  BY DEF Init
<1>5. SessionsGood /\ AccountGood
  BY <1>3, <1>4 DEF SessionsGood, AccountGood
<1>6. DeviceGood(device, sessions, account.pw)
  BY <1>4 DEF DeviceGood, NoDevice
<1>7. JarGood(jar, sessions)
  BY <1>3, <1>4 DEF JarGood, CookiesOf, Known
<1> QED
  BY <1>4, <1>5, <1>6, <1>7 DEF CredInv

LEMMA CredNext ==
  ASSUME CredInv, [Next]_vars
  PROVE  CredInv'
<1>1. CASE Expire
  <2>1. jar' = [jar EXCEPT !.fresh = FALSE]
    BY <1>1 DEF Expire
  <2>2. JarGood(jar', sessions)
    BY <2>1 DEF CredInv, JarGood
  <2> QED
    BY <1>1, <2>2, OnlyRequests DEF Expire, server
<1>2. CASE UNCHANGED vars
  BY <1>2, OnlyRequests DEF vars
<1> QED
  BY <1>1, <1>2, OthersKeep, UserKeeps, ReplyKeeps, ServeKeeps, RefreshKeeps DEF Next

\* However many tabs, devices and requests there are, and whatever is lost: after
\* a change of the password, a session that was opened with the old one and lives
\* is one whose login or refresh was under way at that moment, or comes from it.
THEOREM OldCredentialsEnd == Spec => []OldCredentialsNeedRace
<1>1. CredInv => OldCredentialsNeedRace
  <2> SUFFICES ASSUME CredInv, NEW k \in Sessions, Live(k), sessions[k].pw # account.pw
               PROVE  sessions[k].raced
    BY DEF OldCredentialsNeedRace
  <2> QED
    BY DEF CredInv, SessionsGood, Live
<1> QED
  BY CredInit, CredNext, <1>1, PTL DEF Spec


-----------------------------------------------------------------------------
(* The types, with what each record refers to. *)

Phases == {"sent", "read", "stored", "ok", "denied", "waits"}

Requests ==
    {"me", "login", "sessions", "revoke", "others", "password", "upload", "clear",
     "logout"}

CallType ==
    [tab : Tabs, op : Requests,
     arg : Nat, old : Nat, phase : Phases, session : Nat, fresh : BOOLEAN,
     retry : BOOLEAN, heard : BOOLEAN, raced : BOOLEAN, rows : SUBSET Nat]

RefreshType ==
    [tab : Tabs, by : Requests, phase : {"sent", "read", "ok", "refused", "lost"},
     session : Nat, raced : BOOLEAN, heard : BOOLEAN]

TabType ==
    [screen : {"login", "loading", "home", "blank"}, avatar : Nat, rows : SUBSET Nat]

\* The rows of the server.
TableInv ==
    /\ sessions \in Seq(SessionType)
    /\ account \in [pw : Nat, avatar : Nat, suspended : BOOLEAN] /\ saved \in Nat
    /\ account.pw # 0
    /\ \A k \in DOMAIN sessions : sessions[k].pw \in 1 .. account.pw
    /\ files \subseteq 1 .. saved /\ account.avatar <= saved

JarOK(j) ==
    /\ j \in [session : Nat, fresh : BOOLEAN] /\ j.session <= Len(sessions)
    /\ j.session = 0 => ~j.fresh

TabOK(p) == p \in TabType /\ p.rows \subseteq 1 .. Len(sessions)

\* A login types a password there has been, and its reply brings a session; a
\* change of the photo is to one that was saved.
CallOK(c) ==
    /\ c \in CallType /\ c.rows \subseteq 1 .. Len(sessions)
    /\ c.op = "login" =>
               c.arg \in 1 .. account.pw /\ (c.phase = "ok" => c.session # 0)
    /\ c.op \in {"upload", "clear"} => c.arg <= saved /\ c.old <= saved
    /\ c.phase = "stored" => c.op \in {"upload", "clear"}

DeviceOK(d) ==
    /\ d \in [busy : BOOLEAN, from : Nat, pw : Nat, raced : BOOLEAN]
    /\ d.busy /\ d.from = 0 => d.pw \in 1 .. account.pw

\* The reply to a refresh is kept for the page that waits for it.
RefreshOK(r) ==
    /\ r \in RefreshType
    /\ r.phase = "ok" => r.session # 0
    /\ r.phase \in {"ok", "refused", "lost"} => r.heard

RecordInv ==
    /\ JarOK(jar) /\ DeviceOK(device)
    /\ DOMAIN tabs = Tabs /\ \A t \in Tabs : TabOK(tabs[t])
    /\ \A c \in calls : CallOK(c)
    /\ \A r \in refreshes : RefreshOK(r)

\* A tab has one refresh under way, for which its requests wait.
JoinInv ==
    /\ \A q, r \in refreshes : q.heard /\ r.heard /\ q.tab = r.tab => q = r
    /\ \A c \in calls :
          c.phase = "waits" => \E r \in refreshes : r.heard /\ r.tab = c.tab

CountInv ==
    /\ ops \in Nat /\ expiries \in Nat /\ others \in Nat /\ faults \in Nat
    /\ ops <= MaxOps /\ expiries <= MaxExpiries /\ others <= MaxOthers
    /\ faults <= MaxFaults

TypeInv == TableInv /\ RecordInv /\ JoinInv /\ CountInv

-----------------------------------------------------------------------------
(* What keeps a browser signed in. *)

Cause == revoked \/ twoTabs \/ left \/ faults > 0

OwnSession(k) == k \in DOMAIN sessions /\ sessions[k].mine

CallMine(c) ==
    OwnSession(c.session) /\ c.op # "login" /\ ~(c.op = "logout" /\ c.phase = "ok")

\* The one refresh that may be under way brings the next session of the browser.
RefreshMine(r) ==
    /\ r.heard /\ r.phase \in {"sent", "read", "ok"}
    /\ r.phase # "ok" => r.session = jar.session
    /\ r.phase = "ok" => OwnSession(r.session) /\ sessions[r.session].live

SignedIn ==
    /\ ~thrown /\ ~account.suspended /\ OwnSession(jar.session)
    /\ \A t \in Tabs : tabs[t].screen # "login"
    /\ \A c \in calls : CallMine(c)
    /\ \A r \in refreshes : RefreshMine(r)
    /\ \A q, r \in refreshes : q = r
    /\ (\A r \in refreshes : r.phase # "ok") => sessions[jar.session].live
    /\ device.busy /\ device.from # 0 => ~sessions[device.from].mine

SignedInv == Cause \/ SignedIn

-----------------------------------------------------------------------------
(* The photos on disk. *)

Reading(C) == {c \in C : c.op \in {"upload", "clear"} /\ c.phase = "read"}

Storing(C) == {c \in C : c.phase = "stored"}

\* A photo that has been saved for a change is nobody's yet, and the one a change
\* has replaced nobody's any more.
PhotoInv ==
    /\ account.avatar # 0 => account.avatar \in files
    /\ \A c \in Reading(calls) :
          c.arg # 0 => c.arg \in files /\ c.arg # account.avatar
    /\ \A c \in Reading(calls), d \in Reading(calls) \cup Storing(calls) :
          c.arg # 0 => d.old # c.arg
    /\ \A c, d \in Reading(calls) : c.arg = d.arg /\ c.arg # 0 => c = d
    /\ \A c \in Storing(calls) : c.old # 0 => c.old # account.avatar

\* What is on disk, while changes come one after the other.
DiskInv ==
    crossed \/ faults # 0 \/
        /\ \A c, d \in Reading(calls) : c = d
        /\ \A c \in Reading(calls) : c.old = account.avatar
        /\ \A c, d \in Storing(calls) : c.old = d.old /\ c.old # 0 => c = d
        /\ files = ({account.avatar} \cup {c.arg : c \in Reading(calls)} \cup
                       {c.old : c \in Storing(calls)}) \ {0}


-----------------------------------------------------------------------------
(* Records of the types, while the tables grow. *)

\* The tables of the server grow, or stay.
TablesGrow ==
    /\ Len(sessions) <= Len(sessions') /\ account.pw <= account'.pw
    /\ saved <= saved'

LEMMA TablesStay ==
  ASSUME TableInv, sessions' = sessions, account' = account, saved' = saved
  PROVE  TablesGrow
<1>1. Len(sessions) \in Nat /\ account.pw \in Nat /\ saved \in Nat
  BY DEF TableInv
<1> QED
  BY <1>1 DEF TablesGrow

LEMMA RecordsGrow ==
  ASSUME TableInv, TableInv', TablesGrow
  PROVE  /\ \A j : JarOK(j) => JarOK(j)'
         /\ \A p : TabOK(p) => TabOK(p)'
         /\ \A c : CallOK(c) => CallOK(c)'
         /\ \A d : DeviceOK(d) => DeviceOK(d)'
<1>1. /\ Len(sessions) \in Nat /\ Len(sessions') \in Nat
      /\ Len(sessions) <= Len(sessions')
      /\ account.pw \in Nat /\ account'.pw \in Nat /\ account.pw <= account'.pw
      /\ saved \in Nat /\ saved' \in Nat /\ saved <= saved'
  BY DEF TableInv, TablesGrow
<1>2. ASSUME NEW j, JarOK(j)
      PROVE  JarOK(j)'
  BY <1>1, <1>2 DEF JarOK
<1>3. ASSUME NEW p, TabOK(p)
      PROVE  TabOK(p)'
  BY <1>1, <1>3 DEF TabOK
<1>4. ASSUME NEW c, CallOK(c)
      PROVE  CallOK(c)'
  <2>1. /\ c \in CallType /\ c.arg \in Nat /\ c.old \in Nat
        /\ c.rows \subseteq 1 .. Len(sessions)
        /\ c.op = "login" =>
               c.arg \in 1 .. account.pw /\ (c.phase = "ok" => c.session # 0)
        /\ c.op \in {"upload", "clear"} => c.arg <= saved /\ c.old <= saved
        /\ c.phase = "stored" => c.op \in {"upload", "clear"}
    BY <1>4 DEF CallOK, CallType
  <2> QED
    BY <1>1, <2>1 DEF CallOK
<1>5. ASSUME NEW d, DeviceOK(d)
      PROVE  DeviceOK(d)'
  BY <1>1, <1>5 DEF DeviceOK
<1> QED
  BY <1>2, <1>3, <1>4, <1>5

\* The invariant after a step, from what the step has changed.
LEMMA RecordsKept ==
  ASSUME TypeInv, TableInv', TablesGrow,
         jar' = jar \/ JarOK(jar)',
         tabs' = tabs \/ (DOMAIN tabs' = Tabs /\ \A t \in Tabs : TabOK(tabs[t])'),
         \A c \in calls' : CallOK(c) \/ CallOK(c)',
         \A r \in refreshes' : RefreshOK(r),
         device' = device \/ DeviceOK(device)'
  PROVE  RecordInv'
<1>0. TableInv /\ RecordInv
  BY DEF TypeInv
<1>1. JarOK(jar)'
  <2>1. CASE jar' = jar
    <3>1. PICK j : j = jar
      OBVIOUS
    <3>2. JarOK(j)'
      BY <1>0, <3>1, RecordsGrow DEF RecordInv
    <3> QED
      BY <2>1, <3>1, <3>2 DEF JarOK
  <2> QED
    BY <2>1
<1>2. DOMAIN tabs' = Tabs /\ \A t \in Tabs : TabOK(tabs[t])'
  <2>1. CASE tabs' = tabs
    <3>1. ASSUME NEW t \in Tabs
          PROVE  TabOK(tabs[t])'
      <4>1. PICK p : p = tabs[t]
        OBVIOUS
      <4>2. TabOK(p)'
        BY <1>0, <3>1, <4>1, RecordsGrow DEF RecordInv
      <4> QED
        BY <2>1, <4>1, <4>2 DEF TabOK
    <3> QED
      BY <1>0, <2>1, <3>1 DEF RecordInv
  <2> QED
    BY <2>1
<1>3. \A c \in calls' : CallOK(c)'
  BY <1>0, RecordsGrow
<1>4. DeviceOK(device)'
  <2>1. CASE device' = device
    <3>1. PICK j : j = device
      OBVIOUS
    <3>2. DeviceOK(j)'
      BY <1>0, <3>1, RecordsGrow DEF RecordInv
    <3> QED
      BY <2>1, <3>1, <3>2 DEF DeviceOK
  <2> QED
    BY <2>1
<1>5. \A r \in refreshes' : RefreshOK(r)'
  BY DEF RefreshOK
<1> QED
  BY <1>1, <1>2, <1>3, <1>4, <1>5 DEF RecordInv


\* What the steps write in a request.
LEMMA CallFields ==
  ASSUME NEW c, CallOK(c)
  PROVE  /\ CallOK([c EXCEPT !.heard = FALSE])
         /\ \A v \in Phases :
               /\ v # "ok" \/ c.op # "login"
               /\ v # "stored" \/ c.op \in {"upload", "clear"}
               => CallOK([c EXCEPT !.phase = v])
         /\ \A w \in Nat : c.op = "me" => CallOK([c EXCEPT !.phase = "ok", !.arg = w])
         /\ \A w : w \subseteq 1 .. Len(sessions) /\ c.op # "login" =>
               CallOK([c EXCEPT !.phase = "ok", !.rows = w])
         /\ \A j \in [session : Nat, fresh : BOOLEAN] : CallOK(Resent(c, j))
         /\ \A b \in BOOLEAN : CallOK([c EXCEPT !.raced = b])
<1>1. /\ c \in CallType /\ c.rows \subseteq 1 .. Len(sessions)
      /\ c.op = "login" =>
               c.arg \in 1 .. account.pw /\ (c.phase = "ok" => c.session # 0)
      /\ c.op \in {"upload", "clear"} => c.arg <= saved /\ c.old <= saved
      /\ c.phase = "stored" => c.op \in {"upload", "clear"}
  BY DEF CallOK
<1>2. CallOK([c EXCEPT !.heard = FALSE])
  <2> DEFINE d == [c EXCEPT !.heard = FALSE]
  <2>1. /\ d \in CallType /\ d.rows = c.rows /\ d.op = c.op /\ d.arg = c.arg
        /\ d.phase = c.phase /\ d.session = c.session /\ d.old = c.old
    BY <1>1 DEF CallType
  <2> HIDE DEF d
  <2>3. CallOK(d)
    BY <1>1, <2>1 DEF CallOK
  <2> QED
    BY <2>3 DEF d
<1>3. ASSUME NEW v \in Phases, v # "ok" \/ c.op # "login",
             v # "stored" \/ c.op \in {"upload", "clear"}
      PROVE  CallOK([c EXCEPT !.phase = v])
  <2> DEFINE d == [c EXCEPT !.phase = v]
  <2>1. /\ d \in CallType /\ d.rows = c.rows /\ d.op = c.op /\ d.arg = c.arg
        /\ d.phase = v /\ d.session = c.session /\ d.old = c.old
    BY <1>1 DEF CallType
  <2> HIDE DEF d
  <2>3. CallOK(d)
    BY <1>1, <1>3, <2>1 DEF CallOK
  <2> QED
    BY <2>3 DEF d
<1>4. ASSUME NEW w \in Nat, c.op = "me"
      PROVE  CallOK([c EXCEPT !.phase = "ok", !.arg = w])
  <2> DEFINE d == [c EXCEPT !.phase = "ok", !.arg = w]
  <2>1. d \in CallType /\ d.rows = c.rows /\ d.op = "me" /\ d.phase = "ok"
    BY <1>1, <1>4 DEF CallType, Phases
  <2> HIDE DEF d
  <2>3. CallOK(d)
    BY <1>1, <2>1 DEF CallOK
  <2> QED
    BY <2>3 DEF d
<1>5. ASSUME NEW w, w \subseteq 1 .. Len(sessions), c.op # "login"
      PROVE  CallOK([c EXCEPT !.phase = "ok", !.rows = w])
  <2> DEFINE d == [c EXCEPT !.phase = "ok", !.rows = w]
  <2>1. \A x \in w : x \in Nat
    BY <1>5
  <2>2. /\ d \in CallType /\ d.rows = w /\ d.op = c.op /\ d.arg = c.arg
        /\ d.old = c.old /\ d.phase = "ok"
    BY <1>1, <2>1 DEF CallType, Phases
  <2> HIDE DEF d
  <2>3. CallOK(d)
    BY <1>1, <1>5, <2>2 DEF CallOK
  <2> QED
    BY <2>3 DEF d
<1>6. ASSUME NEW j \in [session : Nat, fresh : BOOLEAN]
      PROVE  CallOK(Resent(c, j))
  <2> DEFINE d == Resent(c, j)
  <2>1. /\ d \in CallType /\ d.rows = c.rows /\ d.op = c.op /\ d.arg = c.arg
        /\ d.phase = "sent" /\ d.old = c.old
    BY <1>1 DEF CallType, Phases, Resent
  <2> HIDE DEF d
  <2>3. CallOK(d)
    BY <1>1, <2>1 DEF CallOK
  <2> QED
    BY <2>3 DEF d
<1>7. ASSUME NEW b \in BOOLEAN
      PROVE  CallOK([c EXCEPT !.raced = b])
  <2> DEFINE d == [c EXCEPT !.raced = b]
  <2>1. /\ d \in CallType /\ d.rows = c.rows /\ d.op = c.op /\ d.arg = c.arg
        /\ d.phase = c.phase /\ d.session = c.session /\ d.old = c.old
    BY <1>1 DEF CallType
  <2> HIDE DEF d
  <2>3. CallOK(d)
    BY <1>1, <2>1 DEF CallOK
  <2> QED
    BY <2>3 DEF d
<1> QED
  BY <1>2, <1>3, <1>4, <1>5, <1>6, <1>7

\* What is asked for with the cookies of the browser.
LEMMA CallAsked ==
  ASSUME RecordInv, TableInv, NEW t \in Tabs, NEW arg \in Nat,
         NEW op \in Requests,
         op = "login" => arg \in 1 .. account.pw,
         op \in {"upload", "clear"} => arg = 0
  PROVE  CallOK(Call(t, op, arg))
<1> DEFINE d == Call(t, op, arg)
<1>1. jar \in [session : Nat, fresh : BOOLEAN] /\ saved \in Nat
  BY DEF RecordInv, JarOK, TableInv
<1>2. /\ d \in CallType /\ d.op = op /\ d.arg = arg /\ d.old = 0 /\ d.rows = {}
      /\ d.phase = "sent"
  BY <1>1 DEF Call, CallType, Phases
<1> HIDE DEF d
<1>3. CallOK(d)
  BY <1>1, <1>2 DEF CallOK
<1> QED
  BY <1>3 DEF d

LEMMA TabsLoaded ==
  LoginPage \in TabType /\ Gate \in TabType /\ TabOK(LoginPage) /\ TabOK(Gate)
<1>1. LoginPage \in TabType /\ LoginPage.rows = {}
  BY DEF LoginPage, TabType
<1>2. Gate \in TabType /\ Gate.rows = {}
  BY DEF Gate, TabType
<1> QED
  BY <1>1, <1>2 DEF TabOK

\* A tab is loaded: its requests that wait are gone, and what is not served yet goes
\* on without it.
LEMMA LoadTypes ==
  ASSUME RecordInv, TableInv, NEW t \in Tabs, NEW cookies, JarOK(cookies),
         NEW C, C \subseteq calls, Load(t, cookies, C)
  PROVE  /\ \A c \in calls' : CallOK(c)
         /\ DOMAIN tabs' = Tabs /\ \A u \in Tabs : TabOK(tabs'[u])
         /\ \A c \in calls' : c.phase = "waits" => c \in C /\ c.tab # t
<1> DEFINE me == [Call(t, "me", 0) EXCEPT !.session = cookies.session,
                                          !.fresh = cookies.fresh]
<1>1. CallOK(me) /\ me.phase = "sent"
  <2>1. CallOK(Call(t, "me", 0))
    BY CallAsked DEF Requests
  <2>2. me \in CallType /\ me.rows = {} /\ me.op = "me" /\ me.phase = "sent"
    BY <2>1 DEF Call, CallOK, CallType, Phases, JarOK
  <2> HIDE DEF me
  <2> QED
    BY <2>2 DEF CallOK
<1>2. calls' \subseteq Unheard(t, C) \cup {me}
  BY DEF Load
<1>3. ASSUME NEW c \in Unheard(t, C)
      PROVE  CallOK(c) /\ (c.phase = "waits" => c \in C /\ c.tab # t)
  <2>1. PICK d \in C : /\ c = IF d.tab = t THEN [d EXCEPT !.heard = FALSE] ELSE d
                       /\ d.tab # t \/ d.phase \in {"sent", "read", "stored"}
    BY DEF Unheard
  <2>2. CallOK(d)
    BY DEF RecordInv
  <2>3. CASE d.tab = t
    <3>1. CallOK([d EXCEPT !.heard = FALSE])
      BY <2>2, CallFields
    <3>2. c.phase = d.phase
      BY <2>1, <2>2, <2>3 DEF CallOK, CallType
    <3> QED
      BY <2>1, <2>3, <3>1, <3>2
  <2>4. CASE d.tab # t
    BY <2>1, <2>2, <2>4
  <2> QED
    BY <2>3, <2>4
<1>4. \A c \in calls' : CallOK(c) /\ (c.phase = "waits" => c \in C /\ c.tab # t)
  <2> HIDE DEF me
  <2> QED
    BY <1>1, <1>2, <1>3
<1>5. tabs' = [tabs EXCEPT ![t] = LoginPage] \/ tabs' = [tabs EXCEPT ![t] = Gate]
  BY DEF Load
<1>6. DOMAIN tabs' = Tabs /\ \A u \in Tabs : TabOK(tabs'[u])
  BY <1>5, TabsLoaded DEF RecordInv
<1> QED
  BY <1>4, <1>6


\* A step that leaves the tables of the server alone.
LEMMA QuietTypes ==
  ASSUME TypeInv, UNCHANGED <<sessions, account, files, saved>>,
         jar' = jar \/ JarOK(jar'),
         tabs' = tabs \/ (DOMAIN tabs' = Tabs /\ \A t \in Tabs : TabOK(tabs'[t])),
         \A c \in calls' : c \in calls \/ CallOK(c),
         \A r \in refreshes' : r \in refreshes \/ RefreshOK(r),
         device' = device \/ DeviceOK(device'), JoinInv', CountInv'
  PROVE  TypeInv'
<1>1. TableInv /\ RecordInv
  BY DEF TypeInv
<1>2. TableInv'
  BY <1>1 DEF TableInv
<1>3. TablesGrow
  BY <1>1, TablesStay
<1>4. jar' = jar \/ JarOK(jar)'
  BY DEF JarOK
<1>5. tabs' = tabs \/ (DOMAIN tabs' = Tabs /\ \A t \in Tabs : TabOK(tabs[t])')
  BY DEF TabOK
<1>6. device' = device \/ DeviceOK(device)'
  BY DEF DeviceOK
<1>7. \A c \in calls' : CallOK(c)
  BY <1>1 DEF RecordInv
<1>8. \A r \in refreshes' : RefreshOK(r)
  BY <1>1 DEF RecordInv
<1>9. RecordInv'
  BY <1>2, <1>3, <1>4, <1>5, <1>6, <1>7, <1>8, RecordsKept
<1> QED
  BY <1>2, <1>9 DEF TypeInv

LEMMA CountsKept ==
  ASSUME TypeInv, UNCHANGED bounds
  PROVE  CountInv'
BY DEF TypeInv, CountInv, bounds

-----------------------------------------------------------------------------
(* The refreshes of a tab and what waits for them. *)

LEMMA AbandonTypes ==
  ASSUME RecordInv, NEW t, Abandon(t)
  PROVE  /\ \A r \in refreshes' : RefreshOK(r)
         /\ \A r \in refreshes' : r.heard => r \in refreshes
         /\ \A r \in refreshes : r.heard /\ r.tab # t => r \in refreshes'
<1>1. ASSUME NEW r \in refreshes'
      PROVE  RefreshOK(r) /\ (r.heard => r \in refreshes)
  <2>1. CASE r \in refreshes
    BY <2>1 DEF RecordInv
  <2>2. CASE r \notin refreshes
    <3>1. PICK q \in refreshes : /\ r = [q EXCEPT !.heard = FALSE]
                                 /\ q.phase \in {"sent", "read"}
      BY <2>2 DEF Abandon, Joins
    <3>2. q \in RefreshType
      BY DEF RecordInv, RefreshOK
    <3>3. r \in RefreshType /\ r.phase = q.phase /\ r.heard = FALSE
      BY <3>1, <3>2 DEF RefreshType
    <3> QED
      BY <3>1, <3>3 DEF RefreshOK
  <2> QED
    BY <2>1, <2>2
<1>2. \A r \in refreshes : r.heard /\ r.tab # t => r \in refreshes'
  BY DEF Abandon, Joins
<1> QED
  BY <1>1, <1>2

\* Nothing of the tab t waits or is waited for any more.
LEMMA JoinLeft ==
  ASSUME JoinInv, NEW t,
         \A c \in calls' : c.phase = "waits" => c \in calls /\ c.tab # t,
         \A r \in refreshes' : r.heard => r \in refreshes,
         \A r \in refreshes : r.heard /\ r.tab # t => r \in refreshes'
  PROVE  JoinInv'
<1>1. \A q, r \in refreshes' : q.heard /\ r.heard /\ q.tab = r.tab => q = r
  BY DEF JoinInv
<1>2. ASSUME NEW c \in calls', c.phase = "waits"
      PROVE  \E r \in refreshes' : r.heard /\ r.tab = c.tab
  BY <1>2 DEF JoinInv
<1> QED
  BY <1>1, <1>2 DEF JoinInv

LEMMA JoinSame ==
  ASSUME JoinInv, refreshes' = refreshes,
         \A c \in calls' : c.phase = "waits" => c \in calls
  PROVE  JoinInv'
BY DEF JoinInv

\* A refresh goes on, for the same page.
LEMMA JoinSwapped ==
  ASSUME JoinInv, NEW r \in refreshes, NEW q, q.tab = r.tab, q.heard = r.heard,
         \/ refreshes' = (refreshes \ {r}) \cup {q}
         \/ ~q.heard /\ refreshes' = refreshes \ {r},
         \A c \in calls' : c.phase = "waits" => c \in calls
  PROVE  JoinInv'
<1>1. \A x, y \in refreshes' : x.heard /\ y.heard /\ x.tab = y.tab => x = y
  BY DEF JoinInv
<1>2. ASSUME NEW c \in calls', c.phase = "waits"
      PROVE  \E x \in refreshes' : x.heard /\ x.tab = c.tab
  <2>1. PICK x \in refreshes : x.heard /\ x.tab = c.tab
    BY <1>2 DEF JoinInv
  <2> QED
    BY <2>1
<1> QED
  BY <1>1, <1>2 DEF JoinInv

-----------------------------------------------------------------------------
LEMMA UserTypes ==
  ASSUME TypeInv, NEW t \in Tabs, User(t)
  PROVE  TypeInv'
<1>0. TableInv /\ RecordInv /\ JoinInv /\ CountInv /\ MaxOps \in Nat /\ account.pw \in Nat
  BY AccountAssumption DEF TypeInv, TableInv
<1>1. ASSUME NEW op, NEW arg, CallOK(Call(t, op, arg)), Ask(Call(t, op, arg))
      PROVE  TypeInv'
  <2> DEFINE d == Call(t, op, arg)
  <2>1. d.phase = "sent"
    BY DEF Call
  <2>2. CallOK(d) /\ calls' = calls \cup {d} /\ refreshes' = refreshes
    BY <1>1 DEF Ask
  <2> HIDE DEF d
  <2>3. CountInv'
    BY <1>0, <1>1 DEF Ask, CountInv
  <2>4. JoinInv'
    BY <1>0, <2>1, <2>2, JoinSame
  <2> QED
    BY <1>1, <2>2, <2>3, <2>4, QuietTypes DEF Ask, server
<1>2. ASSUME NEW pw \in 1 .. account.pw, Login(t, pw)
      PROVE  TypeInv'
  <2>1. CallOK(Call(t, "login", pw))
    BY <1>0, <1>2, CallAsked DEF Requests
  <2> QED
    BY <1>1, <1>2, <2>1 DEF Login
<1>3. ASSUME NEW k \in Sessions, OnRevoke(t, k)
      PROVE  TypeInv'
  <2>1. k \in Nat
    BY <1>0 DEF TableInv, Sessions
  <2>2. CallOK(Call(t, "revoke", k))
    BY <1>0, <2>1, CallAsked DEF Requests
  <2> QED
    BY <1>1, <1>3, <2>2 DEF OnRevoke
<1>4. \A op \in {"sessions", "others", "password", "upload", "clear", "logout"} :
         CallOK(Call(t, op, 0))
  <2> TAKE op \in {"sessions", "others", "password", "upload", "clear", "logout"}
  <2> QED
    BY <1>0, CallAsked DEF Requests
<1>5. CASE ListSessions(t)
  BY <1>1, <1>4, <1>5 DEF ListSessions
<1>6. CASE OnRevokeOthers(t)
  BY <1>1, <1>4, <1>6 DEF OnRevokeOthers
<1>7. CASE ChangePassword(t)
  BY <1>1, <1>4, <1>7 DEF ChangePassword
<1>8. CASE OnFile(t)
  BY <1>1, <1>4, <1>8 DEF OnFile
<1>9. CASE OnRemove(t)
  BY <1>1, <1>4, <1>9 DEF OnRemove
<1>10. CASE Logout(t)
  BY <1>1, <1>4, <1>10 DEF Logout
<1>11. CASE Reload(t)
  <2>1. /\ Load(t, jar, calls) /\ Abandon(t) /\ JarOK(jar) /\ jar' = jar
        /\ device' = device /\ UNCHANGED <<sessions, account, files, saved>>
    BY <1>0, <1>11 DEF Reload, server, RecordInv
  <2>2. /\ \A c \in calls' : CallOK(c)
        /\ DOMAIN tabs' = Tabs /\ \A u \in Tabs : TabOK(tabs'[u])
        /\ \A c \in calls' : c.phase = "waits" => c \in calls /\ c.tab # t
    BY <1>0, <2>1, LoadTypes
  <2>3. /\ \A r \in refreshes' : RefreshOK(r)
        /\ \A r \in refreshes' : r.heard => r \in refreshes
        /\ \A r \in refreshes : r.heard /\ r.tab # t => r \in refreshes'
    BY <1>0, <2>1, AbandonTypes
  <2>4. JoinInv'
    BY <1>0, <2>2, <2>3, JoinLeft
  <2>5. CountInv'
    BY <1>0, <1>11 DEF Reload, CountInv
  <2> QED
    BY <2>1, <2>2, <2>3, <2>4, <2>5, QuietTypes
<1> QED
  BY <1>2, <1>3, <1>5, <1>6, <1>7, <1>8, <1>9, <1>10, <1>11 DEF User


-----------------------------------------------------------------------------
LEMMA JarTypes ==
  ASSUME TableInv
  PROVE  JarOK(NoCookies) /\ \A k \in 1 .. Len(sessions) : JarOK(CookiesOf(k))
<1>1. Len(sessions) \in Nat
  BY DEF TableInv
<1>2. JarOK(NoCookies)
  BY <1>1 DEF NoCookies, JarOK
<1>3. ASSUME NEW k \in 1 .. Len(sessions)
      PROVE  JarOK(CookiesOf(k))
  BY <1>1 DEF CookiesOf, JarOK
<1> QED
  BY <1>2, <1>3

LEMMA DeniedTypes ==
  ASSUME TypeInv, NEW c \in calls, Denied(c)
  PROVE  TypeInv'
<1> DEFINE d == [c EXCEPT !.phase = "waits"]
           n == NewRefresh(c)
<1>0. TableInv /\ RecordInv /\ JoinInv /\ CallOK(c)
  BY DEF TypeInv, RecordInv
<1>1. CallOK(d) /\ d.phase = "waits" /\ d.tab = c.tab
  <2>1. CallOK(d)
    BY <1>0, CallFields DEF Phases
  <2> QED
    BY <1>0, <2>1 DEF CallOK, CallType
<1>2. RefreshOK(n) /\ n.heard /\ n.tab = c.tab
  <2>1. c.tab \in Tabs /\ c.op \in Requests /\ jar.session \in Nat
    <3>1. c \in CallType
      BY <1>0 DEF CallOK
    <3>2. c.op \in Requests
      BY <3>1 DEF CallType
    <3>3. c.tab \in Tabs
      BY <3>1 DEF CallType
    <3>4. jar.session \in Nat
      BY <1>0 DEF RecordInv, JarOK
    <3> QED
      BY <3>2, <3>3, <3>4
  <2>2. n = [tab |-> c.tab, by |-> c.op, phase |-> "sent", session |-> jar.session,
             raced |-> FALSE, heard |-> TRUE]
    BY DEF NewRefresh
  <2> HIDE DEF n
  <2> QED
    BY <2>1, <2>2 DEF RefreshOK, RefreshType
<1>3. /\ calls' = (calls \ {c}) \cup {d}
      /\ \/ Joins(c.tab) = {} /\ refreshes' = refreshes \cup {n}
         \/ Joins(c.tab) # {} /\ refreshes' = refreshes
      /\ UNCHANGED bounds /\ jar' = jar /\ tabs' = tabs /\ device' = device
      /\ UNCHANGED <<sessions, account, files, saved>>
  BY DEF Denied, TryRefresh, StartRefresh, server
<1> HIDE DEF d, n
<1>4. JoinInv'
  <2>1. \A q, r \in refreshes' : q.heard /\ r.heard /\ q.tab = r.tab => q = r
    <3>1. CASE Joins(c.tab) = {} /\ refreshes' = refreshes \cup {n}
      <4>1. \A r \in refreshes : ~(r.heard /\ r.tab = c.tab)
        BY <3>1 DEF Joins
      <4> QED
        BY <1>0, <1>2, <3>1, <4>1 DEF JoinInv
    <3> QED
      BY <1>0, <1>3, <3>1 DEF JoinInv
  <2>2. \E r \in refreshes' : r.heard /\ r.tab = c.tab
    BY <1>2, <1>3 DEF Joins
  <2>3. ASSUME NEW x \in calls', x.phase = "waits"
        PROVE  \E r \in refreshes' : r.heard /\ r.tab = x.tab
    <3>1. CASE x = d
      BY <1>1, <2>2, <3>1
    <3>2. CASE x \in calls
      <4>1. PICK r \in refreshes : r.heard /\ r.tab = x.tab
        BY <1>0, <2>3, <3>2 DEF JoinInv
      <4> QED
        BY <1>3, <4>1
    <3> QED
      BY <1>3, <3>1, <3>2
  <2> QED
    BY <2>1, <2>3 DEF JoinInv
<1>5. CountInv'
  BY <1>3, CountsKept
<1> QED
  BY <1>1, <1>2, <1>3, <1>4, <1>5, QuietTypes

LEMMA ReplyTypes ==
  ASSUME CredInv, TypeInv, NEW c \in calls, Reply(c)
  PROVE  TypeInv'
<1>0. /\ TableInv /\ RecordInv /\ JoinInv /\ CountInv /\ CallOK(c) /\ c.tab \in Tabs
      /\ MaxFaults \in Nat /\ c \in CallType
  BY AccountAssumption DEF TypeInv, RecordInv, CallOK, CallType
\* The page takes up the reply.
<1>1. ASSUME Quiet, jar' = jar, calls' \subseteq calls, tabs' = tabs \/
             (DOMAIN tabs' = Tabs /\ \A t \in Tabs : TabOK(tabs'[t]))
      PROVE  TypeInv'
  <2>1. CountInv'
    BY <1>1, CountsKept DEF Quiet
  <2>2. JoinInv'
    BY <1>0, <1>1, JoinSame DEF Quiet
  <2> QED
    BY <1>1, <2>1, <2>2, QuietTypes DEF Quiet, server
<1>2. CASE MeReplied(c)
  <2>1. /\ tabs' = [tabs EXCEPT ![c.tab].screen = "home", ![c.tab].avatar = c.arg]
        /\ calls' = calls \ {c} /\ jar' = jar /\ Quiet
    BY <1>2 DEF MeReplied
  <2>2. DOMAIN tabs' = Tabs /\ \A t \in Tabs : TabOK(tabs'[t])
    <3>1. DOMAIN tabs' = Tabs /\ c.arg \in Nat
      BY <1>0, <2>1 DEF RecordInv, CallType
    <3>2. ASSUME NEW t \in Tabs
          PROVE  TabOK(tabs'[t])
      <4>1. TabOK(tabs[t])
        BY <1>0 DEF RecordInv
      <4>2. tabs'[t] = IF t = c.tab
                       THEN [tabs[t] EXCEPT !.screen = "home", !.avatar = c.arg]
                       ELSE tabs[t]
        BY <1>0, <2>1 DEF RecordInv, TabType
      <4>3. CASE t = c.tab
        <5> DEFINE p == [tabs[t] EXCEPT !.screen = "home", !.avatar = c.arg]
        <5>1. p \in TabType /\ p.rows = tabs[t].rows
          BY <3>1, <4>1 DEF TabOK, TabType
        <5>2. TabOK(p)
          <6> HIDE DEF p
          <6> QED
            BY <4>1, <5>1 DEF TabOK
        <5> QED
          BY <4>2, <4>3, <5>2
      <4> QED
        BY <4>1, <4>2, <4>3
    <3> QED
      BY <3>1, <3>2
  <2> QED
    BY <1>1, <2>1, <2>2
<1>3. CASE SessionsReplied(c)
  <2>0. PICK rows : rows = IF c.arg = 0 THEN c.rows ELSE tabs[c.tab].rows
    OBVIOUS
  <2>1. /\ tabs' = [tabs EXCEPT ![c.tab].rows = rows]
        /\ calls' = calls \ {c} /\ jar' = jar /\ Quiet
    BY <1>0, <1>3, <2>0 DEF SessionsReplied, RecordInv
  <2>2. DOMAIN tabs' = Tabs /\ \A t \in Tabs : TabOK(tabs'[t])
    <3>1. DOMAIN tabs' = Tabs
      BY <1>0, <2>1 DEF RecordInv
    <3>2. ASSUME NEW t \in Tabs
          PROVE  TabOK(tabs'[t])
      <4>1. TabOK(tabs[t])
        BY <1>0 DEF RecordInv
      <4>2. tabs'[t] = IF t = c.tab THEN [tabs[t] EXCEPT !.rows = rows] ELSE tabs[t]
        BY <1>0, <2>1 DEF RecordInv
      <4>3. CASE t = c.tab
        <5> DEFINE p == [tabs[t] EXCEPT !.rows = rows]
        <5>1. rows \in SUBSET Nat /\ rows \subseteq 1 .. Len(sessions)
          BY <1>0, <2>0, <4>1, <4>3 DEF CallOK, CallType, TabOK, TabType
        <5>2. p \in TabType /\ p.rows = rows
          BY <4>1, <5>1 DEF TabOK, TabType
        <5>3. TabOK(p)
          <6> HIDE DEF p
          <6> QED
            BY <5>1, <5>2 DEF TabOK
        <5> QED
          BY <4>2, <4>3, <5>3
      <4> QED
        BY <4>1, <4>2, <4>3
    <3> QED
      BY <3>1, <3>2
  <2> QED
    BY <1>1, <2>1, <2>2
<1>4. CASE AvatarReplied(c)
  <2>1. /\ tabs' = [tabs EXCEPT ![c.tab].avatar = c.arg]
        /\ calls' = calls \ {c} /\ jar' = jar /\ Quiet
    BY <1>4 DEF AvatarReplied
  <2>2. DOMAIN tabs' = Tabs /\ \A t \in Tabs : TabOK(tabs'[t])
    <3>1. DOMAIN tabs' = Tabs /\ c.arg \in Nat
      BY <1>0, <2>1 DEF RecordInv, CallType
    <3>2. ASSUME NEW t \in Tabs
          PROVE  TabOK(tabs'[t])
      <4>1. TabOK(tabs[t])
        BY <1>0 DEF RecordInv
      <4>2. tabs'[t] = IF t = c.tab THEN [tabs[t] EXCEPT !.avatar = c.arg] ELSE tabs[t]
        BY <1>0, <2>1 DEF RecordInv
      <4>3. CASE t = c.tab
        <5> DEFINE p == [tabs[t] EXCEPT !.avatar = c.arg]
        <5>1. p \in TabType /\ p.rows = tabs[t].rows
          BY <3>1, <4>1 DEF TabOK, TabType
        <5>2. TabOK(p)
          <6> HIDE DEF p
          <6> QED
            BY <4>1, <5>1 DEF TabOK
        <5> QED
          BY <4>2, <4>3, <5>2
      <4> QED
        BY <4>1, <4>2, <4>3
    <3> QED
      BY <3>1, <3>2
  <2> QED
    BY <1>1, <2>1, <2>2
<1>5. CASE RevokeReplied(c)
  <2>1. jar' = jar /\ tabs' = tabs /\ Quiet
    BY <1>5 DEF RevokeReplied
  <2>2. CallOK(Call(c.tab, "sessions", 0))
    BY <1>0, CallAsked DEF Requests
  <2>3. Call(c.tab, "sessions", 0).phase = "sent"
    BY DEF Call
  <2>4. ASSUME NEW d \in calls, d.op = "sessions", NEW x, x = GivenUp(d)
        PROVE  CallOK(x) /\ x.phase = d.phase /\ x.tab = d.tab
    <3>1. CallOK(d) /\ d \in CallType
      BY <1>0 DEF RecordInv, CallOK
    <3>2. /\ x \in CallType /\ x.op = d.op /\ x.rows = d.rows /\ x.phase = d.phase
          /\ x.tab = d.tab
      BY <2>4, <3>1 DEF GivenUp, CallType
    <3> QED
      BY <2>4, <3>1, <3>2 DEF CallOK
  <2>5. \A x \in calls' : CallOK(x)
    BY <1>0, <1>5, <2>2, <2>4, RevokeCalls DEF RecordInv
  <2>6. JoinInv'
    <3>1. refreshes' = refreshes
      BY <2>1 DEF Quiet
    <3>2. ASSUME NEW x \in calls', x.phase = "waits"
          PROVE  \E y \in calls : y.phase = "waits" /\ y.tab = x.tab
      BY <1>5, <2>3, <2>4, <3>2, RevokeCalls
    <3> QED
      BY <1>0, <3>1, <3>2 DEF JoinInv
  <2>7. CountInv'
    BY <2>1, CountsKept DEF Quiet
  <2> QED
    BY <2>1, <2>5, <2>6, <2>7, QuietTypes DEF Quiet, server
\* The page is left for another one.
<1>6. ASSUME NEW cookies, JarOK(cookies), Load(c.tab, cookies, calls \ {c}),
             Abandon(c.tab), jar' = cookies, device' = device, CountInv',
             UNCHANGED <<sessions, account, files, saved>>
      PROVE  TypeInv'
  <2>1. /\ \A d \in calls' : CallOK(d)
        /\ DOMAIN tabs' = Tabs /\ \A u \in Tabs : TabOK(tabs'[u])
        /\ \A d \in calls' : d.phase = "waits" => d \in calls \ {c} /\ d.tab # c.tab
    <3>1. calls \ {c} \subseteq calls
      OBVIOUS
    <3> QED
      BY <1>0, <1>6, <3>1, LoadTypes
  <2>2. /\ \A r \in refreshes' : RefreshOK(r)
        /\ \A r \in refreshes' : r.heard => r \in refreshes
        /\ \A r \in refreshes : r.heard /\ r.tab # c.tab => r \in refreshes'
    BY <1>0, <1>6, AbandonTypes
  <2>3. JoinInv'
    BY <1>0, <2>1, <2>2, JoinLeft
  <2> QED
    BY <1>6, <2>1, <2>2, <2>3, QuietTypes
<1>7. CASE LoginReplied(c)
  <2>1. c.session \in 1 .. Len(sessions)
    <3>1. c.session \in 0 .. Len(sessions)
      BY DEF CredInv, CallGood, Known
    <3>2. c.session # 0
      BY <1>0, <1>7 DEF LoginReplied, Replied, CallOK
    <3>3. Len(sessions) \in Nat
      BY <1>0 DEF TableInv
    <3> QED
      BY <3>1, <3>2, <3>3
  <2>2. JarOK(CookiesOf(c.session))
    BY <1>0, <2>1, JarTypes
  <2>3. CountInv'
    BY <1>7, CountsKept DEF LoginReplied
  <2> QED
    BY <1>6, <1>7, <2>2, <2>3 DEF LoginReplied, server
<1>8. CASE LogoutReplied(c)
  <2>1. JarOK(NoCookies)
    BY <1>0, JarTypes
  <2>2. CountInv'
    BY <1>8, CountsKept DEF LogoutReplied
  <2> QED
    BY <1>6, <1>8, <2>1, <2>2 DEF LogoutReplied, server
<1>9. CASE CallFails(c)
  <2>1. CountInv'
    BY <1>0, <1>9 DEF CallFails, CountInv
  <2>2. /\ jar' = jar /\ device' = device /\ UNCHANGED <<sessions, account, files, saved>>
        /\ JarOK(jar)
    BY <1>0, <1>9 DEF CallFails, server, RecordInv
  <2>3. CASE c.op = "logout"
    BY <1>6, <1>9, <2>1, <2>2, <2>3 DEF CallFails
  <2>4. CASE c.op # "logout"
    <3>1. /\ calls' = calls \ {c} /\ refreshes' = refreshes
          /\ \/ tabs' = tabs
             \/ \E p \in {LoginPage, [Gate EXCEPT !.screen = "blank"]} :
                   tabs' = [tabs EXCEPT ![c.tab] = p]
      BY <1>9, <2>4 DEF CallFails
    <3>2. \A p \in {LoginPage, [Gate EXCEPT !.screen = "blank"]} : TabOK(p)
      <4>1. TabOK([Gate EXCEPT !.screen = "blank"])
        BY DEF Gate, TabOK, TabType
      <4> QED
        BY <4>1, TabsLoaded
    <3>3. tabs' = tabs \/ (DOMAIN tabs' = Tabs /\ \A t \in Tabs : TabOK(tabs'[t]))
      BY <1>0, <3>1, <3>2 DEF RecordInv
    <3>4. JoinInv'
      BY <1>0, <3>1, JoinSame
    <3> QED
      BY <2>1, <2>2, <3>1, <3>3, <3>4, QuietTypes
  <2> QED
    BY <2>3, <2>4
<1> QED
  BY <1>2, <1>3, <1>4, <1>5, <1>7, <1>8, <1>9, DeniedTypes DEF Reply


-----------------------------------------------------------------------------
(* Steps of the server: the tables grow. *)

LEMMA TableTypes ==
  ASSUME TypeInv, TableInv', TablesGrow, jar' = jar, tabs' = tabs,
         \A c \in calls' : c \in calls \/ CallOK(c) \/ CallOK(c)',
         \A r \in refreshes' : r \in refreshes \/ RefreshOK(r),
         device' = device \/ DeviceOK(device)', JoinInv', CountInv'
  PROVE  TypeInv'
<1>1. /\ \A c \in calls' : CallOK(c) \/ CallOK(c)'
      /\ \A r \in refreshes' : RefreshOK(r)
  BY DEF TypeInv, RecordInv
<1>2. RecordInv'
  BY <1>1, RecordsKept
<1> QED
  BY <1>2 DEF TypeInv

\* A session is ended, of a row that has one.
LEMMA RotateTypes ==
  ASSUME TableInv, NEW k \in DOMAIN sessions, NEW raced \in BOOLEAN, Rotate(k, raced),
         account' = account, UNCHANGED <<files, saved>>
  PROVE  TableInv' /\ TablesGrow /\ Len(sessions') = Len(sessions) + 1
<1> DEFINE t == [sessions EXCEPT ![k].live = FALSE]
           e == Session(sessions[k].mine, sessions[k].pw, raced \/ sessions[k].raced)
<1>1. /\ sessions \in Seq(SessionType) /\ Len(sessions) \in Nat
      /\ DOMAIN sessions = 1 .. Len(sessions) /\ sessions[k] \in SessionType
      /\ account.pw \in Nat /\ saved \in Nat
      /\ \A j \in DOMAIN sessions : sessions[j].pw \in 1 .. account.pw
  BY DEF TableInv
<1>2. /\ t \in Seq(SessionType) /\ Len(t) = Len(sessions)
      /\ \A j \in 1 .. Len(sessions) : t[j].pw = sessions[j].pw
  BY <1>1, EndOne
<1>3. e \in SessionType /\ e.pw = sessions[k].pw
  <2>1. (raced \/ sessions[k].raced) \in BOOLEAN
    OBVIOUS
  <2> QED
    BY <1>1, <2>1 DEF SessionType, Session
<1>4. sessions' = Append(t, e)
  BY DEF Rotate
<1> HIDE DEF t, e
<1>5. /\ sessions' \in Seq(SessionType) /\ Len(sessions') = Len(sessions) + 1
      /\ DOMAIN sessions' = 1 .. Len(sessions) + 1
      /\ \A j \in 1 .. Len(sessions) : sessions'[j] = t[j]
      /\ sessions'[Len(sessions) + 1] = e
  <2>1. PICK u : u = Append(t, e)
    OBVIOUS
  <2>2. /\ u \in Seq(SessionType) /\ Len(u) = Len(t) + 1 /\ DOMAIN u = 1 .. Len(t) + 1
        /\ \A j \in 1 .. Len(t) : u[j] = t[j]
        /\ u[Len(t) + 1] = e
    BY <1>2, <1>3, <2>1
  <2> QED
    BY <1>2, <1>4, <2>1, <2>2
<1>6. ASSUME NEW j \in DOMAIN sessions'
      PROVE  sessions'[j].pw \in 1 .. account.pw
  <2>1. CASE j \in 1 .. Len(sessions)
    BY <1>1, <1>2, <1>5, <2>1
  <2>2. CASE j = Len(sessions) + 1
    BY <1>1, <1>3, <1>5, <2>2
  <2> QED
    BY <1>1, <1>5, <2>1, <2>2
<1>7. TableInv'
  BY <1>5, <1>6 DEF TableInv
<1>8. TablesGrow
  BY <1>1, <1>5 DEF TablesGrow
<1> QED
  BY <1>5, <1>7, <1>8

LEMMA RefreshTypes ==
  ASSUME CredInv, TypeInv, NEW r \in refreshes, Refresh(r)
  PROVE  TypeInv'
<1>0. /\ TableInv /\ RecordInv /\ JoinInv /\ CountInv /\ RefreshOK(r) /\ r.tab \in Tabs
      /\ r \in RefreshType /\ MaxFaults \in Nat
      /\ Len(sessions) \in Nat /\ DOMAIN sessions = 1 .. Len(sessions)
  BY AccountAssumption DEF TypeInv, RecordInv, RefreshOK, RefreshType, TableInv
<1>1. CASE Refreshed(r)
  <2> DEFINE cookies == CookiesOf(r.session)
  <2>1. r.session \in 1 .. Len(sessions) /\ r.heard
    <3>1. r.session \in 0 .. Len(sessions)
      BY DEF CredInv, RefreshGood, Known
    <3>2. r.session # 0 /\ r.heard
      BY <1>0, <1>1 DEF Refreshed, RefreshOK
    <3> QED
      BY <1>0, <3>1, <3>2
  <2>2. JarOK(cookies)
    BY <1>0, <2>1, JarTypes
  <2>3. /\ jar' = cookies /\ calls' = Resume(r, cookies) /\ refreshes' = refreshes \ {r}
        /\ UNCHANGED bounds /\ UNCHANGED <<sessions, account, files, saved, tabs, device>>
    BY <1>1 DEF Refreshed, server
  <2> HIDE DEF cookies
  <2>4. ASSUME NEW d \in calls'
        PROVE  CallOK(d) /\ (d.phase = "waits" => d \in calls /\ d.tab # r.tab)
    <3>1. PICK c \in calls : d = IF c.tab = r.tab /\ c.phase = "waits"
                                 THEN Resent(c, cookies) ELSE c
      BY <2>3 DEF Resume
    <3>2. CallOK(c)
      BY <1>0 DEF RecordInv
    <3>3. CASE d = Resent(c, cookies)
      <4>1. CallOK(Resent(c, cookies))
        BY <2>2, <3>2, CallFields DEF JarOK
      <4>2. d.phase = "sent"
        BY <3>2, <3>3 DEF Resent, CallOK, CallType
      <4> QED
        BY <3>3, <4>1, <4>2
    <3>4. CASE d = c /\ ~(c.tab = r.tab /\ c.phase = "waits")
      BY <3>2, <3>4
    <3> QED
      BY <3>1, <3>3, <3>4
  <2>5. JoinInv'
    <3>1. \A q \in refreshes : q.heard /\ q.tab # r.tab => q \in refreshes'
      BY <2>3
    <3>2. \A q \in refreshes' : q.heard => q \in refreshes
      BY <2>3
    <3> QED
      BY <1>0, <2>4, <3>1, <3>2, JoinLeft
  <2>6. CountInv'
    BY <2>3, CountsKept
  <2> QED
    BY <2>2, <2>3, <2>4, <2>5, <2>6, QuietTypes
<1>2. CASE RefreshFails(r)
  <2>1. PICK cookies : /\ cookies = NoCookies \/ cookies = jar
                       /\ jar' = cookies /\ Load(r.tab, cookies, calls)
    BY <1>2 DEF RefreshFails
  <2>2. JarOK(cookies)
    BY <1>0, <2>1, JarTypes DEF RecordInv
  <2>3. /\ \A d \in calls' : CallOK(d)
        /\ DOMAIN tabs' = Tabs /\ \A u \in Tabs : TabOK(tabs'[u])
        /\ \A d \in calls' : d.phase = "waits" => d \in calls /\ d.tab # r.tab
    BY <1>0, <2>1, <2>2, LoadTypes
  <2>4. /\ refreshes' = refreshes \ {r} /\ UNCHANGED bounds
        /\ UNCHANGED <<sessions, account, files, saved, device>>
    BY <1>2 DEF RefreshFails, server
  <2>5. JoinInv'
    <3>1. \A q \in refreshes : q.heard /\ q.tab # r.tab => q \in refreshes'
      BY <2>4
    <3>2. \A q \in refreshes' : q.heard => q \in refreshes
      BY <2>4
    <3> QED
      BY <1>0, <2>3, <3>1, <3>2, JoinLeft
  <2>6. CountInv'
    BY <2>4, CountsKept
  <2> QED
    BY <2>1, <2>2, <2>3, <2>4, <2>5, <2>6, QuietTypes
<1>3. CASE ReadRefresh(r)
  <2>1. PICK v \in {"read", "refused"} : RefreshAnswered(r, [r EXCEPT !.phase = v])
    BY <1>3 DEF ReadRefresh
  <2>2. PICK q : q = [r EXCEPT !.phase = v]
    OBVIOUS
  <2>3. q \in RefreshType /\ q.phase = v /\ q.heard = r.heard /\ q.tab = r.tab
    BY <1>0, <2>2 DEF RefreshType
  <2>4. refreshes' = (refreshes \ {r}) \cup {x \in {q} : x.heard \/ x.phase = "read"}
    BY <2>1, <2>2 DEF RefreshAnswered
  <2>5. /\ UNCHANGED bounds /\ calls' = calls
        /\ UNCHANGED <<sessions, account, files, saved, device, jar, tabs>>
    BY <1>3 DEF ReadRefresh, server
  <2>6. \A x \in refreshes' : x \in refreshes \/ RefreshOK(x)
    BY <2>3, <2>4 DEF RefreshOK
  <2>7. JoinInv'
    BY <1>0, <2>3, <2>4, <2>5, JoinSwapped
  <2>8. CountInv'
    BY <2>5, CountsKept
  <2> QED
    BY <2>5, <2>6, <2>7, <2>8, QuietTypes
<1>4. CASE CommitRefresh(r)
  <2>1. PICK q : q = [r EXCEPT !.phase = "ok", !.session = Len(sessions) + 1]
    OBVIOUS
  <2>2. /\ q \in RefreshType /\ q.phase = "ok" /\ q.heard = r.heard /\ q.tab = r.tab
        /\ q.session # 0
    <3>1. PICK k \in Nat : k = Len(sessions) + 1 /\ k # 0
      BY <1>0
    <3>2. q = [r EXCEPT !.phase = "ok", !.session = k]
      BY <2>1, <3>1
    <3> QED
      BY <1>0, <3>1, <3>2 DEF RefreshType
  <2>3. refreshes' = (refreshes \ {r}) \cup {x \in {q} : x.heard \/ x.phase = "read"}
    BY <1>4, <2>1 DEF CommitRefresh, RefreshAnswered
  <2>4. /\ UNCHANGED bounds /\ calls' = calls
        /\ UNCHANGED <<account, files, saved, device, jar, tabs>>
        /\ Rotate(r.session, r.raced)
    BY <1>4 DEF CommitRefresh
  <2>5. r.session \in DOMAIN sessions /\ r.raced \in BOOLEAN
    BY <1>4 DEF CredInv, RefreshGood, SoundRotation, CommitRefresh
  <2>6. TableInv' /\ TablesGrow
    BY <1>0, <2>4, <2>5, RotateTypes
  <2>7. \A x \in refreshes' : x \in refreshes \/ RefreshOK(x)
    BY <2>2, <2>3 DEF RefreshOK
  <2>8. JoinInv'
    BY <1>0, <2>2, <2>3, <2>4, JoinSwapped
  <2>9. CountInv'
    BY <2>4, CountsKept
  <2> QED
    BY <2>4, <2>6, <2>7, <2>8, <2>9, TableTypes
<1>5. CASE LoseRefresh(r)
  <2>1. PICK q : q = [r EXCEPT !.phase = "lost"]
    OBVIOUS
  <2>2. /\ q \in RefreshType /\ q.phase = "lost" /\ q.heard = r.heard /\ q.tab = r.tab
    BY <1>0, <2>1 DEF RefreshType
  <2>3. /\ refreshes' = (refreshes \ {r}) \cup {q} /\ calls' = calls /\ r.heard
        /\ UNCHANGED <<sessions, account, files, saved, device, jar, tabs>>
    BY <1>5, <2>1 DEF LoseRefresh, server
  <2>4. \A x \in refreshes' : x \in refreshes \/ RefreshOK(x)
    BY <2>2, <2>3 DEF RefreshOK
  <2>5. JoinInv'
    BY <1>0, <2>2, <2>3, JoinSwapped
  <2>6. CountInv'
    BY <1>0, <1>5 DEF LoseRefresh, CountInv
  <2> QED
    BY <2>3, <2>4, <2>5, <2>6, QuietTypes
<1> QED
  BY <1>1, <1>2, <1>3, <1>4, <1>5 DEF Refresh


-----------------------------------------------------------------------------
(* Sessions that are ended, one by one. *)

LEMMA EndedOne ==
  ASSUME TableInv, NEW k, sessions' = [sessions EXCEPT ![k].live = FALSE]
  PROVE  /\ Len(sessions') = Len(sessions) /\ DOMAIN sessions' = DOMAIN sessions
         /\ sessions' \in Seq(SessionType)
         /\ \A j \in DOMAIN sessions :
               /\ sessions'[j].mine = sessions[j].mine /\ sessions'[j].pw = sessions[j].pw
               /\ j # k => sessions'[j].live = sessions[j].live
<1>1. /\ sessions \in Seq(SessionType) /\ DOMAIN sessions = 1 .. Len(sessions)
      /\ Len(sessions) \in Nat
  BY DEF TableInv
<1>2. sessions' \in Seq(SessionType) /\ Len(sessions') = Len(sessions)
  BY <1>1, EndOne
<1>3. ASSUME NEW j \in DOMAIN sessions
      PROVE  /\ sessions'[j].mine = sessions[j].mine /\ sessions'[j].pw = sessions[j].pw
             /\ j # k => sessions'[j].live = sessions[j].live
  <2>1. sessions'[j] = IF j = k THEN [sessions[j] EXCEPT !.live = FALSE] ELSE sessions[j]
    BY <1>1
  <2>2. sessions[j] \in SessionType
    BY <1>1
  <2> QED
    BY <2>1, <2>2 DEF SessionType
<1> QED
  BY <1>1, <1>2, <1>3

LEMMA EndedOthers ==
  ASSUME TableInv, NEW k, sessions' = RevokedBut(k)
  PROVE  /\ Len(sessions') = Len(sessions) /\ DOMAIN sessions' = DOMAIN sessions
         /\ sessions' \in Seq(SessionType)
         /\ \A j \in DOMAIN sessions :
               /\ sessions'[j].mine = sessions[j].mine /\ sessions'[j].pw = sessions[j].pw
               /\ sessions'[j].live = (sessions[j].live /\ j = k)
<1>1. /\ sessions \in Seq(SessionType) /\ DOMAIN sessions = 1 .. Len(sessions)
      /\ Len(sessions) \in Nat
  BY DEF TableInv
<1>2. sessions' = EndedBut(sessions, k)
  BY DEF RevokedBut, Sessions, EndedBut
<1>3. sessions' \in Seq(SessionType) /\ Len(sessions') = Len(sessions)
  BY <1>1, <1>2, EndMany
<1>4. ASSUME NEW j \in DOMAIN sessions
      PROVE  /\ sessions'[j].mine = sessions[j].mine /\ sessions'[j].pw = sessions[j].pw
             /\ sessions'[j].live = (sessions[j].live /\ j = k)
  <2>1. sessions'[j] = IF j = k THEN sessions[j] ELSE [sessions[j] EXCEPT !.live = FALSE]
    BY <1>1, <1>2 DEF EndedBut
  <2>2. sessions[j] \in SessionType
    BY <1>1
  <2> QED
    BY <2>1, <2>2 DEF SessionType
<1> QED
  BY <1>1, <1>3, <1>4

LEMMA PasswordSessions ==
  ASSUME CredInv, TableInv, NEW k, NewPassword(k)
  PROVE  /\ Len(sessions') = Len(sessions) /\ DOMAIN sessions' = DOMAIN sessions
         /\ sessions' \in Seq(SessionType)
         /\ \A j \in DOMAIN sessions :
               /\ sessions'[j].mine = sessions[j].mine
               /\ sessions'[j].pw = IF j = k THEN account.pw + 1 ELSE sessions[j].pw
               /\ sessions'[j].live = (sessions[j].live /\ j = k)
<1>1. /\ sessions \in Seq(SessionType) /\ DOMAIN sessions = 1 .. Len(sessions)
      /\ Len(sessions) \in Nat
  BY DEF TableInv
<1>2. /\ Len(sessions') = Len(sessions) /\ sessions' \in Seq(SessionType)
  BY NewPasswordSessions DEF CredInv, SessionsGood
<1>3. ASSUME NEW j \in DOMAIN sessions
      PROVE  /\ sessions'[j].mine = sessions[j].mine
             /\ sessions'[j].pw = IF j = k THEN account.pw + 1 ELSE sessions[j].pw
             /\ sessions'[j].live = (sessions[j].live /\ j = k)
  <2>1. PICK n : n = account.pw + 1
    OBVIOUS
  <2>2. sessions[j] \in SessionType
    BY <1>1
  <2>3. sessions' = [RevokedBut(k) EXCEPT ![k].pw = n, ![k].raced = FALSE]
    BY <2>1 DEF NewPassword
  <2>4. CASE j = k
    <3>1. RevokedBut(k)[j] = sessions[j] /\ DOMAIN RevokedBut(k) = DOMAIN sessions
      BY <2>4 DEF RevokedBut, Sessions
    <3> HIDE DEF RevokedBut
    <3>2. sessions'[j] = [sessions[j] EXCEPT !.pw = n, !.raced = FALSE]
      BY <2>3, <2>4, <3>1
    <3> QED
      BY <2>1, <2>2, <2>4, <3>2 DEF SessionType
  <2>5. CASE j # k
    <3>1. /\ RevokedBut(k)[j] = [sessions[j] EXCEPT !.live = FALSE]
          /\ DOMAIN RevokedBut(k) = DOMAIN sessions
      BY <2>5 DEF RevokedBut, Sessions
    <3>2. sessions'[j] = RevokedBut(k)[j]
      BY <2>3, <2>5, <3>1
    <3> QED
      BY <2>2, <2>5, <3>1, <3>2 DEF SessionType
  <2> QED
    BY <2>4, <2>5
<1> QED
  BY <1>1, <1>2, <1>3


\* The tables after the sessions have been ended.
LEMMA EndTypes ==
  ASSUME TableInv, Len(sessions') = Len(sessions), sessions' \in Seq(SessionType),
         \A j \in DOMAIN sessions : sessions'[j].pw = sessions[j].pw,
         UNCHANGED <<account, files, saved>>
  PROVE  TableInv' /\ TablesGrow
<1>1. /\ DOMAIN sessions = 1 .. Len(sessions) /\ DOMAIN sessions' = 1 .. Len(sessions)
      /\ Len(sessions) \in Nat /\ account.pw \in Nat /\ saved \in Nat
  BY DEF TableInv
<1>2. TableInv'
  BY <1>1 DEF TableInv
<1> QED
  BY <1>1, <1>2 DEF TablesGrow

LEMMA PasswordTypes ==
  ASSUME CredInv, TypeInv, NEW k, NewPassword(k), UNCHANGED <<files, saved, jar, tabs>>,
         \A d \in calls' : CallOK(d) /\ (d.phase = "waits" => \E c \in calls :
                              c.phase = "waits" /\ c.tab = d.tab), CountInv'
  PROVE  TypeInv'
<1>0. TableInv /\ RecordInv /\ JoinInv
  BY DEF TypeInv
<1>1. /\ Len(sessions') = Len(sessions) /\ DOMAIN sessions' = DOMAIN sessions
      /\ sessions' \in Seq(SessionType)
      /\ \A j \in DOMAIN sessions :
            sessions'[j].pw = IF j = k THEN account.pw + 1 ELSE sessions[j].pw
  BY <1>0, PasswordSessions
<1>2. /\ Len(sessions) \in Nat /\ account.pw \in Nat /\ saved \in Nat
      /\ account \in [pw : Nat, avatar : Nat, suspended : BOOLEAN]
      /\ \A j \in DOMAIN sessions : sessions[j].pw \in 1 .. account.pw
      /\ files \subseteq 1 .. saved /\ account.avatar <= saved
  BY <1>0 DEF TableInv
<1>3. /\ account' \in [pw : Nat, avatar : Nat, suspended : BOOLEAN]
      /\ account'.pw = account.pw + 1 /\ account'.avatar = account.avatar
  <2>1. PICK n \in Nat : n = account.pw + 1
    BY <1>2
  <2>2. account' = [account EXCEPT !.pw = n]
    BY <2>1 DEF NewPassword
  <2> QED
    BY <1>2, <2>1, <2>2
<1>4. TableInv'
  <2>1. ASSUME NEW j \in DOMAIN sessions'
        PROVE  sessions'[j].pw \in 1 .. account'.pw
    <3>1. j \in DOMAIN sessions
      BY <1>1
    <3>2. sessions[j].pw \in 1 .. account.pw
      BY <1>2, <3>1
    <3>3. sessions'[j].pw = IF j = k THEN account.pw + 1 ELSE sessions[j].pw
      BY <1>1, <3>1
    <3> QED
      BY <1>2, <1>3, <3>2, <3>3
  <2> QED
    BY <1>1, <1>2, <1>3, <2>1 DEF TableInv
<1>5. TablesGrow
  BY <1>1, <1>2, <1>3 DEF TablesGrow
<1>6. ASSUME NEW q \in refreshes'
      PROVE  \E r \in refreshes :
                /\ RefreshOK(q)
                /\ q = [r EXCEPT !.raced = @ \/ r.phase = "read"]
                                  /\ q.heard = r.heard /\ q.tab = r.tab
  <2>1. PICK r \in refreshes : q = [r EXCEPT !.raced = @ \/ r.phase = "read"]
    BY DEF NewPassword
  <2>2. RefreshOK(r) /\ r \in RefreshType
    BY <1>0 DEF RecordInv, RefreshOK
  <2>3. PICK b \in BOOLEAN : b = (r.raced \/ r.phase = "read")
    OBVIOUS
  <2>4. q = [r EXCEPT !.raced = b]
    BY <2>1, <2>3
  <2>5. /\ q \in RefreshType /\ q.heard = r.heard /\ q.tab = r.tab /\ q.phase = r.phase
        /\ q.session = r.session
    BY <2>2, <2>3, <2>4 DEF RefreshType
  <2>6. RefreshOK(q)
    BY <2>2, <2>5 DEF RefreshOK
  <2> QED
    BY <2>1, <2>5, <2>6
<1>7. ASSUME NEW r \in refreshes
      PROVE  \E q \in refreshes' : q.heard = r.heard /\ q.tab = r.tab
  <2>1. PICK q : q = [r EXCEPT !.raced = @ \/ r.phase = "read"]
    OBVIOUS
  <2>2. q \in refreshes'
    BY <2>1 DEF NewPassword
  <2>3. q.heard = r.heard /\ q.tab = r.tab
    BY <1>0, <2>1 DEF RecordInv, RefreshOK, RefreshType
  <2> QED
    BY <2>2, <2>3
<1>8. JoinInv'
  <2>1. ASSUME NEW x \in refreshes', NEW y \in refreshes', x.heard, y.heard, x.tab = y.tab
        PROVE  x = y
    <3>1. PICK r \in refreshes : /\ x = [r EXCEPT !.raced = @ \/ r.phase = "read"]
                                 /\ r.heard /\ r.tab = x.tab
      BY <1>6, <2>1
    <3>2. PICK q \in refreshes : /\ y = [q EXCEPT !.raced = @ \/ q.phase = "read"]
                                 /\ q.heard /\ q.tab = y.tab
      BY <1>6, <2>1
    <3>3. r = q
      BY <1>0, <2>1, <3>1, <3>2 DEF JoinInv
    <3> QED
      BY <3>1, <3>2, <3>3
  <2>2. ASSUME NEW d \in calls', d.phase = "waits"
        PROVE  \E x \in refreshes' : x.heard /\ x.tab = d.tab
    <3>1. PICK c \in calls : c.phase = "waits" /\ c.tab = d.tab
      BY <2>2
    <3>2. PICK r \in refreshes : r.heard /\ r.tab = d.tab
      BY <1>0, <3>1 DEF JoinInv
    <3> QED
      BY <1>7, <3>2
  <2> QED
    BY <2>1, <2>2 DEF JoinInv
<1>9. DeviceOK(device)'
  <2>1. DeviceOK(device)
    BY <1>0 DEF RecordInv
  <2>2. PICK b \in BOOLEAN : b = (device.raced \/ device.busy)
    OBVIOUS
  <2>3. device' = [device EXCEPT !.raced = b]
    BY <2>2 DEF NewPassword
  <2>4. /\ device' \in [busy : BOOLEAN, from : Nat, pw : Nat, raced : BOOLEAN]
        /\ device'.busy = device.busy /\ device'.from = device.from
        /\ device'.pw = device.pw
    BY <2>1, <2>2, <2>3 DEF DeviceOK
  <2>5. device'.busy /\ device'.from = 0 => device'.pw \in 1 .. account'.pw
    BY <1>2, <1>3, <2>1, <2>4 DEF DeviceOK
  <2> QED
    BY <2>4, <2>5 DEF DeviceOK
<1> QED
  BY <1>4, <1>5, <1>6, <1>8, <1>9, TableTypes


-----------------------------------------------------------------------------
LEMMA RacedTypes ==
  ASSUME NEW C, \A c \in C : CallOK(c), NEW d \in Raced(C)
  PROVE  /\ CallOK(d)
         /\ d.phase = "waits" => \E c \in C : c.phase = "waits" /\ c.tab = d.tab
<1>1. PICK c \in C : d = [c EXCEPT !.raced = @ \/ (c.op = "login" /\ c.phase = "read")]
  BY DEF Raced
<1>2. CallOK(c)
  OBVIOUS
<1>3. PICK b \in BOOLEAN : b = (c.raced \/ (c.op = "login" /\ c.phase = "read"))
  OBVIOUS
<1>4. d = [c EXCEPT !.raced = b]
  BY <1>1, <1>3
<1>5. CallOK(d)
  BY <1>2, <1>3, <1>4, CallFields
<1>6. d.phase = c.phase /\ d.tab = c.tab
  BY <1>2, <1>4 DEF CallOK, CallType
<1> QED
  BY <1>5, <1>6

\* A request is answered, the tables grow or stay.
LEMMA AnsweredTypes ==
  ASSUME TypeInv, NEW c \in calls, NEW reply, Answered(c, reply), reply.phase # "waits",
         CallOK(reply) \/ CallOK(reply)', TableInv', TablesGrow, Aside, device' = device
  PROVE  TypeInv'
<1>1. /\ calls' \subseteq calls \cup {reply} /\ refreshes' = refreshes /\ jar' = jar
      /\ tabs' = tabs /\ UNCHANGED bounds
  BY DEF Answered, Aside
<1>2. \A d \in calls' : d \in calls \/ CallOK(d) \/ CallOK(d)'
  BY <1>1
<1>3. JoinInv'
  BY <1>1, JoinSame DEF TypeInv
<1>4. CountInv'
  BY <1>1, CountsKept
<1> QED
  BY <1>1, <1>2, <1>3, <1>4, TableTypes

\* The reply to a request that has been served.
LEMMA OkReply ==
  ASSUME NEW c, CallOK(c), c.op # "login", NEW v \in {"ok", "stored", "denied"},
         v # "stored" \/ c.op \in {"upload", "clear"}
  PROVE  CallOK([c EXCEPT !.phase = v]) /\ [c EXCEPT !.phase = v].phase # "waits"
<1>1. CallOK([c EXCEPT !.phase = v])
  BY CallFields DEF Phases
<1> QED
  BY <1>1 DEF CallOK, CallType

LEMMA LoginTypes ==
  ASSUME CredInv, TypeInv, NEW c \in calls, VerifyLogin(c) \/ CommitLogin(c)
  PROVE  TypeInv'
<1>0. /\ TableInv /\ RecordInv /\ CallOK(c) /\ c \in CallType
      /\ Len(sessions) \in Nat /\ DOMAIN sessions = 1 .. Len(sessions)
      /\ sessions \in Seq(SessionType) /\ account.pw \in Nat
      /\ \A j \in DOMAIN sessions : sessions[j].pw \in 1 .. account.pw
  BY DEF TypeInv, RecordInv, CallOK, TableInv
<1>1. CASE VerifyLogin(c)
  <2>1. PICK v \in {"read", "denied"} : Answered(c, [c EXCEPT !.phase = v])
    BY <1>1 DEF VerifyLogin
  <2>2. PICK d : d = [c EXCEPT !.phase = v]
    OBVIOUS
  <2>3. CallOK(d) /\ d.phase = v
    <3>1. CallOK([c EXCEPT !.phase = v])
      BY <1>0, CallFields DEF Phases
    <3> QED
      BY <1>0, <2>2, <3>1 DEF CallType
  <2>4. TableInv' /\ TablesGrow
    BY <1>0, <1>1, TablesStay DEF VerifyLogin, server, TableInv
  <2> QED
    BY <1>1, <2>1, <2>2, <2>3, <2>4, AnsweredTypes DEF VerifyLogin
<1>2. CASE CommitLogin(c)
  <2>1. PICK k \in Nat : k = Len(sessions) + 1 /\ k # 0
    BY <1>0
  <2>2. PICK d : d = [c EXCEPT !.phase = "ok", !.session = k]
    OBVIOUS
  <2>3. PICK e : e = Session(TRUE, c.arg, c.raced)
    OBVIOUS
  <2>4. e \in SessionType /\ e.pw \in 1 .. account.pw
    BY <1>0, <1>2, <2>3 DEF CommitLogin, CallOK, CallType, Session, SessionType
  <2>5. /\ sessions' = Append(sessions, e) /\ Answered(c, d) /\ account' = account
        /\ files' = files /\ saved' = saved /\ Aside /\ device' = device
    BY <1>2, <2>1, <2>2, <2>3 DEF CommitLogin
  <2>6. /\ sessions' \in Seq(SessionType) /\ Len(sessions') = k
        /\ \A j \in DOMAIN sessions' : sessions'[j].pw \in 1 .. account.pw
    <3>1. PICK u : u = Append(sessions, e)
      OBVIOUS
    <3>2. /\ u \in Seq(SessionType) /\ Len(u) = k /\ DOMAIN u = 1 .. k
          /\ \A j \in 1 .. Len(sessions) : u[j] = sessions[j]
          /\ u[k] = e
      BY <1>0, <2>1, <2>4, <3>1
    <3>3. ASSUME NEW j \in 1 .. k
          PROVE  u[j].pw \in 1 .. account.pw
      <4>1. CASE j \in 1 .. Len(sessions)
        BY <1>0, <3>2, <4>1
      <4>2. CASE j = k
        BY <2>4, <3>2, <4>2
      <4> QED
        BY <1>0, <2>1, <3>3, <4>1, <4>2
    <3> QED
      BY <2>5, <3>1, <3>2, <3>3
  <2>7. TableInv' /\ TablesGrow
    <3>1. TableInv'
      BY <1>0, <2>5, <2>6 DEF TableInv
    <3>2. TablesGrow
      BY <1>0, <2>1, <2>5, <2>6 DEF TablesGrow, TableInv
    <3> QED
      BY <3>1, <3>2
  <2>8. CallOK(d)' /\ d.phase = "ok"
    <3>1. /\ d \in CallType /\ d.phase = "ok" /\ d.session = k /\ d.op = "login"
          /\ d.arg = c.arg /\ d.rows = c.rows
      BY <1>0, <1>2, <2>1, <2>2 DEF CallType, Phases, CommitLogin
    <3>2. c.arg \in 1 .. account.pw /\ c.rows \subseteq 1 .. Len(sessions)
      BY <1>0, <1>2 DEF CommitLogin, CallOK
    <3>3. d.rows \subseteq 1 .. Len(sessions') /\ d.arg \in 1 .. account'.pw
      BY <1>0, <2>1, <2>5, <2>6, <3>1, <3>2
    <3> QED
      BY <2>1, <3>1, <3>3 DEF CallOK
  <2> QED
    BY <2>5, <2>7, <2>8, AnsweredTypes
<1> QED
  BY <1>1, <1>2


\* An upload or a removal reads the photo there is, once it has saved its own.
LEMMA ReadAvatarTypes ==
  ASSUME TypeInv, NEW c \in calls, c.op \in {"upload", "clear"}, NEW new \in Nat,
         ReadAvatar(c, new), TableInv', TablesGrow, new <= saved',
         Aside, device' = device, account' = account
  PROVE  TypeInv'
<1>0. TableInv /\ CallOK(c) /\ c \in CallType /\ account.avatar \in Nat
  BY DEF TypeInv, RecordInv, CallOK, TableInv
<1>1. PICK d : d = [c EXCEPT !.phase = "read", !.arg = new, !.old = account.avatar]
  OBVIOUS
<1>2. /\ d \in CallType /\ d.phase = "read" /\ d.op = c.op /\ d.arg = new
      /\ d.old = account.avatar /\ d.rows = c.rows
  BY <1>0, <1>1 DEF CallType, Phases
<1>3. CallOK(d)'
  <2>1. d.rows \subseteq 1 .. Len(sessions')
    BY <1>0, <1>2 DEF CallOK, TableInv, TablesGrow
  <2>2. d.old <= saved'
    <3>1. account'.avatar <= saved'
      BY DEF TableInv
    <3> QED
      BY <1>2, <3>1
  <2> QED
    BY <1>2, <2>1, <2>2 DEF CallOK
<1>4. Answered(c, d)
  BY <1>1 DEF ReadAvatar
<1> QED
  BY <1>2, <1>3, <1>4, AnsweredTypes

LEMMA ServeTypes ==
  ASSUME CredInv, TypeInv, NEW c \in calls, Serve(c)
  PROVE  TypeInv'
<1>0. /\ TableInv /\ RecordInv /\ CallOK(c) /\ c \in CallType /\ CountInv /\ JoinInv
      /\ Len(sessions) \in Nat /\ DOMAIN sessions = 1 .. Len(sessions)
      /\ account.pw \in Nat /\ account.avatar \in Nat /\ saved \in Nat
      /\ MaxFaults \in Nat /\ c.op \in Requests
      /\ account \in [pw : Nat, avatar : Nat, suspended : BOOLEAN]
  BY AccountAssumption DEF TypeInv, RecordInv, CallOK, TableInv, CallType
\* A reply, and nothing else.
<1>1. ASSUME UNCHANGED server, Aside, device' = device, NEW reply, Answered(c, reply),
             CallOK(reply), reply.phase # "waits"
      PROVE  TypeInv'
  <2>1. TableInv' /\ TablesGrow
    BY <1>0, <1>1, TablesStay DEF server, TableInv
  <2> QED
    BY <1>1, <2>1, AnsweredTypes
<1>2. CASE Unauthorized(c)
  <2>1. c.op # "login"
    BY <1>2 DEF Unauthorized
  <2>2. /\ CallOK([c EXCEPT !.phase = "denied"])
        /\ [c EXCEPT !.phase = "denied"].phase # "waits"
    BY <1>0, <2>1, OkReply
  <2> QED
    BY <1>1, <1>2, <2>2 DEF Unauthorized
<1>3. CASE ServeMe(c)
  <2>1. PICK d : d = [c EXCEPT !.phase = "ok", !.arg = account.avatar]
    OBVIOUS
  <2>2. CallOK(d) /\ d.phase = "ok"
    BY <1>0, <1>3, <2>1, CallFields DEF ServeMe, Authentic, CallType
  <2> QED
    BY <1>1, <1>3, <2>1, <2>2 DEF ServeMe
<1>4. CASE ServeSessions(c)
  <2>1. PICK rows : rows = {k \in Sessions : Live(k)} \ {c.session}
    OBVIOUS
  <2>2. PICK d : d = [c EXCEPT !.phase = "ok", !.rows = rows]
    OBVIOUS
  <2>3. rows \subseteq 1 .. Len(sessions)
    BY <1>0, <2>1 DEF Sessions
  <2>4. CallOK(d) /\ d.phase = "ok"
    BY <1>0, <1>4, <2>2, <2>3, CallFields DEF ServeSessions, Authentic, CallType
  <2> QED
    BY <1>1, <1>4, <2>1, <2>2, <2>4 DEF ServeSessions
\* Sessions end.
<1>5. ASSUME NEW k, c.op # "login", Answered(c, [c EXCEPT !.phase = "ok"]), Aside,
             device' = device, UNCHANGED <<account, files, saved>>,
             \/ sessions' = [sessions EXCEPT ![k].live = FALSE]
             \/ sessions' = RevokedBut(k)
      PROVE  TypeInv'
  <2>1. TableInv' /\ TablesGrow
    BY <1>0, <1>5, EndedOne, EndedOthers, EndTypes
  <2>2. PICK d : d = [c EXCEPT !.phase = "ok"]
    OBVIOUS
  <2>3. CallOK(d) /\ d.phase # "waits"
    BY <1>0, <1>5, <2>2, OkReply
  <2> QED
    BY <1>5, <2>1, <2>2, <2>3, AnsweredTypes
<1>6. CASE ServeRevoke(c)
  BY <1>5, <1>6 DEF ServeRevoke, EndSession, Authentic
<1>7. CASE ServeLogout(c)
  BY <1>5, <1>7 DEF ServeLogout, EndSession, Authentic
<1>8. CASE ServeOthers(c)
  BY <1>5, <1>8 DEF ServeOthers, Authentic
<1>9. CASE ServePassword(c)
  <2>1. PICK e : e = [c EXCEPT !.phase = "ok"]
    OBVIOUS
  <2>2. c.op # "login" /\ NewPassword(c.session)
    BY <1>9 DEF ServePassword, Authentic
  <2>3. CallOK(e) /\ e.phase # "waits"
    BY <1>0, <2>1, <2>2, OkReply
  <2>4. \A d \in calls' : d \in Raced(calls \ {c}) \/ d = e
    BY <1>9, <2>1 DEF ServePassword
  <2>5. PICK C : C = calls \ {c}
    OBVIOUS
  <2>6. \A d \in C : CallOK(d)
    BY <1>0, <2>5 DEF RecordInv
  <2>7. ASSUME NEW d \in calls'
        PROVE  CallOK(d) /\ (d.phase = "waits" => \E x \in calls :
                                x.phase = "waits" /\ x.tab = d.tab)
    <3>1. CASE d = e
      BY <2>3, <3>1
    <3>2. CASE d \in Raced(C)
      BY <2>5, <2>6, <3>2, RacedTypes
    <3> QED
      BY <2>4, <2>5, <3>1, <3>2
  <2>8. UNCHANGED <<files, saved, jar, tabs>> /\ UNCHANGED bounds
    BY <1>9 DEF ServePassword
  <2>9. CountInv'
    BY <2>8, CountsKept
  <2> QED
    BY <2>2, <2>7, <2>8, <2>9, PasswordTypes
\* The photo.
<1>10. CASE SaveAvatarFile(c)
  <2>1. PICK n \in Nat : n = saved + 1
    BY <1>0
  <2>2. /\ saved' = n /\ files' = files \cup {n} /\ ReadAvatar(c, n) /\ Aside
        /\ UNCHANGED <<sessions, account, device>> /\ c.op = "upload"
    BY <1>10, <2>1 DEF SaveAvatarFile, Authentic
  <2>3. TableInv'
    <3>1. files' \subseteq 1 .. saved'
      BY <1>0, <2>1, <2>2 DEF TableInv
    <3>2. account'.avatar <= saved'
      BY <1>0, <2>1, <2>2 DEF TableInv
    <3> QED
      BY <1>0, <2>1, <2>2, <3>1, <3>2 DEF TableInv
  <2>4. TablesGrow
    BY <1>0, <2>1, <2>2 DEF TablesGrow
  <2>5. n <= saved'
    BY <2>1, <2>2
  <2> QED
    BY <2>1, <2>2, <2>3, <2>4, <2>5, ReadAvatarTypes
<1>11. CASE ReadCleared(c)
  <2>1. /\ ReadAvatar(c, 0) /\ Aside /\ c.op = "clear"
        /\ UNCHANGED <<sessions, account, files, saved, device>>
    BY <1>11 DEF ReadCleared, Authentic
  <2>2. TableInv' /\ TablesGrow
    BY <1>0, <2>1, TablesStay DEF TableInv
  <2>3. 0 <= saved'
    BY <1>0, <2>1
  <2> QED
    BY <2>1, <2>2, <2>3, ReadAvatarTypes
<1>12. CASE CommitAvatar(c)
  <2>1. /\ account' = IF c.arg = c.old THEN account ELSE [account EXCEPT !.avatar = c.arg]
        /\ c.op \in {"upload", "clear"}
        /\ Answered(c, [c EXCEPT !.phase = "stored"]) /\ Aside
        /\ UNCHANGED <<sessions, files, saved, device>>
    BY <1>12 DEF CommitAvatar
  <2>2. c.arg \in Nat /\ c.arg <= saved
    BY <1>0, <2>1 DEF CallOK, CallType
  <2>3. /\ account' \in [pw : Nat, avatar : Nat, suspended : BOOLEAN]
        /\ account'.pw = account.pw /\ account'.avatar \in {account.avatar, c.arg}
    BY <1>0, <2>1, <2>2 DEF TableInv
  <2>4. TableInv'
    BY <1>0, <2>1, <2>2, <2>3 DEF TableInv
  <2>5. TablesGrow
    BY <1>0, <2>1, <2>3 DEF TablesGrow
  <2>6. PICK d : d = [c EXCEPT !.phase = "stored"]
    OBVIOUS
  <2>7. CallOK(d) /\ d.phase # "waits"
    BY <1>0, <2>1, <2>6, OkReply
  <2> QED
    BY <2>1, <2>4, <2>5, <2>6, <2>7, AnsweredTypes
<1>13. CASE DeleteAvatarFile(c)
  <2>1. /\ files' = files \ {c.old} /\ Answered(c, [c EXCEPT !.phase = "ok"]) /\ Aside
        /\ UNCHANGED <<sessions, account, saved, device>>
    BY <1>13 DEF DeleteAvatarFile
  <2>2. TableInv' /\ TablesGrow
    <3>1. files' \subseteq 1 .. saved'
      BY <1>0, <2>1 DEF TableInv
    <3> QED
      BY <1>0, <2>1, <3>1, TablesStay DEF TableInv
  <2>3. PICK d : d = [c EXCEPT !.phase = "ok"]
    OBVIOUS
  <2>4. CallOK(d) /\ d.phase # "waits"
    <3>1. c.op # "login"
      BY <1>0, <1>13 DEF DeleteAvatarFile, CallOK
    <3> QED
      BY <1>0, <2>3, <3>1, OkReply
  <2> QED
    BY <2>1, <2>2, <2>3, <2>4, AnsweredTypes
<1>14. CASE Crash(c)
  <2>1. /\ calls' = calls \ {c} /\ refreshes' = refreshes
        /\ UNCHANGED <<sessions, account, files, saved, jar, tabs, device>>
    BY <1>14 DEF Crash, server
  <2>2. CountInv'
    BY <1>0, <1>14 DEF Crash, CountInv
  <2>3. JoinInv'
    BY <1>0, <2>1, JoinSame
  <2> QED
    BY <2>1, <2>2, <2>3, QuietTypes
<1> QED
  BY <1>2, <1>3, <1>4, <1>6, <1>7, <1>8, <1>9, <1>10, <1>11, <1>12, <1>13, <1>14,
     LoginTypes DEF Serve


-----------------------------------------------------------------------------
LEMMA OthersTypes ==
  ASSUME CredInv, TypeInv, Others
  PROVE  TypeInv'
<1>0. /\ TableInv /\ RecordInv /\ JoinInv /\ CountInv /\ MaxOthers \in Nat
      /\ sessions \in Seq(SessionType) /\ Len(sessions) \in Nat
      /\ DOMAIN sessions = 1 .. Len(sessions) /\ account.pw \in Nat /\ saved \in Nat
      /\ account \in [pw : Nat, avatar : Nat, suspended : BOOLEAN]
      /\ \A j \in DOMAIN sessions : sessions[j].pw \in 1 .. account.pw
      /\ DeviceOK(device)
      /\ device \in [busy : BOOLEAN, from : Nat, pw : Nat, raced : BOOLEAN]
  BY AccountAssumption DEF TypeInv, TableInv, RecordInv, DeviceOK
<1>1. ASSUME Elsewhere, Other \/ others' = others
      PROVE  CountInv'
  BY <1>0, <1>1 DEF Elsewhere, Other, CountInv
<1>2. ASSUME Elsewhere, Other, UNCHANGED <<sessions, account, calls, refreshes>>,
             DeviceOK(device')
      PROVE  TypeInv'
  <2>1. CountInv'
    BY <1>1, <1>2
  <2>2. JoinInv'
    BY <1>0, <1>2, JoinSame
  <2> QED
    BY <1>2, <2>1, <2>2, QuietTypes DEF Elsewhere
<1>3. CASE DeviceLogin
  <2>1. PICK d : d = [busy |-> TRUE, from |-> 0, pw |-> account.pw, raced |-> FALSE]
    OBVIOUS
  <2>2. account.pw \in 1 .. account.pw
    <3>1. account.pw # 0
      BY <1>0 DEF TableInv
    <3> QED
      BY <1>0, <3>1
  <2>3. DeviceOK(d)
    BY <1>0, <2>1, <2>2 DEF DeviceOK
  <2> QED
    BY <1>2, <1>3, <2>1, <2>3 DEF DeviceLogin
<1>4. ASSUME NEW k \in Sessions, DeviceRefresh(k)
      PROVE  TypeInv'
  <2>1. PICK d : d = [busy |-> TRUE, from |-> k, pw |-> 0, raced |-> FALSE]
    OBVIOUS
  <2>2. k \in Nat /\ k # 0
    BY <1>0 DEF Sessions
  <2>3. DeviceOK(d)
    BY <2>1, <2>2 DEF DeviceOK
  <2> QED
    BY <1>2, <1>4, <2>1, <2>3 DEF DeviceRefresh
<1>5. CASE DeviceCommits
  <2>1. /\ device.busy /\ device' = NoDevice /\ others' = others /\ Elsewhere
        /\ UNCHANGED <<account, calls, refreshes>>
    BY <1>5 DEF DeviceCommits
  <2>2. UNCHANGED <<files, saved, jar, tabs>>
    BY <2>1 DEF Elsewhere
  <2>3. TableInv' /\ TablesGrow
    <3>1. CASE device.from = 0
      <4>1. PICK e : e = Session(FALSE, device.pw, device.raced)
        OBVIOUS
      <4>2. e \in SessionType /\ e.pw \in 1 .. account.pw
        BY <1>0, <2>1, <3>1, <4>1 DEF DeviceOK, Session, SessionType
      <4>3. PICK u : u = Append(sessions, e)
        OBVIOUS
      <4>4. /\ u \in Seq(SessionType) /\ Len(u) = Len(sessions) + 1
            /\ DOMAIN u = 1 .. Len(sessions) + 1
            /\ \A j \in 1 .. Len(sessions) : u[j] = sessions[j]
            /\ u[Len(sessions) + 1] = e
        BY <1>0, <4>2, <4>3
      <4>5. \A j \in DOMAIN u : u[j].pw \in 1 .. account.pw
        <5> TAKE j \in DOMAIN u
        <5>1. CASE j \in 1 .. Len(sessions)
          BY <1>0, <4>4, <5>1
        <5>2. CASE j = Len(sessions) + 1
          BY <4>2, <4>4, <5>2
        <5> QED
          BY <1>0, <4>4, <5>1, <5>2
      <4>6. sessions' = u
        BY <1>5, <3>1, <4>1, <4>3 DEF DeviceCommits
      <4>7. TableInv'
        BY <1>0, <2>1, <2>2, <4>4, <4>5, <4>6 DEF TableInv
      <4>8. TablesGrow
        BY <1>0, <2>1, <2>2, <4>4, <4>6 DEF TablesGrow
      <4> QED
        BY <4>7, <4>8
    <3>2. CASE device.from # 0
      <4>1. Rotate(device.from, device.raced)
        BY <1>5, <3>2 DEF DeviceCommits
      <4>2. device.from \in DOMAIN sessions /\ device.raced \in BOOLEAN
        BY <2>1, <3>2 DEF CredInv, DeviceGood, SoundRotation
      <4> QED
        BY <1>0, <2>1, <2>2, <4>1, <4>2, RotateTypes
    <3> QED
      BY <3>1, <3>2
  <2>4. DeviceOK(device)'
    BY <2>1 DEF NoDevice, DeviceOK
  <2>5. JoinInv'
    BY <1>0, <2>1, JoinSame
  <2>6. CountInv'
    BY <1>1, <2>1
  <2> QED
    BY <2>1, <2>2, <2>3, <2>4, <2>5, <2>6, TableTypes
<1>6. ASSUME NEW k \in Sessions, DevicePassword(k)
      PROVE  TypeInv'
  <2>1. /\ NewPassword(k) /\ calls' = Raced(calls) /\ Other /\ Elsewhere
    BY <1>6 DEF DevicePassword
  <2>2. UNCHANGED <<files, saved, jar, tabs>>
    BY <2>1 DEF Elsewhere
  <2>3. \A d \in calls : CallOK(d)
    BY <1>0 DEF RecordInv
  <2>4. \A d \in calls' : CallOK(d) /\ (d.phase = "waits" => \E c \in calls :
                              c.phase = "waits" /\ c.tab = d.tab)
    BY <2>1, <2>3, RacedTypes
  <2>5. CountInv'
    BY <1>1, <2>1
  <2> QED
    BY <2>1, <2>2, <2>4, <2>5, PasswordTypes
<1>7. CASE SetStatus
  <2>1. /\ account' = [account EXCEPT !.suspended = ~@] /\ Other /\ Elsewhere
        /\ UNCHANGED <<sessions, calls, refreshes, device>>
    BY <1>7 DEF SetStatus
  <2>2. UNCHANGED <<files, saved, jar, tabs>>
    BY <2>1 DEF Elsewhere
  <2>3. PICK b \in BOOLEAN : b = ~account.suspended
    OBVIOUS
  <2>4. account' = [account EXCEPT !.suspended = b]
    BY <2>1, <2>3
  <2>5. /\ account' \in [pw : Nat, avatar : Nat, suspended : BOOLEAN]
        /\ account'.pw = account.pw /\ account'.avatar = account.avatar
    BY <1>0, <2>3, <2>4
  <2>6. TableInv' /\ TablesGrow
    <3>1. TableInv'
      BY <1>0, <2>1, <2>2, <2>5 DEF TableInv
    <3>2. TablesGrow
      BY <1>0, <2>1, <2>2, <2>5 DEF TablesGrow
    <3> QED
      BY <3>1, <3>2
  <2>7. JoinInv'
    BY <1>0, <2>1, JoinSame
  <2>8. CountInv'
    BY <1>1, <2>1
  <2> QED
    BY <2>1, <2>2, <2>6, <2>7, <2>8, TableTypes
<1> QED
  BY <1>3, <1>4, <1>5, <1>6, <1>7 DEF Others

LEMMA TypesInit == Init => TypeInv
<1> SUFFICES ASSUME Init
             PROVE  TypeInv
  OBVIOUS
<1>1. PICK a, b : a = Session(TRUE, 1, FALSE) /\ b = Session(FALSE, 1, FALSE)
  OBVIOUS
<1>2. a \in SessionType /\ a.pw = 1 /\ b \in SessionType /\ b.pw = 1
  BY <1>1 DEF Session, SessionType
<1>3. sessions = <<a, b>>
  BY <1>1 DEF Init
<1>4. /\ sessions \in Seq(SessionType) /\ Len(sessions) = 2 /\ DOMAIN sessions = 1 .. 2
      /\ \A k \in 1 .. 2 : sessions[k].pw = 1
  BY <1>2, <1>3
<1>5. /\ account = [pw |-> 1, avatar |-> 1, suspended |-> FALSE] /\ files = {1}
      /\ saved = 1 /\ jar = CookiesOf(1) /\ calls = {} /\ refreshes = {}
      /\ tabs = [t \in Tabs |-> [Gate EXCEPT !.screen = "home", !.avatar = 1]]
      /\ device = NoDevice /\ ops = 0 /\ expiries = 0 /\ others = 0 /\ faults = 0
  BY DEF Init
<1>6. TableInv
  <2>1. /\ account \in [pw : Nat, avatar : Nat, suspended : BOOLEAN]
        /\ account.pw = 1 /\ account.avatar = 1
    BY <1>5
  <2> QED
    BY <1>4, <1>5, <2>1 DEF TableInv
<1>7. RecordInv
  <2>1. JarOK(jar)
    BY <1>4, <1>5 DEF CookiesOf, JarOK
  <2>2. DeviceOK(device)
    BY <1>5 DEF NoDevice, DeviceOK
  <2>3. TabOK([Gate EXCEPT !.screen = "home", !.avatar = 1])
    BY DEF Gate, TabOK, TabType
  <2> QED
    BY <1>5, <2>1, <2>2, <2>3 DEF RecordInv
<1>8. JoinInv
  BY <1>5 DEF JoinInv
<1>9. CountInv
  BY <1>5, AccountAssumption DEF CountInv
<1> QED
  BY <1>6, <1>7, <1>8, <1>9 DEF TypeInv

LEMMA TypesNext ==
  ASSUME CredInv, TypeInv, [Next]_vars
  PROVE  TypeInv'
<1>0. TableInv /\ RecordInv /\ JoinInv /\ CountInv /\ MaxExpiries \in Nat
  BY AccountAssumption DEF TypeInv
<1>1. CASE Expire
  <2>1. /\ jar' = [jar EXCEPT !.fresh = FALSE] /\ calls' = calls
        /\ UNCHANGED <<sessions, account, files, saved, tabs, refreshes, device>>
    BY <1>1 DEF Expire, server
  <2>2. JarOK(jar')
    BY <1>0, <2>1 DEF RecordInv, JarOK
  <2>3. JoinInv'
    BY <1>0, <2>1, JoinSame
  <2>4. CountInv'
    BY <1>0, <1>1 DEF Expire, CountInv
  <2> QED
    BY <2>1, <2>2, <2>3, <2>4, QuietTypes
<1>2. CASE UNCHANGED vars
  <2>1. JoinInv'
    BY <1>0, <1>2, JoinSame DEF vars
  <2>2. CountInv'
    BY <1>2, CountsKept DEF vars, bounds
  <2> QED
    BY <1>2, <2>1, <2>2, QuietTypes DEF vars
<1> QED
  BY <1>1, <1>2, OthersTypes, UserTypes, ReplyTypes, ServeTypes, RefreshTypes DEF Next

\* Types of the tables, of the cookies and of what the tabs show, and that a request
\* waits only where a refresh is under way, of which a tab has one, whatever its
\* number of requests.
THEOREM AccountTyped == Spec => []TypeOK
<1>1. CredInv /\ TypeInv => TypeOK
  <2> SUFFICES ASSUME CredInv, TypeInv
               PROVE  TypeOK
    OBVIOUS
  <2>1. TableInv /\ RecordInv /\ JoinInv /\ CountInv
    BY DEF TypeInv
  <2>2. /\ DOMAIN sessions = 1 .. Len(sessions) /\ Len(sessions) \in Nat
        /\ files \subseteq 1 .. saved /\ account.avatar \in 0 .. saved
        /\ \A k \in Sessions : sessions[k].pw \in 1 .. account.pw
    BY <2>1 DEF TableInv, Sessions
  <2>3. jar.session \in Sessions \cup {0} /\ (jar.session = 0 => ~jar.fresh)
    BY <2>1, <2>2 DEF RecordInv, JarOK, Sessions
  <2>4. ASSUME NEW t \in Tabs
        PROVE  /\ tabs[t].screen \in {"login", "loading", "home", "blank"}
               /\ tabs[t].rows \subseteq Sessions
               /\ Cardinality(Joins(t)) <= 1
    <3>1. TabOK(tabs[t])
      BY <2>1 DEF RecordInv
    <3>2. PICK J : J = Joins(t)
      OBVIOUS
    <3>3. Cardinality(J) <= 1
      <4>1. CASE J = {}
        BY <4>1, FS_EmptySet
      <4>2. ASSUME NEW r \in J
            PROVE  Cardinality(J) <= 1
        <5>1. J = {r}
          BY <2>1, <3>2 DEF Joins, JoinInv
        <5>2. Cardinality({r}) = 1
          BY FS_Singleton
        <5> QED
          BY <5>1, <5>2
      <4> QED
        BY <4>1, <4>2
    <3> QED
      BY <2>2, <3>1, <3>2, <3>3 DEF TabOK, TabType, Sessions
  <2>5. ASSUME NEW c \in calls
        PROVE  /\ c.phase \in {"sent", "read", "stored", "ok", "denied", "waits"}
               /\ c.phase = "waits" => Joins(c.tab) # {}
    <3>1. c \in CallType
      BY <2>1 DEF RecordInv, CallOK
    <3>2. c.phase = "waits" => Joins(c.tab) # {}
      BY <2>1 DEF JoinInv, Joins
    <3> QED
      BY <3>1, <3>2 DEF CallType, Phases
  <2> QED
    BY <2>1, <2>2, <2>3, <2>4, <2>5 DEF TypeOK, CountInv
<1>2. CredInv /\ TypeInv /\ [Next]_vars => CredInv' /\ TypeInv'
  BY CredNext, TypesNext
<1> QED
  BY CredInit, TypesInit, <1>1, <1>2, PTL DEF Spec


-----------------------------------------------------------------------------
(* What a browser is signed out by. *)

LEMMA CauseStays ==
  ASSUME TypeInv, [Next]_vars, Cause
  PROVE  Cause'
<1>0. faults \in Nat
  BY DEF TypeInv, CountInv
<1>1. CASE UNCHANGED vars
  BY <1>1 DEF vars, Cause
<1>2. CASE Expire
  BY <1>2 DEF Expire, Cause
<1>3. CASE Others
  <2>1. (revoked' = revoked \/ revoked' = (revoked \/ TRUE) \/ revoked) => Cause'
    BY <1>0, <1>3 DEF Others, DeviceLogin, DeviceCommits, SetStatus, DeviceRefresh,
                 DevicePassword, NewPassword, Elsewhere, Cause
  <2> QED
    BY <1>3, <2>1 DEF Others, DeviceLogin, DeviceCommits, SetStatus, DeviceRefresh,
                 DevicePassword, NewPassword, Elsewhere, Cause
<1>4. ASSUME NEW t \in Tabs, User(t)
      PROVE  Cause'
  BY <1>4 DEF User, Login, OnRevoke, ListSessions, OnRevokeOthers, ChangePassword,
              OnFile, OnRemove, Logout, Reload, Ask, Abandon, Cause
<1>5. ASSUME NEW c \in calls, Reply(c)
      PROVE  Cause'
  <2>1. CASE MeReplied(c) \/ SessionsReplied(c) \/ AvatarReplied(c) \/ RevokeReplied(c)
    BY <2>1 DEF MeReplied, SessionsReplied, AvatarReplied, RevokeReplied, Quiet, bounds,
                Cause
  <2>2. CASE LoginReplied(c) \/ LogoutReplied(c)
    BY <2>2 DEF LoginReplied, LogoutReplied, Abandon, bounds, Cause
  <2>3. CASE Denied(c)
    BY <2>3 DEF Denied, TryRefresh, StartRefresh, bounds, Cause
  <2>4. CASE CallFails(c)
    <3>1. faults' = faults \/ faults' = faults + 1
      BY <2>4 DEF CallFails
    <3>2. left => left'
      BY <2>4 DEF CallFails, Abandon
    <3> QED
      BY <1>0, <2>4, <3>1, <3>2 DEF CallFails, Cause
  <2> QED
    BY <1>5, <2>1, <2>2, <2>3, <2>4 DEF Reply
<1>6. ASSUME NEW c \in calls, Serve(c)
      PROVE  Cause'
  <2>1. CASE Crash(c)
    BY <1>0, <2>1 DEF Crash, Cause
  <2>2. CASE ServePassword(c)
    BY <2>2 DEF ServePassword, NewPassword, bounds, Cause
  <2>3. CASE Aside /\ (revoked => revoked')
    BY <2>3 DEF Aside, bounds, Cause
  <2>4. CASE ServeRevoke(c) \/ ServeLogout(c)
    BY <2>3, <2>4 DEF ServeRevoke, ServeLogout, EndSession
  <2>5. CASE ServeOthers(c)
    BY <2>3, <2>5 DEF ServeOthers
  <2>6. CASE Unauthorized(c) \/ ServeMe(c) \/ ServeSessions(c) \/ VerifyLogin(c) \/
             CommitLogin(c)
    BY <2>3, <2>6 DEF Unauthorized, ServeMe, ServeSessions, VerifyLogin, CommitLogin
  <2>7. CASE SaveAvatarFile(c) \/ ReadCleared(c) \/ CommitAvatar(c) \/ DeleteAvatarFile(c)
    BY <2>3, <2>7 DEF SaveAvatarFile, ReadCleared, CommitAvatar, DeleteAvatarFile
  <2> QED
    BY <1>6, <2>1, <2>2, <2>4, <2>5, <2>6, <2>7 DEF Serve
<1>7. ASSUME NEW r \in refreshes, Refresh(r)
      PROVE  Cause'
  BY <1>0, <1>7 DEF Refresh, Refreshed, RefreshFails, ReadRefresh, CommitRefresh,
                    LoseRefresh, bounds, Cause
<1> QED
  BY <1>1, <1>2, <1>3, <1>4, <1>5, <1>6, <1>7 DEF Next

\* The sessions of the browser that live go on.
OwnGoOn ==
    \A k \in DOMAIN sessions :
        /\ k \in DOMAIN sessions' /\ sessions'[k].mine = sessions[k].mine
        /\ sessions[k].live /\ sessions[k].mine => sessions'[k].live

LEMMA SignedKept ==
  ASSUME SignedIn, OwnGoOn, thrown' = thrown,
         account'.suspended = account.suspended, jar'.session = jar.session,
         \A t \in Tabs : tabs'[t].screen # "login",
         \A c \in calls' : CallMine(c),
         \A r \in refreshes' : RefreshMine(r),
         \A q, r \in refreshes' : q = r,
         (\A r \in refreshes' : r.phase # "ok") => \A r \in refreshes : r.phase # "ok",
         device'.busy /\ device'.from # 0 =>
             device'.from \in DOMAIN sessions /\ ~sessions[device'.from].mine
  PROVE  SignedIn'
<1>1. \A k : OwnSession(k) => OwnSession(k)'
  BY DEF OwnGoOn, OwnSession
<1>2. \A c \in calls' : CallMine(c)'
  BY <1>1 DEF CallMine
<1>3. OwnSession(jar.session)'
  BY <1>1 DEF SignedIn, OwnSession
<1>4. ASSUME NEW r \in refreshes'
      PROVE  RefreshMine(r)'
  <2>1. RefreshMine(r)
    OBVIOUS
  <2> QED
    BY <1>1, <2>1 DEF RefreshMine, OwnSession, OwnGoOn
<1>5. (\A r \in refreshes' : r.phase # "ok") => sessions'[jar'.session].live
  BY DEF SignedIn, OwnGoOn, OwnSession
<1>6. device'.busy /\ device'.from # 0 => ~sessions'[device'.from].mine
  BY DEF OwnGoOn
<1> QED
  BY <1>2, <1>3, <1>4, <1>5, <1>6 DEF SignedIn

\* Nothing happens to the sessions.
LEMMA SignedStill ==
  ASSUME CredInv, SignedIn, UNCHANGED <<sessions, account, device, thrown>>,
         jar'.session = jar.session,
         \A t \in Tabs : tabs'[t].screen # "login",
         \A c \in calls' : c \in calls \/ CallMine(c),
         refreshes' = refreshes
  PROVE  SignedIn'
<1>1. OwnGoOn
  BY DEF OwnGoOn
<1>2. \A c \in calls' : CallMine(c)
  BY DEF SignedIn
<1>3. device'.busy /\ device'.from # 0 =>
          device'.from \in DOMAIN sessions /\ ~sessions[device'.from].mine
  BY DEF SignedIn, CredInv, DeviceGood, SoundRotation
<1> QED
  BY <1>1, <1>2, <1>3, SignedKept DEF SignedIn

LEMMA AskedMine ==
  ASSUME SignedIn, NEW t, NEW op, NEW arg, op # "login"
  PROVE  CallMine(Call(t, op, arg))
BY DEF SignedIn, Call, CallMine

\* A tab that is loaded finds the cookies.
LEMMA LoadMine ==
  ASSUME TypeInv, SignedIn, NEW t \in Tabs, NEW C, C \subseteq calls, Load(t, jar, C)
  PROVE  /\ \A c \in calls' : CallMine(c)
         /\ \A u \in Tabs : tabs'[u].screen # "login"
<1> DEFINE me == [Call(t, "me", 0) EXCEPT !.session = jar.session, !.fresh = jar.fresh]
<1>1. jar.session # 0 /\ OwnSession(jar.session)
  BY DEF SignedIn, OwnSession, TypeInv, TableInv
<1>2. calls' = Unheard(t, C) \cup {me} /\ tabs' = [tabs EXCEPT ![t] = Gate]
  BY <1>1 DEF Load
<1>3. CallMine(me)
  BY <1>1 DEF Call, CallMine
<1> HIDE DEF me
<1>4. ASSUME NEW c \in Unheard(t, C)
      PROVE  CallMine(c)
  <2>1. PICK d \in C : c = IF d.tab = t THEN [d EXCEPT !.heard = FALSE] ELSE d
    BY DEF Unheard
  <2>2. CallMine(d) /\ d \in CallType
    BY DEF SignedIn, TypeInv, RecordInv, CallOK
  <2>3. c.session = d.session /\ c.op = d.op /\ c.phase = d.phase
    BY <2>1, <2>2 DEF CallType
  <2> QED
    BY <2>2, <2>3 DEF CallMine
<1>5. Gate.screen # "login"
  BY DEF Gate
<1> QED
  BY <1>2, <1>3, <1>4, <1>5 DEF SignedIn, TypeInv, RecordInv

LEMMA NotLeft ==
  ASSUME NEW t, Abandon(t), ~left'
  PROVE  refreshes' = refreshes
BY DEF Abandon

LEMMA UserSigned ==
  ASSUME CredInv, TypeInv, SignedIn, NEW t \in Tabs, User(t), ~Cause'
  PROVE  SignedIn'
<1>1. ASSUME NEW op, NEW arg, op # "login", Ask(Call(t, op, arg))
      PROVE  SignedIn'
  <2>1. CallMine(Call(t, op, arg))
    BY <1>1, AskedMine
  <2> QED
    BY <1>1, <2>1, SignedStill DEF Ask, server, SignedIn
<1>2. CASE Reload(t)
  <2>1. /\ Load(t, jar, calls) /\ jar' = jar
        /\ UNCHANGED <<sessions, account, device, thrown>>
    BY <1>2 DEF Reload, server
  <2>2. refreshes' = refreshes
    BY <1>2, NotLeft DEF Reload, Cause
  <2>3. /\ \A c \in calls' : CallMine(c)
        /\ \A u \in Tabs : tabs'[u].screen # "login"
    BY <2>1, LoadMine
  <2> QED
    BY <2>1, <2>2, <2>3, SignedStill
<1>3. \A pw : ~Login(t, pw)
  BY DEF Login, LoginEnabled, SignedIn
<1> QED
  BY <1>1, <1>2, <1>3 DEF User, OnRevoke, ListSessions, OnRevokeOthers, ChangePassword,
     OnFile, OnRemove, Logout


LEMMA ReplySigned ==
  ASSUME CredInv, TypeInv, SignedIn, NEW c \in calls, Reply(c), ~Cause'
  PROVE  SignedIn'
<1>0. /\ CallMine(c) /\ c \in CallType /\ c.tab \in Tabs /\ DOMAIN tabs = Tabs
      /\ faults \in Nat /\ jar.session # 0
      /\ \A t \in Tabs : tabs[t] \in TabType /\ tabs[t].screen # "login"
  <2>1. c \in CallType
    BY DEF TypeInv, RecordInv, CallOK
  <2>2. DOMAIN tabs = Tabs /\ \A t \in Tabs : tabs[t] \in TabType
    BY DEF TypeInv, RecordInv, TabOK
  <2>3. jar.session # 0
    BY DEF SignedIn, OwnSession, TypeInv, TableInv
  <2>4. c.tab \in Tabs
    BY <2>1 DEF CallType
  <2>5. faults \in Nat
    BY DEF TypeInv, CountInv
  <2> QED
    BY <2>1, <2>2, <2>3, <2>4, <2>5 DEF SignedIn
<1>1. ASSUME Quiet, jar' = jar, \A d \in calls' : d \in calls \/ CallMine(d),
             \A t \in Tabs : tabs'[t].screen # "login"
      PROVE  SignedIn'
  BY <1>1, SignedStill DEF Quiet, server
<1>2. CASE MeReplied(c)
  <2>1. \A t \in Tabs : tabs'[t].screen # "login"
    BY <1>0, <1>2 DEF MeReplied, TabType
  <2> QED
    BY <1>1, <1>2, <2>1 DEF MeReplied
<1>3. CASE SessionsReplied(c)
  <2>1. \A t \in Tabs : tabs'[t].screen # "login"
    BY <1>0, <1>3 DEF SessionsReplied, TabType
  <2> QED
    BY <1>1, <1>3, <2>1 DEF SessionsReplied
<1>4. CASE AvatarReplied(c)
  <2>1. \A t \in Tabs : tabs'[t].screen # "login"
    BY <1>0, <1>4 DEF AvatarReplied, TabType
  <2> QED
    BY <1>1, <1>4, <2>1 DEF AvatarReplied
<1>5. CASE RevokeReplied(c)
  <2>1. CallMine(Call(c.tab, "sessions", 0))
    BY AskedMine
  <2>2. ASSUME NEW d \in calls, d.op = "sessions"
        PROVE  CallMine(GivenUp(d))
    <3>1. CallMine(d) /\ d \in CallType
      BY DEF SignedIn, TypeInv, RecordInv, CallOK
    <3>2. GivenUp(d).session = d.session /\ GivenUp(d).op = d.op
      BY <3>1 DEF GivenUp, CallType
    <3> QED
      BY <2>2, <3>1, <3>2 DEF CallMine
  <2>3. \A x \in calls' : x \in calls \/ CallMine(x)
    BY <1>5, <2>1, <2>2, RevokeCalls
  <2> QED
    BY <1>0, <1>1, <1>5, <2>3 DEF RevokeReplied
<1>6. ~LoginReplied(c) /\ ~LogoutReplied(c)
  BY <1>0 DEF LoginReplied, LogoutReplied, Replied, CallMine
<1>7. CASE Denied(c)
  <2>1. PICK d : d = [c EXCEPT !.phase = "waits"]
    OBVIOUS
  <2>2. CallMine(d)
    <3>1. d.phase = "waits" /\ d.op = c.op /\ d.session = c.session
      BY <1>0, <2>1 DEF CallType
    <3> QED
      BY <1>0, <3>1 DEF CallMine
  <2>3. PICK n : n = NewRefresh(c)
    OBVIOUS
  <2>4. /\ calls' = (calls \ {c}) \cup {d} /\ jar' = jar /\ tabs' = tabs
        /\ UNCHANGED <<sessions, account, device, thrown>>
        /\ \/ refreshes' = refreshes
           \/ refreshes = {} /\ refreshes' = {n}
    BY <1>7, <2>1, <2>3 DEF Denied, TryRefresh, StartRefresh, server, Cause
  <2>5. CASE refreshes' = refreshes
    BY <1>0, <2>2, <2>4, <2>5, SignedStill
  <2>6. CASE refreshes = {} /\ refreshes' = {n}
    <3>1. RefreshMine(n) /\ n.phase = "sent"
      BY <2>3 DEF NewRefresh, RefreshMine
    <3>2. OwnGoOn
      BY <2>4 DEF OwnGoOn
    <3>3. \A x \in calls' : CallMine(x)
      BY <2>2, <2>4 DEF SignedIn
    <3>4. device'.busy /\ device'.from # 0 =>
              device'.from \in DOMAIN sessions /\ ~sessions[device'.from].mine
      BY <2>4 DEF SignedIn, CredInv, DeviceGood, SoundRotation
    <3>5. \A t \in Tabs : tabs'[t].screen # "login"
      BY <1>0, <2>4
    <3> QED
      BY <2>4, <2>6, <3>1, <3>2, <3>3, <3>4, <3>5, SignedKept
  <2> QED
    BY <2>4, <2>5, <2>6
<1>8. CASE CallFails(c)
  <2>1. /\ jar' = jar /\ UNCHANGED <<sessions, account, device, thrown>>
        /\ calls \ {c} \subseteq calls
    BY <1>8 DEF CallFails, server
  <2>2. CASE c.op = "logout"
    <3>1. Load(c.tab, jar, calls \ {c}) /\ Abandon(c.tab)
      BY <1>8, <2>2 DEF CallFails
    <3>2. refreshes' = refreshes
      BY <3>1, NotLeft DEF Cause
    <3>3. /\ \A d \in calls' : CallMine(d)
          /\ \A u \in Tabs : tabs'[u].screen # "login"
      BY <1>0, <2>1, <3>1, LoadMine
    <3> QED
      BY <2>1, <3>2, <3>3, SignedStill
  <2>3. CASE c.op # "logout"
    <3>1. /\ calls' = calls \ {c} /\ refreshes' = refreshes
          /\ \/ tabs' = tabs
             \/ tabs' = [tabs EXCEPT ![c.tab] = [Gate EXCEPT !.screen = "blank"]]
      BY <1>0, <1>8, <2>3 DEF CallFails
    <3>2. [Gate EXCEPT !.screen = "blank"].screen # "login"
      BY DEF Gate
    <3>3. \A u \in Tabs : tabs'[u].screen # "login"
      BY <1>0, <3>1, <3>2
    <3> QED
      BY <2>1, <3>1, <3>3, SignedStill
  <2> QED
    BY <2>2, <2>3
<1> QED
  BY <1>2, <1>3, <1>4, <1>5, <1>6, <1>7, <1>8 DEF Reply

-----------------------------------------------------------------------------
\* A refresh that commits ends one session and opens the next, both the browser's.
LEMMA RefreshSigned ==
  ASSUME CredInv, TypeInv, SignedIn, NEW r \in refreshes, Refresh(r), ~Cause'
  PROVE  SignedIn'
<1>0. /\ RefreshMine(r) /\ r \in RefreshType /\ refreshes = {r}
      /\ OwnSession(jar.session) /\ faults \in Nat
      /\ sessions \in Seq(SessionType) /\ Len(sessions) \in Nat
      /\ DOMAIN sessions = 1 .. Len(sessions)
      /\ \A c \in calls : CallMine(c) /\ c \in CallType
      /\ \A t \in Tabs : tabs[t].screen # "login"
  <2>1. r \in RefreshType /\ \A c \in calls : c \in CallType
    BY DEF TypeInv, RecordInv, RefreshOK, CallOK
  <2>2. /\ sessions \in Seq(SessionType) /\ Len(sessions) \in Nat /\ faults \in Nat
        /\ DOMAIN sessions = 1 .. Len(sessions)
    BY DEF TypeInv, TableInv, CountInv
  <2>3. refreshes = {r}
    BY DEF SignedIn
  <2> QED
    BY <2>1, <2>2, <2>3 DEF SignedIn
<1>1. device.busy /\ device.from # 0 => device.from \in DOMAIN sessions
  BY DEF CredInv, DeviceGood, SoundRotation
<1>2. CASE Refreshed(r)
  <2>1. PICK cookies : cookies = CookiesOf(r.session)
    OBVIOUS
  <2>2. /\ jar' = cookies /\ calls' = Resume(r, cookies) /\ refreshes' = {}
        /\ UNCHANGED <<sessions, account, device, thrown, tabs>> /\ r.phase = "ok"
    BY <1>0, <1>2, <2>1 DEF Refreshed, server
  <2>3. OwnSession(r.session) /\ sessions[r.session].live /\ cookies.session = r.session
    BY <1>0, <2>1, <2>2 DEF RefreshMine, CookiesOf
  <2>4. ASSUME NEW d \in calls'
        PROVE  CallMine(d)
    <3>1. PICK c \in calls : d = c \/ d = Resent(c, cookies)
      BY <2>2 DEF Resume
    <3>2. CASE d = Resent(c, cookies)
      <4>1. d.phase = "sent" /\ d.session = cookies.session /\ d.op = c.op
        BY <1>0, <3>2 DEF Resent, CallType
      <4> QED
        BY <1>0, <2>3, <4>1 DEF CallMine
    <3> QED
      BY <1>0, <3>1, <3>2
  <2>5. \A k : OwnSession(k) => OwnSession(k)'
    BY <2>2 DEF OwnSession
  <2>6. \A d \in calls' : CallMine(d)'
    BY <2>4, <2>5 DEF CallMine
  <2>7. OwnSession(jar.session)' /\ sessions'[jar'.session].live
    BY <2>2, <2>3 DEF OwnSession
  <2> QED
    BY <1>0, <2>2, <2>6, <2>7 DEF SignedIn
<1>3. ~RefreshFails(r)
  BY <1>0 DEF RefreshFails, RefreshMine
<1>4. CASE ReadRefresh(r)
  <2>1. r.phase = "sent" /\ r.session = jar.session /\ r.heard
    BY <1>0, <1>4 DEF ReadRefresh, RefreshMine
  <2>2. sessions[jar.session].live /\ ~account.suspended
    BY <1>0, <2>1 DEF SignedIn
  <2>3. Refreshable(r.session)
    BY <1>0, <2>1, <2>2 DEF Refreshable, Live, OwnSession
  <2>4. PICK q : q = [r EXCEPT !.phase = "read"]
    OBVIOUS
  <2>5. /\ refreshes' = (refreshes \ {r}) \cup {x \in {q} : x.heard \/ x.phase = "read"}
        /\ UNCHANGED <<sessions, account, device, thrown, tabs, jar, calls>>
    BY <1>4, <2>3, <2>4 DEF ReadRefresh, RefreshAnswered, server
  <2>6. q.phase = "read" /\ q.heard /\ q.session = r.session
    BY <1>0, <2>1, <2>4 DEF RefreshType
  <2>7. refreshes' = {q} /\ RefreshMine(q)
    BY <1>0, <2>1, <2>5, <2>6 DEF RefreshMine
  <2>8. OwnGoOn
    BY <2>5 DEF OwnGoOn
  <2>9. \A x \in refreshes : x.phase # "ok"
    BY <1>0, <2>1
  <2>10. device'.busy /\ device'.from # 0 =>
             device'.from \in DOMAIN sessions /\ ~sessions[device'.from].mine
    BY <1>1, <2>5 DEF SignedIn
  <2> QED
    BY <1>0, <2>5, <2>7, <2>8, <2>9, <2>10, SignedKept
<1>5. CASE CommitRefresh(r)
  <2>1. r.phase = "read" /\ r.session = jar.session /\ r.heard
    BY <1>0, <1>5 DEF CommitRefresh, RefreshMine
  <2>2. PICK k \in Nat : k = jar.session
    BY <1>0 DEF OwnSession
  <2>3. PICK n \in Nat : n = Len(sessions) + 1
    BY <1>0
  <2>4. PICK t : t = [sessions EXCEPT ![k].live = FALSE]
    OBVIOUS
  <2>5. PICK e : e = Session(sessions[k].mine, sessions[k].pw,
                             r.raced \/ sessions[k].raced)
    OBVIOUS
  <2>6. PICK q : q = [r EXCEPT !.phase = "ok", !.session = n]
    OBVIOUS
  <2>7. /\ refreshes' = (refreshes \ {r}) \cup {x \in {q} : x.heard \/ x.phase = "read"}
        /\ sessions' = Append(t, e)
        /\ UNCHANGED <<account, device, thrown, tabs, jar, calls>>
    BY <1>5, <2>1, <2>2, <2>3, <2>4, <2>5, <2>6
    DEF CommitRefresh, RefreshAnswered, Rotate
  <2>8. /\ k \in 1 .. Len(sessions) /\ sessions[k].mine = TRUE
        /\ sessions[k] \in SessionType
    <3>1. k \in 1 .. Len(sessions) /\ sessions[k].mine
      BY <1>0, <2>2 DEF OwnSession
    <3>2. sessions[k] \in SessionType
      BY <1>0, <3>1
    <3>3. sessions[k].mine \in BOOLEAN
      BY <3>2 DEF SessionType
    <3> QED
      BY <3>1, <3>2, <3>3
  <2>9. e.mine = TRUE /\ e.live = TRUE
    BY <2>5, <2>8 DEF Session
  <2>10. /\ DOMAIN t = 1 .. Len(sessions) /\ t \in Seq(SessionType)
         /\ Len(t) = Len(sessions)
    BY <1>0, <2>4, EndOne
  <2>11. \A j \in 1 .. Len(sessions) : t[j].mine = sessions[j].mine
    BY <1>0, <2>4 DEF SessionType
  <2>12. PICK u : u = Append(t, e)
    OBVIOUS
  <2>13. /\ DOMAIN u = 1 .. n /\ u[n] = e
         /\ \A j \in 1 .. Len(sessions) : u[j] = t[j]
    BY <1>0, <2>3, <2>10, <2>12
  <2>14. /\ \A j \in DOMAIN sessions : j \in DOMAIN sessions' /\
               sessions'[j].mine = sessions[j].mine
         /\ n \in DOMAIN sessions' /\ sessions'[n].mine /\ sessions'[n].live
    BY <1>0, <2>3, <2>7, <2>9, <2>11, <2>12, <2>13
  <2>15. \A j : OwnSession(j) => OwnSession(j)'
    BY <2>14 DEF OwnSession
  <2>16. refreshes' = {q} /\ q.phase = "ok" /\ q.session = n /\ q.heard
    BY <1>0, <2>1, <2>3, <2>6, <2>7 DEF RefreshType
  <2>17. RefreshMine(q)'
    BY <2>14, <2>16 DEF RefreshMine, OwnSession
  <2>18. \A c \in calls' : CallMine(c)'
    BY <1>0, <2>7, <2>15 DEF CallMine
  <2>19. OwnSession(jar.session)'
    BY <1>0, <2>7, <2>15 DEF OwnSession
  <2>20. device'.busy /\ device'.from # 0 => ~sessions'[device'.from].mine
    BY <1>1, <2>7, <2>14 DEF SignedIn
  <2> QED
    BY <1>0, <2>7, <2>16, <2>17, <2>18, <2>19, <2>20 DEF SignedIn
<1>6. ~LoseRefresh(r)
  BY <1>0 DEF LoseRefresh, Cause
<1> QED
  BY <1>2, <1>3, <1>4, <1>5, <1>6 DEF Refresh


-----------------------------------------------------------------------------
\* A call that is served, or fails, in its own session.
LEMMA AnsweredMine ==
  ASSUME CredInv, TypeInv, SignedIn, NEW c \in calls, NEW reply, Answered(c, reply),
         CallMine(reply), OwnGoOn, Aside, account'.suspended = account.suspended,
         device' = device
  PROVE  SignedIn'
<1>1. /\ calls' \subseteq calls \cup {reply} /\ refreshes' = refreshes /\ jar' = jar
      /\ tabs' = tabs /\ thrown' = thrown
  BY DEF Answered, Aside
<1>2. \A d \in calls' : CallMine(d)
  BY <1>1 DEF SignedIn
<1>3. device'.busy /\ device'.from # 0 =>
          device'.from \in DOMAIN sessions /\ ~sessions[device'.from].mine
  BY DEF SignedIn, CredInv, DeviceGood, SoundRotation
<1> QED
  BY <1>1, <1>2, <1>3, SignedKept DEF SignedIn

\* The password changes in a session of which the browser has no other one.
LEMMA PasswordMine ==
  ASSUME CredInv, TypeInv, SignedIn, NEW k, NewPassword(k),
         \A j \in DOMAIN sessions : sessions[j].live /\ sessions[j].mine => j = k,
         UNCHANGED <<jar, tabs, thrown>>, \A d \in calls' : CallMine(d)
  PROVE  SignedIn'
<1>0. /\ TableInv /\ \A r \in refreshes : r \in RefreshType
      /\ account \in [pw : Nat, avatar : Nat, suspended : BOOLEAN]
      /\ device \in [busy : BOOLEAN, from : Nat, pw : Nat, raced : BOOLEAN]
  BY DEF TypeInv, TableInv, RecordInv, RefreshOK, DeviceOK
<1>1. OwnGoOn
  BY <1>0, PasswordSessions DEF OwnGoOn
<1>2. account'.suspended = account.suspended
  BY <1>0 DEF NewPassword
<1>3. device'.busy = device.busy /\ device'.from = device.from
  BY <1>0 DEF NewPassword
<1>4. ASSUME NEW q \in refreshes'
      PROVE  \E r \in refreshes :
                /\ q = [r EXCEPT !.raced = @ \/ r.phase = "read"]
                /\ q.phase = r.phase /\ q.heard = r.heard /\ q.session = r.session
  BY <1>0 DEF NewPassword, RefreshType
<1>5. \A q \in refreshes' : RefreshMine(q)
  BY <1>4 DEF SignedIn, RefreshMine
<1>6. \A q, r \in refreshes' : q = r
  BY DEF NewPassword, SignedIn
<1>7. ASSUME \A q \in refreshes' : q.phase # "ok", NEW r \in refreshes
      PROVE  r.phase # "ok"
  <2>1. [r EXCEPT !.raced = @ \/ r.phase = "read"] \in refreshes'
    BY DEF NewPassword
  <2> QED
    BY <1>0, <1>7, <2>1 DEF RefreshType
<1>8. device'.busy /\ device'.from # 0 =>
          device'.from \in DOMAIN sessions /\ ~sessions[device'.from].mine
  BY <1>3 DEF SignedIn, CredInv, DeviceGood, SoundRotation
<1> QED
  BY <1>1, <1>2, <1>5, <1>6, <1>7, <1>8, SignedKept DEF SignedIn

LEMMA RacedMine ==
  ASSUME NEW C, \A c \in C : CallMine(c) /\ c \in CallType
  PROVE  \A d \in Raced(C) : CallMine(d)
<1> TAKE d \in Raced(C)
<1>1. PICK c \in C : d = [c EXCEPT !.raced = @ \/ (c.op = "login" /\ c.phase = "read")]
  BY DEF Raced
<1>2. d.session = c.session /\ d.op = c.op /\ d.phase = c.phase
  BY <1>1 DEF CallType
<1> QED
  BY <1>2 DEF CallMine

LEMMA ServeSigned ==
  ASSUME CredInv, TypeInv, SignedIn, NEW c \in calls, Serve(c), ~Cause'
  PROVE  SignedIn'
<1>0. /\ CallMine(c) /\ c \in CallType /\ TableInv /\ faults \in Nat
      /\ DOMAIN sessions = 1 .. Len(sessions)
      /\ \A d \in calls : CallMine(d) /\ d \in CallType
  BY DEF SignedIn, TypeInv, RecordInv, CallOK, CountInv, TableInv
\* A reply that is not to a logout.
<1>1. ASSUME NEW reply, Answered(c, reply), reply.session = c.session, reply.op = c.op,
             c.op # "logout" \/ reply.phase # "ok", OwnGoOn, Aside,
             account'.suspended = account.suspended, device' = device
      PROVE  SignedIn'
  <2>1. CallMine(reply)
    BY <1>0, <1>1 DEF CallMine
  <2> QED
    BY <1>1, <2>1, AnsweredMine
<1>2. ASSUME NEW reply, Answered(c, reply), reply.session = c.session, reply.op = c.op,
             c.op # "logout" \/ reply.phase # "ok", sessions' = sessions, Aside,
             account'.suspended = account.suspended, device' = device
      PROVE  SignedIn'
  <2>1. OwnGoOn
    BY <1>2 DEF OwnGoOn
  <2> QED
    BY <1>1, <1>2, <2>1
<1>3. CASE Unauthorized(c)
  <2>1. PICK d : d = [c EXCEPT !.phase = "denied"]
    OBVIOUS
  <2>2. d.session = c.session /\ d.op = c.op /\ d.phase = "denied"
    BY <1>0, <2>1 DEF CallType
  <2> QED
    BY <1>2, <1>3, <2>1, <2>2 DEF Unauthorized, server
<1>4. CASE ServeMe(c)
  <2>1. PICK d : d = [c EXCEPT !.phase = "ok", !.arg = account.avatar]
    OBVIOUS
  <2>2. d.session = c.session /\ d.op = c.op /\ c.op = "me"
    BY <1>0, <1>4, <2>1 DEF CallType, ServeMe, Authentic
  <2> QED
    BY <1>2, <1>4, <2>1, <2>2 DEF ServeMe, server
<1>5. CASE ServeSessions(c)
  <2>1. PICK d : d = [c EXCEPT !.phase = "ok",
                               !.rows = {k \in Sessions : Live(k)} \ {c.session}]
    OBVIOUS
  <2>2. d.session = c.session /\ d.op = c.op /\ c.op = "sessions"
    BY <1>0, <1>5, <2>1 DEF CallType, ServeSessions, Authentic
  <2> QED
    BY <1>2, <1>5, <2>1, <2>2 DEF ServeSessions, server
<1>6. PICK ok : ok = [c EXCEPT !.phase = "ok"]
  OBVIOUS
<1>7. ok.session = c.session /\ ok.op = c.op /\ ok.phase = "ok"
  BY <1>0, <1>6 DEF CallType
<1>8. CASE ServeRevoke(c)
  <2>1. /\ EndSession(c, c.arg) /\ c.op = "revoke"
    BY <1>8 DEF ServeRevoke, Authentic
  <2>2. /\ sessions' = [sessions EXCEPT ![c.arg].live = FALSE]
        /\ ~(Live(c.arg) /\ sessions[c.arg].mine)
        /\ Answered(c, ok) /\ Aside /\ account' = account /\ device' = device
    BY <1>6, <2>1 DEF EndSession, Cause
  <2>3. OwnGoOn
    BY <1>0, <2>2, EndedOne DEF OwnGoOn, Live
  <2> QED
    BY <1>1, <1>7, <2>1, <2>2, <2>3
<1>9. ~ServeLogout(c)
  BY <1>0 DEF ServeLogout, EndSession, Authentic, Authorized, CallMine, OwnSession, Cause
<1>10. CASE ServeOthers(c)
  <2>1. /\ sessions' = RevokedBut(c.session) /\ ~EndsMine(c.session) /\ c.op = "others"
        /\ Answered(c, ok) /\ Aside /\ account' = account /\ device' = device
    BY <1>6, <1>10 DEF ServeOthers, Authentic, Cause
  <2>2. OwnGoOn
    <3>1. \A k \in DOMAIN sessions :
             sessions[k].live /\ sessions[k].mine => k = c.session
      BY <1>0, <2>1 DEF EndsMine, Live, Sessions
    <3> QED
      BY <1>0, <2>1, <3>1, EndedOthers DEF OwnGoOn
  <2> QED
    BY <1>1, <1>7, <2>1, <2>2
<1>11. CASE ServePassword(c)
  <2>1. /\ NewPassword(c.session) /\ ~EndsMine(c.session) /\ c.op = "password"
        /\ \A d \in calls' : d \in Raced(calls \ {c}) \/ d = ok
        /\ UNCHANGED <<jar, tabs, thrown>>
    BY <1>6, <1>11 DEF ServePassword, Authentic, NewPassword, Cause
  <2>2. \A k \in DOMAIN sessions : sessions[k].live /\ sessions[k].mine => k = c.session
    BY <1>0, <2>1 DEF EndsMine, Live, Sessions
  <2>3. \A d \in Raced(calls \ {c}) : CallMine(d)
    BY <1>0, RacedMine
  <2>4. CallMine(ok)
    BY <1>0, <1>7, <2>1 DEF CallMine
  <2>5. \A d \in calls' : CallMine(d)
    BY <2>1, <2>3, <2>4
  <2> QED
    BY <2>1, <2>2, <2>5, PasswordMine
<1>12. ~VerifyLogin(c) /\ ~CommitLogin(c)
  BY <1>0 DEF VerifyLogin, CommitLogin, CallMine
<1>13. ASSUME NEW new, ReadAvatar(c, new), c.op \in {"upload", "clear"}, Aside,
              UNCHANGED <<sessions, account, device>>
       PROVE  SignedIn'
  <2>1. PICK d : d = [c EXCEPT !.phase = "read", !.arg = new, !.old = account.avatar]
    OBVIOUS
  <2>2. d.session = c.session /\ d.op = c.op
    BY <1>0, <2>1 DEF CallType
  <2> QED
    BY <1>2, <1>13, <2>1, <2>2 DEF ReadAvatar
<1>14. CASE SaveAvatarFile(c)
  BY <1>13, <1>14 DEF SaveAvatarFile, Authentic
<1>15. CASE ReadCleared(c)
  BY <1>13, <1>15 DEF ReadCleared, Authentic
<1>16. CASE CommitAvatar(c)
  <2>1. PICK d : d = [c EXCEPT !.phase = "stored"]
    OBVIOUS
  <2>2. d.session = c.session /\ d.op = c.op /\ d.phase = "stored"
    BY <1>0, <2>1 DEF CallType
  <2>3. account'.suspended = account.suspended
    BY <1>0, <1>16 DEF CommitAvatar, TableInv
  <2> QED
    BY <1>2, <1>16, <2>1, <2>2, <2>3 DEF CommitAvatar
<1>17. CASE DeleteAvatarFile(c)
  <2>1. c.op \in {"upload", "clear"}
    BY <1>17 DEF DeleteAvatarFile, TypeInv, RecordInv, CallOK
  <2> QED
    BY <1>2, <1>6, <1>7, <1>17, <2>1 DEF DeleteAvatarFile
<1>18. ~Crash(c)
  BY <1>0 DEF Crash, Cause
<1> QED
  BY <1>3, <1>4, <1>5, <1>8, <1>9, <1>10, <1>11, <1>12, <1>14, <1>15, <1>16, <1>17,
     <1>18 DEF Serve


LEMMA OthersSigned ==
  ASSUME CredInv, TypeInv, SignedIn, Others, ~Cause'
  PROVE  SignedIn'
<1>0. /\ TableInv /\ sessions \in Seq(SessionType) /\ Len(sessions) \in Nat
      /\ DOMAIN sessions = 1 .. Len(sessions)
      /\ \A d \in calls : CallMine(d) /\ d \in CallType
  BY DEF SignedIn, TypeInv, RecordInv, CallOK, TableInv
<1>1. device.busy /\ device.from # 0 =>
          /\ device.from \in DOMAIN sessions /\ ~sessions[device.from].mine
          /\ device.raced \in BOOLEAN
  BY DEF SignedIn, CredInv, DeviceGood, SoundRotation
<1>2. ASSUME Elsewhere, OwnGoOn, UNCHANGED <<account, calls, refreshes>>,
             device'.busy /\ device'.from # 0 =>
                 device'.from \in DOMAIN sessions /\ ~sessions[device'.from].mine
      PROVE  SignedIn'
  BY <1>0, <1>2, SignedKept DEF Elsewhere, SignedIn
<1>3. CASE DeviceLogin
  <2>1. device'.from = 0
    BY <1>3 DEF DeviceLogin
  <2>2. OwnGoOn
    BY <1>3 DEF DeviceLogin, OwnGoOn
  <2> QED
    BY <1>2, <1>3, <2>1, <2>2 DEF DeviceLogin
<1>4. ASSUME NEW k \in Sessions, DeviceRefresh(k)
      PROVE  SignedIn'
  <2>1. device'.from = k /\ ~sessions[k].mine
    BY <1>4 DEF DeviceRefresh
  <2>2. OwnGoOn
    BY <1>4 DEF DeviceRefresh, OwnGoOn
  <2> QED
    BY <1>2, <1>4, <2>1, <2>2 DEF DeviceRefresh, Sessions
<1>5. CASE DeviceCommits
  <2>1. /\ device.busy /\ device' = NoDevice /\ Elsewhere
        /\ UNCHANGED <<account, calls, refreshes>>
    BY <1>5 DEF DeviceCommits
  <2>2. ~device'.busy
    BY <2>1 DEF NoDevice
  <2>3. ASSUME NEW s \in Seq(SessionType), NEW e, Len(s) = Len(sessions),
               sessions' = Append(s, e),
               \A k \in DOMAIN sessions :
                  /\ s[k].mine = sessions[k].mine
                  /\ sessions[k].live /\ sessions[k].mine => s[k].live
        PROVE  SignedIn'
    <3>1. PICK u : u = Append(s, e)
      OBVIOUS
    <3>2. /\ DOMAIN u = 1 .. Len(sessions) + 1
          /\ \A k \in 1 .. Len(sessions) : u[k] = s[k]
      BY <1>0, <2>3, <3>1
    <3>3. OwnGoOn
      BY <1>0, <2>3, <3>1, <3>2 DEF OwnGoOn
    <3> QED
      BY <1>2, <2>1, <2>2, <3>3
  <2>4. CASE device.from = 0
    BY <1>0, <1>5, <2>3, <2>4 DEF DeviceCommits
  <2>5. CASE device.from # 0
    <3>1. PICK s : s = [sessions EXCEPT ![device.from].live = FALSE]
      OBVIOUS
    <3>2. PICK e : sessions' = Append(s, e)
      BY <1>5, <2>5, <3>1 DEF DeviceCommits, Rotate
    <3>3. s \in Seq(SessionType) /\ Len(s) = Len(sessions)
      BY <1>0, <3>1, EndOne
    <3>4. ASSUME NEW k \in DOMAIN sessions
          PROVE  /\ s[k].mine = sessions[k].mine
                 /\ sessions[k].live /\ sessions[k].mine => s[k].live
      <4>1. sessions[k] \in SessionType
        BY <1>0
      <4>2. s[k] = IF k = device.from THEN [sessions[k] EXCEPT !.live = FALSE]
                   ELSE sessions[k]
        BY <3>1
      <4> QED
        BY <1>1, <2>1, <2>5, <4>1, <4>2 DEF SessionType
    <3> QED
      BY <2>3, <3>2, <3>3, <3>4
  <2> QED
    BY <2>4, <2>5
<1>6. ASSUME NEW k \in Sessions, DevicePassword(k)
      PROVE  SignedIn'
  <2>1. /\ NewPassword(k) /\ ~EndsMine(k) /\ ~sessions[k].mine /\ calls' = Raced(calls)
        /\ UNCHANGED <<jar, tabs, thrown>>
    BY <1>6 DEF DevicePassword, NewPassword, Elsewhere, Cause
  <2>2. \A j \in DOMAIN sessions : sessions[j].live /\ sessions[j].mine => j = k
    BY <1>0, <2>1 DEF EndsMine, Live, Sessions
  <2>3. \A d \in calls' : CallMine(d)
    BY <1>0, <2>1, RacedMine
  <2> QED
    BY <2>1, <2>2, <2>3, PasswordMine
<1>7. ~SetStatus
  BY DEF SetStatus, Cause
<1> QED
  BY <1>3, <1>4, <1>5, <1>6, <1>7 DEF Others

LEMMA SignedInit == Init => SignedInv
<1> SUFFICES ASSUME Init
             PROVE  SignedIn
  BY DEF SignedInv
<1>1. PICK a, b : a = Session(TRUE, 1, FALSE) /\ b = Session(FALSE, 1, FALSE)
  OBVIOUS
<1>2. a.mine /\ a.live
  BY <1>1 DEF Session
<1>3. sessions = <<a, b>>
  BY <1>1 DEF Init
<1>4. 1 \in DOMAIN sessions /\ sessions[1] = a
  BY <1>3
<1>5. /\ jar = CookiesOf(1) /\ calls = {} /\ refreshes = {} /\ ~thrown
      /\ account = [pw |-> 1, avatar |-> 1, suspended |-> FALSE]
      /\ tabs = [t \in Tabs |-> [Gate EXCEPT !.screen = "home", !.avatar = 1]]
      /\ device = NoDevice
  BY DEF Init
<1>6. jar.session = 1 /\ ~account.suspended /\ ~device.busy
  BY <1>5 DEF CookiesOf, NoDevice
<1>7. \A t \in Tabs : tabs[t].screen # "login"
  BY <1>5 DEF Gate
<1> QED
  BY <1>2, <1>4, <1>5, <1>6, <1>7 DEF SignedIn, OwnSession

LEMMA SignedNext ==
  ASSUME CredInv, TypeInv, SignedInv, [Next]_vars
  PROVE  SignedInv'
<1> SUFFICES ASSUME SignedIn, ~Cause'
             PROVE  SignedIn'
  BY CauseStays DEF SignedInv
<1>1. CASE Expire
  <2>1. jar'.session = jar.session
    BY <1>1 DEF Expire, TypeInv, RecordInv, JarOK
  <2> QED
    BY <1>1, <2>1, SignedStill DEF Expire, server, SignedIn
<1>2. CASE UNCHANGED vars
  BY <1>2, SignedStill DEF vars, SignedIn
<1> QED
  BY <1>1, <1>2, OthersSigned, UserSigned, ReplySigned, ServeSigned, RefreshSigned
  DEF Next

\* However many tabs the browser has and requests they send, a tab is sent to the
\* login page only if a session of the browser was ended, if two of its tabs
\* refreshed at once, or if the reply to a refresh was lost or not waited for.
THEOREM StaysSignedIn == Spec => []SignedOutNeedsCause
<1>1. SignedInv => SignedOutNeedsCause
  BY DEF SignedInv, SignedIn, SignedOutNeedsCause, Cause
<1>2. CredInv /\ TypeInv /\ SignedInv /\ [Next]_vars => CredInv' /\ TypeInv' /\ SignedInv'
  BY CredNext, TypesNext, SignedNext
<1> QED
  BY CredInit, TypesInit, SignedInit, <1>1, <1>2, PTL DEF Spec


-----------------------------------------------------------------------------
(* The photos: most steps leave the changes under way and the disk alone. *)

PhotoSame ==
    /\ account'.avatar = account.avatar /\ files' = files /\ crossed' = crossed
    /\ faults' = faults \/ faults' # 0

LEMMA PhotosSame ==
  ASSUME PhotoInv, DiskInv, PhotoSame, Reading(calls') = Reading(calls),
         Storing(calls') = Storing(calls)
  PROVE  PhotoInv' /\ DiskInv'
<1>1. PhotoInv'
  BY DEF PhotoSame, PhotoInv
<1>2. DiskInv'
  BY DEF PhotoSame, DiskInv
<1> QED
  BY <1>1, <1>2

\* Requests come and go that change no photo.
Idle(c) ==
    c.phase # "stored" /\ ~(c.op \in {"upload", "clear"} /\ c.phase = "read")

LEMMA OtherCalls ==
  ASSUME NEW C, NEW D, \A c \in C \ D : Idle(c), \A d \in D \ C : Idle(d)
  PROVE  Reading(D) = Reading(C) /\ Storing(D) = Storing(C)
BY DEF Reading, Storing, Idle

\* A tab that is loaded does not wait for its changes any more.
LEMMA PhotosLoaded ==
  ASSUME TypeInv, PhotoInv, DiskInv, PhotoSame, NEW t, NEW cookies, NEW C,
         C \subseteq calls, \A c \in calls \ C : c.phase \notin {"read", "stored"},
         Load(t, cookies, C)
  PROVE  PhotoInv' /\ DiskInv'
<1> DEFINE F(c) == IF c.tab = t THEN [c EXCEPT !.heard = FALSE] ELSE c
<1>0. \A c \in calls : c \in CallType
  BY DEF TypeInv, RecordInv, CallOK
<1>1. ASSUME NEW c \in calls
      PROVE  /\ F(c).op = c.op /\ F(c).phase = c.phase
              /\ F(c).arg = c.arg /\ F(c).old = c.old
  BY <1>0 DEF CallType
<1>2. PICK me : /\ calls' = Unheard(t, C) \/ calls' = Unheard(t, C) \cup {me}
                /\ me.phase = "sent"
  <2> DEFINE m == [Call(t, "me", 0) EXCEPT !.session = cookies.session,
                                           !.fresh = cookies.fresh]
  <2>1. m.phase = "sent"
    BY DEF Call
  <2>2. calls' = Unheard(t, C) \/ calls' = Unheard(t, C) \cup {m}
    BY DEF Load
  <2> HIDE DEF m
  <2> QED
    BY <2>1, <2>2
<1>3. Unheard(t, C) = {F(c) : c \in {d \in C : d.tab # t \/
                                        d.phase \in {"sent", "read", "stored"}}}
  BY DEF Unheard
<1> HIDE DEF F
<1>4. ASSUME NEW d \in Reading(calls')
      PROVE  \E c \in Reading(calls) : d = F(c)
  <2>1. PICK c \in C : d = F(c)
    BY <1>2, <1>3 DEF Reading
  <2> QED
    BY <1>1, <2>1 DEF Reading
<1>5. ASSUME NEW d \in Storing(calls')
      PROVE  \E c \in Storing(calls) : d = F(c)
  <2>1. PICK c \in C : d = F(c)
    BY <1>2, <1>3 DEF Storing
  <2> QED
    BY <1>1, <2>1 DEF Storing
<1>6. ASSUME NEW c \in Reading(calls)
      PROVE  F(c) \in Reading(calls')
  <2>1. c \in C /\ c.phase = "read" /\ c.op \in {"upload", "clear"}
    BY DEF Reading
  <2>2. F(c) \in calls'
    BY <1>2, <1>3, <2>1
  <2> QED
    BY <1>1, <2>1, <2>2 DEF Reading
<1>7. ASSUME NEW c \in Storing(calls)
      PROVE  F(c) \in Storing(calls')
  <2>1. c \in C /\ c.phase = "stored"
    BY DEF Storing
  <2>2. F(c) \in calls'
    BY <1>2, <1>3, <2>1
  <2> QED
    BY <1>1, <2>1, <2>2 DEF Storing
<1>8. /\ \A c \in Reading(calls) : F(c).arg = c.arg /\ F(c).old = c.old
      /\ \A c \in Storing(calls) : F(c).arg = c.arg /\ F(c).old = c.old
  BY <1>1 DEF Reading, Storing
<1>9. PhotoInv'
  <2>1. ASSUME NEW d \in Reading(calls')
        PROVE  d.arg # 0 => d.arg \in files /\ d.arg # account.avatar
    BY <1>4, <1>8 DEF PhotoInv
  <2>2. ASSUME NEW d \in Reading(calls'), NEW e \in Reading(calls') \cup Storing(calls')
        PROVE  d.arg # 0 => e.old # d.arg
    <3>1. PICK c \in Reading(calls) : d = F(c)
      BY <1>4
    <3>2. PICK b \in Reading(calls) \cup Storing(calls) : e = F(b)
      BY <1>4, <1>5
    <3>3. c.arg # 0 => b.old # c.arg
      BY DEF PhotoInv
    <3> QED
      BY <1>8, <3>1, <3>2, <3>3
  <2>3. ASSUME NEW d \in Reading(calls'), NEW e \in Reading(calls'),
               d.arg = e.arg, d.arg # 0
        PROVE  d = e
    <3>1. PICK c \in Reading(calls) : d = F(c)
      BY <1>4
    <3>2. PICK b \in Reading(calls) : e = F(b)
      BY <1>4
    <3>3. c = b
      BY <1>8, <2>3, <3>1, <3>2 DEF PhotoInv
    <3> QED
      BY <3>1, <3>2, <3>3
  <2>4. ASSUME NEW d \in Storing(calls')
        PROVE  d.old # 0 => d.old # account.avatar
    BY <1>5, <1>8 DEF PhotoInv
  <2> QED
    BY <2>1, <2>2, <2>3, <2>4 DEF PhotoInv, PhotoSame
<1>10. DiskInv'
  <2> SUFFICES ASSUME ~crossed, faults = 0, faults' = faults
               PROVE  DiskInv'
    BY DEF DiskInv, PhotoSame
  <2>1. /\ \A c, d \in Reading(calls) : c = d
        /\ \A c \in Reading(calls) : c.old = account.avatar
        /\ \A c, d \in Storing(calls) : c.old = d.old /\ c.old # 0 => c = d
        /\ files = ({account.avatar} \cup {c.arg : c \in Reading(calls)} \cup
                       {c.old : c \in Storing(calls)}) \ {0}
    BY DEF DiskInv
  <2>2. \A d, e \in Reading(calls') : d = e
    BY <1>4, <2>1
  <2>3. \A d \in Reading(calls') : d.old = account.avatar
    BY <1>4, <1>8, <2>1
  <2>4. ASSUME NEW d \in Storing(calls'), NEW e \in Storing(calls'),
               d.old = e.old, d.old # 0
        PROVE  d = e
    <3>1. PICK c \in Storing(calls) : d = F(c)
      BY <1>5
    <3>2. PICK b \in Storing(calls) : e = F(b)
      BY <1>5
    <3>3. c = b
      BY <1>8, <2>1, <2>4, <3>1, <3>2
    <3> QED
      BY <3>1, <3>2, <3>3
  <2>5. {c.arg : c \in Reading(calls)} = {c.arg : c \in Reading(calls')}
    BY <1>4, <1>6, <1>8
  <2>6. {c.old : c \in Storing(calls)} = {c.old : c \in Storing(calls')}
    BY <1>5, <1>7, <1>8
  <2>7. files' = ({account'.avatar} \cup {c.arg : c \in Reading(calls')} \cup
                     {c.old : c \in Storing(calls')}) \ {0}
    BY <2>1, <2>5, <2>6 DEF PhotoSame
  <2> QED
    BY <2>2, <2>3, <2>4, <2>7 DEF DiskInv, PhotoSame
<1> QED
  BY <1>9, <1>10


LEMMA IdleCalls ==
  ASSUME PhotoInv, DiskInv, PhotoSame,
         \A c \in calls \ calls' : Idle(c), \A d \in calls' \ calls : Idle(d)
  PROVE  PhotoInv' /\ DiskInv'
BY OtherCalls, PhotosSame

LEMMA UserPhotos ==
  ASSUME TypeInv, PhotoInv, DiskInv, NEW t, User(t)
  PROVE  PhotoInv' /\ DiskInv'
<1>1. ASSUME NEW op, NEW arg, Ask(Call(t, op, arg))
      PROVE  PhotoInv' /\ DiskInv'
  <2>1. Idle(Call(t, op, arg))
    BY DEF Call, Idle
  <2>2. PhotoSame /\ calls' = calls \cup {Call(t, op, arg)}
    BY <1>1 DEF Ask, server, PhotoSame
  <2> QED
    BY <2>1, <2>2, IdleCalls
<1>2. CASE Reload(t)
  <2>1. PhotoSame /\ Load(t, jar, calls)
    BY <1>2 DEF Reload, server, PhotoSame
  <2> QED
    BY <2>1, PhotosLoaded
<1> QED
  BY <1>1, <1>2 DEF User, Login, OnRevoke, ListSessions, OnRevokeOthers, ChangePassword,
     OnFile, OnRemove, Logout

LEMMA ReplyPhotos ==
  ASSUME TypeInv, PhotoInv, DiskInv, NEW c \in calls, Reply(c)
  PROVE  PhotoInv' /\ DiskInv'
<1>0. c \in CallType /\ faults \in Nat
  BY DEF TypeInv, RecordInv, CallOK, CountInv
<1>1. CASE MeReplied(c) \/ SessionsReplied(c) \/ AvatarReplied(c)
  <2>1. calls' = calls \ {c} /\ c.phase = "ok" /\ Quiet
    BY <1>1 DEF MeReplied, SessionsReplied, AvatarReplied, Replied
  <2>2. PhotoSame /\ Idle(c)
    BY <2>1 DEF Quiet, server, bounds, PhotoSame, Idle
  <2> QED
    BY <2>1, <2>2, IdleCalls
<1>2. CASE RevokeReplied(c)
  <2>1. c.phase = "ok" /\ Quiet
    BY <1>2 DEF RevokeReplied, Replied
  <2>2. PhotoSame /\ Idle(c) /\ Idle(Call(c.tab, "sessions", 0))
    BY <2>1 DEF Quiet, server, bounds, PhotoSame, Idle, Call
  <2>3. ASSUME NEW d \in calls, d.op = "sessions"
        PROVE  Idle(d) /\ Idle(GivenUp(d))
    <3>1. CallOK(d) /\ d \in CallType
      BY DEF TypeInv, RecordInv, CallOK
    <3>2. GivenUp(d).phase = d.phase /\ GivenUp(d).op = d.op
      BY <3>1 DEF GivenUp, CallType
    <3> QED
      BY <2>3, <3>1, <3>2 DEF CallOK, Idle
  <2>4. /\ \A x \in calls \ calls' : Idle(x)
        /\ \A x \in calls' \ calls : Idle(x)
    BY <1>2, <2>2, <2>3, RevokeCalls
  <2> QED
    BY <2>2, <2>4, IdleCalls
<1>3. ASSUME NEW cookies, Load(c.tab, cookies, calls \ {c}), PhotoSame,
             c.phase \notin {"read", "stored"}
      PROVE  PhotoInv' /\ DiskInv'
  <2>1. PICK C : C = calls \ {c}
    OBVIOUS
  <2>2. C \subseteq calls /\ \A d \in calls \ C : d.phase \notin {"read", "stored"}
    BY <1>3, <2>1
  <2> QED
    BY <1>3, <2>1, <2>2, PhotosLoaded
<1>4. CASE LoginReplied(c)
  <2>1. PhotoSame /\ c.phase = "ok"
    BY <1>4 DEF LoginReplied, Replied, server, bounds, PhotoSame
  <2> QED
    BY <1>3, <1>4, <2>1 DEF LoginReplied
<1>5. CASE LogoutReplied(c)
  <2>1. PhotoSame /\ c.phase = "ok"
    BY <1>5 DEF LogoutReplied, Replied, server, bounds, PhotoSame
  <2> QED
    BY <1>3, <1>5, <2>1 DEF LogoutReplied
<1>6. CASE Denied(c)
  <2>1. PICK d : d = [c EXCEPT !.phase = "waits"]
    OBVIOUS
  <2>2. Idle(d) /\ Idle(c)
    BY <1>0, <1>6, <2>1 DEF Idle, CallType, Denied
  <2>3. calls' = (calls \ {c}) \cup {d} /\ PhotoSame
    BY <1>6, <2>1 DEF Denied, server, bounds, PhotoSame
  <2> QED
    BY <2>2, <2>3, IdleCalls
<1>7. CASE CallFails(c)
  <2>1. PhotoSame
    BY <1>0, <1>7 DEF CallFails, server, PhotoSame
  <2>2. c.phase \in {"denied", "sent", "ok"}
    BY <1>7 DEF CallFails
  <2>3. CASE c.op = "logout"
    BY <1>3, <1>7, <2>1, <2>2, <2>3 DEF CallFails
  <2>4. CASE c.op # "logout"
    <3>1. calls' = calls \ {c}
      BY <1>7, <2>4 DEF CallFails
    <3> QED
      BY <2>1, <2>2, <3>1, IdleCalls DEF Idle
  <2> QED
    BY <2>3, <2>4
<1> QED
  BY <1>1, <1>2, <1>4, <1>5, <1>6, <1>7 DEF Reply

LEMMA RefreshPhotos ==
  ASSUME TypeInv, PhotoInv, DiskInv, NEW r \in refreshes, Refresh(r)
  PROVE  PhotoInv' /\ DiskInv'
<1>0. faults \in Nat /\ \A c \in calls : c \in CallType
  BY DEF TypeInv, RecordInv, CallOK, CountInv
<1>1. CASE Refreshed(r)
  <2>1. PICK cookies : calls' = Resume(r, cookies)
    BY <1>1 DEF Refreshed
  <2>2. PhotoSame
    BY <1>1 DEF Refreshed, server, bounds, PhotoSame
  <2>3. ASSUME NEW d \in calls' \ calls
        PROVE  Idle(d)
    <3>1. PICK c \in calls : d = Resent(c, cookies)
      BY <2>1, <2>3 DEF Resume
    <3>2. d.phase = "sent"
      BY <1>0, <3>1 DEF Resent, CallType
    <3> QED
      BY <3>2 DEF Idle
  <2>4. ASSUME NEW c \in calls \ calls'
        PROVE  Idle(c)
    <3>1. c.phase = "waits"
      BY <2>1, <2>4 DEF Resume
    <3> QED
      BY <3>1 DEF Idle
  <2> QED
    BY <2>2, <2>3, <2>4, IdleCalls
<1>2. CASE RefreshFails(r)
  <2>1. PICK cookies : Load(r.tab, cookies, calls)
    BY <1>2 DEF RefreshFails
  <2>2. PhotoSame
    BY <1>2 DEF RefreshFails, server, bounds, PhotoSame
  <2> QED
    BY <2>1, <2>2, PhotosLoaded
<1>3. CASE ReadRefresh(r) \/ CommitRefresh(r)
  <2>1. PhotoSame /\ calls' = calls
    BY <1>3 DEF ReadRefresh, CommitRefresh, server, bounds, PhotoSame
  <2> QED
    BY <2>1, IdleCalls
<1>4. CASE LoseRefresh(r)
  <2>1. PhotoSame /\ calls' = calls
    BY <1>0, <1>4 DEF LoseRefresh, server, PhotoSame
  <2> QED
    BY <2>1, IdleCalls
<1> QED
  BY <1>1, <1>2, <1>3, <1>4 DEF Refresh

\* The flag of a race is set on logins only.
LEMMA RacedPhotos ==
  ASSUME TypeInv, NEW C, C \subseteq calls
  PROVE  /\ \A d \in Raced(C) \ C : Idle(d)
         /\ \A c \in C \ Raced(C) : Idle(c)
<1> DEFINE F(c) == [c EXCEPT !.raced = @ \/ (c.op = "login" /\ c.phase = "read")]
<1>0. Raced(C) = {F(c) : c \in C}
  BY DEF Raced
<1>1. ASSUME NEW c \in C, ~(c.op = "login")
      PROVE  F(c) = c
  <2>1. c \in CallType
    BY DEF TypeInv, RecordInv, CallOK
  <2>2. c.raced \in BOOLEAN
    BY <2>1 DEF CallType
  <2>3. (c.raced \/ (c.op = "login" /\ c.phase = "read")) = c.raced
    BY <1>1, <2>2
  <2>4. F(c) = [c EXCEPT !.raced = c.raced]
    BY <2>3
  <2> QED
    BY <2>1, <2>4 DEF CallType
<1>2. ASSUME NEW c \in C, c.op = "login"
      PROVE  Idle(c) /\ Idle(F(c))
  <2>1. c \in CallType /\ c.phase # "stored"
    BY <1>2 DEF TypeInv, RecordInv, CallOK
  <2>2. F(c).op = "login" /\ F(c).phase = c.phase
    BY <1>2, <2>1 DEF CallType
  <2> HIDE DEF F
  <2> QED
    BY <1>2, <2>1, <2>2 DEF Idle
<1> HIDE DEF F
<1> QED
  BY <1>0, <1>1, <1>2


-----------------------------------------------------------------------------
(* A change of the photo: read, committed, the old one deleted. *)

LEMMA AnsweredIdle ==
  ASSUME PhotoInv, DiskInv, PhotoSame, NEW c \in calls, NEW reply, Answered(c, reply),
         Idle(c), Idle(reply)
  PROVE  PhotoInv' /\ DiskInv'
BY IdleCalls DEF Answered

LEMMA ReadPhotos ==
  ASSUME TypeInv, PhotoInv, DiskInv, NEW c \in calls, c.op \in {"upload", "clear"},
         c.phase = "sent", NEW new \in Nat, ReadAvatar(c, new),
         account' = account, faults' = faults,
         \/ new = saved + 1 /\ files' = files \cup {new}
         \/ new = 0 /\ files' = files
  PROVE  PhotoInv' /\ DiskInv'
<1>0. /\ c \in CallType /\ saved \in Nat /\ files \subseteq 1 .. saved
      /\ account.avatar \in Nat /\ account.avatar <= saved
      /\ \A d \in calls : d.op \in {"upload", "clear"} =>
            d.arg \in Nat /\ d.arg <= saved /\ d.old \in Nat /\ d.old <= saved
      /\ \A d \in calls : d.phase = "stored" => d.op \in {"upload", "clear"}
  BY DEF TypeInv, TableInv, RecordInv, CallOK, CallType
<1>1. PICK d : d = [c EXCEPT !.phase = "read", !.arg = new, !.old = account.avatar]
  OBVIOUS
<1>2. /\ d.phase = "read" /\ d.op = c.op /\ d.arg = new /\ d.old = account.avatar
  BY <1>0, <1>1 DEF CallType
<1>3. calls' = (calls \ {c}) \cup {d} /\ crossed' = (crossed \/ ChangingAvatar # {})
  BY <1>1, <1>2 DEF ReadAvatar, Answered
<1>4. /\ Reading(calls') = Reading(calls) \cup {d}
      /\ Storing(calls') = Storing(calls)
  BY <1>2, <1>3 DEF Reading, Storing
<1>5. new # 0 => new \notin files /\ new # account.avatar /\ new \in files'
  BY <1>0
<1>6. \A e \in Reading(calls) \cup Storing(calls) : new # 0 => e.old # new /\
                                              (e \in Reading(calls) => e.arg # new)
  <2> TAKE e \in Reading(calls) \cup Storing(calls)
  <2>1. e \in calls /\ e.op \in {"upload", "clear"}
    BY <1>0 DEF Reading, Storing
  <2>2. e.arg \in Nat /\ e.arg <= saved /\ e.old \in Nat /\ e.old <= saved
    BY <1>0, <2>1
  <2> QED
    BY <1>0, <2>2
<1>7. PhotoInv'
  <2>1. account'.avatar # 0 => account'.avatar \in files'
    BY DEF PhotoInv
  <2>2. ASSUME NEW x \in Reading(calls')
        PROVE  x.arg # 0 => x.arg \in files' /\ x.arg # account'.avatar
    BY <1>2, <1>4, <1>5 DEF PhotoInv
  <2>3. ASSUME NEW x \in Reading(calls'), NEW y \in Reading(calls') \cup Storing(calls')
        PROVE  x.arg # 0 => y.old # x.arg
    <3>1. CASE x = d
      <4>1. CASE y = d
        BY <1>2, <1>5, <3>1, <4>1
      <4>2. CASE y # d
        BY <1>2, <1>4, <1>6, <3>1, <4>2
      <4> QED
        BY <4>1, <4>2
    <3>2. CASE x \in Reading(calls)
      <4>1. CASE y = d
        BY <1>2, <3>2, <4>1 DEF PhotoInv
      <4>2. CASE y # d
        BY <1>4, <3>2, <4>2 DEF PhotoInv
      <4> QED
        BY <4>1, <4>2
    <3> QED
      BY <1>4, <3>1, <3>2
  <2>4. ASSUME NEW x \in Reading(calls'), NEW y \in Reading(calls'),
               x.arg = y.arg, x.arg # 0
        PROVE  x = y
    BY <1>2, <1>4, <1>6, <2>4 DEF PhotoInv
  <2>5. \A x \in Storing(calls') : x.old # 0 => x.old # account'.avatar
    BY <1>4 DEF PhotoInv
  <2> QED
    BY <2>1, <2>2, <2>3, <2>4, <2>5 DEF PhotoInv
<1>8. DiskInv'
  <2> SUFFICES ASSUME ~crossed', faults' = 0
               PROVE  DiskInv'
    BY DEF DiskInv
  <2>1. Reading(calls) = {}
    BY <1>3 DEF ChangingAvatar, Reading
  <2>2. /\ \A x, y \in Storing(calls) : x.old = y.old /\ x.old # 0 => x = y
        /\ files = ({account.avatar} \cup {x.arg : x \in Reading(calls)} \cup
                       {x.old : x \in Storing(calls)}) \ {0}
    BY <1>3 DEF DiskInv
  <2>3. Reading(calls') = {d} /\ Storing(calls') = Storing(calls)
    BY <1>4, <2>1
  <2>4. files = ({account.avatar} \cup {x.old : x \in Storing(calls)}) \ {0}
    BY <2>1, <2>2
  <2>5. files' = ({account'.avatar} \cup {x.arg : x \in Reading(calls')} \cup
                     {x.old : x \in Storing(calls')}) \ {0}
    <3>1. {x.arg : x \in Reading(calls')} = {new}
      BY <1>2, <2>3
    <3>2. files' = (files \cup {new}) \ {0}
      BY <1>0
    <3> QED
      BY <2>3, <2>4, <3>1, <3>2
  <2> QED
    BY <1>2, <2>2, <2>3, <2>5 DEF DiskInv
<1> QED
  BY <1>7, <1>8

LEMMA CommitPhotos ==
  ASSUME TypeInv, PhotoInv, DiskInv, NEW c \in calls, CommitAvatar(c)
  PROVE  PhotoInv' /\ DiskInv'
<1>0. /\ c \in CallType /\ c \in Reading(calls)
      /\ account \in [pw : Nat, avatar : Nat, suspended : BOOLEAN]
  BY DEF TypeInv, TableInv, RecordInv, CallOK, CommitAvatar, Reading
<1>1. PICK d : d = [c EXCEPT !.phase = "stored"]
  OBVIOUS
<1>2. d.phase = "stored" /\ d.op = c.op /\ d.old = c.old
  BY <1>0, <1>1 DEF CallType
<1>3. /\ calls' = (calls \ {c}) \cup {d}
      /\ account' = IF c.arg = c.old THEN account ELSE [account EXCEPT !.avatar = c.arg]
      /\ files' = files /\ crossed' = crossed /\ faults' = faults
  BY <1>0, <1>1, <1>2 DEF CommitAvatar, Answered, Aside, bounds
\* A photo that is put up is none that was: only a removal may find nothing to change.
<1>7. IF c.arg = c.old THEN account' = account /\ c.arg = 0 ELSE account'.avatar = c.arg
  BY <1>0, <1>3 DEF PhotoInv
<1>4. /\ Reading(calls') = Reading(calls) \ {c}
      /\ Storing(calls') = Storing(calls) \cup {d}
  BY <1>0, <1>2, <1>3 DEF Reading, Storing
<1>5. PhotoInv'
  <2>1. account'.avatar # 0 => account'.avatar \in files'
    BY <1>0, <1>3, <1>7 DEF PhotoInv
  <2>2. ASSUME NEW x \in Reading(calls')
        PROVE  x.arg # 0 => x.arg \in files' /\ x.arg # account'.avatar
    BY <1>0, <1>3, <1>4, <1>7 DEF PhotoInv
  <2>3. ASSUME NEW x \in Reading(calls'), NEW y \in Reading(calls') \cup Storing(calls')
        PROVE  x.arg # 0 => y.old # x.arg
    <3>1. CASE y = d
      BY <1>0, <1>2, <1>4, <3>1 DEF PhotoInv
    <3>2. CASE y # d
      BY <1>4, <3>2 DEF PhotoInv
    <3> QED
      BY <3>1, <3>2
  <2>4. ASSUME NEW x \in Reading(calls'), NEW y \in Reading(calls'),
               x.arg = y.arg, x.arg # 0
        PROVE  x = y
    BY <1>4, <2>4 DEF PhotoInv
  <2>5. ASSUME NEW x \in Storing(calls'), x.old # 0
        PROVE  x.old # account'.avatar
    <3>1. PICK y \in Reading(calls) \cup Storing(calls) :
                 y.old = x.old /\ (y = c \/ y \in Storing(calls))
      BY <1>0, <1>2, <1>4
    <3>2. c.arg # 0 => y.old # c.arg
      BY <1>0 DEF PhotoInv
    <3>3. c.arg = c.old => y.old # account.avatar
      BY <1>7, <2>5, <3>1 DEF PhotoInv
    <3> QED
      BY <1>7, <2>5, <3>1, <3>2, <3>3
  <2> QED
    BY <2>1, <2>2, <2>3, <2>4, <2>5 DEF PhotoInv
<1>6. DiskInv'
  <2> SUFFICES ASSUME ~crossed, faults = 0
               PROVE  DiskInv'
    BY <1>3 DEF DiskInv
  <2>1. /\ Reading(calls) = {c} /\ c.old = account.avatar
        /\ \A x, y \in Storing(calls) : x.old = y.old /\ x.old # 0 => x = y
        /\ files = ({account.avatar} \cup {x.arg : x \in Reading(calls)} \cup
                       {x.old : x \in Storing(calls)}) \ {0}
    BY <1>0 DEF DiskInv
  <2>0. account'.avatar = c.arg
    BY <1>7, <2>1
  <2>2. Reading(calls') = {}
    BY <1>4, <2>1
  <2>3. ASSUME NEW x \in Storing(calls'), NEW y \in Storing(calls'),
               x.old = y.old, x.old # 0
        PROVE  x = y
    BY <1>2, <1>4, <2>1, <2>3 DEF PhotoInv
  <2>4. files = ({c.old, c.arg} \cup {x.old : x \in Storing(calls)}) \ {0}
    BY <2>1
  <2>5. {x.old : x \in Storing(calls')} = {x.old : x \in Storing(calls)} \cup {c.old}
    BY <1>2, <1>4
  <2>6. files' = ({account'.avatar} \cup {x.arg : x \in Reading(calls')} \cup
                     {x.old : x \in Storing(calls')}) \ {0}
    BY <1>3, <2>0, <2>2, <2>4, <2>5
  <2> QED
    BY <2>2, <2>3, <2>6 DEF DiskInv
<1> QED
  BY <1>5, <1>6

LEMMA DeletePhotos ==
  ASSUME TypeInv, PhotoInv, DiskInv, NEW c \in calls, DeleteAvatarFile(c)
  PROVE  PhotoInv' /\ DiskInv'
<1>0. /\ c \in CallType /\ c \in Storing(calls) /\ 0 \notin files
  BY DEF TypeInv, TableInv, RecordInv, CallOK, DeleteAvatarFile, Storing
<1>1. PICK d : d = [c EXCEPT !.phase = "ok"]
  OBVIOUS
<1>2. d.phase = "ok"
  BY <1>0, <1>1 DEF CallType
<1>3. /\ calls' = calls \ {c} \/ calls' = (calls \ {c}) \cup {d}
      /\ account' = account /\ files' = files \ {c.old} /\ crossed' = crossed
      /\ faults' = faults
  BY <1>1 DEF DeleteAvatarFile, Answered, Aside, bounds
<1>4. /\ Reading(calls') = Reading(calls)
      /\ Storing(calls') = Storing(calls) \ {c}
  BY <1>0, <1>2, <1>3 DEF Reading, Storing
<1>5. PhotoInv'
  <2>1. account'.avatar # 0 => account'.avatar \in files'
    BY <1>0, <1>3 DEF PhotoInv
  <2>2. ASSUME NEW x \in Reading(calls')
        PROVE  x.arg # 0 => x.arg \in files' /\ x.arg # account'.avatar
    BY <1>0, <1>3, <1>4 DEF PhotoInv
  <2> QED
    BY <1>3, <1>4, <2>1, <2>2 DEF PhotoInv
<1>6. DiskInv'
  <2> SUFFICES ASSUME ~crossed, faults = 0
               PROVE  DiskInv'
    BY <1>3 DEF DiskInv
  <2>1. /\ \A x, y \in Reading(calls) : x = y
        /\ \A x \in Reading(calls) : x.old = account.avatar
        /\ \A x, y \in Storing(calls) : x.old = y.old /\ x.old # 0 => x = y
        /\ files = ({account.avatar} \cup {x.arg : x \in Reading(calls)} \cup
                       {x.old : x \in Storing(calls)}) \ {0}
    BY DEF DiskInv
  <2>2. PICK A : A = {account.avatar} \cup {x.arg : x \in Reading(calls)}
    OBVIOUS
  <2>3. c.old # 0 => c.old \notin A
    BY <1>0, <2>2 DEF PhotoInv
  <2>4. c.old # 0 => \A x \in Storing(calls) \ {c} : x.old # c.old
    BY <1>0, <2>1
  <2>5. files = (A \cup {x.old : x \in Storing(calls)}) \ {0}
    BY <2>1, <2>2
  <2>6. files' = (A \cup {x.old : x \in Storing(calls')}) \ {0}
    BY <1>0, <1>3, <1>4, <2>3, <2>4, <2>5
  <2> QED
    BY <1>3, <1>4, <2>1, <2>2, <2>6 DEF DiskInv
<1> QED
  BY <1>5, <1>6

LEMMA ServePhotos ==
  ASSUME TypeInv, PhotoInv, DiskInv, NEW c \in calls, Serve(c)
  PROVE  PhotoInv' /\ DiskInv'
<1>0. /\ c \in CallType /\ faults \in Nat /\ saved \in Nat
      /\ account \in [pw : Nat, avatar : Nat, suspended : BOOLEAN]
  BY DEF TypeInv, RecordInv, CallOK, CountInv, TableInv
<1>1. ASSUME NEW reply, reply.phase \notin {"read", "stored"}, Answered(c, reply),
             c.phase = "sent", account'.avatar = account.avatar, files' = files,
             crossed' = crossed, Aside
      PROVE  PhotoInv' /\ DiskInv'
  <2>1. PhotoSame /\ Idle(c) /\ Idle(reply)
    BY <1>1 DEF Aside, bounds, PhotoSame, Idle
  <2> QED
    BY <1>1, <2>1, AnsweredIdle
<1>2. CASE Unauthorized(c)
  <2>1. [c EXCEPT !.phase = "denied"].phase = "denied"
    BY <1>0 DEF CallType
  <2> QED
    BY <1>1, <1>2, <2>1 DEF Unauthorized, server
<1>3. CASE ServeMe(c)
  <2>1. PICK d : d = [c EXCEPT !.phase = "ok", !.arg = account.avatar]
    OBVIOUS
  <2>2. d.phase = "ok"
    BY <1>0, <2>1 DEF CallType
  <2> QED
    BY <1>1, <1>3, <2>1, <2>2 DEF ServeMe, Authentic, server
<1>4. CASE ServeSessions(c)
  <2>1. PICK d : d = [c EXCEPT !.phase = "ok",
                               !.rows = {k \in Sessions : Live(k)} \ {c.session}]
    OBVIOUS
  <2>2. d.phase = "ok"
    BY <1>0, <2>1 DEF CallType
  <2> QED
    BY <1>1, <1>4, <2>1, <2>2 DEF ServeSessions, Authentic, server
<1>5. [c EXCEPT !.phase = "ok"].phase = "ok"
  BY <1>0 DEF CallType
<1>6. CASE ServeRevoke(c)
  BY <1>1, <1>5, <1>6 DEF ServeRevoke, EndSession, Authentic
<1>7. CASE ServeLogout(c)
  BY <1>1, <1>5, <1>7 DEF ServeLogout, EndSession, Authentic
<1>8. CASE ServeOthers(c)
  BY <1>1, <1>5, <1>8 DEF ServeOthers, Authentic
<1>9. CASE ServePassword(c)
  <2>1. PICK d : d = [c EXCEPT !.phase = "ok"]
    OBVIOUS
  <2>2. PICK C : C = calls \ {c}
    OBVIOUS
  <2>3. /\ calls' = Raced(C) \/ calls' = Raced(C) \cup {d}
        /\ c.phase = "sent" /\ PhotoSame
    BY <1>0, <1>9, <2>1, <2>2
    DEF ServePassword, NewPassword, Authentic, bounds, PhotoSame
  <2>4. Idle(c) /\ Idle(d)
    BY <1>5, <2>1, <2>3 DEF Idle
  <2>5. /\ \A x \in Raced(C) \ C : Idle(x)
        /\ \A x \in C \ Raced(C) : Idle(x)
    BY <2>2, RacedPhotos
  <2> QED
    BY <2>2, <2>3, <2>4, <2>5, IdleCalls
<1>10. CASE VerifyLogin(c) \/ CommitLogin(c)
  <2>1. PICK reply : Answered(c, reply) /\ reply.op = "login" /\
                     reply.phase \in {"read", "denied", "ok"}
    <3>1. CASE VerifyLogin(c)
      <4>1. PICK v \in {"read", "denied"} : Answered(c, [c EXCEPT !.phase = v])
        BY <3>1 DEF VerifyLogin
      <4>2. PICK d : d = [c EXCEPT !.phase = v]
        OBVIOUS
      <4>3. d.op = "login" /\ d.phase = v
        BY <1>0, <3>1, <4>2 DEF VerifyLogin, CallType
      <4> QED
        BY <4>1, <4>2, <4>3
    <3>2. CASE CommitLogin(c)
      <4>1. PICK d : d = [c EXCEPT !.phase = "ok", !.session = Len(sessions) + 1]
        OBVIOUS
      <4>2. d.op = "login" /\ d.phase = "ok"
        BY <1>0, <3>2, <4>1 DEF CommitLogin, CallType
      <4> QED
        BY <3>2, <4>1, <4>2 DEF CommitLogin
    <3> QED
      BY <1>10, <3>1, <3>2
  <2>2. Idle(c) /\ Idle(reply) /\ PhotoSame
    BY <1>10, <2>1 DEF VerifyLogin, CommitLogin, Idle, PhotoSame, Aside, bounds, server
  <2> QED
    BY <2>1, <2>2, AnsweredIdle
<1>11. CASE SaveAvatarFile(c)
  <2>1. PICK n \in Nat : n = saved + 1
    BY <1>0
  <2>2. /\ files' = files \cup {n} /\ ReadAvatar(c, n) /\ account' = account
        /\ c.op = "upload" /\ c.phase = "sent" /\ faults' = faults
    BY <1>11, <2>1 DEF SaveAvatarFile, Authentic, Aside, bounds
  <2> QED
    BY <2>1, <2>2, ReadPhotos
<1>12. CASE ReadCleared(c)
  <2>1. /\ files' = files /\ ReadAvatar(c, 0) /\ account' = account
        /\ c.op = "clear" /\ c.phase = "sent" /\ faults' = faults
    BY <1>12 DEF ReadCleared, Authentic, Aside, bounds
  <2> QED
    BY <2>1, ReadPhotos
<1>13. CASE Crash(c)
  <2>1. /\ calls' = calls \ {c} /\ account' = account /\ files' = files /\ faults' # 0
    BY <1>0, <1>13 DEF Crash, server
  <2>2. /\ Reading(calls') \subseteq Reading(calls)
        /\ Storing(calls') \subseteq Storing(calls)
    BY <2>1 DEF Reading, Storing
  <2>3. PhotoInv'
    BY <2>1, <2>2 DEF PhotoInv
  <2> QED
    BY <2>1, <2>3 DEF DiskInv
<1> QED
  BY <1>2, <1>3, <1>4, <1>6, <1>7, <1>8, <1>9, <1>10, <1>11, <1>12, <1>13, CommitPhotos,
     DeletePhotos DEF Serve


LEMMA OthersPhotos ==
  ASSUME TypeInv, PhotoInv, DiskInv, Others
  PROVE  PhotoInv' /\ DiskInv'
<1>0. account \in [pw : Nat, avatar : Nat, suspended : BOOLEAN]
  BY DEF TypeInv, TableInv
<1>1. ASSUME Elsewhere, account'.avatar = account.avatar, calls' = calls
      PROVE  PhotoInv' /\ DiskInv'
  BY <1>1, IdleCalls DEF Elsewhere, PhotoSame
<1>2. CASE DeviceLogin
  BY <1>1, <1>2 DEF DeviceLogin
<1>3. ASSUME NEW k \in Sessions, DeviceRefresh(k)
      PROVE  PhotoInv' /\ DiskInv'
  BY <1>1, <1>3 DEF DeviceRefresh
<1>4. CASE DeviceCommits
  BY <1>1, <1>4 DEF DeviceCommits
<1>5. ASSUME NEW k \in Sessions, DevicePassword(k)
      PROVE  PhotoInv' /\ DiskInv'
  <2>1. calls' = Raced(calls) /\ PhotoSame
    BY <1>0, <1>5 DEF DevicePassword, NewPassword, Elsewhere, PhotoSame
  <2>2. /\ \A x \in Raced(calls) \ calls : Idle(x)
        /\ \A x \in calls \ Raced(calls) : Idle(x)
    BY RacedPhotos
  <2> QED
    BY <2>1, <2>2, IdleCalls
<1>6. CASE SetStatus
  <2>1. account'.avatar = account.avatar
    BY <1>0, <1>6 DEF SetStatus
  <2> QED
    BY <1>1, <1>6, <2>1 DEF SetStatus
<1> QED
  BY <1>2, <1>3, <1>4, <1>5, <1>6 DEF Others

LEMMA PhotosInit == Init => PhotoInv /\ DiskInv
<1> SUFFICES ASSUME Init
             PROVE  PhotoInv /\ DiskInv
  OBVIOUS
<1>1. /\ account = [pw |-> 1, avatar |-> 1, suspended |-> FALSE] /\ files = {1}
      /\ calls = {}
  BY DEF Init
<1>2. Reading(calls) = {} /\ Storing(calls) = {} /\ account.avatar = 1
  BY <1>1 DEF Reading, Storing
<1> QED
  BY <1>1, <1>2 DEF PhotoInv, DiskInv

LEMMA PhotosNext ==
  ASSUME TypeInv, PhotoInv, DiskInv, [Next]_vars
  PROVE  PhotoInv' /\ DiskInv'
<1>1. CASE Expire \/ UNCHANGED vars
  <2>1. PhotoSame /\ calls' = calls
    BY <1>1 DEF Expire, vars, server, PhotoSame
  <2> QED
    BY <2>1, IdleCalls
<1> QED
  BY <1>1, OthersPhotos, UserPhotos, ReplyPhotos, ServePhotos, RefreshPhotos DEF Next

\* The photo of the user is on disk, however many changes of it cross; and where they
\* come one after the other and no worker dies, no other one is left there.
THEOREM AvatarOnDisk == Spec => []AvatarFilesAgree
<1>1. PhotoInv /\ DiskInv => AvatarFilesAgree
  <2> SUFFICES ASSUME PhotoInv, DiskInv
               PROVE  AvatarFilesAgree
    OBVIOUS
  <2>1. account.avatar # 0 => account.avatar \in files
    BY DEF PhotoInv
  <2>2. ASSUME \A c \in calls : c.phase \notin {"read", "stored"}, ~crossed, faults = 0
        PROVE  files = {account.avatar} \ {0}
    <3>1. Reading(calls) = {} /\ Storing(calls) = {}
      BY <2>2 DEF Reading, Storing
    <3>2. files = ({account.avatar} \cup {c.arg : c \in Reading(calls)} \cup
                      {c.old : c \in Storing(calls)}) \ {0}
      BY <2>2 DEF DiskInv
    <3> QED
      BY <3>1, <3>2
  <2> QED
    BY <2>1, <2>2 DEF AvatarFilesAgree
<1>2. /\ CredInv /\ TypeInv /\ PhotoInv /\ DiskInv /\ [Next]_vars
      => CredInv' /\ TypeInv' /\ PhotoInv' /\ DiskInv'
  BY CredNext, TypesNext, PhotosNext
<1> QED
  BY CredInit, TypesInit, PhotosInit, <1>1, <1>2, PTL DEF Spec
=============================================================================
