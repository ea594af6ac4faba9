----------------------------- MODULE AccountPages -----------------------------
(***************************************************************************)
(* The sign-in of one user: the tabs of a browser, which share its cookies,*)
(* the sessions and the profile photo behind auth_service.py, and what the *)
(* other devices of the user and an administrator commit meanwhile.        *)
(*                                                                         *)
(* A refresh revokes the session it was asked with and opens another one.  *)
(* The checks of a request and the one statement it makes are a step; the  *)
(* requests that read first and write later take more.                     *)
(***************************************************************************)
EXTENDS Naturals, Sequences, FiniteSets

CONSTANTS
    Tabs,         \* tabs of the browser
    MaxOps,       \* bound on what the user asks for in them
    MaxExpiries,  \* bound on access tokens that expire
    MaxOthers,    \* bound on acts of the other devices and the administrator
    MaxFaults     \* bound on requests lost on the way and on crashes

ASSUME AccountAssumption == {MaxOps, MaxExpiries, MaxOthers, MaxFaults} \subseteq Nat

VARIABLES
    sessions,   \* auth_sessions, in the order of creation
    account,    \* the row of the user
    files,      \* the photos on disk
    jar,        \* the cookies of the browser
    tabs,       \* what each tab shows
    calls,      \* requests under way, but for refreshes
    refreshes,  \* refreshes under way
    device,     \* a login or refresh of another device under way
    ops, expiries, others, faults,
    saved,      \* photos saved so far, which name the next one
    revoked,    \* a session of the browser was ended by something else than a refresh
    twoTabs,    \* two tabs had a refresh under way at once
    left,       \* a page was left with its refresh under way
    crossed,    \* two changes of the photo had read the same one
    thrown      \* a tab was sent to the login page

vars == <<sessions, account, files, jar, tabs, calls, refreshes, device, ops,
          expiries, others, faults, saved, revoked, twoTabs, left, crossed, thrown>>

server == <<sessions, account, files, saved, crossed>>

bounds == <<ops, expiries, others, faults>>

-----------------------------------------------------------------------------
(* Sessions. *)

Sessions == DOMAIN sessions

\* pw is the password the session was opened or confirmed with, mine that it is
\* one of this browser; raced says that its transaction was under way when the
\* password changed.
Session(mine, pw, raced) == [live |-> TRUE, mine |-> mine, pw |-> pw, raced |-> raced]

Live(k) == k # 0 /\ sessions[k].live

\* Mutant: a session that has been revoked can be refreshed.
KnownSession(k) == k # 0 /\ ~account.suspended

\* What refresh asks of the old session and of the user.
Refreshable(k) == Live(k) /\ ~account.suspended

\* The commit of a refresh, whatever became of the old session since it was read.
Rotate(k, raced) ==
    sessions' = Append([sessions EXCEPT ![k].live = FALSE],
                       Session(sessions[k].mine, sessions[k].pw,
                               raced \/ sessions[k].raced))

\* The sessions that one of these ends are all committed ones but the kept.
RevokedBut(kept) ==
    [k \in Sessions |-> IF k = kept THEN sessions[k]
                        ELSE [sessions[k] EXCEPT !.live = FALSE]]

EndsMine(kept) == \E k \in Sessions \ {kept} : Live(k) /\ sessions[k].mine

-----------------------------------------------------------------------------
(* The browser. *)

NoCookies == [session |-> 0, fresh |-> FALSE]

CookiesOf(k) == [session |-> k, fresh |-> TRUE]

LoginPage == [screen |-> "login", avatar |-> 0, rows |-> {}]

\* The dashboard before and after the user is known.
Gate == [screen |-> "loading", avatar |-> 0, rows |-> {}]

Home(t) == tabs[t].screen = "home"

Call(t, op, arg) ==
    [tab |-> t, op |-> op, arg |-> arg, old |-> 0, phase |-> "sent",
     session |-> jar.session, fresh |-> jar.fresh, retry |-> TRUE, heard |-> TRUE,
     raced |-> FALSE, rows |-> {}]

NoDevice == [busy |-> FALSE, from |-> 0, pw |-> 0, raced |-> FALSE]

Init ==
    /\ sessions = <<Session(TRUE, 1, FALSE), Session(FALSE, 1, FALSE)>>
    /\ account = [pw |-> 1, avatar |-> 1, suspended |-> FALSE]
    /\ files = {1} /\ saved = 1
    /\ jar = CookiesOf(1)
    /\ tabs = [t \in Tabs |-> [Gate EXCEPT !.screen = "home", !.avatar = 1]]
    /\ calls = {} /\ refreshes = {} /\ device = NoDevice
    /\ ops = 0 /\ expiries = 0 /\ others = 0 /\ faults = 0
    /\ revoked = FALSE /\ twoTabs = FALSE /\ left = FALSE
    /\ crossed = FALSE /\ thrown = FALSE

Pending(t, ops_) == \E c \in calls : c.tab = t /\ c.heard /\ c.op \in ops_

\* A page that is unloaded does not hear of its requests any more.
Unheard(t, C) ==
    {IF c.tab = t THEN [c EXCEPT !.heard = FALSE] ELSE c :
        c \in {d \in C : d.tab # t \/ d.phase \in {"sent", "read", "stored"}}}

Joins(t) == {r \in refreshes : r.tab = t /\ r.heard}

\* A refresh the page has asked for goes on without it; its cookies are lost.
Abandon(t) ==
    /\ refreshes' = (refreshes \ Joins(t)) \cup
           {[r EXCEPT !.heard = FALSE] :
               r \in {q \in Joins(t) : q.phase \in {"sent", "read"}}}
    /\ left' = (left \/ Joins(t) # {})

\* proxy: the login page is for browsers without cookies, the dashboard for the rest.
Load(t, cookies, C) ==
    IF cookies.session = 0
    THEN /\ tabs' = [tabs EXCEPT ![t] = LoginPage]
         /\ calls' = Unheard(t, C)
    ELSE /\ tabs' = [tabs EXCEPT ![t] = Gate]
         /\ calls' = Unheard(t, C) \cup
                {[Call(t, "me", 0) EXCEPT !.session = cookies.session,
                                          !.fresh = cookies.fresh]}

-----------------------------------------------------------------------------
(* What the user does. *)

\* What the screens offer.
LoginEnabled(t) == tabs[t].screen = "login" /\ ~Pending(t, {"login"})

\* The list of sessions the page is waiting for, and one it has given up.
Listing(t) == {c \in calls : c.tab = t /\ c.heard /\ c.op = "sessions" /\ c.arg = 0}

GivenUp(c) == [c EXCEPT !.arg = 1]

SessionsShown(t) == Home(t) /\ Listing(t) = {}

RevokeEnabled(t, k) == Home(t) /\ k \in tabs[t].rows /\ ~Pending(t, {"revoke"})

RevokeOthersEnabled(t) == Home(t) /\ tabs[t].rows # {} /\ ~Pending(t, {"others"})

PasswordEnabled(t) == Home(t) /\ ~Pending(t, {"password"})

AvatarEnabled(t) == Home(t) /\ ~Pending(t, {"upload", "clear"})

RemoveShown(t) == AvatarEnabled(t) /\ tabs[t].avatar # 0

Ask(c) ==
    /\ ops < MaxOps
    /\ ops' = ops + 1
    /\ calls' = calls \cup {c}
    /\ UNCHANGED <<server, jar, tabs, refreshes, device, expiries, others, faults,
                   revoked, twoTabs, left, thrown>>

\* The password that is typed is the one of now, or one that was.
Login(t, pw) == LoginEnabled(t) /\ Ask(Call(t, "login", pw))

ListSessions(t) == SessionsShown(t) /\ Ask(Call(t, "sessions", 0))

OnRevoke(t, k) == RevokeEnabled(t, k) /\ Ask(Call(t, "revoke", k))

OnRevokeOthers(t) == RevokeOthersEnabled(t) /\ Ask(Call(t, "others", 0))

ChangePassword(t) == PasswordEnabled(t) /\ Ask(Call(t, "password", 0))

OnFile(t) == AvatarEnabled(t) /\ Ask(Call(t, "upload", 0))

OnRemove(t) == RemoveShown(t) /\ Ask(Call(t, "clear", 0))

\* The item of the menu can be chosen again before the reply.
Logout(t) ==
    /\ Home(t) /\ Call(t, "logout", 0) \notin calls
    /\ Ask(Call(t, "logout", 0))

Reload(t) ==
    /\ ops < MaxOps
    /\ ops' = ops + 1
    /\ Load(t, jar, calls)
    /\ Abandon(t)
    /\ UNCHANGED <<server, jar, device, expiries, others, faults, revoked, twoTabs,
                   thrown>>

Expire ==
    /\ expiries < MaxExpiries /\ jar.fresh
    /\ expiries' = expiries + 1
    /\ jar' = [jar EXCEPT !.fresh = FALSE]
    /\ UNCHANGED <<server, tabs, calls, refreshes, device, ops, others, faults,
                   revoked, twoTabs, left, thrown>>

-----------------------------------------------------------------------------
(* client.ts *)

NewRefresh(c) ==
    [tab |-> c.tab, by |-> c.op, phase |-> "sent", session |-> jar.session,
     raced |-> FALSE, heard |-> TRUE]

StartRefresh(c) ==
    /\ refreshes' = refreshes \cup {NewRefresh(c)}
    /\ twoTabs' = (twoTabs \/ refreshes # Joins(c.tab))

\* Mutant: every request has a refresh of its own.
TryRefreshAlone(c) == StartRefresh(c)

\* The refresh under way in the tab is shared.
TryRefresh(c) ==
    IF Joins(c.tab) = {} THEN StartRefresh(c) ELSE UNCHANGED <<refreshes, twoTabs>>

\* A request that is refused for want of a session waits for a refresh.
Denied(c) ==
    /\ c.phase = "denied" /\ c.heard /\ c.retry
    /\ TryRefresh(c)
    /\ calls' = (calls \ {c}) \cup {[c EXCEPT !.phase = "waits"]}
    /\ UNCHANGED <<server, jar, tabs, device, bounds, revoked, left, thrown>>

Resent(c, cookies) ==
    [c EXCEPT !.phase = "sent", !.retry = FALSE, !.session = cookies.session,
              !.fresh = cookies.fresh]

\* Mutant: only the request that asked for the refresh is sent again.
ResumeFirst(r, cookies) ==
    {IF c.tab = r.tab /\ c.phase = "waits" /\ c.op = r.by THEN Resent(c, cookies)
     ELSE c : c \in calls}

Resume(r, cookies) ==
    {IF c.tab = r.tab /\ c.phase = "waits" THEN Resent(c, cookies) ELSE c : c \in calls}

\* The new cookies have come, for every tab; the requests of this one go on.
Refreshed(r) ==
    /\ r.phase = "ok"
    /\ jar' = CookiesOf(r.session)
    /\ calls' = Resume(r, CookiesOf(r.session))
    /\ refreshes' = refreshes \ {r}
    /\ UNCHANGED <<server, tabs, device, bounds, revoked, twoTabs, left, thrown>>

\* A refusal takes the cookies away, a failure leaves them: the tab goes to the
\* login page, which sends it back if it still has some.
RefreshFails(r) ==
    /\ r.phase \in {"refused", "lost"}
    /\ LET cookies == IF r.phase = "refused" THEN NoCookies ELSE jar IN
       /\ jar' = cookies
       /\ Load(r.tab, cookies, calls)
    /\ thrown' = (thrown \/ (r.phase = "refused" /\ tabs[r.tab].screen # "login"))
    /\ refreshes' = refreshes \ {r}
    /\ UNCHANGED <<server, device, bounds, revoked, twoTabs, left>>

-----------------------------------------------------------------------------
(* Replies. *)

Replied(c, op) == c.op = op /\ c.phase = "ok" /\ c.heard

Quiet == UNCHANGED <<server, refreshes, device, bounds, revoked, twoTabs, left, thrown>>

MeReplied(c) ==
    /\ Replied(c, "me")
    /\ tabs' = [tabs EXCEPT ![c.tab].screen = "home", ![c.tab].avatar = c.arg]
    /\ calls' = calls \ {c}
    /\ UNCHANGED jar /\ Quiet

SessionsReplied(c) ==
    /\ Replied(c, "sessions")
    /\ tabs' = [tabs EXCEPT ![c.tab].rows = IF c.arg = 0 THEN c.rows ELSE @]
    /\ calls' = calls \ {c}
    /\ UNCHANGED jar /\ Quiet

\* Uploads and removals answer with the user.
AvatarReplied(c) ==
    /\ c.op \in {"upload", "clear"} /\ Replied(c, c.op)
    /\ tabs' = [tabs EXCEPT ![c.tab].avatar = c.arg]
    /\ calls' = calls \ {c}
    /\ UNCHANGED jar /\ Quiet

\* invalidateQueries: a list that is on the screen is asked for again, whatever is
\* under way for it.
RevokeReplied(c) ==
    /\ c.op \in {"revoke", "others", "password"} /\ Replied(c, c.op)
    /\ \/ calls' = calls \ {c}
       \/ calls' = {IF d \in Listing(c.tab) THEN GivenUp(d) ELSE d : d \in calls \ {c}}
                      \cup {Call(c.tab, "sessions", 0)}
    /\ UNCHANGED <<jar, tabs>> /\ Quiet

LoginReplied(c) ==
    /\ Replied(c, "login")
    /\ jar' = CookiesOf(c.session)
    /\ Load(c.tab, CookiesOf(c.session), calls \ {c})
    /\ Abandon(c.tab)
    /\ UNCHANGED <<server, device, bounds, revoked, twoTabs, thrown>>

LogoutReplied(c) ==
    /\ Replied(c, "logout")
    /\ jar' = NoCookies
    /\ Load(c.tab, NoCookies, calls \ {c})
    /\ Abandon(c.tab)
    /\ UNCHANGED <<server, device, bounds, revoked, twoTabs, thrown>>

\* A second refusal is an error, as is a failure on the way: a toast, but for a
\* logout, which leaves all the same, and for the user, without whom the gate
\* shows nothing.
CallFails(c) ==
    /\ c.heard
    /\ \/ c.phase = "denied" /\ ~c.retry /\ UNCHANGED faults
       \/ /\ c.phase \in {"sent", "ok"} /\ c.op \notin {"me", "sessions"}
          /\ faults < MaxFaults /\ faults' = faults + 1
    /\ CASE c.op = "logout" ->
               /\ Load(c.tab, jar, calls \ {c})
               /\ Abandon(c.tab)
         [] c.op = "me" ->
               /\ tabs' = [tabs EXCEPT ![c.tab] =
                              IF jar.session = 0 THEN LoginPage
                              ELSE [Gate EXCEPT !.screen = "blank"]]
               /\ calls' = calls \ {c}
               /\ UNCHANGED <<refreshes, left>>
         [] OTHER -> calls' = calls \ {c} /\ UNCHANGED <<tabs, refreshes, left>>
    /\ UNCHANGED <<server, jar, device, ops, expiries, others, revoked, twoTabs,
                   thrown>>

-----------------------------------------------------------------------------
(* The server. *)

\* A request nobody waits for leaves no reply.
Answered(c, reply) ==
    calls' = (calls \ {c}) \cup
        (IF reply.heard \/ reply.phase \in {"read", "stored"} THEN {reply} ELSE {})

Aside == UNCHANGED <<jar, tabs, refreshes, bounds, twoTabs, left, thrown>>

\* get_current_user
Authorized(c) == c.fresh /\ Live(c.session)

Authentic(c, op_) ==
    /\ c.op \in op_ /\ c.phase = "sent" /\ Authorized(c)

Unauthorized(c) ==
    /\ c.op # "login" /\ c.phase = "sent" /\ ~Authorized(c)
    /\ Answered(c, [c EXCEPT !.phase = "denied"])
    /\ UNCHANGED <<server, device, revoked>> /\ Aside

ServeMe(c) ==
    /\ Authentic(c, {"me"})
    /\ Answered(c, [c EXCEPT !.phase = "ok", !.arg = account.avatar])
    /\ UNCHANGED <<server, device, revoked>> /\ Aside

\* The sessions that can be revoked: all but the one of the request.
ServeSessions(c) ==
    /\ Authentic(c, {"sessions"})
    /\ Answered(c, [c EXCEPT !.phase = "ok",
                             !.rows = {k \in Sessions : Live(k)} \ {c.session}])
    /\ UNCHANGED <<server, device, revoked>> /\ Aside

EndSession(c, k) ==
    /\ sessions' = [sessions EXCEPT ![k].live = FALSE]
    /\ revoked' = (revoked \/ (Live(k) /\ sessions[k].mine))
    /\ Answered(c, [c EXCEPT !.phase = "ok"])
    /\ UNCHANGED <<account, files, saved, crossed, device>> /\ Aside

ServeRevoke(c) == Authentic(c, {"revoke"}) /\ EndSession(c, c.arg)

ServeLogout(c) == Authentic(c, {"logout"}) /\ EndSession(c, c.session)

ServeOthers(c) ==
    /\ Authentic(c, {"others"})
    /\ sessions' = RevokedBut(c.session)
    /\ revoked' = (revoked \/ EndsMine(c.session))
    /\ Answered(c, [c EXCEPT !.phase = "ok"])
    /\ UNCHANGED <<account, files, saved, crossed, device>> /\ Aside

\* The password changes and every other session ends; what has been read and not
\* been committed yet is not seen by the update.
NewPassword(kept) ==
    /\ account' = [account EXCEPT !.pw = @ + 1]
    /\ sessions' = [RevokedBut(kept) EXCEPT ![kept].pw = account.pw + 1,
                                            ![kept].raced = FALSE]
    /\ revoked' = (revoked \/ EndsMine(kept))
    /\ device' = [device EXCEPT !.raced = @ \/ device.busy]
    /\ refreshes' = {[r EXCEPT !.raced = @ \/ r.phase = "read"] : r \in refreshes}

\* The logins among the requests.
Raced(C) == {[c EXCEPT !.raced = @ \/ (c.op = "login" /\ c.phase = "read")] : c \in C}

ServePassword(c) ==
    /\ Authentic(c, {"password"})
    /\ NewPassword(c.session)
    /\ calls' = Raced(calls \ {c}) \cup
           {d \in {[c EXCEPT !.phase = "ok"]} : c.heard}
    /\ UNCHANGED <<files, saved, crossed, jar, tabs, bounds, twoTabs, left, thrown>>

\* login: the password is verified ...
VerifyLogin(c) ==
    /\ c.op = "login" /\ c.phase = "sent"
    /\ Answered(c, IF c.arg = account.pw /\ ~account.suspended
                   THEN [c EXCEPT !.phase = "read"] ELSE [c EXCEPT !.phase = "denied"])
    /\ UNCHANGED <<server, device, revoked>> /\ Aside

\* ... and the session committed later.
CommitLogin(c) ==
    /\ c.op = "login" /\ c.phase = "read"
    /\ sessions' = Append(sessions, Session(TRUE, c.arg, c.raced))
    /\ Answered(c, [c EXCEPT !.phase = "ok", !.session = Len(sessions) + 1])
    /\ UNCHANGED <<account, files, saved, crossed, device, revoked>> /\ Aside

RefreshAnswered(r, reply) ==
    refreshes' = (refreshes \ {r}) \cup
        {q \in {reply} : q.heard \/ q.phase = "read"}

\* Without cookies there is no refresh token.
ReadRefresh(r) ==
    /\ r.phase = "sent"
    /\ RefreshAnswered(r, [r EXCEPT !.phase =
           IF Refreshable(r.session) THEN "read" ELSE "refused"])
    /\ UNCHANGED <<server, jar, tabs, calls, device, bounds, revoked, twoTabs, left,
                   thrown>>

CommitRefresh(r) ==
    /\ r.phase = "read"
    /\ Rotate(r.session, r.raced)
    /\ RefreshAnswered(r, [r EXCEPT !.phase = "ok", !.session = Len(sessions) + 1])
    /\ UNCHANGED <<account, files, saved, crossed, jar, tabs, calls, device, bounds,
                   revoked, twoTabs, left, thrown>>

\* The connection of a refresh is lost, before or after it was committed.
LoseRefresh(r) ==
    /\ r.heard /\ r.phase \in {"sent", "ok", "refused"} /\ faults < MaxFaults
    /\ faults' = faults + 1
    /\ refreshes' = (refreshes \ {r}) \cup {[r EXCEPT !.phase = "lost"]}
    /\ UNCHANGED <<server, jar, tabs, calls, device, ops, expiries, others, revoked,
                   twoTabs, left, thrown>>

-----------------------------------------------------------------------------
(* The photo. *)

ChangingAvatar == {d \in calls : d.op \in {"upload", "clear"} /\ d.phase = "read"}

ReadAvatar(c, new) ==
    /\ crossed' = (crossed \/ ChangingAvatar # {})
    /\ Answered(c, [c EXCEPT !.phase = "read", !.arg = new, !.old = account.avatar])

\* Mutant: the old file goes when the new one comes.
SaveOver(c) ==
    /\ Authentic(c, {"upload"})
    /\ saved' = saved + 1
    /\ files' = (files \cup {saved + 1}) \ {account.avatar}
    /\ ReadAvatar(c, saved + 1)
    /\ UNCHANGED <<sessions, account, device, revoked>> /\ Aside

\* set_avatar: the row is read and the file saved ...
SaveAvatarFile(c) ==
    /\ Authentic(c, {"upload"})
    /\ saved' = saved + 1
    /\ files' = files \cup {saved + 1}
    /\ ReadAvatar(c, saved + 1)
    /\ UNCHANGED <<sessions, account, device, revoked>> /\ Aside

ReadCleared(c) ==
    /\ Authentic(c, {"clear"})
    /\ ReadAvatar(c, 0)
    /\ UNCHANGED <<sessions, account, files, saved, device, revoked>> /\ Aside

\* ... the row is committed, if what was read of it changes ...
CommitAvatar(c) ==
    /\ c.op \in {"upload", "clear"} /\ c.phase = "read"
    /\ account' = IF c.arg = c.old THEN account ELSE [account EXCEPT !.avatar = c.arg]
    /\ Answered(c, [c EXCEPT !.phase = "stored"])
    /\ UNCHANGED <<sessions, files, saved, crossed, device, revoked>> /\ Aside

\* ... and the file it named before is deleted.
DeleteAvatarFile(c) ==
    /\ c.phase = "stored"
    /\ files' = files \ {c.old}
    /\ Answered(c, [c EXCEPT !.phase = "ok"])
    /\ UNCHANGED <<sessions, account, saved, crossed, device, revoked>> /\ Aside

\* The worker dies; of a request under way, what is committed and on disk stays.
Crash(c) ==
    /\ c.phase \in {"read", "stored"} /\ faults < MaxFaults
    /\ faults' = faults + 1
    /\ calls' = calls \ {c}
    /\ UNCHANGED <<server, jar, tabs, refreshes, device, ops, expiries, others, revoked,
                   twoTabs, left, thrown>>

-----------------------------------------------------------------------------
(* The other devices and the administrator. *)

Elsewhere == UNCHANGED <<files, saved, crossed, jar, tabs, ops, expiries, faults,
                       twoTabs, left, thrown>>

Other == others < MaxOthers /\ others' = others + 1

DeviceLogin ==
    /\ Other /\ ~device.busy /\ ~account.suspended
    /\ device' = [busy |-> TRUE, from |-> 0, pw |-> account.pw, raced |-> FALSE]
    /\ UNCHANGED <<sessions, account, calls, refreshes, revoked>> /\ Elsewhere

DeviceRefresh(k) ==
    /\ Other /\ ~device.busy /\ ~sessions[k].mine /\ Refreshable(k)
    /\ device' = [busy |-> TRUE, from |-> k, pw |-> 0, raced |-> FALSE]
    /\ UNCHANGED <<sessions, account, calls, refreshes, revoked>> /\ Elsewhere

DeviceCommits ==
    /\ device.busy
    /\ IF device.from = 0
       THEN sessions' = Append(sessions, Session(FALSE, device.pw, device.raced))
       ELSE Rotate(device.from, device.raced)
    /\ device' = NoDevice
    /\ UNCHANGED <<account, calls, refreshes, others, revoked>> /\ Elsewhere

DevicePassword(k) ==
    /\ Other /\ ~sessions[k].mine /\ Live(k)
    /\ NewPassword(k)
    /\ calls' = Raced(calls)
    /\ Elsewhere

\* The status of a member on the page of the users.
SetStatus ==
    /\ Other
    /\ account' = [account EXCEPT !.suspended = ~@]
    /\ revoked' = TRUE
    /\ UNCHANGED <<sessions, calls, refreshes, device>> /\ Elsewhere

-----------------------------------------------------------------------------
User(t) ==
    \/ \E pw \in 1 .. account.pw : Login(t, pw)
    \/ \E k \in Sessions : OnRevoke(t, k)
    \/ ListSessions(t) \/ OnRevokeOthers(t) \/ ChangePassword(t) \/ OnFile(t)
    \/ OnRemove(t) \/ Logout(t) \/ Reload(t)

Reply(c) ==
    \/ MeReplied(c) \/ SessionsReplied(c) \/ AvatarReplied(c) \/ RevokeReplied(c)
    \/ LoginReplied(c) \/ LogoutReplied(c) \/ Denied(c) \/ CallFails(c)

Serve(c) ==
    \/ Unauthorized(c) \/ ServeMe(c) \/ ServeSessions(c) \/ ServeRevoke(c)
    \/ ServeLogout(c) \/ ServeOthers(c) \/ ServePassword(c) \/ VerifyLogin(c)
    \/ CommitLogin(c) \/ SaveAvatarFile(c) \/ ReadCleared(c) \/ CommitAvatar(c)
    \/ DeleteAvatarFile(c) \/ Crash(c)

Refresh(r) ==
    \/ Refreshed(r) \/ RefreshFails(r) \/ ReadRefresh(r) \/ CommitRefresh(r)
    \/ LoseRefresh(r)

Others ==
    \/ DeviceLogin \/ DeviceCommits \/ SetStatus
    \/ \E k \in Sessions : DeviceRefresh(k) \/ DevicePassword(k)

Next ==
    \/ Expire \/ Others
    \/ \E t \in Tabs : User(t)
    \/ \E c \in calls : Reply(c) \/ Serve(c)
    \/ \E r \in refreshes : Refresh(r)

Spec == Init /\ [][Next]_vars

-----------------------------------------------------------------------------
(* Properties. *)

\* Types of the server's rows, of the cookies and of the requests. A request
\* waits only where a refresh is under way, of which a tab has one.
TypeOK ==
    /\ \A k \in Sessions : sessions[k].pw \in 1 .. account.pw
    /\ jar.session \in Sessions \cup {0} /\ (jar.session = 0 => ~jar.fresh)
    /\ files \subseteq 1 .. saved /\ account.avatar \in 0 .. saved
    /\ \A t \in Tabs :
          /\ tabs[t].screen \in {"login", "loading", "home", "blank"}
          /\ tabs[t].rows \subseteq Sessions
          /\ Cardinality(Joins(t)) <= 1
    /\ \A c \in calls :
          /\ c.phase \in {"sent", "read", "stored", "ok", "denied", "waits"}
          /\ c.phase = "waits" => Joins(c.tab) # {}
    /\ ops <= MaxOps /\ expiries <= MaxExpiries /\ others <= MaxOthers
    /\ faults <= MaxFaults

\* A tab is signed out only if a session of the browser was ended, if two of its
\* tabs refreshed at once, or if the cookies of a refresh did not arrive, be it that
\* the page was left: the requests of one tab share their refresh.
SignedOutNeedsCause == thrown => revoked \/ twoTabs \/ left \/ faults > 0

\* No session outlives a change of the password with the old one, but those whose
\* login or refresh was under way, which go on for as long as they are refreshed.
OldCredentialsNeedRace ==
    \A k \in Sessions : Live(k) /\ sessions[k].pw # account.pw => sessions[k].raced

\* The user has no photo whose file is gone, and once no change is under way no
\* file is left behind, but for two changes at once and for crashes.
AvatarFilesAgree ==
    /\ account.avatar # 0 => account.avatar \in files
    /\ (\A c \in calls : c.phase \notin {"read", "stored"}) /\ ~crossed /\ faults = 0 =>
           files = {account.avatar} \ {0}
=============================================================================
