------------------------------ MODULE StudyRunner ------------------------------
(***************************************************************************)
(* The study pages of the web client in the tabs of one learner: home,     *)
(* study (dashboard/study/page.tsx), the daily review form                 *)
(* (dashboard/daily/page.tsx), the profile page with the daily target      *)
(* (dashboard/profile/page.tsx) and the session page                       *)
(* (dashboard/study/session/page.tsx), against StudyQueue.                 *)
(*                                                                         *)
(* A request is served in one step.  It may fail before, after or without  *)
(* being served.  A page that is left keeps its promises: their            *)
(* continuations go on sending requests, and change nothing on the screen. *)
(***************************************************************************)
EXTENDS StudyQueue

CONSTANTS
    Tabs,
    NoItem,
    MasteredSets,  \* the sets of topics whose rollup may say mastered
    MaxTrouble     \* bound on transport failures, pages left with a request
                   \* under way, and the mishaps of StudyQueue

ASSUME RunnerAssumption == NoItem \notin Items /\ MaxTrouble \in Nat

VARIABLES
    page,     \* what each tab shows and remembers
    saved,    \* the learner's daily target, as the profile keeps it
    calls,    \* requests under way
    faults,   \* transport failures so far
    left      \* pages left with a request under way so far

vars == <<study, page, saved, calls, faults, left>>

NoReply == [session |-> 0, item |-> NoItem, kind |-> "none", count |-> 0]

\* The state of the session page when it is mounted.
FreshSession ==
    [phase |-> "loading", sid |-> 0, item |-> NoItem, selected |-> "none",
     config |-> [mode |-> "daily_review",
     topics |-> {}, exam |-> 0, byTime |-> FALSE]]

\* The tab's query cache (overview), the form of the daily page and the
\* session page.  overview is empty until its first fetch.  The form's selected
\* is null until it is given.
FreshPage ==
    [screen |-> "home", overview |-> <<>>, given |-> FALSE, sel |-> {},
     byTime |-> FALSE, run |-> FreshSession, failed |-> FALSE]

Init ==
    /\ StudyInit
    /\ page = [t \in Tabs |-> FreshPage]
    /\ saved = [topics |-> {}, byTime |-> FALSE]
    /\ calls = {}
    /\ faults = 0 /\ left = 0

-----------------------------------------------------------------------------
(* What is on the screen. *)

\* The page that sent the request is still there; its promise is not rejected.
Live(c) == c.gone = 0

Awaited(c) == c.lost = 0

Waiting(t) == {c \in calls : c.tab = t /\ Live(c) /\ Awaited(c)}

Pending(t, op) == \E c \in Waiting(t) : c.op = op

Run(t) == page[t].run

On(t, screen) == page[t].screen = screen

Categories(t) == DOMAIN page[t].overview

\* The study page: a button per category, disabled when there is no mode.
CategoryEnabled(t, u) ==
    /\ On(t, "study")
    /\ u \in Categories(t)
    /\ page[t].overview[u].mode # "none"

\* What the header counts as due.
HeaderDue(t) == {u \in Categories(t) : page[t].overview[u].due}

\* The entry to the daily review shows only once there are categories.
DailyEntryShown(t) == On(t, "study") /\ Categories(t) # {}

\* sel of the daily form: every category, whatever they become, until a choice
\* is given.  A choice keeps a category that has no card any more.
Chosen(t) == IF page[t].given THEN page[t].sel ELSE Categories(t)

\* The daily form: nothing chosen is not a choice.
DailyStartEnabled(t) == On(t, "daily") /\ Chosen(t) # {}

\* Only the numbers are compared.
AllSelected(t) ==
    Categories(t) # {} /\ Cardinality(Chosen(t)) = Cardinality(Categories(t))

\* What today's review would draw from the chosen categories, and leave out.
DailyDue(t) == HeaderDue(t) \cap Chosen(t)

DailyDueElsewhere(t) == HeaderDue(t) \ Chosen(t)

DailyNew(t) == {u \in Chosen(t) \cap Categories(t) : page[t].overview[u].new}

QuestionShown(t) ==
    On(t, "session") /\ Run(t).phase \in {"active", "feedback"}

OptionEnabled(t) == QuestionShown(t) /\ Run(t).phase = "active"

SkipEnabled(t) ==
    QuestionShown(t) /\ Run(t).phase = "active" /\ ~Pending(t, "answer")

SubmitEnabled(t) == SkipEnabled(t) /\ Run(t).selected # "none"

NextEnabled(t) ==
    /\ QuestionShown(t) /\ Run(t).phase = "feedback"
    /\ ~Pending(t, "next") /\ ~Pending(t, "finish")

ContextShown(t) == OptionEnabled(t)

CountdownShown(t) == QuestionShown(t) /\ Run(t).config.byTime

FeedbackShown(t) == QuestionShown(t) /\ Run(t).phase = "feedback"

DoneShown(t) == On(t, "session") /\ Run(t).phase = "done"

CaughtUpShown(t) == On(t, "session") /\ Run(t).phase = "caughtUp"

-----------------------------------------------------------------------------
(* Navigation, the overview and the daily form. *)

\* gone is the number of the departure that left the request behind, lost that
\* of the failure that rejected it before it was served; 0 is none.
Call(t, op, s, i, kind, config) ==
    [tab |-> t, op |-> op, session |-> s, item |-> i, kind |-> kind,
     config |-> config, gone |-> 0, lost |-> 0, served |-> FALSE,
     ok |-> FALSE, reply |-> NoReply]

Trouble == faults + left + Mishaps

\* The bound on sessions covers those asked for. After the last one the forms
\* with the target are left alone.
SessionLeft ==
    Len(sessions) + Cardinality({c \in calls : c.op = "start" /\ ~c.served})
        < MaxSessions

\* The calls of a page that is left.
Orphaned(t) ==
    {IF c \in Waiting(t) THEN [c EXCEPT !.gone = left + 1] ELSE c : c \in calls}

LeavePage(t) ==
    IF Waiting(t) = {} THEN UNCHANGED left
    ELSE Trouble < MaxTrouble /\ left' = left + 1

\* Whether the profile's topics are restored once there are categories, which
\* must have a card.
Restored(categories) == categories # {} /\ saved.topics # {}

Seed(categories) == IF Restored(categories) THEN saved.topics \cap categories ELSE {}

\* The sidebar, the links of home, the back button and the exits of a session
\* lead to a fresh page; the daily form is seeded from the profile.
Go(t, screen) ==
    /\ screen \in {"home", "study", "daily", "profile"}
    /\ ~On(t, screen)
    /\ screen = "profile" => SessionLeft
    /\ screen = "daily" => DailyEntryShown(t) \/ On(t, "home") \/ DoneShown(t)
                              \/ CaughtUpShown(t)
    /\ page' = [page EXCEPT ![t].screen = screen, ![t].run = FreshSession,
                            ![t].failed = FALSE,
                            ![t].byTime = screen \in {"daily", "profile"} /\ saved.byTime,
                            ![t].given = screen = "daily" /\ Restored(Categories(t)),
                            ![t].sel = IF screen = "daily" THEN Seed(Categories(t))
                                       ELSE {}]
    /\ calls' = Orphaned(t)
    /\ LeavePage(t)
    /\ UNCHANGED <<study, saved, faults>>

\* useStudyOverview, stale after 30 seconds: a page may still show the old one.
FetchOverview(t) ==
    /\ On(t, "study") \/ On(t, "daily") \/ On(t, "profile")
    /\ \E mastered \in MasteredSets :
          LET cards == Overview(mastered)
              first == On(t, "daily") /\ Categories(t) = {}
          IN  /\ cards # page[t].overview
              /\ page' = [page EXCEPT
                     ![t].overview = cards,
                     ![t].given = IF first THEN Restored(DOMAIN cards) ELSE @,
                     ![t].sel = IF first THEN Seed(DOMAIN cards) ELSE @]
    /\ UNCHANGED <<study, saved, calls, faults, left>>

ToggleTopic(t, u) ==
    /\ On(t, "daily") /\ u \in Categories(t) /\ SessionLeft
    /\ page' = [page EXCEPT ![t].given = TRUE,
                            ![t].sel = (Chosen(t) \cup {u}) \ (Chosen(t) \cap {u})]
    /\ UNCHANGED <<study, saved, calls, faults, left>>

ToggleAll(t) ==
    /\ On(t, "daily") /\ Categories(t) # {} /\ SessionLeft
    /\ page' = [page EXCEPT ![t].given = TRUE,
                            ![t].sel = IF AllSelected(t) THEN {} ELSE Categories(t)]
    /\ UNCHANGED <<study, saved, calls, faults, left>>

SetLimitType(t) ==
    /\ On(t, "daily") /\ Categories(t) # {} /\ SessionLeft
    /\ page' = [page EXCEPT ![t].byTime = ~@]
    /\ UNCHANGED <<study, saved, calls, faults, left>>

\* The daily target on the profile: what it limits can be saved once it differs.
SetTargetType(t) ==
    /\ On(t, "profile") /\ SessionLeft
    /\ page' = [page EXCEPT ![t].byTime = ~@]
    /\ UNCHANGED <<study, saved, calls, faults, left>>

TargetDirty(t) == On(t, "profile") /\ page[t].byTime # saved.byTime

SaveTarget(t) ==
    /\ TargetDirty(t)
    /\ \/ saved' = [saved EXCEPT !.byTime = page[t].byTime] /\ UNCHANGED faults
       \/ Trouble < MaxTrouble /\ faults' = faults + 1 /\ UNCHANGED saved
    /\ UNCHANGED <<study, page, calls, left>>

\* The session page is mounted with an intent, consumes it and starts.
EnterSession(t, config) ==
    /\ SessionLeft
    /\ page' = [page EXCEPT ![t].screen = "session", ![t].failed = FALSE,
                            ![t].given = FALSE, ![t].sel = {}, ![t].byTime = FALSE,
                            ![t].run = [FreshSession EXCEPT !.config = config]]
    /\ calls' = Orphaned(t) \cup {Call(t, "start", 0, NoItem, "none", config)}
    /\ UNCHANGED left

\* onStart of a category card.
StartCategory(t, u) ==
    /\ CategoryEnabled(t, u)
    /\ EnterSession(t, [mode |-> page[t].overview[u].mode, topics |-> {u},
                        exam |-> page[t].overview[u].exam, byTime |-> FALSE])
    /\ UNCHANGED <<study, saved, faults>>

\* start of the daily form: the configuration is saved on the way, best effort.
StartDaily(t) ==
    LET topics == IF AllSelected(t) THEN {} ELSE Chosen(t)
    IN  /\ DailyStartEnabled(t)
        /\ EnterSession(t, [mode |-> "daily_review", topics |-> topics,
                            exam |-> 0, byTime |-> page[t].byTime])
        /\ \/ saved' = [topics |-> topics, byTime |-> page[t].byTime]
              /\ UNCHANGED faults
           \/ Trouble < MaxTrouble /\ faults' = faults + 1 /\ UNCHANGED saved
        /\ UNCHANGED study

-----------------------------------------------------------------------------
(* The session page. *)

\* An option can be picked as long as no verdict is shown.
Select(t, kind) ==
    /\ OptionEnabled(t)
    /\ kind # "skip" /\ kind # Run(t).selected
    /\ page' = [page EXCEPT ![t].run.selected = kind]
    /\ UNCHANGED <<study, saved, calls, faults, left>>

OnSubmit(t, skip) ==
    /\ IF skip THEN SkipEnabled(t) ELSE SubmitEnabled(t)
    /\ calls' = calls \cup
           {Call(t, "answer", Run(t).sid, Run(t).item,
                 IF skip THEN "skip" ELSE Run(t).selected, Run(t).config)}
    /\ page' = [page EXCEPT ![t].failed = FALSE]
    /\ UNCHANGED <<study, saved, faults, left>>

\* advance, from the next button.
OnNext(t) ==
    /\ NextEnabled(t)
    /\ calls' = calls \cup
           {Call(t, "next", Run(t).sid, NoItem, "none", Run(t).config)}
    /\ page' = [page EXCEPT ![t].failed = FALSE]
    /\ UNCHANGED <<study, saved, faults, left>>

Replied(c, op) == c.op = op /\ Awaited(c) /\ c.served /\ c.ok

\* A continuation goes on whether or not its page is still there.
Continue(c, op, s) ==
    calls' = (calls \ {c}) \cup
        {[Call(c.tab, op, s, NoItem, "none", c.config) EXCEPT !.gone = c.gone]}

Show(c, run) == page' = IF Live(c) THEN [page EXCEPT ![c.tab].run = run] ELSE page

\* Mutant: the session is kept, and its first question not asked for.
StartRepliedStops(c) ==
    /\ Replied(c, "start")
    /\ calls' = calls \ {c}
    /\ Show(c, [Run(c.tab) EXCEPT !.sid = c.reply.session])
    /\ UNCHANGED <<study, saved, faults, left>>

StartReplied(c) ==
    /\ Replied(c, "start")
    /\ Continue(c, "next", c.reply.session)
    /\ Show(c, [Run(c.tab) EXCEPT !.sid = c.reply.session])
    /\ UNCHANGED <<study, saved, faults, left>>

NextReplied(c) ==
    /\ Replied(c, "next")
    /\ IF c.reply.item = NoItem
       THEN Continue(c, "finish", c.session) /\ UNCHANGED page
       ELSE /\ calls' = calls \ {c}
            /\ Show(c, [Run(c.tab) EXCEPT !.item = c.reply.item,
                            !.selected = "none", !.phase = "active"])
    /\ UNCHANGED <<study, saved, faults, left>>

AnswerReplied(c) ==
    /\ Replied(c, "answer")
    /\ calls' = calls \ {c}
    /\ Show(c, [Run(c.tab) EXCEPT !.phase = "feedback"])
    /\ UNCHANGED <<study, saved, faults, left>>

\* Mutant: a session without answers has nothing to show.
FinishRepliedScored(c) ==
    /\ Replied(c, "finish")
    /\ calls' = calls \ {c}
    /\ Show(c, [Run(c.tab) EXCEPT !.phase =
                    IF c.reply.count > 0 THEN "done"
                    ELSE IF c.config.mode = "review" THEN @ ELSE "caughtUp"])
    /\ UNCHANGED <<study, saved, faults, left>>

\* A daily review that delivered nothing is not a score of 0 %.
FinishReplied(c) ==
    /\ Replied(c, "finish")
    /\ calls' = calls \ {c}
    /\ Show(c, [Run(c.tab) EXCEPT !.phase =
                    IF c.config.mode = "daily_review" /\ c.reply.count = 0
                    THEN "caughtUp" ELSE "done"])
    /\ UNCHANGED <<study, saved, faults, left>>

\* Nothing catches a rejected mutation: the page stays as it is.
CallFails(c) ==
    /\ Awaited(c)
    /\ \/ c.served /\ ~c.ok /\ UNCHANGED faults
       \/ Trouble < MaxTrouble /\ faults' = faults + 1
    /\ calls' = (calls \ {c})
                  \cup {d \in {[c EXCEPT !.lost = faults + 1]} : ~c.served}
    /\ page' = IF Live(c) THEN [page EXCEPT ![c.tab].failed = TRUE] ELSE page
    /\ UNCHANGED <<study, saved, left>>

-----------------------------------------------------------------------------
(* The server. *)

Answered(c, ok, reply) ==
    calls' = (calls \ {c}) \cup
        {d \in {[c EXCEPT !.served = TRUE, !.ok = ok, !.reply = reply]} : Awaited(c)}

ServeStart(c) ==
    /\ c.op = "start"
    /\ StartSession(c.config)
    /\ Answered(c, TRUE, [NoReply EXCEPT !.session = Len(sessions) + 1])

ServeNext(c) ==
    /\ c.op = "next"
    /\ IF ~Open(c.session) THEN Answered(c, FALSE, NoReply)
       ELSE IF Servable(c.session) = {} THEN Answered(c, TRUE, NoReply)
       ELSE \E i \in Servable(c.session) :
                Answered(c, TRUE, [NoReply EXCEPT !.item = i])
    /\ UNCHANGED study

ServeAnswer(c) ==
    /\ c.op = "answer"
    /\ IF Open(c.session) /\ c.item \in active
       THEN /\ Answer(c.session, c.item, c.kind)
            /\ Answered(c, TRUE, [NoReply EXCEPT !.kind = c.kind])
       ELSE Answered(c, FALSE, NoReply) /\ UNCHANGED study

ServeFinish(c) ==
    /\ c.op = "finish"
    /\ FinishSession(c.session)
    /\ Answered(c, TRUE, [NoReply EXCEPT !.count = Delivered(c.session)])

Serve(c) ==
    /\ ~c.served
    /\ ServeStart(c) \/ ServeNext(c) \/ ServeAnswer(c) \/ ServeFinish(c)
    /\ UNCHANGED <<page, saved, faults, left>>

\* A request that was seen to fail never reached the server.
Lost(c) ==
    /\ ~c.served /\ ~Awaited(c)
    /\ calls' = calls \ {c}
    /\ UNCHANGED <<study, page, saved, faults, left>>

-----------------------------------------------------------------------------
Reply(c) ==
    \/ StartReplied(c) \/ NextReplied(c) \/ AnswerReplied(c)
    \/ FinishReplied(c) \/ CallFails(c)

User(t) ==
    \/ \E screen \in {"home", "study", "daily", "profile"} : Go(t, screen)
    \/ FetchOverview(t) \/ ToggleAll(t) \/ SetLimitType(t) \/ StartDaily(t)
    \/ SetTargetType(t) \/ SaveTarget(t)
    \/ \E u \in Topics : ToggleTopic(t, u) \/ StartCategory(t, u)
    \/ \E kind \in Kinds : Select(t, kind)
    \/ \E skip \in BOOLEAN : OnSubmit(t, skip)
    \/ OnNext(t)

Next ==
    \/ \E t \in Tabs : User(t)
    \/ \E c \in calls : Reply(c) \/ Serve(c) \/ Lost(c)
    \/ /\ Passing
       /\ faults + left + Mishaps' <= MaxTrouble
       /\ UNCHANGED <<page, saved, calls, faults, left>>

\* The server answers what reaches it, and what it answered arrives or fails.
Fairness ==
    /\ WF_vars(\E c \in calls : Serve(c))
    /\ WF_vars(\E c \in calls : Reply(c))

Spec == Init /\ [][Next]_vars /\ Fairness

-----------------------------------------------------------------------------
(* Properties. *)

\* Types of the tables, of the pages and of the requests under way.
TypeOK ==
    /\ card \in [Items -> {"new", "due", "later"}]
    /\ {dueOrder[k] : k \in DOMAIN dueOrder} = {i \in Items : card[i] = "due"}
    /\ introduced \in 0 .. Cardinality(Items)
    /\ day \in 0 .. MaxMishaps
    /\ active \subseteq Items /\ scored \subseteq Items
    /\ \A s \in DOMAIN sessions :
          /\ sessions[s].config \in ConfigType
          /\ sessions[s].status \in {"in_progress", "completed"}
          /\ AnsweredIn(s) \subseteq scored
    /\ \A t \in Tabs :
          /\ Categories(t) \subseteq Topics /\ page[t].sel \subseteq Topics
          /\ Run(t).sid \in 0 .. Len(sessions)
          /\ Run(t).item \in Items \cup {NoItem}
          /\ QuestionShown(t) => Run(t).item # NoItem
    /\ saved \in [topics : SUBSET Topics, byTime : BOOLEAN]
    /\ faults \in 0 .. MaxTrouble

\* The new cards of a day overshoot the learner's cap only by cards that other
\* sessions had in hand, or whose answer seemed to fail: never by more than the
\* number of sessions, less one, and of failures.
BudgetOvershoot ==
    introduced > NewCap => introduced <= NewCap + Len(sessions) - 1 + faults

\* A session records an item twice only if an answer to it seemed to fail and
\* was given again.
RepeatNeedsFault ==
    \A s \in DOMAIN sessions :
        Delivered(s) - Cardinality(AnsweredIn(s)) <= faults

\* A daily review by count stops at its target; an answer that was recorded
\* although it seemed to fail is the only way past it.
DailyWithinTarget ==
    \A s \in DOMAIN sessions :
        sessions[s].config.mode = "daily_review" /\ ~sessions[s].config.byTime
            => Delivered(s) <= Target + faults

\* A tab whose session the server has completed shows its end, is about to, or
\* has seen a request fail: no next button leads nowhere for no reason.
DeadEndNeedsFault ==
    \A t \in Tabs :
        On(t, "session") /\ Run(t).sid # 0 /\ ~Open(Run(t).sid)
            => \/ DoneShown(t) \/ CaughtUpShown(t)
               \/ Pending(t, "finish") \/ faults > 0

\* The loading screen of a session ends by itself or a request failed.
LoadingEnds ==
    \A t \in Tabs :
        (On(t, "session") /\ Run(t).phase = "loading")
            ~> (~On(t, "session") \/ Run(t).phase # "loading" \/ page[t].failed)
=============================================================================
