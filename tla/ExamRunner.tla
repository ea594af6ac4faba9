------------------------------ MODULE ExamRunner ------------------------------
(***************************************************************************)
(* The exam page of the web client, frontend/app/(dashboard)/dashboard/    *)
(* practice/page.tsx, in one tab, against the practice API.                *)
(*                                                                         *)
(* An answer, a batch or the finish of a session is served in two steps:   *)
(* the transaction loads the session's row, later it commits what it made  *)
(* of that row, all at once or not at all.  The page lets several of them  *)
(* overlap.  A request can be slow, overtaken, or lost: the page may see   *)
(* it fail before, after or without the server serving it.  A reply finds  *)
(* the page as it then is, which may be showing another exam.              *)
(*                                                                         *)
(* An option is a letter; a graded answer is the response row the server   *)
(* wrote for it, of which the page keeps the verdict; via is the endpoint. *)
(***************************************************************************)
EXTENDS Naturals, Sequences, FiniteSets

CONSTANTS
    Items,
    Options,       \* option letters
    OptionsOf,     \* the options of each item
    NoOption,      \* null: left blank
    Key,           \* the correct option of each item
    Scopes,        \* the papers a setup screen can ask for, as sequences
    Flaggable,     \* the items the learner may flag
    MaxBatch,      \* the longest batch of answers the API takes
    MaxSessions,   \* bound on exams started
    MaxAnswers,    \* bound on feedback-mode clicks that send an answer
    MaxTrouble     \* bound on transport failures, reloads, author edits and
                   \* exams after the first, taken together

ASSUME ExamAssumption ==
    /\ NoOption \notin Options
    /\ OptionsOf \in [Items -> SUBSET Options]
    /\ \A i \in Items : Key[i] \in OptionsOf[i]
    /\ Flaggable \subseteq Items
    /\ \A p \in Scopes : p \in Seq(Items)
    /\ {MaxBatch, MaxSessions, MaxAnswers, MaxTrouble} \subseteq Nat

VARIABLES
    phase,       \* setup, loading, ready, exam or results
    feedback,    \* feedbackMode
    sessionId,   \* 0 for the empty string
    items,       \* the paper: a sequence of [item, version]
    answers,     \* the option marked for each item
    flagged,
    results,     \* the response rows shown as verdicts, by item
    current,     \* index of the question shown, from 1
    summary,     \* the score report, and whether it is there
    showReview,
    submittedIds,
    lastSubmit,  \* the answer request useSubmitAnswer still watches
    failed,      \* the steps of the start and submit chains that failed
    calls,       \* requests under way
    clicks,      \* answer requests sent so far
    faults,      \* transport failures and reloads so far
    sessions,    \* practice_sessions: a sequence of [status, scope, count, scored],
                 \* its counters by kind and those its net score is made from
    responses,   \* rows [id, via, session, item, kind]
    raced,       \* history: the sessions two requests were served in at once
    version,     \* the current version of each item, 0 once deleted
    edits

exam   == <<sessionId, items, answers, flagged, results, current, summary,
            showReview, submittedIds>>
page   == <<phase, feedback, exam, lastSubmit, failed>>
server == <<sessions, responses, raced>>
bank   == <<version, edits>>
wire   == <<calls, clicks, faults>>
vars   == <<page, wire, server, bank>>

Marks == Options \cup {NoOption}

PaperItems == {items[k].item : k \in DOMAIN items}

Kinds == {"correct", "wrong", "skip"}

Zero == [k \in Kinds |-> 0]

Tally(rows) == [k \in Kinds |-> Cardinality({r \in rows : r.kind = k})]

NoReport == [count |-> Zero, scored |-> Zero]

NoSummary == [there |-> FALSE, report |-> NoReport]

NoReply == [session |-> 0, items |-> <<>>, rows |-> {}, report |-> NoReport]

-----------------------------------------------------------------------------
(* What is on the screen. *)

\* The calls whose reply the page still waits for.
Waiting == {c \in calls : c.live /\ c.pending}

\* busy: the start button says so and is disabled.
Busy == \E c \in Waiting : c.op \in {"start", "paper"}

\* submit.isPending: only the latest answer counts for the hook.
SubmitPending == \E c \in Waiting : c.op = "answer" /\ c.n = lastSubmit

StartEnabled == phase = "setup" /\ ~Busy

CoverSheetShown == phase = "ready"

\* {phase === "exam" && item && ...}: no question, nothing at all.
RunnerShown == phase = "exam" /\ current \in DOMAIN items

OptionEnabled(i) ==
    RunnerShown /\ i = items[current].item /\ i \notin DOMAIN results

PrevEnabled == RunnerShown /\ current # 1

NextEnabled == RunnerShown /\ current # Len(items)

\* The answer sheet lists every question, and its bubbles are never disabled;
\* the review dialog shows a second copy of it.
SheetBubble(k) == RunnerShown /\ k \in DOMAIN items

ReviewShown == RunnerShown /\ showReview

SubmitEnabled == ReviewShown /\ ~SubmitPending

ReviewCounts ==
    LET answered == {i \in PaperItems : answers[i] # NoOption}
    IN  [answered |-> Cardinality(answered),
         blank |-> Len(items) - Cardinality(answered),
         flagged |-> Cardinality(flagged)]

ReportShown == phase = "results" /\ summary.there

\* The figures of the score report: the counters of the session's row.
ReportCounts == summary.report.count

\* The tone of a cell of the report's grid: what the page remembers.
Tone(i) == IF i \in DOMAIN results THEN results[i].kind ELSE "none"

\* Some control the learner can use is on the screen.
WayOut == StartEnabled \/ CoverSheetShown \/ RunnerShown \/ ReportShown

-----------------------------------------------------------------------------
(* The page. *)

\* Mutant: reset() forgets the flags.
FreshExamKeepingFlags ==
    /\ items' = <<>> /\ answers' = [i \in Items |-> NoOption]
    /\ UNCHANGED flagged
    /\ results' = <<>> /\ summary' = NoSummary /\ sessionId' = 0
    /\ submittedIds' = {} /\ current' = 1 /\ showReview' = FALSE

FreshExam ==
    /\ items' = <<>>
    /\ answers' = [i \in Items |-> NoOption]
    /\ flagged' = {}
    /\ results' = <<>>
    /\ summary' = NoSummary
    /\ sessionId' = 0
    /\ submittedIds' = {}
    /\ current' = 1
    /\ showReview' = FALSE

Init ==
    /\ phase = "setup" /\ feedback = FALSE /\ sessionId = 0 /\ items = <<>>
    /\ answers = [i \in Items |-> NoOption] /\ flagged = {} /\ results = <<>>
    /\ current = 1 /\ summary = NoSummary /\ showReview = FALSE
    /\ submittedIds = {} /\ lastSubmit = 0 /\ failed = {}
    /\ calls = {} /\ clicks = 0 /\ faults = 0
    /\ sessions = <<>> /\ responses = {} /\ raced = {}
    /\ version = [i \in Items |-> 1] /\ edits = 0

\* Exams started, and the troubles a behaviour has had.
Started == Len(sessions) + Cardinality({c \in calls : c.op = "start" /\ ~c.served})

Trouble == faults + edits + (IF Started > 1 THEN Started - 1 ELSE 0)

\* A mutation is started: its hook forgets the error of its last run.
\* body maps items to the [version, mark] sent for them, kept is the copy of
\* results a batch goes with.  loaded: its transaction has read the session's
\* row, with the counters seen.
Call(op, s, scope, body) ==
    [n |-> IF op = "answer" THEN clicks + 1 ELSE 0, op |-> op, session |-> s,
     scope |-> scope, body |-> body, kept |-> IF op = "bulk" THEN results ELSE <<>>,
     live |-> TRUE, pending |-> TRUE, loaded |-> FALSE, seen |-> Zero,
     served |-> FALSE, ok |-> FALSE, reply |-> NoReply]

\* done: the call whose reply this one follows.
Send(done, op, s, scope, body) ==
    /\ calls' = (calls \ done) \cup {Call(op, s, scope, body)}
    /\ clicks' = IF op = "answer" THEN clicks + 1 ELSE clicks
    /\ failed' = failed \ {op}

\* The feedback switch stays usable while the start request is under way.
ToggleFeedback ==
    /\ phase = "setup"
    /\ feedback' = ~feedback
    /\ UNCHANGED <<phase, exam, lastSubmit, failed, wire, server, bank>>

OnStart(scope) ==
    /\ StartEnabled
    /\ Started < MaxSessions
    /\ Started > 0 => Trouble < MaxTrouble
    /\ Send({}, "start", 0, scope, <<>>)
    /\ UNCHANGED <<phase, feedback, exam, lastSubmit, faults, server, bank>>

\* useSubmitAnswer in feedback mode, or a local mark that a second click clears.
Choose(k, o) ==
    LET q == items[k]
        i == q.item
    IN  /\ i \notin DOMAIN results
        /\ o \in OptionsOf[i]
        /\ IF feedback
           THEN /\ clicks < MaxAnswers
                /\ answers' = [answers EXCEPT ![i] = o]
                /\ Send({}, "answer", sessionId, <<>>,
                        [j \in {i} |-> [version |-> q.version, mark |-> o]])
                /\ lastSubmit' = clicks + 1
           ELSE /\ answers' =
                     [answers EXCEPT ![i] = IF @ = o THEN NoOption ELSE o]
                /\ UNCHANGED <<calls, clicks, failed, lastSubmit>>

\* A click on an option of the question shown, or its key; no key while the
\* review is open.
ClickOption(o) ==
    /\ RunnerShown
    /\ OptionEnabled(items[current].item)
    /\ ~showReview
    /\ Choose(current, o)
    /\ UNCHANGED <<phase, feedback, sessionId, items, flagged, results, current,
                   summary, showReview, submittedIds, faults, server, bank>>

\* A bubble of the answer sheet also turns to its page.
PickAt(k, o) ==
    /\ SheetBubble(k)
    /\ Choose(k, o)
    /\ current' = k
    /\ UNCHANGED <<phase, feedback, sessionId, items, flagged, results, summary,
                   showReview, submittedIds, faults, server, bank>>

\* pickAt on a locked question: only the page turns.
PickLocked(k) ==
    /\ SheetBubble(k)
    /\ items[k].item \in DOMAIN results
    /\ current' = k
    /\ UNCHANGED <<phase, feedback, sessionId, items, answers, flagged, results,
                   summary, showReview, submittedIds, lastSubmit, failed, wire,
                   server, bank>>

\* The page controls, the arrow keys, a number of the answer sheet.
Turn ==
    /\ ~showReview
    /\ \/ NextEnabled /\ current' = current + 1
       \/ PrevEnabled /\ current' = current - 1
       \/ \E k \in DOMAIN items : SheetBubble(k) /\ current' = k
    /\ UNCHANGED <<phase, feedback, sessionId, items, answers, flagged, results,
                   summary, showReview, submittedIds, lastSubmit, failed, wire,
                   server, bank>>

ToggleFlag ==
    /\ RunnerShown /\ ~showReview
    /\ LET i == items[current].item
       IN  /\ i \in Flaggable
           /\ flagged' = (flagged \cup {i}) \ (flagged \cap {i})
    /\ UNCHANGED <<phase, feedback, sessionId, items, answers, results, current,
                   summary, showReview, submittedIds, lastSubmit, failed, wire,
                   server, bank>>

\* The submit button and the mobile button open the review, keep working and
\* the numbers of its sheet close it.
Review ==
    /\ RunnerShown
    /\ showReview' = ~showReview
    /\ IF showReview THEN current' \in DOMAIN items ELSE UNCHANGED current
    /\ UNCHANGED <<phase, feedback, sessionId, items, answers, flagged, results,
                   summary, submittedIds, lastSubmit, failed, wire, server, bank>>

Begin ==
    /\ CoverSheetShown
    /\ phase' = "exam"
    /\ UNCHANGED <<feedback, exam, lastSubmit, failed, wire, server, bank>>

\* Mutant: blanks are not sent.
PendingMarked ==
    LET asked == {k \in DOMAIN items : /\ items[k].item \notin submittedIds
                                       /\ answers[items[k].item] # NoOption}
    IN  [i \in {items[k].item : k \in asked} |->
            [version |-> (CHOOSE q \in {items[k] : k \in asked} : q.item = i).version,
             mark |-> answers[i]]]

\* What onSubmitExam sends: each question the page does not know graded, with
\* the mark it has, blank or not.
Pending ==
    LET asked == {k \in DOMAIN items : items[k].item \notin submittedIds}
    IN  [i \in {items[k].item : k \in asked} |->
            [version |-> (CHOOSE q \in {items[k] : k \in asked} : q.item = i).version,
             mark |-> answers[i]]]

OnSubmitExam ==
    /\ SubmitEnabled
    /\ showReview' = FALSE
    /\ phase' = "loading"
    /\ IF DOMAIN Pending = {}
       THEN Send({}, "finish", sessionId, <<>>, <<>>)
       ELSE Send({}, "bulk", sessionId, <<>>, Pending)
    /\ UNCHANGED <<feedback, sessionId, items, answers, flagged, results, current,
                   summary, submittedIds, lastSubmit, faults, server, bank>>

\* The cross of the runner, once confirmed, and "new exam" of the report.
Reset ==
    /\ (RunnerShown /\ ~showReview) \/ ReportShown
    /\ phase' = "setup"
    /\ FreshExam
    /\ UNCHANGED <<feedback, lastSubmit, failed, wire, server, bank>>

\* The tab is reloaded: nothing is kept, and the replies still under way have
\* nobody to go to.
Leave ==
    /\ phase # "setup" \/ Busy
    /\ Trouble < MaxTrouble
    /\ faults' = faults + 1
    /\ phase' = "setup"
    /\ feedback' = FALSE
    /\ FreshExam
    /\ lastSubmit' = 0
    /\ failed' = {}
    /\ calls' = {[c EXCEPT !.live = FALSE, !.pending = FALSE] :
                    c \in {d \in calls : ~d.served}}
    /\ UNCHANGED <<clicks, server, bank>>

-----------------------------------------------------------------------------
(* Replies. *)

Replied(c, op) == c \in Waiting /\ c.served /\ c.ok /\ c.op = op

StartReplied(c) ==
    /\ Replied(c, "start")
    /\ sessionId' = c.reply.session
    /\ phase' = "loading"
    /\ Send({c}, "paper", c.reply.session, <<>>, <<>>)
    /\ UNCHANGED <<feedback, items, answers, flagged, results, current, summary,
                   showReview, submittedIds, lastSubmit, faults, server, bank>>

\* Mutant: an empty paper leaves the page loading.
PaperRepliedOrNot(c) ==
    /\ Replied(c, "paper")
    /\ items' = c.reply.items
    /\ answers' = [i \in Items |-> NoOption]
    /\ flagged' = {} /\ results' = <<>> /\ submittedIds' = {} /\ current' = 1
    /\ phase' = IF c.reply.items # <<>> THEN "ready" ELSE phase
    /\ calls' = calls \ {c}
    /\ UNCHANGED <<feedback, sessionId, summary, showReview, lastSubmit, failed,
                   clicks, faults, server, bank>>

PaperReplied(c) ==
    /\ Replied(c, "paper")
    /\ items' = c.reply.items
    /\ answers' = [i \in Items |-> NoOption]
    /\ flagged' = {}
    /\ results' = <<>>
    /\ submittedIds' = {}
    /\ current' = 1
    /\ phase' = IF c.reply.items # <<>> THEN "ready" ELSE "exam"
    /\ calls' = calls \ {c}
    /\ UNCHANGED <<feedback, sessionId, summary, showReview, lastSubmit, failed,
                   clicks, faults, server, bank>>

\* Verdicts overwrite those in base.
Graded(base, rows) ==
    [i \in DOMAIN base \cup {r.item : r \in rows} |->
        IF \E r \in rows : r.item = i
        THEN CHOOSE r \in rows : r.item = i
        ELSE base[i]]

\* Mutant: the verdict is shown, the ref is not told.
AnswerRepliedShown(c) ==
    /\ Replied(c, "answer")
    /\ results' = Graded(results, c.reply.rows)
    /\ calls' = calls \ {c}
    /\ UNCHANGED <<phase, feedback, sessionId, items, answers, flagged, current,
                   summary, showReview, submittedIds, lastSubmit, failed, clicks,
                   faults, server, bank>>

\* The continuation of choose: it asks neither which exam nor which phase the
\* page is in by now.
AnswerReplied(c) ==
    /\ Replied(c, "answer")
    /\ submittedIds' = submittedIds \cup {r.item : r \in c.reply.rows}
    /\ results' = Graded(results, c.reply.rows)
    /\ calls' = calls \ {c}
    /\ UNCHANGED <<phase, feedback, sessionId, items, answers, flagged, current,
                   summary, showReview, lastSubmit, failed, clicks, faults, server,
                   bank>>

\* Mutant: an exam handed in blank is not finished.
BulkRepliedUnlessBlank(c) ==
    /\ Replied(c, "bulk")
    /\ submittedIds' = submittedIds \cup {r.item : r \in c.reply.rows}
    /\ results' = Graded(c.kept, c.reply.rows)
    /\ IF \A r \in c.reply.rows : r.kind = "skip"
       THEN calls' = calls \ {c} /\ UNCHANGED <<clicks, failed>>
       ELSE Send({c}, "finish", c.session, <<>>, <<>>)
    /\ UNCHANGED <<phase, feedback, sessionId, items, answers, flagged, current,
                   summary, showReview, lastSubmit, faults, server, bank>>

\* The results are those of the hand-in with the batch's verdicts; one that came
\* in between is gone from them.
BulkReplied(c) ==
    /\ Replied(c, "bulk")
    /\ submittedIds' = submittedIds \cup {r.item : r \in c.reply.rows}
    /\ results' = Graded(c.kept, c.reply.rows)
    /\ Send({c}, "finish", c.session, <<>>, <<>>)
    /\ UNCHANGED <<phase, feedback, sessionId, items, answers, flagged, current,
                   summary, showReview, lastSubmit, faults, server, bank>>

FinishReplied(c) ==
    /\ Replied(c, "finish")
    /\ summary' = [there |-> TRUE, report |-> c.reply.report]
    /\ phase' = "results"
    /\ calls' = calls \ {c}
    /\ UNCHANGED <<feedback, sessionId, items, answers, flagged, results, current,
                   showReview, submittedIds, lastSubmit, failed, clicks, faults,
                   server, bank>>

\* Mutant: a batch that fails is handed back for another try.
CallFailsBack(c) ==
    /\ c \in Waiting
    /\ \/ c.served /\ ~c.ok /\ UNCHANGED faults
       \/ Trouble < MaxTrouble /\ faults' = faults + 1
    /\ calls' = (calls \ {c})
                  \cup {d \in {[c EXCEPT !.pending = FALSE]} : ~c.served}
    /\ failed' = failed
    /\ phase' = IF c.op = "bulk" THEN "exam" ELSE phase
    /\ UNCHANGED <<feedback, exam, lastSubmit, clicks, server, bank>>

\* mutateAsync rejects and nothing catches it: the page stays as it is.
CallFails(c) ==
    /\ c \in Waiting
    /\ \/ c.served /\ ~c.ok /\ UNCHANGED faults
       \/ Trouble < MaxTrouble /\ faults' = faults + 1
    /\ calls' = (calls \ {c})
                  \cup {d \in {[c EXCEPT !.pending = FALSE]} : ~c.served}
    /\ failed' = IF c.op = "answer" THEN failed ELSE failed \cup {c.op}
    /\ UNCHANGED <<phase, feedback, exam, lastSubmit, clicks, server, bank>>

-----------------------------------------------------------------------------
(* The server, and the authors. *)

Live(i) == version[i] > 0

\* The questions of the scope that are still there, as they now read.
Draw(scope) ==
    LET kept[n \in 0 .. Len(scope)] ==
            IF n = 0 THEN <<>>
            ELSE IF Live(scope[n])
            THEN Append(kept[n - 1],
                        [item |-> scope[n], version |-> version[scope[n]]])
            ELSE kept[n - 1]
    IN  kept[Len(scope)]

Kind(i, mark) ==
    IF mark = NoOption THEN "skip"
    ELSE IF mark = Key[i] THEN "correct" ELSE "wrong"

\* A deleted item is not found; a revised one has other options than the page
\* shows, and only a blank fits.
Gradable(body) ==
    /\ Cardinality(DOMAIN body) <= MaxBatch
    /\ \A i \in DOMAIN body :
          /\ Live(i)
          /\ body[i].mark # NoOption => body[i].version = version[i]

Rows(c) ==
    {[id |-> Cardinality({r.id : r \in responses}) + 1, via |-> c.op,
      session |-> c.session, item |-> i, kind |-> Kind(i, c.body[i].mark)] :
        i \in DOMAIN c.body}

Open(s) == sessions[s].status = "in_progress"

\* A call the page gave up is served all the same; its reply goes nowhere.
Answered(c, ok, reply) ==
    calls' = (calls \ {c}) \cup
        {d \in {[c EXCEPT !.loaded = FALSE, !.seen = Zero, !.served = TRUE,
                          !.ok = ok, !.reply = reply]} : c.pending}

ServeStart(c) ==
    /\ c.op = "start"
    /\ sessions' = Append(sessions, [status |-> "in_progress", scope |-> c.scope,
                                     count |-> Zero, scored |-> Zero])
    /\ Answered(c, TRUE, [NoReply EXCEPT !.session = Len(sessions) + 1])
    /\ UNCHANGED <<responses, raced>>

ServePaper(c) ==
    /\ c.op = "paper"
    /\ Answered(c, Open(c.session),
                [NoReply EXCEPT !.items = Draw(sessions[c.session].scope)])
    /\ UNCHANGED server

\* _load_session: the counters are read without a lock.
Load(c) ==
    /\ calls' = (calls \ {c}) \cup
                  {[c EXCEPT !.loaded = TRUE, !.seen = sessions[c.session].count]}
    /\ raced' = raced \cup {d.session : d \in {b \in calls : /\ b.loaded
                                                          /\ b.session = c.session}}
    /\ UNCHANGED <<sessions, responses>>

\* The status and the questions are looked at here, and not again.
LoadAnswers(c) ==
    /\ c.op \in {"answer", "bulk"} /\ ~c.loaded
    /\ IF Open(c.session) /\ Gradable(c.body)
       THEN Load(c)
       ELSE Answered(c, FALSE, NoReply) /\ UNCHANGED server

\* Mutant: the loop of a batch adds each answer to the counters of the load.
CountedOnce(c) ==
    [k \in Kinds |-> c.seen[k] + (IF Tally(Rows(c))[k] = 0 THEN 0 ELSE 1)]

\* The counters are written back as values, not as increments.
Counted(c) == [k \in Kinds |-> c.seen[k] + Tally(Rows(c))[k]]

CommitAnswers(c) ==
    /\ c.op \in {"answer", "bulk"} /\ c.loaded
    /\ responses' = responses \cup Rows(c)
    /\ sessions' = [sessions EXCEPT ![c.session].count = Counted(c)]
    /\ Answered(c, TRUE, [NoReply EXCEPT !.rows = Rows(c)])
    /\ UNCHANGED raced

Report(s, scored) == [count |-> sessions[s].count, scored |-> scored]

\* Finishing twice returns the first report again.
LoadFinish(c) ==
    /\ c.op = "finish" /\ ~c.loaded
    /\ IF Open(c.session)
       THEN Load(c)
       ELSE /\ Answered(c, TRUE, [NoReply EXCEPT !.report =
                                     Report(c.session, sessions[c.session].scored)])
            /\ UNCHANGED server

\* The net score is made from the counters read before, the report shows those
\* of the row refreshed after the commit.
CommitFinish(c) ==
    /\ c.op = "finish" /\ c.loaded
    /\ sessions' = [sessions EXCEPT ![c.session].status = "completed",
                                    ![c.session].scored = c.seen]
    /\ Answered(c, TRUE, [NoReply EXCEPT !.report = Report(c.session, c.seen)])
    /\ UNCHANGED <<responses, raced>>

Serve(c) ==
    /\ ~c.served
    /\ \/ ServeStart(c) \/ ServePaper(c)
       \/ LoadAnswers(c) \/ CommitAnswers(c)
       \/ LoadFinish(c) \/ CommitFinish(c)
    /\ UNCHANGED <<page, clicks, faults, bank>>

\* The request the page saw fail never reached the server, or was rolled back.
Lost(c) ==
    /\ ~c.served /\ ~c.pending
    /\ calls' = calls \ {c}
    /\ UNCHANGED <<page, clicks, faults, server, bank>>

Edit(i) ==
    /\ Trouble < MaxTrouble /\ Live(i)
    /\ \/ version' = [version EXCEPT ![i] = @ + 1]
       \/ version' = [version EXCEPT ![i] = 0]
    /\ edits' = edits + 1
    /\ UNCHANGED <<page, wire, server>>

-----------------------------------------------------------------------------
Reply(c) ==
    \/ StartReplied(c) \/ PaperReplied(c) \/ AnswerReplied(c)
    \/ BulkReplied(c) \/ FinishReplied(c) \/ CallFails(c)

User ==
    \/ ToggleFeedback \/ Turn \/ ToggleFlag \/ Review \/ Begin
    \/ OnSubmitExam \/ Reset \/ Leave
    \/ \E scope \in Scopes : OnStart(scope)
    \/ \E o \in Options : ClickOption(o)
    \/ \E k \in DOMAIN items : PickLocked(k) \/ \E o \in Options : PickAt(k, o)

Next ==
    \/ User
    \/ \E c \in calls : Reply(c) \/ Serve(c) \/ Lost(c)
    \/ \E i \in Items : Edit(i)

\* The server answers what reaches it, and what it answered arrives or fails.
\* Nothing is assumed of the learner.
Fairness ==
    /\ WF_vars(\E c \in calls : Serve(c))
    /\ WF_vars(\E c \in calls : Reply(c))

Spec == Init /\ [][Next]_vars /\ Fairness

-----------------------------------------------------------------------------
(* Properties. *)

RowType ==
    [id : Nat \ {0}, via : {"answer", "bulk"}, session : 1 .. MaxSessions,
     item : Items, kind : Kinds]

\* Types of the page state, of the requests under way and of the tables.
TypeOK ==
    /\ phase \in {"setup", "loading", "ready", "exam", "results"}
    /\ {feedback, showReview} \subseteq BOOLEAN
    /\ sessionId \in 0 .. Len(sessions)
    /\ items \in Seq([item : Items, version : Nat \ {0}])
    /\ answers \in [Items -> Marks]
    /\ flagged \subseteq PaperItems \cap Flaggable
    /\ DOMAIN results \subseteq Items
    /\ \A i \in DOMAIN results : results[i] \in responses /\ results[i].item = i
    /\ current \in 1 .. (Len(items) + 1)
    /\ summary.report \in [count : [Kinds -> Nat], scored : [Kinds -> Nat]]
    /\ submittedIds \subseteq Items
    /\ failed \subseteq {"start", "paper", "bulk", "finish"}
    /\ \A c \in calls : c.session \in 0 .. Len(sessions) /\ c.n <= clicks
    /\ responses \subseteq RowType
    /\ raced \subseteq DOMAIN sessions
    /\ version \in [Items -> 0 .. MaxTrouble + 1]

\* However the batch and the finish of an exam fail or are delayed, no question
\* of a session is written twice by batches: onSubmitExam runs once a session.
OneBatch ==
    \A r, q \in responses :
        r.via = "bulk" /\ q.via = "bulk" /\ r.session = q.session
            /\ r.item = q.item => r = q

\* The ref that decides what the batch sends and the state that locks a
\* question never disagree while the learner can act on them, whatever replies
\* arrive and whichever exam they belong to.
RefMatchesState == phase = "exam" => submittedIds = DOMAIN results

\* When the report is up, each question of the paper has a response on the
\* server: nothing the learner marked or left blank is only in the page.
NothingOnlyOnPaper ==
    ReportShown =>
        \A i \in PaperItems :
            \E r \in responses :
                r.item = i /\ (r.session = sessionId \/ r.via = "answer")

RowsOf(s) == {r \in responses : r.session = s}

\* A question with one response in the session has the tone of that response,
\* unless the verdict shown is of an earlier exam.  The report never counts an
\* answer the session has not; its counters are all of the session's answers,
\* and its net score is theirs, unless two requests of the session were served
\* at once, as practice/page.tsx lets them be.
SheetAgrees ==
    ReportShown =>
        /\ \A r \in RowsOf(sessionId) :
              \/ r.item \in PaperItems /\ Tone(r.item) = r.kind
              \/ \E q \in RowsOf(sessionId) : q # r /\ q.item = r.item
              \/ r.item \in DOMAIN results /\ results[r.item].session # sessionId
        /\ \A k \in Kinds : ReportCounts[k] <= Tally(RowsOf(sessionId))[k]
        /\ sessionId \notin raced =>
              /\ ReportCounts = Tally(RowsOf(sessionId))
              /\ summary.report.scored = ReportCounts

ChainFailed == failed \cap {"paper", "bulk", "finish"} # {}

\* A screen without any usable control has a step of its chain under way or
\* failed, or is the exam phase of a paper nothing was drawn for.
StuckHasReason ==
    \/ WayOut
    \/ \E c \in Waiting : c.op # "answer"
    \/ ChainFailed
    \/ phase = "exam" /\ items = <<>>

\* The loading screen, which has no control, ends by itself or a step failed.
LoadingEnds == phase = "loading" ~> (phase # "loading" \/ ChainFailed)

\* "Grade every not-yet-submitted answer": the report of a session comes with
\* a response of that session for each question of its paper.
EveryQuestionGraded ==
    ReportShown =>
        \A i \in PaperItems : \E r \in RowsOf(sessionId) : r.item = i
=============================================================================
