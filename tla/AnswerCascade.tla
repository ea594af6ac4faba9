---------------------------- MODULE AnswerCascade ----------------------------
(***************************************************************************)
(* The write path of one learner: the requests start, answer (one answer   *)
(* or a batch) and finish, as backend/src/app/services/practice_service.py *)
(* runs them against PostgreSQL at READ COMMITTED.                         *)
(*                                                                         *)
(* Every request is one transaction.  An action is one SQL statement whose *)
(* moment matters to another transaction; what a transaction has written   *)
(* and not committed stays in buf, and a row in somebody's buf is locked.  *)
(* Rows of different learners never meet, so one learner is modelled.      *)
(*                                                                         *)
(* An ability estimate is a function of the responses it was computed      *)
(* from, so a user_thetas row is represented by that set of responses; a   *)
(* card by its number of repetitions; a mastery row by its total.          *)
(***************************************************************************)
EXTENDS Integers, Sequences, FiniteSets

CONSTANTS
    Requests,      \* the HTTP requests that ever arrive, each handled once
    Sessions,      \* ids of practice_sessions rows
    Items,
    Topics,
    NoTopic,       \* topic_id = NULL: no primary topic, or the global scope
    FirstTopic,    \* the primary topic every item starts with
    Menu,          \* the requests a client may send
    Editable,      \* the items an author still edits while learners answer
    Links,         \* the primary topics an author may give them
    Penalty,       \* 3 * penalty_for_exam: 1 for a third of a point, 0 for none
    Exclusive      \* which requests the clients serialise: see MayArrive

Kinds == {"correct", "wrong", "skip"}

AnswerType == [item : Items, kind : Kinds]

RequestType ==
    [op : {"start", "answer", "finish"}, session : Sessions,
     scope : Topics \cup {NoTopic}, answers : Seq(AnswerType)]

ASSUME NoTopicAssumption == NoTopic \notin Topics
ASSUME FirstTopicAssumption == FirstTopic \in [Items -> Topics \cup {NoTopic}]
ASSUME MenuAssumption ==
    /\ Menu # {} /\ Menu \subseteq RequestType
    /\ \A m \in Menu : m.op = "answer" <=> m.answers # <<>>
ASSUME LinksAssumption == Links \subseteq Topics \cup {NoTopic}
ASSUME PenaltyAssumption == Penalty \in {0, 1}
ASSUME ExclusiveAssumption == Exclusive \in {"none", "session", "all"}

VARIABLES
    session,     \* practice_sessions, committed
    theta,       \* user_thetas, committed: rows [by, scope, used]
    card,        \* card_states.reps per item, committed; 0 = no row
    responses,   \* responses, committed
    reviewLog,   \* review_logs, committed
    mastery,     \* user_topic_mastery.total_responses, committed; 0 = no row
    itemState,   \* what an author has done to an item since it was served
    topicOf,     \* the item's primary item_topic_links row
    req,         \* the request each handler runs
    pc,          \* the statement each handler is about to execute
    mem,         \* the handler's Python variables
    buf          \* the rows its open transaction has written

tables == <<session, theta, card, responses, reviewLog, mastery>>
bank   == <<itemState, topicOf>>
vars   == <<tables, bank, req, pc, mem, buf>>

Ids == Requests \X (Nat \ {0})

ResponseType ==
    [id : Ids, session : Sessions, item : Items,
     topic : Topics \cup {NoTopic}, kind : Kinds]

LogType == [id : Ids, item : Items, before : {"new", "seen"}]

ThetaType ==
    [by : Requests, scope : Topics \cup {NoTopic}, used : SUBSET Ids]

SessionType ==
    [status : {"none", "in_progress", "completed"},
     delivered : Nat, correct : Nat, skipped : Nat, net : Int]

MemType ==
    [k : Nat \ {0}, topic : Topics \cup {NoTopic}, row : Requests,
     delivered : Nat, correct : Nat, skipped : Nat,
     snap : Nat, points : SUBSET Ids]

BufType ==
    [responses : SUBSET ResponseType, log : SUBSET LogType,
     theta : SUBSET ThetaType, card : [Items -> Nat],
     mastery : [Topics -> Nat], session : BOOLEAN]

Ended == {"ok", "rejected", "failed"}

Statements ==
    {"load", "item", "global", "topic", "topic_insert", "respond",
     "card_write", "global_row", "global_points", "global_update",
     "topic_points", "topic_update", "counters", "mastery_read",
     "mastery_write", "close", "commit"}

TypeOK ==
    /\ session \in [Sessions -> SessionType]
    /\ theta \subseteq ThetaType
    /\ card \in [Items -> Nat]
    /\ responses \subseteq ResponseType
    /\ reviewLog \subseteq LogType
    /\ mastery \in [Topics -> Nat]
    /\ itemState \in [Items -> {"live", "revised", "deleted"}]
    /\ topicOf \in [Items -> Topics \cup {NoTopic}]
    /\ req \in [Requests -> RequestType]
    /\ pc \in [Requests -> {"idle"} \cup Statements \cup Ended]
    /\ mem \in [Requests -> MemType]
    /\ buf \in [Requests -> BufType]

-----------------------------------------------------------------------------
(* What one transaction sees and what it locks. *)

NoWrites ==
    [responses |-> {}, log |-> {}, theta |-> {},
     card |-> [i \in Items |-> 0], mastery |-> [t \in Topics |-> 0],
     session |-> FALSE]

NoMem(r) ==
    [k |-> 1, topic |-> NoTopic, row |-> r, delivered |-> 0, correct |-> 0,
     skipped |-> 0, snap |-> 0, points |-> {}]

\* READ COMMITTED: the committed row, unless this transaction wrote it.
Overlay(written, committed) == IF written > 0 THEN written ELSE committed

SameRow(x, y) == x.by = y.by /\ x.scope = y.scope

SeenThetas(r) ==
    {x \in theta : \A w \in buf[r].theta : ~SameRow(x, w)} \cup buf[r].theta

ThetaRows(r, t) == {x \in SeenThetas(r) : x.scope = t}

\* Mutant of Points: was_skipped is not filtered out.
PointsWithSkips(r, t) ==
    {x.id : x \in {y \in responses \cup buf[r].responses :
                       t # NoTopic => topicOf[y.item] = t}}

\* Mutant of Points: without autoflush the answer just given is not counted.
PointsCommitted(r, t) ==
    {x.id : x \in {y \in responses :
                       /\ y.kind # "skip"
                       /\ t # NoTopic => topicOf[y.item] = t}}

\* Mutant of Points: one point per item instead of one per response.
PointsPerItem(r, t) ==
    {x.item : x \in {y \in responses \cup buf[r].responses :
                         /\ y.kind # "skip"
                         /\ t # NoTopic => topicOf[y.item] = t}}

\* _collect_response_points: graded answers, of a topic by today's links.
Points(r, t) ==
    {x.id : x \in {y \in responses \cup buf[r].responses :
                       /\ y.kind # "skip"
                       /\ t # NoTopic => topicOf[y.item] = t}}

\* Write a θ row, over an earlier version of it.
PutTheta(r, x) ==
    buf' = [buf EXCEPT ![r] = [@ EXCEPT !.theta =
        {w \in buf[r].theta : ~SameRow(w, x)} \cup {x}]]

Answer(r) == req[r].answers[mem[r].k]

Active(r) == pc[r] \in Statements

\* The open transactions whose uncommitted rows r's next statement needs.
\* An INSERT that already collides with a committed row fails at once.
Holders(r) ==
    {q \in Requests \ {r} :
        \/ /\ pc[r] = "topic_insert"
           /\ \A x \in theta : x.scope # mem[r].topic
           /\ \E w \in buf[q].theta : w.scope = mem[r].topic
        \/ /\ pc[r] = "card_write"
           /\ buf[q].card[Answer(r).item] > 0
           /\ mem[r].snap > 0 \/ card[Answer(r).item] = 0
        \/ /\ pc[r] = "global_update"
           /\ \E w \in buf[q].theta : w.by = mem[r].row /\ w.scope = NoTopic
        \/ /\ pc[r] = "topic_update"
           /\ \E w \in buf[q].theta : w.scope = mem[r].topic
        \/ /\ pc[r] \in {"counters", "close"}
           /\ buf[q].session
           /\ req[q].session = req[r].session
        \/ /\ pc[r] = "mastery_write"
           /\ buf[q].mastery[mem[r].topic] > 0
           /\ mem[r].snap > 0 \/ mastery[mem[r].topic] = 0}

Goto(r, label) == pc' = [pc EXCEPT ![r] = label]

\* Mutant of Rollback: the exception leaves the transaction open, its rows
\* locked.
RollbackForgotten(r, label) ==
    /\ Goto(r, label)
    /\ mem' = [mem EXCEPT ![r] = NoMem(r)]
    /\ UNCHANGED <<tables, bank, req, buf>>

\* Leave the transaction without committing: everything written is undone.
Rollback(r, label) ==
    /\ Goto(r, label)
    /\ mem' = [mem EXCEPT ![r] = NoMem(r)]
    /\ buf' = [buf EXCEPT ![r] = NoWrites]
    /\ UNCHANGED <<tables, bank, req>>

-----------------------------------------------------------------------------
(* Requests and handlers. *)

\* Requests a client keeps apart: none, those of one session (every client
\* waits for the reply before it sends the session's next request), or all.
Conflicting(m, q) ==
    CASE Exclusive = "none"    -> FALSE
      [] Exclusive = "session" -> req[q].session = m.session
      [] Exclusive = "all"     -> TRUE

\* A start creates a fresh uuid, so no two starts share a session id.
MayArrive(m) ==
    /\ \A q \in Requests : Active(q) => ~Conflicting(m, q)
    /\ m.op = "start" =>
           /\ session[m.session].status = "none"
           /\ \A q \in Requests :
                  ~(Active(q) /\ req[q].op = "start" /\ req[q].session = m.session)

Arrive(r) ==
    /\ pc[r] = "idle"
    /\ \E m \in Menu :
           /\ MayArrive(m)
           /\ req' = [req EXCEPT ![r] = m]
           /\ IF m.op = "start"
              THEN /\ Goto(r, IF m.scope = NoTopic THEN "global" ELSE "topic")
                   /\ mem' = [mem EXCEPT ![r] = [@ EXCEPT !.topic = m.scope]]
              ELSE /\ Goto(r, "load")
                   /\ UNCHANGED mem
    /\ UNCHANGED <<tables, bank, buf>>

\* Mutant of Load: SELECT ... FOR SHARE, so that two answers to a session both
\* hold the row when they come to update it.
LoadForShare(r) ==
    LET s == session[req[r].session] IN
    /\ pc[r] = "load"
    /\ s.status = "in_progress"
    /\ Goto(r, IF req[r].op = "finish" THEN "close" ELSE "item")
    /\ mem' = [mem EXCEPT ![r] =
           [@ EXCEPT !.delivered = s.delivered, !.correct = s.correct,
                     !.skipped = s.skipped]]
    /\ buf' = [buf EXCEPT ![r] = [@ EXCEPT !.session = TRUE]]
    /\ UNCHANGED <<tables, bank, req>>

\* _load_session and the status check; the counters stay in the ORM object.
Load(r) ==
    LET s == session[req[r].session] IN
    /\ pc[r] = "load"
    /\ s.status = "in_progress"
    /\ Goto(r, IF req[r].op = "finish" THEN "close" ELSE "item")
    /\ mem' = [mem EXCEPT ![r] =
           [@ EXCEPT !.delivered = s.delivered, !.correct = s.correct,
                     !.skipped = s.skipped]]
    /\ UNCHANGED <<tables, bank, req, buf>>

\* A completed session: an answer is refused, a finish returns the row as is.
NotInProgress(r) ==
    LET status == session[req[r].session].status IN
    /\ pc[r] = "load"
    /\ status # "in_progress"
    /\ Rollback(r, IF status = "completed" /\ req[r].op = "finish"
                   THEN "ok" ELSE "rejected")

\* _load_item_full and grading: a skip needs only the item to be there, an
\* option must belong to the version that is current now.
Gradable(r) ==
    \/ itemState[Answer(r).item] = "live"
    \/ itemState[Answer(r).item] = "revised" /\ Answer(r).kind = "skip"

LoadItem(r) ==
    /\ pc[r] = "item"
    /\ Gradable(r)
    /\ Goto(r, "global")
    /\ mem' = [mem EXCEPT ![r] = [@ EXCEPT !.topic = topicOf[Answer(r).item]]]
    /\ UNCHANGED <<tables, bank, req, buf>>

ItemRejected(r) ==
    /\ pc[r] = "item"
    /\ ~Gradable(r)
    /\ Rollback(r, "rejected")

\* _get_or_create_theta for the global scope.  UNIQUE (user_id, topic_id)
\* does not compare NULLs, so this INSERT neither waits nor fails.
GlobalTheta(r) ==
    /\ pc[r] = "global"
    /\ Cardinality(ThetaRows(r, NoTopic)) < 2
    /\ IF ThetaRows(r, NoTopic) # {}
       THEN UNCHANGED buf
       ELSE PutTheta(r, [by |-> r, scope |-> NoTopic, used |-> {}])
    /\ Goto(r, IF req[r].op = "start" THEN "commit"
               ELSE IF mem[r].topic = NoTopic THEN "respond" ELSE "topic")
    /\ UNCHANGED <<tables, bank, req, mem>>

\* scalar_one_or_none on two rows raises MultipleResultsFound.
TwoGlobalThetas(r) ==
    /\ pc[r] \in {"global", "global_row"}
    /\ Cardinality(ThetaRows(r, NoTopic)) > 1
    /\ Rollback(r, "failed")

AfterTopic(r) == IF req[r].op = "start" THEN "commit" ELSE "respond"

\* _get_or_create_theta for a topic: the SELECT, then the INSERT.
TopicTheta(r) ==
    /\ pc[r] = "topic"
    /\ Goto(r, IF ThetaRows(r, mem[r].topic) = {}
               THEN "topic_insert" ELSE AfterTopic(r))
    /\ UNCHANGED <<tables, bank, req, mem, buf>>

InsertTopicTheta(r) ==
    /\ pc[r] = "topic_insert"
    /\ Holders(r) = {}
    /\ \A x \in theta : x.scope # mem[r].topic
    /\ PutTheta(r, [by |-> r, scope |-> mem[r].topic, used |-> {}])
    /\ Goto(r, AfterTopic(r))
    /\ UNCHANGED <<tables, bank, req, mem>>

\* An INSERT that meets a committed row of the same key: IntegrityError.
DuplicateKey(r) ==
    /\ \/ pc[r] = "topic_insert" /\ \E x \in theta : x.scope = mem[r].topic
       \/ /\ pc[r] = "card_write"
          /\ mem[r].snap = 0
          /\ card[Answer(r).item] > 0
       \/ /\ pc[r] = "mastery_write"
          /\ mem[r].snap = 0
          /\ mastery[mem[r].topic] > 0
    /\ Rollback(r, "failed")

\* Mutant of Respond: commit() where the code has flush().
RespondCommitted(r) ==
    LET a == Answer(r)
        new == [id |-> <<r, mem[r].k>>, session |-> req[r].session,
                item |-> a.item, topic |-> mem[r].topic, kind |-> a.kind]
    IN
    /\ pc[r] = "respond"
    /\ responses' = responses \cup {new}
    /\ IF a.kind = "skip"
       THEN Goto(r, "counters") /\ UNCHANGED mem
       ELSE /\ Goto(r, "card_write")
            /\ mem' = [mem EXCEPT ![r] = [@ EXCEPT !.snap =
                   Overlay(buf[r].card[a.item], card[a.item])]]
    /\ UNCHANGED <<session, theta, card, reviewLog, mastery, bank, req, buf>>

\* INSERT INTO responses, then the SELECT that opens _apply_card_review.
\* A skip goes straight to the session counters.
Respond(r) ==
    LET a == Answer(r)
        new == [id |-> <<r, mem[r].k>>, session |-> req[r].session,
                item |-> a.item, topic |-> mem[r].topic, kind |-> a.kind]
    IN
    /\ pc[r] = "respond"
    /\ buf' = [buf EXCEPT ![r] = [@ EXCEPT !.responses = buf[r].responses \cup {new}]]
    /\ IF a.kind = "skip"
       THEN Goto(r, "counters") /\ UNCHANGED mem
       ELSE /\ Goto(r, "card_write")
            /\ mem' = [mem EXCEPT ![r] = [@ EXCEPT !.snap =
                   Overlay(buf[r].card[a.item], card[a.item])]]
    /\ UNCHANGED <<tables, bank, req>>

\* Mutant of WriteCard: an upsert, INSERT ... ON CONFLICT DO UPDATE.
UpsertCard(r) ==
    LET i == Answer(r).item
        log == [id |-> <<r, mem[r].k>>, item |-> i,
                before |-> IF mem[r].snap = 0 THEN "new" ELSE "seen"]
    IN
    /\ pc[r] = "card_write"
    /\ Holders(r) = {}
    /\ buf' = [buf EXCEPT ![r] =
           [@ EXCEPT !.card[i] = mem[r].snap + 1, !.log = buf[r].log \cup {log}]]
    /\ Goto(r, "global_row")
    /\ UNCHANGED <<tables, bank, req, mem>>

\* Mutant of WriteCard: only the first review of an item is logged.
WriteCardLogFirst(r) ==
    LET i == Answer(r).item
        log == [id |-> <<r, mem[r].k>>, item |-> i, before |-> "new"]
    IN
    /\ pc[r] = "card_write"
    /\ Holders(r) = {}
    /\ mem[r].snap = 0 => card[i] = 0 /\ buf[r].card[i] = 0
    /\ buf' = [buf EXCEPT ![r] =
           [@ EXCEPT !.card[i] = mem[r].snap + 1,
                     !.log = IF mem[r].snap = 0 THEN buf[r].log \cup {log} ELSE @]]
    /\ Goto(r, "global_row")
    /\ UNCHANGED <<tables, bank, req, mem>>

\* The rest of _apply_card_review: INSERT or absolute UPDATE, and the log.
WriteCard(r) ==
    LET i == Answer(r).item
        log == [id |-> <<r, mem[r].k>>, item |-> i,
                before |-> IF mem[r].snap = 0 THEN "new" ELSE "seen"]
    IN
    /\ pc[r] = "card_write"
    /\ Holders(r) = {}
    /\ mem[r].snap = 0 => card[i] = 0 /\ buf[r].card[i] = 0
    /\ buf' = [buf EXCEPT ![r] =
           [@ EXCEPT !.card[i] = mem[r].snap + 1, !.log = buf[r].log \cup {log}]]
    /\ Goto(r, "global_row")
    /\ UNCHANGED <<tables, bank, req, mem>>

\* _recompute_theta, global scope: the row, the history, the UPDATE by id.
GlobalRow(r) ==
    /\ pc[r] = "global_row"
    /\ \E x \in ThetaRows(r, NoTopic) :
           /\ ThetaRows(r, NoTopic) = {x}
           /\ mem' = [mem EXCEPT ![r] = [@ EXCEPT !.row = x.by]]
    /\ Goto(r, "global_points")
    /\ UNCHANGED <<tables, bank, req, buf>>

GlobalPoints(r) ==
    /\ pc[r] = "global_points"
    /\ mem' = [mem EXCEPT ![r] = [@ EXCEPT !.points = Points(r, NoTopic)]]
    /\ Goto(r, "global_update")
    /\ UNCHANGED <<tables, bank, req, buf>>

GlobalUpdate(r) ==
    /\ pc[r] = "global_update"
    /\ Holders(r) = {}
    /\ PutTheta(r, [by |-> mem[r].row, scope |-> NoTopic,
                    used |-> mem[r].points])
    /\ Goto(r, IF mem[r].topic = NoTopic THEN "counters" ELSE "topic_points")
    /\ UNCHANGED <<tables, bank, req, mem>>

\* _recompute_theta, topic scope.  The row exists and is the only one.
TopicPoints(r) ==
    /\ pc[r] = "topic_points"
    /\ \E x \in ThetaRows(r, mem[r].topic) :
           mem' = [mem EXCEPT ![r] =
               [@ EXCEPT !.row = x.by, !.points = Points(r, mem[r].topic)]]
    /\ Goto(r, "topic_update")
    /\ UNCHANGED <<tables, bank, req, buf>>

TopicUpdate(r) ==
    /\ pc[r] = "topic_update"
    /\ Holders(r) = {}
    /\ PutTheta(r, [by |-> mem[r].row, scope |-> mem[r].topic,
                    used |-> mem[r].points])
    /\ Goto(r, "counters")
    /\ UNCHANGED <<tables, bank, req, mem>>

\* Mutant of CountedOnce: is_correct is not False, which a skip is not either.
CountedNotFalse(r) ==
    [mem[r] EXCEPT !.delivered = @ + 1,
                   !.correct = @ + (IF Answer(r).kind # "wrong" THEN 1 ELSE 0),
                   !.skipped = @ + (IF Answer(r).kind = "skip" THEN 1 ELSE 0)]

\* Mutant of CountedOnce: each answer of a batch counts on from the stored
\* row instead of from what the answer before it left in memory.
CountedUnsynced(r) ==
    LET s == session[req[r].session] IN
    [mem[r] EXCEPT
        !.delivered = s.delivered + 1,
        !.correct = s.correct + (IF Answer(r).kind = "correct" THEN 1 ELSE 0),
        !.skipped = s.skipped + (IF Answer(r).kind = "skip" THEN 1 ELSE 0)]

\* UPDATE practice_sessions with absolute values, then the in-memory sync.
CountedOnce(r) ==
    [mem[r] EXCEPT !.delivered = @ + 1,
                   !.correct = @ + (IF Answer(r).kind = "correct" THEN 1 ELSE 0),
                   !.skipped = @ + (IF Answer(r).kind = "skip" THEN 1 ELSE 0)]

\* The locals of one answer are gone when the loop takes the next one.
NextAnswer(r, m) ==
    IF m.k < Len(req[r].answers)
    THEN /\ Goto(r, "item")
         /\ mem' = [mem EXCEPT ![r] =
                [m EXCEPT !.k = m.k + 1, !.topic = NoTopic, !.row = r,
                          !.snap = 0, !.points = {}]]
    ELSE /\ Goto(r, "commit")
         /\ mem' = [mem EXCEPT ![r] = m]

\* Mutant of Counters: a skip updates the topic rollup too.
CountersSkipToo(r) ==
    /\ pc[r] = "counters"
    /\ Holders(r) = {}
    /\ buf' = [buf EXCEPT ![r] = [@ EXCEPT !.session = TRUE]]
    /\ IF mem[r].topic = NoTopic
       THEN NextAnswer(r, CountedOnce(r))
       ELSE /\ Goto(r, "mastery_read")
            /\ mem' = [mem EXCEPT ![r] = CountedOnce(r)]
    /\ UNCHANGED <<tables, bank, req>>

Counters(r) ==
    /\ pc[r] = "counters"
    /\ Holders(r) = {}
    /\ buf' = [buf EXCEPT ![r] = [@ EXCEPT !.session = TRUE]]
    /\ IF mem[r].topic = NoTopic \/ Answer(r).kind = "skip"
       THEN NextAnswer(r, CountedOnce(r))
       ELSE /\ Goto(r, "mastery_read")
            /\ mem' = [mem EXCEPT ![r] = CountedOnce(r)]
    /\ UNCHANGED <<tables, bank, req>>

\* _update_mastery: the SELECT, then the INSERT or the absolute UPDATE.
MasteryRead(r) ==
    LET t == mem[r].topic IN
    /\ pc[r] = "mastery_read"
    /\ mem' = [mem EXCEPT ![r] = [@ EXCEPT !.snap =
           Overlay(buf[r].mastery[t], mastery[t])]]
    /\ Goto(r, "mastery_write")
    /\ UNCHANGED <<tables, bank, req, buf>>

MasteryWrite(r) ==
    LET t == mem[r].topic IN
    /\ pc[r] = "mastery_write"
    /\ Holders(r) = {}
    /\ mem[r].snap = 0 => mastery[t] = 0 /\ buf[r].mastery[t] = 0
    /\ buf' = [buf EXCEPT ![r] = [@ EXCEPT !.mastery[t] = mem[r].snap + 1]]
    /\ NextAnswer(r, mem[r])
    /\ UNCHANGED <<tables, bank, req>>

\* finish_session: the score comes from the counters read by Load.
Close(r) ==
    /\ pc[r] = "close"
    /\ Holders(r) = {}
    /\ buf' = [buf EXCEPT ![r] = [@ EXCEPT !.session = TRUE]]
    /\ Goto(r, "commit")
    /\ UNCHANGED <<tables, bank, req, mem>>

-----------------------------------------------------------------------------
(* The end of a transaction. *)

\* Three times net_score: max(delivered - correct - skipped, 0) wrong answers
\* each cost a third of a point where the exam has a penalty.
Net(m) ==
    LET left == m.delivered - m.correct - m.skipped
        wrong == IF left < 0 THEN 0 ELSE left
    IN 3 * m.correct - wrong * Penalty

\* Mutant of WrittenSession: an answer saves the whole row it loaded.
SavedSession(r) ==
    LET s == session[req[r].session] IN
    IF req[r].op = "start"
    THEN [status |-> "in_progress", delivered |-> 0, correct |-> 0,
          skipped |-> 0, net |-> 0]
    ELSE IF ~buf[r].session THEN s
    ELSE IF req[r].op = "finish"
    THEN [s EXCEPT !.status = "completed", !.net = Net(mem[r])]
    ELSE [s EXCEPT !.status = "in_progress", !.delivered = mem[r].delivered,
                   !.correct = mem[r].correct, !.skipped = mem[r].skipped]

\* The session row as this transaction's UPDATE leaves it.
WrittenSession(r) ==
    LET s == session[req[r].session] IN
    IF req[r].op = "start"
    THEN [status |-> "in_progress", delivered |-> 0, correct |-> 0,
          skipped |-> 0, net |-> 0]
    ELSE IF ~buf[r].session THEN s
    ELSE IF req[r].op = "finish"
    THEN [s EXCEPT !.status = "completed", !.net = Net(mem[r])]
    ELSE [s EXCEPT !.delivered = mem[r].delivered, !.correct = mem[r].correct,
                   !.skipped = mem[r].skipped]

Commit(r) ==
    /\ pc[r] = "commit"
    /\ session' = [session EXCEPT ![req[r].session] = WrittenSession(r)]
    /\ theta' = SeenThetas(r)
    /\ card' = [i \in Items |-> Overlay(buf[r].card[i], card[i])]
    /\ responses' = responses \cup buf[r].responses
    /\ reviewLog' = reviewLog \cup buf[r].log
    /\ mastery' = [t \in Topics |-> Overlay(buf[r].mastery[t], mastery[t])]
    /\ Goto(r, "ok")
    /\ mem' = [mem EXCEPT ![r] = NoMem(r)]
    /\ buf' = [buf EXCEPT ![r] = NoWrites]
    /\ UNCHANGED <<bank, req>>

\* The deadlock detector aborts a transaction that waits in a cycle.  A
\* transaction waits for one row, so a set closed both ways is cycles only.
InCycle(r) ==
    \E S \in SUBSET Requests :
        /\ r \in S
        /\ \A q \in S : /\ Holders(q) \cap S # {}
                        /\ \E p \in S : q \in Holders(p)

DeadlockAbort(r) ==
    /\ InCycle(r)
    /\ Rollback(r, "failed")

\* The worker dies or the connection drops: get_db rolls back.
Crash(r) ==
    /\ Active(r)
    /\ Rollback(r, "failed")

-----------------------------------------------------------------------------
(* The author: items change while an answer is on its way. *)

SetItemState(i, states, state) ==
    /\ i \in Editable
    /\ itemState[i] \in states
    /\ itemState' = [itemState EXCEPT ![i] = state]
    /\ UNCHANGED <<tables, topicOf, req, pc, mem, buf>>

\* item_service.create_item_version: the new options replace the served ones.
NewVersion(i) == SetItemState(i, {"live"}, "revised")

\* item_service.soft_delete_item
SoftDelete(i) == SetItemState(i, {"live", "revised"}, "deleted")

\* item_service.update_item with topic_ids: the item's links are replaced, by
\* links without a primary one if the list is empty.
Retag(i) ==
    /\ i \in Editable
    /\ itemState[i] # "deleted"
    /\ \E t \in Links \ {topicOf[i]} :
           topicOf' = [topicOf EXCEPT ![i] = t]
    /\ UNCHANGED <<tables, itemState, req, pc, mem, buf>>

-----------------------------------------------------------------------------

Init ==
    /\ session = [s \in Sessions |->
           [status |-> "none", delivered |-> 0, correct |-> 0, skipped |-> 0,
            net |-> 0]]
    /\ theta = {}
    /\ card = [i \in Items |-> 0]
    /\ responses = {}
    /\ reviewLog = {}
    /\ mastery = [t \in Topics |-> 0]
    /\ itemState = [i \in Items |-> "live"]
    /\ topicOf = FirstTopic
    /\ req = [r \in Requests |-> CHOOSE m \in Menu : TRUE]
    /\ pc = [r \in Requests |-> "idle"]
    /\ mem = [r \in Requests |-> NoMem(r)]
    /\ buf = [r \in Requests |-> NoWrites]

Step(r) ==
    \/ Load(r) \/ NotInProgress(r) \/ LoadItem(r) \/ ItemRejected(r)
    \/ GlobalTheta(r) \/ TwoGlobalThetas(r)
    \/ TopicTheta(r) \/ InsertTopicTheta(r) \/ DuplicateKey(r)
    \/ Respond(r) \/ WriteCard(r)
    \/ GlobalRow(r) \/ GlobalPoints(r) \/ GlobalUpdate(r)
    \/ TopicPoints(r) \/ TopicUpdate(r)
    \/ Counters(r) \/ MasteryRead(r) \/ MasteryWrite(r)
    \/ Close(r) \/ Commit(r) \/ DeadlockAbort(r)

Next ==
    \/ \E r \in Requests : Arrive(r) \/ Step(r) \/ Crash(r)
    \/ \E i \in Editable : NewVersion(i) \/ SoftDelete(i) \/ Retag(i)

Spec == Init /\ [][Next]_vars

\* The server keeps executing what it has accepted, and PostgreSQL looks for
\* deadlocks; nothing forces a request to arrive or an author to edit.
FairSpec == Spec /\ \A r \in Requests : WF_vars(Step(r))

-----------------------------------------------------------------------------
(* What must hold however the requests interleave. *)

LogsOf(i) == {x \in reviewLog : x.item = i}

ResponsesOf(s) == {x \in responses : x.session = s}

Graded == {x \in responses : x.kind # "skip"}

Correct(set) == {x \in set : x.kind = "correct"}

Skipped(set) == {x \in set : x.kind = "skip"}

\* An item is introduced once: however many answers to it race, one review
\* log at most has state_before = 'new', so an item is charged to the
\* new-card budget (_new_cards_remaining_today counts these logs) once.
OneIntroduction ==
    \A x, y \in reviewLog :
        x.item = y.item /\ x.before = "new" /\ y.before = "new" => x = y

\* A card exists exactly when a review of its item was logged, and claims no
\* more repetitions than reviews: an answer that lost its card UPDATE to
\* another one leaves reps behind the log, never ahead of it.
CardsFollowLog ==
    \A i \in Items : /\ card[i] > 0 <=> LogsOf(i) # {}
                     /\ card[i] <= Cardinality(LogsOf(i))

\* A topic has one ability row: _get_or_create_theta in two transactions
\* cannot commit it twice, and the estimate is never computed from an answer
\* that was rolled back, nor from a skip.
ThetaFromHistory ==
    /\ \A x, y \in theta : x.scope = y.scope /\ x.scope # NoTopic => x = y
    /\ \A x \in theta : x.used \subseteq {y.id : y \in Graded}

\* The session counters never claim an answer that is not stored, whatever
\* updates were lost, and correct and skipped stay disjoint parts of
\* delivered, so the max(..., 0) of finish_session never cuts anything off.
CountersBacked ==
    \A s \in Sessions :
        LET c == session[s] IN
        /\ c.delivered <= Cardinality(ResponsesOf(s))
        /\ c.correct <= Cardinality(Correct(ResponsesOf(s)))
        /\ c.skipped <= Cardinality(Skipped(ResponsesOf(s)))
        /\ c.correct + c.skipped <= c.delivered

\* The topic rollup is always current: total_responses counts the committed
\* graded answers of the topic, no update is lost.  _update_mastery reads the
\* row unlocked, but only after _recompute_theta locked the topic's ability.
MasteryCurrent ==
    \A t \in Topics :
        mastery[t] = Cardinality({x \in Graded : x.topic = t})

\* What a request left in the ledgers.
Kept(r) == {x \in responses : x.id[1] = r}

LoggedBy(r) == {x \in reviewLog : x.id[1] = r}

Whole(r) ==
    IF pc[r] = "ok"
    THEN /\ {x.id : x \in Kept(r)} = {r} \X (1 .. Len(req[r].answers))
         /\ {x.id : x \in LoggedBy(r)} =
               {x.id : x \in {y \in Kept(r) : y.kind # "skip"}}
    ELSE Kept(r) = {} /\ LoggedBy(r) = {}

\* submit_answers_bulk is all or nothing: a request the server gave up on left
\* no response and no log behind, and one it committed left one response
\* per answer and one log per graded answer.
AllOrNothing == \A r \in Requests : Whole(r)

\* Single answers take their row locks in one order (card, abilities,
\* session, rollup): a wait cycle always runs through a batch.
CyclesNeedBatch ==
    (\E r \in Requests : InCycle(r))
        => \E r \in Requests : Active(r) /\ Len(req[r].answers) > 1

\* The history tables are ledgers: the detailed requests implement
\* PracticeLedger, so each appends its whole batch in one step or nothing,
\* nothing stored is rewritten, and a completed session never reopens, not
\* even under an answer that was loaded before it was finished.
Ledger ==
    INSTANCE PracticeLedger WITH
        status <- [s \in Sessions |-> session[s].status]

LedgerSpec == Ledger!Spec

\* Every accepted request is answered: a wait for a row ends because the
\* holder ends or the deadlock detector breaks the cycle.
EveryRequestEnds ==
    \A r \in Requests : Active(r) ~> pc[r] \in Ended

-----------------------------------------------------------------------------
(* What holds only as far as the clients keep requests apart. *)

\* When the requests of one session never overlap, its counters are exactly
\* its responses and the score of a completed session is the score of its
\* counters, however much other sessions run at the same time.
SessionExact ==
    \A s \in Sessions :
        (\A r \in Requests : Active(r) => req[r].session # s) =>
            LET c == session[s] IN
            /\ c.delivered = Cardinality(ResponsesOf(s))
            /\ c.correct = Cardinality(Correct(ResponsesOf(s)))
            /\ c.skipped = Cardinality(Skipped(ResponsesOf(s)))
            /\ c.status = "completed" => c.net = Net(c)

\* Every ability was computed from all the graded history of its scope.
ThetaComplete ==
    \A x \in theta :
        x.used = {y.id : y \in {z \in Graded :
                      x.scope # NoTopic => z.topic = x.scope}}

\* When no two requests overlap, cards and abilities are exact after each one:
\* reps count the reviews and no ability lags behind the history.
RollupsExact ==
    (\A r \in Requests : ~Active(r)) =>
        /\ \A i \in Items : card[i] = Cardinality(LogsOf(i))
        /\ ThetaComplete

\* PHASES.md: "global theta uniqueness enforced in service layer": one row per
\* learner and scope, the global scope included.
OneThetaPerScope ==
    \A x, y \in theta : x.scope = y.scope => x = y

\* PHASE_1_REPORT.md: "User Theta always holds the current value".  It does
\* not once two sessions' answers both collect the history before either
\* commits; learners with duplicated rows are left out, they are stuck anyway.
ThetaCurrent ==
    (\A r \in Requests : ~Active(r)) /\ OneThetaPerScope => ThetaComplete
=============================================================================
