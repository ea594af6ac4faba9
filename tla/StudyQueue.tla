------------------------------ MODULE StudyQueue ------------------------------
(***************************************************************************)
(* What the practice API serves a learner in study mode, and what answers  *)
(* do to it: backend/src/app/services/practice_service.py, one learner.    *)
(*                                                                         *)
(* A card is new (no card_states row), due, or later.  Time is the actions *)
(* BecomeDue, NewDay and TimeUp.  Which of the eligible items has maximum  *)
(* information depends on abilities and calibration, so any may be served. *)
(***************************************************************************)
EXTENDS Naturals, Sequences, FiniteSets

CONSTANTS
    Items, Topics,
    TopicOf,      \* the primary topic of each item
    ExamOf,       \* its exam type, by alphabetical rank from 1
    NewCap,       \* users.daily_new_cards_cap
    Target,       \* items_target of every session
    MaxSessions,  \* bound on sessions started
    MaxMishaps    \* bound on midnights, deletions and budgets timed out

ASSUME StudyAssumption ==
    /\ IsFiniteSet(Items)
    /\ TopicOf \in [Items -> Topics]
    /\ ExamOf \in [Items -> Nat \ {0}]
    /\ {NewCap, Target, MaxSessions, MaxMishaps} \subseteq Nat

VARIABLES
    card,        \* new, due or later, for each item
    dueOrder,    \* the due items, most overdue first
    introduced,  \* review logs of today whose state_before is new
    day,
    active,      \* items an author has not deleted
    sessions,    \* practice_sessions: the items answered, the responses counted
    scored       \* items with a response in any session

study == <<card, dueOrder, introduced, day, active, sessions, scored>>

Modes == {"adaptive_practice", "review", "daily_review"}

Kinds == {"answer", "skip"}

\* What a client asks for; topics = {} and exam = 0 restrict nothing.
ConfigType ==
    [mode : Modes, topics : SUBSET Topics, exam : Nat, byTime : BOOLEAN]

StudyInit ==
    /\ card = [i \in Items |-> "new"]
    /\ dueOrder = <<>>
    /\ introduced = 0 /\ day = 0
    /\ active = Items
    /\ sessions = <<>>
    /\ scored = {}

-----------------------------------------------------------------------------
(* Which item comes next. *)

AnsweredIn(s) == sessions[s].items

Delivered(s) == sessions[s].delivered

InScope(i, config) ==
    /\ config.topics = {} \/ TopicOf[i] \in config.topics
    /\ config.exam \in {0, ExamOf[i]}

\* Mutant: what the session answered before may come again.
CandidatesAgain(s) ==
    {i \in active :
        /\ InScope(i, sessions[s].config)
        /\ sessions[s].config.mode = "review" => card[i] = "due"}

\* Usable items in scope that this session has not answered; a review session
\* only has due ones.
Candidates(s) ==
    {i \in active \ AnsweredIn(s) :
        /\ InScope(i, sessions[s].config)
        /\ sessions[s].config.mode = "review" => card[i] = "due"}

\* Mutant: the budget admits one card too many.
BudgetLeftLate == introduced <= NewCap

BudgetLeft == introduced < NewCap

MixedPool(s) ==
    LET new      == {i \in Candidates(s) : card[i] = "new"}
        eligible == {i \in Candidates(s) : card[i] = "due"}
                      \cup (IF BudgetLeft THEN new ELSE {})
    IN  IF eligible # {} THEN eligible
        ELSE {i \in Candidates(s) : card[i] = "later"}

\* The places of the queue that hold a candidate.
DuePlaces(s) == {k \in DOMAIN dueOrder : dueOrder[k] \in Candidates(s)}

\* A due card, the most overdue first, else a new one, else nothing: no
\* practising ahead.
DailyPool(s) ==
    IF DuePlaces(s) # {}
    THEN {dueOrder[k] : k \in {m \in DuePlaces(s) : \A n \in DuePlaces(s) : m <= n}}
    ELSE IF BudgetLeft THEN {i \in Candidates(s) : card[i] = "new"} ELSE {}

\* Mutant: the target is noticed one answer late.
BudgetSpentLate(s) ==
    IF sessions[s].config.byTime THEN sessions[s].timeUp ELSE Delivered(s) > Target

\* The budget of a daily review, by time or by count.
BudgetSpent(s) ==
    IF sessions[s].config.byTime THEN sessions[s].timeUp ELSE Delivered(s) >= Target

\* The items get_next_item may return; none ends the session.
Servable(s) ==
    CASE sessions[s].config.mode = "daily_review" ->
             IF BudgetSpent(s) THEN {} ELSE DailyPool(s)
      [] sessions[s].config.mode = "review" -> Candidates(s)
      [] OTHER -> MixedPool(s)

Open(s) == sessions[s].status = "in_progress"

-----------------------------------------------------------------------------
(* What a request does. *)

\* The queue without item i, which is in it.
Unqueued(i) ==
    LET at == CHOOSE k \in DOMAIN dueOrder : dueOrder[k] = i
    IN  [k \in 1 .. Len(dueOrder) - 1 |-> dueOrder[IF k < at THEN k ELSE k + 1]]

StartSession(config) ==
    /\ sessions' = Append(sessions,
           [config |-> config, status |-> "in_progress", timeUp |-> FALSE,
            items |-> {}, delivered |-> 0])
    /\ UNCHANGED <<card, dueOrder, introduced, day, active, scored>>

\* Mutant: an answered card stays in the queue.
AnswerKept(s, i, kind) ==
    /\ sessions' = [sessions EXCEPT ![s].items = @ \cup {i},
                                    ![s].delivered = @ + 1]
    /\ scored' = scored \cup {i}
    /\ card' = [card EXCEPT ![i] = IF kind = "skip" THEN @ ELSE "later"]
    /\ introduced' = introduced + (IF card[i] = "new" THEN 1 ELSE 0)
    /\ UNCHANGED <<day, active, dueOrder>>

\* A skip leaves the card alone; any other answer schedules it for later.
Answer(s, i, kind) ==
    /\ sessions' = [sessions EXCEPT ![s].items = @ \cup {i},
                                    ![s].delivered = @ + 1]
    /\ scored' = scored \cup {i}
    /\ IF kind = "skip"
       THEN UNCHANGED <<card, dueOrder, introduced>>
       ELSE /\ card' = [card EXCEPT ![i] = "later"]
            /\ dueOrder' = IF card[i] = "due" THEN Unqueued(i) ELSE dueOrder
            /\ introduced' = introduced + (IF card[i] = "new" THEN 1 ELSE 0)
    /\ UNCHANGED <<day, active>>

FinishSession(s) ==
    /\ sessions' = [sessions EXCEPT ![s].status = "completed"]
    /\ UNCHANGED <<card, dueOrder, introduced, day, active, scored>>

-----------------------------------------------------------------------------
(* Time, and the authors. *)

Mishaps ==
    day + Cardinality(Items \ active)
        + Cardinality({s \in DOMAIN sessions : sessions[s].timeUp})

\* Whatever becomes due now was due after all that is due already.
BecomeDue(i) ==
    /\ card[i] = "later"
    /\ card' = [card EXCEPT ![i] = "due"]
    /\ dueOrder' = Append(dueOrder, i)
    /\ UNCHANGED <<introduced, day, active, sessions, scored>>

\* The learner's local midnight: today's review logs start from none.
NewDay ==
    /\ Mishaps < MaxMishaps
    /\ day' = day + 1
    /\ introduced' = 0
    /\ UNCHANGED <<card, dueOrder, active, sessions, scored>>

TimeUp(s) ==
    /\ sessions[s].config.byTime /\ ~sessions[s].timeUp
    /\ Mishaps < MaxMishaps
    /\ sessions' = [sessions EXCEPT ![s].timeUp = TRUE]
    /\ UNCHANGED <<card, dueOrder, introduced, day, active, scored>>

Delete(i) ==
    /\ i \in active
    /\ Mishaps < MaxMishaps
    /\ active' = active \ {i}
    /\ UNCHANGED <<card, dueOrder, introduced, day, sessions, scored>>

Passing ==
    \/ NewDay
    \/ \E i \in Items : BecomeDue(i) \/ Delete(i)
    \/ \E s \in DOMAIN sessions : TimeUp(s)

-----------------------------------------------------------------------------
(* The overview of the study page, one card per topic. *)

TopicItems(t) == {i \in active : TopicOf[i] = t}

\* Seen means answered or skipped, whatever became of the card.
NewCount(t) ==
    LET seen == {i \in scored : TopicOf[i] = t}
    IN  IF Cardinality(TopicItems(t)) > Cardinality(seen)
        THEN Cardinality(TopicItems(t)) - Cardinality(seen) ELSE 0

\* Cards, not items: that of a deleted item still counts.
DueCount(t) == Cardinality({i \in Items : TopicOf[i] = t /\ card[i] = "due"})

RecommendedMode(new, due, mastered) ==
    IF new > 0 /\ ~mastered THEN "adaptive_practice"
    ELSE IF due > 0 THEN "review"
    ELSE IF new > 0 THEN "adaptive_practice"
    ELSE "none"

\* func.min(Item.exam_type): one exam type stands for the topic.
TopicExam(t) ==
    CHOOSE e \in {ExamOf[i] : i \in TopicItems(t)} :
        \A i \in TopicItems(t) : e <= ExamOf[i]

\* A topic without a usable item has no card; mastered is the label its
\* rollup has earned.
Overview(mastered) ==
    [t \in {u \in Topics : TopicItems(u) # {}} |->
        [new |-> NewCount(t) > 0, due |-> DueCount(t) > 0, exam |-> TopicExam(t),
         mode |-> RecommendedMode(NewCount(t), DueCount(t), t \in mastered)]]
=============================================================================
