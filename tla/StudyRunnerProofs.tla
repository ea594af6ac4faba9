--------------------------- MODULE StudyRunnerProofs ---------------------------
(***************************************************************************)
(* What holds of the study pages for any tabs, items and topics, any cap,  *)
(* target and number of sessions and of failures.                          *)
(*                                                                         *)
(* A session is driven by one party at a time: the tab that shows it, or   *)
(* one request that was left behind (TokenInv).  So a session has at most  *)
(* one question in hand (Hand), and what is counted too often is paid for  *)
(* by the requests that seemed to fail and may still arrive (Ghosts).      *)
(***************************************************************************)
EXTENDS StudyRunner, FiniteSetTheorems, WellFoundedInduction, TLAPS

CardType ==
    [new : BOOLEAN, due : BOOLEAN, exam : Nat, mode : Modes \cup {"none"}]

RunType ==
    [phase : {"loading", "active", "feedback", "done", "caughtUp"}, sid : Nat,
     item : Items \cup {NoItem}, selected : Kinds \cup {"none"}, config : ConfigType]

PageType ==
    [screen : {"home", "study", "daily", "profile", "session"},
     overview : UNION {[S -> CardType] : S \in SUBSET Topics},
     given : BOOLEAN, sel : SUBSET Topics, byTime : BOOLEAN, run : RunType,
     failed : BOOLEAN]

ReplyType ==
    [session : Nat, item : Items \cup {NoItem}, kind : Kinds \cup {"none"},
     count : Nat]

CallType ==
    [tab : Tabs, op : {"start", "next", "answer", "finish"}, session : Nat,
     item : Items \cup {NoItem}, kind : Kinds \cup {"none"}, config : ConfigType,
     gone : Nat, lost : Nat, served : BOOLEAN, ok : BOOLEAN, reply : ReplyType]

SessionType ==
    [config : ConfigType, status : {"in_progress", "completed"},
     timeUp : BOOLEAN, items : SUBSET Items, delivered : Nat]

Known == {i \in Items : card[i] # "new"}

QueueInv ==
    /\ card \in [Items -> {"new", "due", "later"}]
    /\ dueOrder \in Seq(Items)
    /\ \A j \in DOMAIN dueOrder, k \in DOMAIN dueOrder :
          dueOrder[j] = dueOrder[k] => j = k
    /\ {dueOrder[k] : k \in DOMAIN dueOrder} = {i \in Items : card[i] = "due"}
    /\ introduced \in Nat /\ introduced <= Cardinality(Known)
    /\ day \in Nat /\ day <= MaxMishaps
    /\ active \subseteq Items /\ scored \subseteq Items
    /\ sessions \in Seq(SessionType)
    /\ \A s \in DOMAIN sessions : AnsweredIn(s) \subseteq scored

PagesInv ==
    /\ page \in [Tabs -> PageType]
    /\ saved \in [topics : SUBSET Topics, byTime : BOOLEAN]
    /\ faults \in Nat /\ left \in Nat /\ faults <= MaxTrouble
    /\ calls \subseteq CallType

CallOK(c) ==
    /\ c.gone <= left /\ c.lost <= faults
    /\ c.lost # 0 => ~c.served
    /\ ~c.served => c.reply = NoReply /\ ~c.ok
    /\ c.op = "start" /\ c.served =>
          c.ok /\ c.reply.session \in 1 .. Len(sessions)
    /\ c.op # "start" => c.session \in 1 .. Len(sessions)
    /\ c.op = "answer" => c.item \in Items
    /\ c.op = "finish" /\ c.served => c.ok

\* What a request under way says of the tab that waits for it.
Fits(c, p) ==
    /\ p.screen = "session"
    /\ c.op = "start" => p.run.phase = "loading" /\ p.run.sid = 0
    /\ c.op \in {"next", "finish"} =>
          c.session = p.run.sid /\ p.run.phase \in {"loading", "feedback"}
    /\ c.op = "answer" =>
          c.session = p.run.sid /\ c.item = p.run.item /\ p.run.phase = "active"

RunOK(p) ==
    /\ p.screen # "session" => p.run.sid = 0
    /\ p.run.sid \in 0 .. Len(sessions)
    /\ p.run.sid = 0 => p.run.phase = "loading"
    /\ p.run.phase \in {"active", "feedback"} => p.run.item \in Items

TabInv ==
    /\ \A c \in calls : CallOK(c)
    /\ \A t \in Tabs : RunOK(page[t])
    /\ \A c \in calls, d \in calls :
          /\ c.lost # 0 /\ c.lost = d.lost => c = d
          /\ c \in Waiting(c.tab) /\ d \in Waiting(c.tab) => c = d
    /\ \A c \in calls : c \in Waiting(c.tab) => Fits(c, page[c.tab])

\* A request that was left, or has not told its tab the session yet.
Detached(c) == Awaited(c) /\ (Live(c) => c.op = "start")

Sid(c) == IF c.op = "start" THEN c.reply.session ELSE c.session

TokenInv ==
    /\ \A t \in Tabs, u \in Tabs :
          Run(t).sid # 0 /\ Run(t).sid = Run(u).sid => t = u
    /\ \A c \in calls, d \in calls :
          Detached(c) /\ Detached(d) /\ Sid(c) # 0 /\ Sid(c) = Sid(d) => c = d
    /\ \A c \in calls, t \in Tabs :
          Detached(c) /\ Sid(c) # 0 => Sid(c) # Run(t).sid

Recorded(c) == c.op = "answer" /\ c.served /\ c.ok

\* Question i of session s is in hand of a tab: shown without an answer that
\* was recorded, or on its way to be shown.
Held(t, i) ==
    \/ /\ Run(t).phase = "active" /\ Run(t).item = i
       /\ \A c \in Waiting(t) : ~Recorded(c)
    \/ \E c \in Waiting(t) : c.op = "next" /\ c.reply.item = i

Hand(s, i) ==
    \/ \E t \in Tabs : Run(t).sid = s /\ Held(t, i)
    \/ \E c \in calls :
          /\ Detached(c) /\ c.op = "answer" /\ ~Recorded(c)
          /\ c.session = s /\ c.item = i

\* The failures after which an answer of session s may still be recorded.
Ghosts(s) ==
    {c.lost : c \in {d \in calls : d.op = "answer" /\ ~Awaited(d) /\ d.session = s}}

AllGhosts ==
    {c.lost : c \in {d \in calls : d.op = "answer" /\ ~Awaited(d)}}

NewInHand ==
    {s \in DOMAIN sessions : \E i \in Items : Hand(s, i) /\ card[i] = "new"}

OvershootInv ==
    NewCap > 0 =>
        introduced + Cardinality(NewInHand) + Cardinality(AllGhosts)
            <= NewCap - 1 + Len(sessions) + faults

\* Under a cap of 0 nobody is shown a new card.
NoNewInv ==
    NewCap = 0 =>
        /\ introduced = 0
        /\ \A c \in calls :
              /\ c.op = "answer" => card[c.item] # "new"
              /\ c.reply.item \in Items => card[c.reply.item] # "new"
        /\ \A t \in Tabs : Run(t).item \in Items => card[Run(t).item] # "new"

\* One question of the session in hand, of those it answered or of all.
Again(s) == IF \E i \in AnsweredIn(s) : Hand(s, i) THEN 1 ELSE 0

InHand(s) == IF \E i \in Items : Hand(s, i) THEN 1 ELSE 0

RepeatInv ==
    \A s \in DOMAIN sessions :
        Delivered(s) + Cardinality(Ghosts(s)) + Again(s)
            <= Cardinality(AnsweredIn(s)) + faults

DailyInv ==
    \A s \in DOMAIN sessions :
        sessions[s].config.mode = "daily_review" /\ ~sessions[s].config.byTime
            => Delivered(s) + Cardinality(Ghosts(s)) + InHand(s) <= Target + faults

EndInv ==
    faults = 0 =>
        /\ \A t \in Tabs :
              Run(t).sid # 0 /\ ~Open(Run(t).sid)
                  => Run(t).phase \in {"done", "caughtUp"} \/ Pending(t, "finish")
        /\ \A c \in calls :
              c.op = "start" /\ c.served => Open(c.reply.session)

StructInv == QueueInv /\ PagesInv /\ TabInv /\ TokenInv

StudyInv ==
    /\ StructInv
    /\ OvershootInv /\ NoNewInv /\ RepeatInv /\ DailyInv /\ EndInv

-----------------------------------------------------------------------------

(* The operators of the queue. *)

LEMMA Least ==
  ASSUME NEW T, T \subseteq Nat, T # {}
  PROVE  \E n \in T : \A m \in T : n <= m
<1> DEFINE Below == {p \in Nat \X Nat : p[1] < p[2]}
<1>1. IsWellFoundedOn(Below, Nat)
  BY NatLessThanWellFounded DEF OpToRel
<1>2. ASSUME NEW x \in Nat, NEW y \in Nat, y < x
      PROVE  <<y, x>> \in Below
  BY <1>2
<1> HIDE DEF Below
<1>3. PICK x \in T : \A y \in T : ~ (<<y, x>> \in Below)
  BY <1>1, WFMin
<1>4. \A y \in T : ~ (y < x)
  BY <1>2, <1>3
<1> QED
  BY <1>4

\* The exam type of a card is one of its items', so the card is typed.
LEMMA OverviewTyped ==
  ASSUME QueueInv, NEW mastered
  PROVE  /\ Overview(mastered) \in UNION {[S -> CardType] : S \in SUBSET Topics}
         /\ DOMAIN Overview(mastered) \subseteq Topics
<1> DEFINE U == {u \in Topics : TopicItems(u) # {}}
<1>1. ASSUME NEW t \in U
      PROVE  TopicExam(t) \in Nat
  <2> DEFINE E == {ExamOf[i] : i \in TopicItems(t)}
  <2>1. ExamOf \in [Items -> Nat] /\ TopicItems(t) \subseteq Items
    BY StudyAssumption DEF TopicItems, QueueInv
  <2>2. E \subseteq Nat /\ E # {}
    BY <2>1
  <2> HIDE DEF E
  <2>3. PICK e \in E : \A m \in E : e <= m
    BY <2>2, Least
  <2>4. E = {ExamOf[i] : i \in TopicItems(t)}
    BY DEF E
  <2>5. \A i \in TopicItems(t) : e <= ExamOf[i]
    BY <2>3, <2>4
  <2>6. TopicExam(t) \in E
    BY <2>3, <2>4, <2>5 DEF TopicExam
  <2> QED
    BY <2>2, <2>6
<1>2. ASSUME NEW t \in U
      PROVE  RecommendedMode(NewCount(t), DueCount(t), t \in mastered)
                 \in Modes \cup {"none"}
  BY DEF RecommendedMode, Modes
<1>3. Overview(mastered) \in [U -> CardType]
  BY <1>1, <1>2 DEF Overview, CardType
<1> QED
  BY <1>3

\* What is left of the queue is the queue, without the item.
LEMMA UnqueuedIs ==
  ASSUME QueueInv, NEW i \in Items, card[i] = "due"
  PROVE  /\ Unqueued(i) \in Seq(Items)
         /\ \A j \in DOMAIN Unqueued(i), k \in DOMAIN Unqueued(i) :
               Unqueued(i)[j] = Unqueued(i)[k] => j = k
         /\ {Unqueued(i)[k] : k \in DOMAIN Unqueued(i)}
               = {dueOrder[k] : k \in DOMAIN dueOrder} \ {i}
<1>1. PICK q : q = dueOrder
  OBVIOUS
<1>2. PICK n \in Nat : n = Len(q)
  BY <1>1 DEF QueueInv
<1>3. /\ q \in Seq(Items) /\ DOMAIN q = 1 .. n
      /\ \A j \in 1 .. n, k \in 1 .. n : q[j] = q[k] => j = k
      /\ \E k \in 1 .. n : q[k] = i
  <2>1. /\ q \in Seq(Items) /\ DOMAIN q = 1 .. n
    BY <1>1, <1>2 DEF QueueInv
  <2>2. /\ \A j \in DOMAIN q, k \in DOMAIN q : q[j] = q[k] => j = k
        /\ i \in {q[k] : k \in DOMAIN q}
    BY <1>1 DEF QueueInv
  <2> QED
    BY <2>1, <2>2
<1>4. PICK at \in 1 .. n : q[at] = i /\ at = CHOOSE k \in DOMAIN q : q[k] = i
  BY <1>3
<1>4a. at \in 1 .. n /\ q[at] = i
  BY <1>4
<1>5. PICK r : r = [k \in 1 .. n - 1 |-> q[IF k < at THEN k ELSE k + 1]]
  OBVIOUS
<1>6. Unqueued(i) = r
  BY <1>1, <1>2, <1>4, <1>5 DEF Unqueued
<1>7. PICK m \in Nat : m = n - 1
  BY <1>2, <1>4
<1>8. /\ r \in [1 .. m -> Items] /\ DOMAIN r = 1 .. m
      /\ \A k \in 1 .. m :
            /\ k < at => k \in 1 .. n /\ r[k] = q[k]
            /\ ~ (k < at) => k + 1 \in 1 .. n /\ r[k] = q[k + 1]
  <2>1. r = [k \in 1 .. m |-> q[IF k < at THEN k ELSE k + 1]]
    BY <1>5, <1>7
  <2>2. ASSUME NEW k \in 1 .. m, k < at
        PROVE  k \in 1 .. n /\ r[k] = q[k]
    <3>1. k \in 1 .. n
      BY <1>2, <1>4a, <1>7, <2>2
    <3> QED
      BY <2>1, <2>2, <3>1
  <2>3. ASSUME NEW k \in 1 .. m, ~ (k < at)
        PROVE  k + 1 \in 1 .. n /\ r[k] = q[k + 1]
    <3>1. k + 1 \in 1 .. n
      BY <1>2, <1>4a, <1>7, <2>3
    <3> QED
      BY <2>1, <2>3, <3>1
  <2>4. \A k \in 1 .. n : q[k] \in Items
    BY <1>3
  <2>5. \A k \in 1 .. m : r[k] \in Items
    BY <2>2, <2>3, <2>4
  <2> QED
    BY <2>1, <2>2, <2>3, <2>5
<1>9. r \in Seq(Items)
  BY <1>7, <1>8
<1>10. ASSUME NEW j \in 1 .. m, NEW k \in 1 .. m, r[j] = r[k]
       PROVE  j = k
  <2>1. PICK x \in 1 .. n : /\ r[j] = q[x]
                            /\ j < at => x = j
                            /\ ~ (j < at) => x = j + 1
    BY <1>8
  <2>2. PICK y \in 1 .. n : /\ r[k] = q[y]
                            /\ k < at => y = k
                            /\ ~ (k < at) => y = k + 1
    BY <1>8
  <2>3. q[x] = q[y]
    BY <1>10, <2>1, <2>2
  <2>4. x = y
    BY <1>3, <2>3
  <2>5. /\ j < at => x = j
        /\ ~ (j < at) => x = j + 1
        /\ k < at => x = k
        /\ ~ (k < at) => x = k + 1
    BY <2>1, <2>2, <2>4
  <2>6. at \in Nat /\ j \in Nat /\ k \in Nat /\ x \in Nat
    BY <1>2, <1>4a, <1>7
  <2> QED
    BY <2>5, <2>6
<1>11. ASSUME NEW k \in 1 .. m
       PROVE  \E j \in 1 .. n : q[j] = r[k] /\ r[k] # i
  <2>1. CASE k < at
    <3>1. k \in 1 .. n /\ r[k] = q[k] /\ k # at
      BY <1>2, <1>4a, <1>7, <1>8, <2>1
    <3> QED
      BY <1>3, <1>4a, <3>1
  <2>2. CASE ~ (k < at)
    <3>1. k + 1 \in 1 .. n /\ r[k] = q[k + 1] /\ k + 1 # at
      BY <1>2, <1>4a, <1>7, <1>8, <2>2
    <3> QED
      BY <1>3, <1>4a, <3>1
  <2> QED
    BY <2>1, <2>2
<1>12. ASSUME NEW j \in 1 .. n, q[j] # i
       PROVE  \E k \in 1 .. m : r[k] = q[j]
  <2>1. j # at
    BY <1>4a, <1>12
  <2>2. CASE j < at
    <3>1. j \in 1 .. m
      BY <1>4a, <1>7, <2>2
    <3> QED
      BY <1>8, <2>2, <3>1
  <2>3. CASE at < j
    <3>1. PICK k \in 1 .. m : k = j - 1
      BY <1>4a, <1>7, <2>3
    <3>2. ~ (k < at) /\ k + 1 = j
      BY <1>4a, <2>3, <3>1
    <3> QED
      BY <1>8, <3>2
  <2> QED
    BY <1>4a, <2>1, <2>2, <2>3
<1>13. {r[k] : k \in 1 .. m} = {q[k] : k \in 1 .. n} \ {i}
  <2>1. ASSUME NEW x \in {r[k] : k \in 1 .. m}
        PROVE  x \in {q[k] : k \in 1 .. n} \ {i}
    BY <1>11, <2>1
  <2>2. ASSUME NEW x \in {q[k] : k \in 1 .. n} \ {i}
        PROVE  x \in {r[k] : k \in 1 .. m}
    BY <1>12, <2>2
  <2> QED
    BY <2>1, <2>2
<1>14. \A j \in DOMAIN r, k \in DOMAIN r : r[j] = r[k] => j = k
  BY <1>8, <1>10
<1>15. {r[k] : k \in DOMAIN r} = {dueOrder[k] : k \in DOMAIN dueOrder} \ {i}
  <2>1. DOMAIN r = 1 .. m /\ DOMAIN dueOrder = 1 .. n
    BY <1>1, <1>3, <1>8
  <2>2. {dueOrder[k] : k \in 1 .. n} = {q[k] : k \in 1 .. n}
    BY <1>1
  <2> QED
    BY <1>13, <2>1, <2>2
<1> QED
  BY <1>6, <1>9, <1>14, <1>15

\* What is served is a candidate, and a new card only within the budget.
LEMMA ServableIs ==
  ASSUME QueueInv, NEW s \in DOMAIN sessions, NEW i \in Servable(s)
  PROVE  /\ i \in Candidates(s)
         /\ card[i] = "new" => BudgetLeft
         /\ sessions[s].config.mode = "daily_review" => ~BudgetSpent(s)
<1>1. Candidates(s) \subseteq Items
  BY DEF Candidates, QueueInv
<1>2. CASE sessions[s].config.mode = "daily_review"
  <2>1. i \in DailyPool(s) /\ ~BudgetSpent(s)
    BY <1>2 DEF Servable
  <2>2. CASE DuePlaces(s) # {}
    <3>1. PICK k \in DuePlaces(s) : i = dueOrder[k]
      BY <2>1, <2>2 DEF DailyPool
    <3>2. k \in DOMAIN dueOrder /\ i \in Candidates(s)
      BY <3>1 DEF DuePlaces
    <3>3. card[i] = "due"
      BY <3>1, <3>2 DEF QueueInv
    <3> QED
      BY <2>1, <3>2, <3>3
  <2>3. CASE DuePlaces(s) = {}
    BY <2>1, <2>3 DEF DailyPool
  <2> QED
    BY <2>2, <2>3
<1>3. CASE sessions[s].config.mode = "review"
  <2>1. i \in Candidates(s)
    BY <1>3 DEF Servable
  <2>2. card[i] = "due"
    BY <1>3, <2>1 DEF Candidates
  <2> QED
    BY <1>3, <2>1, <2>2
<1>4. CASE sessions[s].config.mode \notin {"daily_review", "review"}
  <2>1. i \in MixedPool(s)
    BY <1>4 DEF Servable
  <2> QED
    BY <1>4, <2>1 DEF MixedPool
<1> QED
  BY <1>2, <1>3, <1>4

-----------------------------------------------------------------------------
(* The actions on a page that send nothing. *)

SameSight(p, q) ==
    /\ q.screen = p.screen /\ q.run.sid = p.run.sid
    /\ q.run.phase = p.run.phase /\ q.run.item = p.run.item

Others(t) == \A u \in Tabs : u # t => page'[u] = page[u]

LEMMA FreshTyped ==
  /\ FreshSession \in RunType
  /\ FreshSession.sid = 0 /\ FreshSession.phase = "loading"
  /\ FreshSession.item = NoItem
  /\ NoReply \in ReplyType /\ NoReply.session = 0 /\ NoReply.item = NoItem
<1>1. [mode |-> "daily_review", topics |-> {}, exam |-> 0, byTime |-> FALSE]
          \in ConfigType
  BY DEF ConfigType, Modes
<1> QED
  BY <1>1 DEF FreshSession, RunType, NoReply, ReplyType

LEMMA PageOf ==
  ASSUME PagesInv, NEW t \in Tabs
  PROVE  /\ page[t] \in PageType /\ Run(t) \in RunType
         /\ page[t].run = Run(t)
         /\ Categories(t) \subseteq Topics /\ Chosen(t) \subseteq Topics
<1>1. page[t] \in PageType
  BY DEF PagesInv
<1>2. page[t].overview \in UNION {[S -> CardType] : S \in SUBSET Topics}
  BY <1>1 DEF PageType
<1>3. Categories(t) \subseteq Topics
  BY <1>2 DEF Categories
<1>4. page[t].sel \subseteq Topics /\ page[t].run \in RunType
  BY <1>1 DEF PageType
<1> QED
  BY <1>1, <1>3, <1>4 DEF Run, Chosen

\* A step that leaves the requests alone and shows no other question.
StillStep ==
    /\ page' \in [Tabs -> PageType]
    /\ \A u \in Tabs : SameSight(page[u], page'[u])
    /\ saved' \in [topics : SUBSET Topics, byTime : BOOLEAN]
    /\ UNCHANGED <<study, calls, left>>
    /\ faults' \in Nat /\ faults <= faults' /\ faults' <= MaxTrouble

\* Deletions and budgets timed out can be counted.
LEMMA MishapsCounted ==
  ASSUME QueueInv
  PROVE  /\ Cardinality(Items \ active) \in Nat
         /\ Cardinality({s \in DOMAIN sessions : sessions[s].timeUp}) \in Nat
<1>1. /\ IsFiniteSet(Items \ active)
      /\ IsFiniteSet({s \in DOMAIN sessions : sessions[s].timeUp})
  <2>1. IsFiniteSet(Items \ active)
    BY StudyAssumption, FS_Difference
  <2>2. PICK n \in Nat : n = Len(sessions)
    BY DEF QueueInv
  <2>3. IsFiniteSet(1 .. n) /\ DOMAIN sessions = 1 .. n
    BY <2>2, FS_Interval DEF QueueInv
  <2>4. IsFiniteSet({s \in DOMAIN sessions : sessions[s].timeUp})
    BY <2>3, FS_Subset
  <2> QED
    BY <2>1, <2>4
<1> QED
  BY <1>1, FS_CardinalityType

\* A failure that is still allowed keeps within the bound.
LEMMA Bounded ==
  ASSUME QueueInv, PagesInv, Trouble < MaxTrouble
  PROVE  faults + 1 \in Nat /\ faults + 1 <= MaxTrouble
<1>1. PICK a \in Nat : a = Cardinality(Items \ active)
  BY MishapsCounted
<1>2. PICK b \in Nat :
          b = Cardinality({s \in DOMAIN sessions : sessions[s].timeUp})
  BY MishapsCounted
<1>3. Mishaps = day + a + b
  BY <1>1, <1>2 DEF Mishaps
<1>4. day \in Nat /\ faults \in Nat /\ left \in Nat /\ MaxTrouble \in Nat
  BY RunnerAssumption DEF QueueInv, PagesInv
<1>5. faults + left + (day + a + b) < MaxTrouble
  BY <1>3 DEF Trouble
<1> QED
  BY <1>4, <1>5

LEMMA OverviewStill ==
  ASSUME StructInv, NEW t \in Tabs, FetchOverview(t)
  PROVE  StillStep
<1>1. PICK mastered \in MasteredSets :
          page' = [page EXCEPT
                     ![t].overview = Overview(mastered),
                     ![t].given = IF On(t, "daily") /\ Categories(t) = {}
                                  THEN Restored(DOMAIN Overview(mastered)) ELSE @,
                     ![t].sel = IF On(t, "daily") /\ Categories(t) = {}
                                THEN Seed(DOMAIN Overview(mastered)) ELSE @]
  BY DEF FetchOverview
<1>2. PICK o : o = Overview(mastered)
  OBVIOUS
<1>3. /\ o \in UNION {[S -> CardType] : S \in SUBSET Topics}
      /\ DOMAIN o \subseteq Topics
  BY <1>2, OverviewTyped DEF StructInv
<1>4. PICK g \in BOOLEAN : g = (IF On(t, "daily") /\ Categories(t) = {}
                                THEN Restored(DOMAIN o) ELSE page[t].given)
  BY PageOf DEF Restored, PageType, StructInv
<1>5. PICK x \in SUBSET Topics :
          x = (IF On(t, "daily") /\ Categories(t) = {}
               THEN Seed(DOMAIN o) ELSE page[t].sel)
  <2>1. Seed(DOMAIN o) \subseteq Topics
    BY <1>3 DEF Seed
  <2> QED
    BY <2>1, PageOf DEF PageType, StructInv
<1>6. page' = [page EXCEPT ![t].overview = o, ![t].given = g, ![t].sel = x]
  BY <1>1, <1>2, <1>4, <1>5
<1>7. page \in [Tabs -> PageType]
  BY DEF StructInv, PagesInv
<1>8. page' \in [Tabs -> PageType] /\ \A u \in Tabs : SameSight(page[u], page'[u])
  <2>1. PICK p : p = [page[t] EXCEPT !.overview = o, !.given = g, !.sel = x]
    OBVIOUS
  <2>2. page' = [page EXCEPT ![t] = p]
    BY <1>6, <1>7, <2>1
  <2>3. p \in PageType /\ SameSight(page[t], p)
    BY <1>3, <1>4, <1>5, <1>7, <2>1 DEF PageType, SameSight
  <2> QED
    BY <1>7, <2>2, <2>3 DEF SameSight
<1>9. UNCHANGED <<study, saved, calls, faults, left>>
  BY DEF FetchOverview
<1> QED
  BY <1>8, <1>9 DEF StillStep, StructInv, PagesInv

LEMMA FormStill ==
  ASSUME StructInv, NEW t \in Tabs,
         \/ ToggleAll(t) \/ SetLimitType(t) \/ SetTargetType(t)
         \/ \E u \in Topics : ToggleTopic(t, u)
         \/ \E kind \in Kinds : Select(t, kind)
  PROVE  StillStep
<1>1. page \in [Tabs -> PageType] /\ page[t] \in PageType
  BY PageOf DEF StructInv, PagesInv
<1>2. Categories(t) \subseteq Topics /\ Chosen(t) \subseteq Topics
  BY PageOf DEF StructInv
<1>3. \/ \E x \in SUBSET Topics :
            page' = [page EXCEPT ![t].given = TRUE, ![t].sel = x]
      \/ \E b \in BOOLEAN : page' = [page EXCEPT ![t].byTime = b]
      \/ \E k \in Kinds : page' = [page EXCEPT ![t].run.selected = k]
  <2>1. CASE ToggleAll(t)
    BY <1>2, <2>1 DEF ToggleAll
  <2>2. CASE SetLimitType(t) \/ SetTargetType(t)
    <3>1. (~page[t].byTime) \in BOOLEAN
      BY <1>1 DEF PageType
    <3> QED
      BY <2>2, <3>1 DEF SetLimitType, SetTargetType
  <2>3. ASSUME NEW u \in Topics, ToggleTopic(t, u)
        PROVE  \E x \in SUBSET Topics :
                  page' = [page EXCEPT ![t].given = TRUE, ![t].sel = x]
    <3>1. PICK x \in SUBSET Topics :
              x = (Chosen(t) \cup {u}) \ (Chosen(t) \cap {u})
      BY <1>2
    <3> QED
      BY <2>3, <3>1 DEF ToggleTopic
  <2>4. ASSUME NEW kind \in Kinds, Select(t, kind)
        PROVE  \E k \in Kinds : page' = [page EXCEPT ![t].run.selected = k]
    BY <2>4 DEF Select
  <2> QED
    BY <2>1, <2>2, <2>3, <2>4
<1>4. page' \in [Tabs -> PageType] /\ \A u \in Tabs : SameSight(page[u], page'[u])
  <2>1. ASSUME NEW x \in SUBSET Topics,
               page' = [page EXCEPT ![t].given = TRUE, ![t].sel = x]
        PROVE  page' \in [Tabs -> PageType]
               /\ \A u \in Tabs : SameSight(page[u], page'[u])
    BY <1>1, <2>1 DEF PageType, SameSight
  <2>2. ASSUME NEW b \in BOOLEAN, page' = [page EXCEPT ![t].byTime = b]
        PROVE  page' \in [Tabs -> PageType]
               /\ \A u \in Tabs : SameSight(page[u], page'[u])
    BY <1>1, <2>2 DEF PageType, SameSight
  <2>3. ASSUME NEW k \in Kinds, page' = [page EXCEPT ![t].run.selected = k]
        PROVE  page' \in [Tabs -> PageType]
               /\ \A u \in Tabs : SameSight(page[u], page'[u])
    BY <1>1, <2>3 DEF PageType, RunType, SameSight
  <2> QED
    BY <1>3, <2>1, <2>2, <2>3
<1>5. UNCHANGED <<study, saved, calls, faults, left>>
  BY DEF ToggleAll, SetLimitType, SetTargetType, ToggleTopic, Select
<1> QED
  BY <1>4, <1>5 DEF StillStep, StructInv, PagesInv

LEMMA SaveTargetStill ==
  ASSUME StructInv, NEW t \in Tabs, SaveTarget(t)
  PROVE  StillStep
<1>1. page' \in [Tabs -> PageType] /\ \A u \in Tabs : SameSight(page[u], page'[u])
  BY DEF SaveTarget, StructInv, PagesInv, SameSight
<1>2. page[t].byTime \in BOOLEAN
  BY PageOf DEF StructInv, PageType
<1>3. saved' \in [topics : SUBSET Topics, byTime : BOOLEAN]
  <2>1. saved \in [topics : SUBSET Topics, byTime : BOOLEAN]
    BY DEF StructInv, PagesInv
  <2>2. saved' = [saved EXCEPT !.byTime = page[t].byTime] \/ saved' = saved
    BY DEF SaveTarget
  <2> QED
    BY <1>2, <2>1, <2>2
<1>4. faults' \in Nat /\ faults <= faults' /\ faults' <= MaxTrouble
  BY Bounded DEF SaveTarget, StructInv, PagesInv
<1> QED
  BY <1>1, <1>3, <1>4 DEF SaveTarget, StillStep

-----------------------------------------------------------------------------
(* Counting. *)

LEMMA GhostsCounted ==
  ASSUME StructInv
  PROVE  /\ AllGhosts \subseteq 1 .. faults /\ IsFiniteSet(AllGhosts)
         /\ Cardinality(AllGhosts) \in Nat /\ Cardinality(AllGhosts) <= faults
         /\ \A s : /\ Ghosts(s) \subseteq AllGhosts /\ IsFiniteSet(Ghosts(s))
                   /\ Cardinality(Ghosts(s)) \in Nat
                   /\ Cardinality(Ghosts(s)) <= faults
<1>1. faults \in Nat /\ calls \subseteq CallType
  BY DEF StructInv, PagesInv
<1>2. ASSUME NEW c \in calls, ~Awaited(c)
      PROVE  c.lost \in 1 .. faults
  <2>1. c.lost \in Nat /\ c.lost # 0 /\ c.lost <= faults
    BY <1>1, <1>2 DEF CallType, Awaited, StructInv, TabInv, CallOK
  <2> QED
    BY <1>1, <2>1
<1>3. AllGhosts \subseteq 1 .. faults
  BY <1>2 DEF AllGhosts
<1>4. IsFiniteSet(1 .. faults) /\ Cardinality(1 .. faults) = faults
  BY <1>1, FS_Interval
<1>5. IsFiniteSet(AllGhosts) /\ Cardinality(AllGhosts) <= faults
  BY <1>3, <1>4, FS_Subset
<1>6. ASSUME NEW s
      PROVE  /\ Ghosts(s) \subseteq AllGhosts /\ IsFiniteSet(Ghosts(s))
             /\ Cardinality(Ghosts(s)) \in Nat
             /\ Cardinality(Ghosts(s)) <= faults
  <2>1. Ghosts(s) \subseteq AllGhosts
    BY DEF Ghosts, AllGhosts
  <2>2. Ghosts(s) \subseteq 1 .. faults
    BY <1>3, <2>1
  <2>3. IsFiniteSet(Ghosts(s)) /\ Cardinality(Ghosts(s)) <= faults
    BY <1>4, <2>2, FS_Subset
  <2> QED
    BY <2>1, <2>3, FS_CardinalityType
<1> QED
  BY <1>3, <1>5, <1>6, FS_CardinalityType

LEMMA AtMostOneMore ==
  ASSUME NEW S, IsFiniteSet(S), NEW x, NEW T, T \subseteq S \cup {x}
  PROVE  /\ IsFiniteSet(T) /\ Cardinality(T) \in Nat
         /\ Cardinality(T) <= Cardinality(S) + 1
         /\ T \subseteq S => Cardinality(T) <= Cardinality(S)
<1>1. /\ IsFiniteSet(S \cup {x})
      /\ Cardinality(S \cup {x}) = Cardinality(S)
            \/ Cardinality(S \cup {x}) = Cardinality(S) + 1
  BY FS_AddElement
<1>2. /\ IsFiniteSet(T) /\ Cardinality(T) <= Cardinality(S \cup {x})
  BY <1>1, FS_Subset
<1>3. T \subseteq S => Cardinality(T) <= Cardinality(S)
  BY FS_Subset
<1>4. /\ Cardinality(T) \in Nat /\ Cardinality(S) \in Nat
  BY <1>2, FS_CardinalityType
<1> QED
  BY <1>1, <1>2, <1>3, <1>4

LEMMA OneLess ==
  ASSUME NEW S, IsFiniteSet(S), NEW x \in S, NEW T, T \subseteq S \ {x}
  PROVE  /\ IsFiniteSet(T) /\ Cardinality(T) \in Nat
         /\ Cardinality(T) + 1 <= Cardinality(S)
<1>1. IsFiniteSet(S \ {x}) /\ Cardinality(S \ {x}) = Cardinality(S) - 1
  BY FS_RemoveElement
<1>2. IsFiniteSet(T) /\ Cardinality(T) <= Cardinality(S \ {x})
  BY <1>1, FS_Subset
<1>3. Cardinality(T) \in Nat /\ Cardinality(S) \in Nat
  BY <1>2, FS_CardinalityType
<1> QED
  BY <1>1, <1>2, <1>3

LEMMA InHandFinite ==
  ASSUME StructInv
  PROVE  /\ Len(sessions) \in Nat /\ DOMAIN sessions = 1 .. Len(sessions)
         /\ NewInHand \subseteq DOMAIN sessions
         /\ IsFiniteSet(NewInHand) /\ Cardinality(NewInHand) \in Nat
         /\ IsFiniteSet(DOMAIN sessions)
         /\ Cardinality(DOMAIN sessions) = Len(sessions)
         /\ Cardinality(NewInHand) <= Len(sessions)
<1>1. Len(sessions) \in Nat /\ DOMAIN sessions = 1 .. Len(sessions)
  BY DEF StructInv, QueueInv
<1>2. NewInHand \subseteq DOMAIN sessions
  BY DEF NewInHand
<1>3. /\ IsFiniteSet(DOMAIN sessions)
      /\ Cardinality(DOMAIN sessions) = Len(sessions)
  <2>1. PICK n \in Nat : n = Len(sessions)
    BY <1>1
  <2>2. IsFiniteSet(1 .. n) /\ Cardinality(1 .. n) = n
    BY FS_Interval
  <2> QED
    BY <1>1, <2>1, <2>2
<1>4. /\ IsFiniteSet(NewInHand)
      /\ Cardinality(NewInHand) <= Cardinality(DOMAIN sessions)
  BY <1>2, <1>3, FS_Subset
<1>5. Cardinality(NewInHand) \in Nat
  BY <1>4, FS_CardinalityType
<1> QED
  BY <1>1, <1>2, <1>3, <1>4, <1>5

LEMMA SessionOf ==
  ASSUME StructInv, NEW s \in DOMAIN sessions
  PROVE  /\ sessions[s] \in SessionType
         /\ AnsweredIn(s) \subseteq Items /\ IsFiniteSet(AnsweredIn(s))
         /\ Cardinality(AnsweredIn(s)) \in Nat /\ Delivered(s) \in Nat
         /\ s \in Nat /\ s # 0 /\ s <= Len(sessions) /\ Len(sessions) \in Nat
<1>1. sessions[s] \in SessionType /\ DOMAIN sessions = 1 .. Len(sessions)
      /\ Len(sessions) \in Nat
  BY DEF StructInv, QueueInv
<1>2. AnsweredIn(s) \subseteq Items /\ Delivered(s) \in Nat
  BY <1>1 DEF SessionType, AnsweredIn, Delivered
<1>3. IsFiniteSet(AnsweredIn(s))
  BY <1>2, StudyAssumption, FS_Subset
<1>4. Cardinality(AnsweredIn(s)) \in Nat
  BY <1>3, FS_CardinalityType
<1> QED
  BY <1>1, <1>2, <1>3, <1>4

\* No question comes into hand, no failure is added to those that count.
QuietHands ==
    /\ \A s \in DOMAIN sessions, i \in Items : Hand(s, i)' => Hand(s, i)
    /\ \A s \in DOMAIN sessions : Ghosts(s)' \subseteq Ghosts(s)
    /\ AllGhosts' \subseteq AllGhosts

\* Nothing is answered.
QuietQueue ==
    /\ \A i \in Items : card'[i] = "new" => card[i] = "new"
    /\ introduced' \in Nat /\ introduced' <= introduced
    /\ Len(sessions') = Len(sessions) /\ DOMAIN sessions' = DOMAIN sessions
    /\ \A s \in DOMAIN sessions :
          /\ AnsweredIn(s)' = AnsweredIn(s) /\ Delivered(s)' = Delivered(s)
          /\ sessions'[s].config = sessions[s].config

LEMMA QuietCounts ==
  ASSUME StudyInv, QuietHands, QuietQueue, faults' \in Nat, faults <= faults'
  PROVE  OvershootInv' /\ RepeatInv' /\ DailyInv'
<1>1. StructInv /\ faults \in Nat /\ introduced \in Nat
  BY DEF StudyInv, StructInv, PagesInv, QueueInv
<1>2. ASSUME NewCap > 0
      PROVE  introduced' + Cardinality(NewInHand)' + Cardinality(AllGhosts)'
                 <= NewCap - 1 + Len(sessions)' + faults'
  <2>1. NewInHand' \subseteq NewInHand
    BY <1>1, SessionOf DEF NewInHand, QuietHands, QuietQueue
  <2>2. AllGhosts' \subseteq AllGhosts
    BY DEF QuietHands
  <2>3. PICK h \in Nat, k \in Nat : /\ h = Cardinality(NewInHand)
                                    /\ k = Cardinality(NewInHand') /\ k <= h
    BY <1>1, <2>1, InHandFinite, AtMostOneMore
  <2>4. PICK a \in Nat, b \in Nat : /\ a = Cardinality(AllGhosts)
                                    /\ b = Cardinality(AllGhosts') /\ b <= a
    BY <1>1, <2>2, GhostsCounted, AtMostOneMore
  <2>5. introduced + h + a <= NewCap - 1 + Len(sessions) + faults
    BY <1>2, <2>3, <2>4 DEF StudyInv, OvershootInv
  <2>6. /\ introduced' \in Nat /\ introduced' <= introduced
        /\ Len(sessions') = Len(sessions) /\ Len(sessions) \in Nat
        /\ NewCap \in Nat
    BY <1>1, InHandFinite, StudyAssumption DEF QuietQueue
  <2>7. PICK m \in Nat, n \in Nat, l \in Nat, f \in Nat, g \in Nat :
            /\ m = introduced /\ n = introduced' /\ n <= m
            /\ l = Len(sessions) /\ l = Len(sessions')
            /\ f = faults /\ g = faults' /\ f <= g
    BY <1>1, <2>6
  <2>8. m + h + a <= NewCap - 1 + l + f
    BY <2>5, <2>7
  <2>9. n + k + b <= NewCap - 1 + l + g
    <3>1. k <= h /\ b <= a /\ NewCap \in Nat
      BY <2>3, <2>4, <2>6
    <3> QED
      BY <2>7, <2>8, <3>1
  <2> QED
    BY <2>3, <2>4, <2>7, <2>9
<1>3. ASSUME NEW s \in DOMAIN sessions
      PROVE  /\ Delivered(s)' \in Nat /\ Delivered(s)' = Delivered(s)
             /\ AnsweredIn(s)' = AnsweredIn(s)
             /\ sessions'[s].config = sessions[s].config
             /\ \E g \in Nat, h \in Nat :
                   /\ g = Cardinality(Ghosts(s)) /\ h = Cardinality(Ghosts(s)')
                   /\ h <= g
             /\ \E a \in {0, 1}, b \in {0, 1} :
                   a = Again(s) /\ b = Again(s)' /\ b <= a
             /\ \E a \in {0, 1}, b \in {0, 1} :
                   a = InHand(s) /\ b = InHand(s)' /\ b <= a
  <2>1. /\ Delivered(s)' = Delivered(s) /\ AnsweredIn(s)' = AnsweredIn(s)
        /\ sessions'[s].config = sessions[s].config
    BY DEF QuietQueue
  <2>2. Delivered(s) \in Nat /\ AnsweredIn(s) \subseteq Items
    BY <1>1, SessionOf
  <2>3. Ghosts(s)' \subseteq Ghosts(s)
    BY DEF QuietHands
  <2>4. \E g \in Nat, h \in Nat :
           /\ g = Cardinality(Ghosts(s)) /\ h = Cardinality(Ghosts(s)')
           /\ h <= g
    BY <1>1, <2>3, GhostsCounted, AtMostOneMore
  <2>5. \A i \in Items : Hand(s, i)' => Hand(s, i)
    BY DEF QuietHands
  <2>6. \E a \in {0, 1}, b \in {0, 1} : a = Again(s) /\ b = Again(s)' /\ b <= a
    BY <2>1, <2>2, <2>5 DEF Again
  <2>7. \E a \in {0, 1}, b \in {0, 1} : a = InHand(s) /\ b = InHand(s)' /\ b <= a
    BY <2>5 DEF InHand
  <2> QED
    BY <2>1, <2>2, <2>4, <2>6, <2>7
<1>4. ASSUME NEW s \in DOMAIN sessions
      PROVE  Delivered(s)' + Cardinality(Ghosts(s))' + Again(s)'
                 <= Cardinality(AnsweredIn(s))' + faults'
  <2>1. PICK g \in Nat, h \in Nat :
           g = Cardinality(Ghosts(s)) /\ h = Cardinality(Ghosts(s)') /\ h <= g
    BY <1>3
  <2>2. PICK a \in {0, 1}, b \in {0, 1} : a = Again(s) /\ b = Again(s)' /\ b <= a
    BY <1>3
  <2>3. PICK n \in Nat : n = Cardinality(AnsweredIn(s))
    BY <1>1, SessionOf
  <2>4. Delivered(s) + g + a <= n + faults
    BY <2>1, <2>2, <2>3 DEF StudyInv, RepeatInv
  <2>5. Delivered(s)' \in Nat /\ Delivered(s)' = Delivered(s)
    BY <1>3
  <2>6. Delivered(s)' + h + b <= n + faults'
    BY <1>1, <2>1, <2>2, <2>3, <2>4, <2>5
  <2>7. n = Cardinality(AnsweredIn(s)')
    BY <1>3, <2>3
  <2> QED
    BY <2>1, <2>2, <2>6, <2>7
<1>5. ASSUME NEW s \in DOMAIN sessions,
             sessions'[s].config.mode = "daily_review",
             ~sessions'[s].config.byTime
      PROVE  Delivered(s)' + Cardinality(Ghosts(s))' + InHand(s)' <= Target + faults'
  <2>1. PICK g \in Nat, h \in Nat :
           g = Cardinality(Ghosts(s)) /\ h = Cardinality(Ghosts(s)') /\ h <= g
    BY <1>3
  <2>2. PICK a \in {0, 1}, b \in {0, 1} : a = InHand(s) /\ b = InHand(s)' /\ b <= a
    BY <1>3
  <2>3. sessions[s].config.mode = "daily_review" /\ ~sessions[s].config.byTime
    BY <1>3, <1>5
  <2>4. Delivered(s) + g + a <= Target + faults
    BY <2>1, <2>2, <2>3 DEF StudyInv, DailyInv
  <2>5. Delivered(s)' \in Nat /\ Delivered(s)' = Delivered(s) /\ Target \in Nat
    BY <1>3, StudyAssumption
  <2>6. Delivered(s)' + h + b <= Target + faults'
    BY <1>1, <2>1, <2>2, <2>4, <2>5
  <2> QED
    BY <2>1, <2>2, <2>6
<1>6. DOMAIN sessions' = DOMAIN sessions
  BY DEF QuietQueue
<1> QED
  BY <1>2, <1>4, <1>5, <1>6 DEF OvershootInv, RepeatInv, DailyInv

\* A failure brings one question back into hand, or one to those that count.
FailHands ==
    /\ faults' = faults + 1 /\ UNCHANGED study
    /\ \/ /\ \A s \in DOMAIN sessions, i \in Items : Hand(s, i)' => Hand(s, i)
          /\ \A s \in DOMAIN sessions : Ghosts(s)' \subseteq Ghosts(s) \cup {faults + 1}
          /\ AllGhosts' \subseteq AllGhosts \cup {faults + 1}
       \/ /\ \E r : \A s \in DOMAIN sessions, i \in Items :
                Hand(s, i)' => Hand(s, i) \/ s = r
          /\ \A s \in DOMAIN sessions : Ghosts(s)' \subseteq Ghosts(s)
          /\ AllGhosts' \subseteq AllGhosts

LEMMA FailCounts ==
  ASSUME StudyInv, FailHands
  PROVE  OvershootInv' /\ RepeatInv' /\ DailyInv'
<1>1. StructInv /\ faults \in Nat /\ introduced \in Nat /\ faults' = faults + 1
  BY DEF StudyInv, StructInv, PagesInv, QueueInv, FailHands
<1>2. sessions' = sessions /\ introduced' = introduced /\ card' = card
  BY DEF FailHands, study
<1>3. ASSUME NewCap > 0
      PROVE  introduced' + Cardinality(NewInHand)' + Cardinality(AllGhosts)'
                 <= NewCap - 1 + Len(sessions)' + faults'
  <2>1. \E h \in Nat, k \in Nat, a \in Nat, b \in Nat :
           /\ h = Cardinality(NewInHand) /\ k = Cardinality(NewInHand')
           /\ a = Cardinality(AllGhosts) /\ b = Cardinality(AllGhosts')
           /\ k + b <= h + a + 1
    <3>1. CASE /\ \A s \in DOMAIN sessions, i \in Items : Hand(s, i)' => Hand(s, i)
               /\ AllGhosts' \subseteq AllGhosts \cup {faults + 1}
      <4>1. NewInHand' \subseteq NewInHand
        BY <1>2, <3>1 DEF NewInHand
      <4>2. PICK h \in Nat, k \in Nat : /\ h = Cardinality(NewInHand)
                                        /\ k = Cardinality(NewInHand') /\ k <= h
        BY <1>1, <4>1, InHandFinite, AtMostOneMore
      <4>3. PICK a \in Nat, b \in Nat : /\ a = Cardinality(AllGhosts)
                                        /\ b = Cardinality(AllGhosts') /\ b <= a + 1
        BY <1>1, <3>1, GhostsCounted, AtMostOneMore
      <4>4. k + b <= h + a + 1
        BY <4>2, <4>3
      <4> QED
        BY <4>2, <4>3, <4>4
    <3>2. CASE /\ \E r : \A s \in DOMAIN sessions, i \in Items :
                     Hand(s, i)' => Hand(s, i) \/ s = r
               /\ AllGhosts' \subseteq AllGhosts
      <4>1. PICK r : \A s \in DOMAIN sessions, i \in Items :
                         Hand(s, i)' => Hand(s, i) \/ s = r
        BY <3>2
      <4>2. NewInHand' \subseteq NewInHand \cup {r}
        BY <1>2, <4>1 DEF NewInHand
      <4>3. PICK h \in Nat, k \in Nat : /\ h = Cardinality(NewInHand)
                                        /\ k = Cardinality(NewInHand') /\ k <= h + 1
        BY <1>1, <4>2, InHandFinite, AtMostOneMore
      <4>4. PICK a \in Nat, b \in Nat : /\ a = Cardinality(AllGhosts)
                                        /\ b = Cardinality(AllGhosts') /\ b <= a
        BY <1>1, <3>2, GhostsCounted, AtMostOneMore
      <4>5. k + b <= h + a + 1
        BY <4>3, <4>4
      <4> QED
        BY <4>3, <4>4, <4>5
    <3> QED
      BY <3>1, <3>2 DEF FailHands
  <2>2. PICK h \in Nat, k \in Nat, a \in Nat, b \in Nat :
           /\ h = Cardinality(NewInHand) /\ k = Cardinality(NewInHand')
           /\ a = Cardinality(AllGhosts) /\ b = Cardinality(AllGhosts')
           /\ k + b <= h + a + 1
    BY <2>1
  <2>3. PICK m \in Nat, l \in Nat, f \in Nat :
            m = introduced /\ l = Len(sessions) /\ f = faults
    BY <1>1, InHandFinite
  <2>4. m + h + a <= NewCap - 1 + l + f
    BY <1>3, <2>2, <2>3 DEF StudyInv, OvershootInv
  <2>5. k + b <= h + a + 1 /\ NewCap \in Nat
    BY <2>2, StudyAssumption
  <2>6. m + k + b <= NewCap - 1 + l + (f + 1)
    BY <2>4, <2>5
  <2> QED
    BY <1>1, <1>2, <2>2, <2>3, <2>6
<1>4. ASSUME NEW s \in DOMAIN sessions
      PROVE  \E g \in Nat, h \in Nat, a \in {0, 1}, b \in {0, 1},
                c \in {0, 1}, d \in {0, 1} :
                /\ g = Cardinality(Ghosts(s)) /\ h = Cardinality(Ghosts(s)')
                /\ a = Again(s) /\ b = Again(s)'
                /\ c = InHand(s) /\ d = InHand(s)'
                /\ h + b <= g + a + 1 /\ h + d <= g + c + 1
  <2>1. AnsweredIn(s)' = AnsweredIn(s) /\ AnsweredIn(s) \subseteq Items
    BY <1>1, <1>2, SessionOf DEF AnsweredIn
  <2>2. PICK a \in {0, 1}, b \in {0, 1}, c \in {0, 1}, d \in {0, 1} :
            a = Again(s) /\ b = Again(s)' /\ c = InHand(s) /\ d = InHand(s)'
    BY DEF Again, InHand
  <2>3. CASE /\ \A i \in Items : Hand(s, i)' => Hand(s, i)
             /\ Ghosts(s)' \subseteq Ghosts(s) \cup {faults + 1}
    <3>1. PICK g \in Nat, h \in Nat :
              /\ g = Cardinality(Ghosts(s)) /\ h = Cardinality(Ghosts(s)')
              /\ h <= g + 1
      BY <1>1, <2>3, GhostsCounted, AtMostOneMore
    <3>2. b <= a
      BY <2>1, <2>2, <2>3 DEF Again
    <3>3. d <= c
      BY <2>2, <2>3 DEF InHand
    <3>4. h + b <= g + a + 1 /\ h + d <= g + c + 1
      BY <3>1, <3>2, <3>3
    <3> QED
      BY <2>2, <3>1, <3>4
  <2>4. CASE Ghosts(s)' \subseteq Ghosts(s)
    <3>1. PICK g \in Nat, h \in Nat :
              /\ g = Cardinality(Ghosts(s)) /\ h = Cardinality(Ghosts(s)')
              /\ h <= g
      BY <1>1, <2>4, GhostsCounted, AtMostOneMore
    <3>2. h + b <= g + a + 1 /\ h + d <= g + c + 1
      BY <3>1
    <3> QED
      BY <2>2, <3>1, <3>2
  <2> QED
    BY <2>3, <2>4 DEF FailHands
<1>5. ASSUME NEW s \in DOMAIN sessions
      PROVE  Delivered(s)' + Cardinality(Ghosts(s))' + Again(s)'
                 <= Cardinality(AnsweredIn(s))' + faults'
  <2>1. PICK g \in Nat, h \in Nat, a \in {0, 1}, b \in {0, 1} :
                /\ g = Cardinality(Ghosts(s)) /\ h = Cardinality(Ghosts(s)')
                /\ a = Again(s) /\ b = Again(s)' /\ h + b <= g + a + 1
    BY <1>4
  <2>2. PICK n \in Nat, d \in Nat, f \in Nat :
            /\ n = Cardinality(AnsweredIn(s)) /\ d = Delivered(s) /\ f = faults
    BY <1>1, SessionOf
  <2>3. d + g + a <= n + f
    BY <2>1, <2>2 DEF StudyInv, RepeatInv
  <2>4. h + b <= g + a + 1
    BY <2>1
  <2>5. d + h + b <= n + (f + 1)
    BY <2>3, <2>4
  <2>6. Delivered(s)' = d /\ Cardinality(AnsweredIn(s))' = n
    BY <1>2, <2>2 DEF Delivered, AnsweredIn
  <2> QED
    BY <1>1, <2>1, <2>2, <2>5, <2>6
<1>6. ASSUME NEW s \in DOMAIN sessions,
             sessions[s].config.mode = "daily_review",
             ~sessions[s].config.byTime
      PROVE  Delivered(s)' + Cardinality(Ghosts(s))' + InHand(s)' <= Target + faults'
  <2>1. PICK g \in Nat, h \in Nat, a \in {0, 1}, b \in {0, 1} :
                /\ g = Cardinality(Ghosts(s)) /\ h = Cardinality(Ghosts(s)')
                /\ a = InHand(s) /\ b = InHand(s)' /\ h + b <= g + a + 1
    BY <1>4
  <2>2. PICK n \in Nat, d \in Nat, f \in Nat :
            n = Target /\ d = Delivered(s) /\ f = faults
    BY <1>1, SessionOf, StudyAssumption
  <2>3. d + g + a <= n + f
    BY <1>6, <2>1, <2>2 DEF StudyInv, DailyInv
  <2>4. h + b <= g + a + 1
    BY <2>1
  <2>5. d + h + b <= n + (f + 1)
    BY <2>3, <2>4
  <2>6. Delivered(s)' = d
    BY <1>2, <2>2 DEF Delivered
  <2> QED
    BY <1>1, <2>1, <2>2, <2>5, <2>6
<1> QED
  BY <1>2, <1>3, <1>5, <1>6 DEF OvershootInv, RepeatInv, DailyInv

\* Question i is handed out for session r.
HandOut(r, i) ==
    /\ UNCHANGED <<study, faults>>
    /\ r \in DOMAIN sessions /\ i \in Servable(r)
    /\ \A s \in DOMAIN sessions, j \in Items :
          Hand(s, j)' => (s # r /\ Hand(s, j)) \/ (s = r /\ j = i)
    /\ \A s \in DOMAIN sessions : Ghosts(s)' \subseteq Ghosts(s)
    /\ AllGhosts' \subseteq AllGhosts

LEMMA HandOutCounts ==
  ASSUME StudyInv, NEW r, NEW i, HandOut(r, i)
  PROVE  OvershootInv' /\ RepeatInv' /\ DailyInv'
<1>1. StructInv /\ faults \in Nat /\ introduced \in Nat /\ faults' = faults
  BY DEF StudyInv, StructInv, PagesInv, QueueInv, HandOut
<1>2. sessions' = sessions /\ introduced' = introduced /\ card' = card
  BY DEF HandOut, study
<1>3. /\ r \in DOMAIN sessions /\ i \in Items /\ i \notin AnsweredIn(r)
      /\ card[i] = "new" => introduced < NewCap
      /\ sessions[r].config.mode = "daily_review" => ~BudgetSpent(r)
  BY <1>1, ServableIs
     DEF HandOut, Candidates, BudgetLeft, StructInv, QueueInv
<1>4. /\ \E h \in Nat, k \in Nat :
            /\ h = Cardinality(NewInHand) /\ k = Cardinality(NewInHand')
            /\ k <= Len(sessions)
            /\ card[i] # "new" => k <= h
      /\ \E a \in Nat, b \in Nat :
            /\ a = Cardinality(AllGhosts) /\ b = Cardinality(AllGhosts')
            /\ b <= a /\ b <= faults
  <2>1. NewInHand' \subseteq DOMAIN sessions
    BY <1>2 DEF NewInHand
  <2>2. card[i] # "new" => NewInHand' \subseteq NewInHand
    BY <1>2 DEF NewInHand, HandOut
  <2>3. /\ IsFiniteSet(DOMAIN sessions)
        /\ Cardinality(DOMAIN sessions) = Len(sessions)
        /\ Cardinality(NewInHand) \in Nat /\ IsFiniteSet(NewInHand)
    BY <1>1, InHandFinite
  <2>4. Cardinality(NewInHand') \in Nat /\ Cardinality(NewInHand') <= Len(sessions)
    BY <2>1, <2>3, FS_Subset, FS_CardinalityType
  <2>5. card[i] # "new" => Cardinality(NewInHand') <= Cardinality(NewInHand)
    BY <2>2, <2>3, FS_Subset
  <2>6. AllGhosts' \subseteq AllGhosts
    BY DEF HandOut
  <2>7. /\ IsFiniteSet(AllGhosts)
        /\ Cardinality(AllGhosts) \in Nat /\ Cardinality(AllGhosts) <= faults
    BY <1>1, GhostsCounted
  <2>8. PICK a \in Nat, b \in Nat :
           a = Cardinality(AllGhosts) /\ b = Cardinality(AllGhosts') /\ b <= a
    BY <2>6, <2>7, AtMostOneMore
  <2>9. b <= faults
    BY <1>1, <2>7, <2>8
  <2> QED
    BY <2>3, <2>4, <2>5, <2>8, <2>9
<1>5. ASSUME NewCap > 0
      PROVE  introduced' + Cardinality(NewInHand)' + Cardinality(AllGhosts)'
                 <= NewCap - 1 + Len(sessions)' + faults'
  <2>1. PICK h \in Nat, k \in Nat :
            /\ h = Cardinality(NewInHand) /\ k = Cardinality(NewInHand')
            /\ k <= Len(sessions)
            /\ card[i] # "new" => k <= h
    BY <1>4
  <2>2. PICK a \in Nat, b \in Nat :
            /\ a = Cardinality(AllGhosts) /\ b = Cardinality(AllGhosts')
            /\ b <= a /\ b <= faults
    BY <1>4
  <2>3. PICK m \in Nat, l \in Nat, f \in Nat :
            m = introduced /\ l = Len(sessions) /\ f = faults
    BY <1>1, InHandFinite
  <2>4. m + h + a <= NewCap - 1 + l + f
    BY <1>5, <2>1, <2>2, <2>3 DEF StudyInv, OvershootInv
  <2>5. NewCap \in Nat
    BY StudyAssumption
  <2>6. k <= l /\ b <= a /\ b <= f
    BY <2>1, <2>2, <2>3
  <2>7. CASE card[i] = "new"
    <3>1. m < NewCap
      BY <1>3, <2>3, <2>7
    <3>2. m + k + b <= NewCap - 1 + l + f
      BY <2>5, <2>6, <3>1
    <3> QED
      BY <1>1, <1>2, <2>1, <2>2, <2>3, <3>2
  <2>8. CASE card[i] # "new"
    <3>1. k <= h
      BY <2>1, <2>8
    <3>2. m + k + b <= NewCap - 1 + l + f
      BY <2>4, <2>5, <2>6, <3>1
    <3> QED
      BY <1>1, <1>2, <2>1, <2>2, <2>3, <3>2
  <2> QED
    BY <2>7, <2>8
<1>6. ASSUME NEW s \in DOMAIN sessions
      PROVE  \E g \in Nat, h \in Nat, a \in {0, 1}, b \in {0, 1},
                c \in {0, 1}, d \in {0, 1} :
                /\ g = Cardinality(Ghosts(s)) /\ h = Cardinality(Ghosts(s)')
                /\ a = Again(s) /\ b = Again(s)'
                /\ c = InHand(s) /\ d = InHand(s)'
                /\ h <= g /\ h <= faults /\ b <= a /\ (s # r => d <= c)
  <2>1. AnsweredIn(s)' = AnsweredIn(s) /\ AnsweredIn(s) \subseteq Items
    BY <1>1, <1>2, SessionOf DEF AnsweredIn
  <2>2. PICK a \in {0, 1}, b \in {0, 1}, c \in {0, 1}, d \in {0, 1} :
            a = Again(s) /\ b = Again(s)' /\ c = InHand(s) /\ d = InHand(s)'
    BY DEF Again, InHand
  <2>3. Ghosts(s)' \subseteq Ghosts(s)
    BY DEF HandOut
  <2>4. PICK g \in Nat, h \in Nat :
              /\ g = Cardinality(Ghosts(s)) /\ h = Cardinality(Ghosts(s)')
              /\ h <= g /\ g <= faults
    BY <1>1, <2>3, GhostsCounted, AtMostOneMore
  <2>5. h <= faults
    BY <1>1, <2>4
  <2>6. \A j \in Items : Hand(s, j)' => (s # r /\ Hand(s, j)) \/ (s = r /\ j = i)
    BY DEF HandOut
  <2>7. \A j \in AnsweredIn(s) : Hand(s, j)' => Hand(s, j)
    BY <1>3, <2>1, <2>6
  <2>8. b <= a
    BY <2>1, <2>2, <2>7 DEF Again
  <2>9. s # r => d <= c
    BY <2>2, <2>6 DEF InHand
  <2> QED
    BY <2>2, <2>4, <2>5, <2>8, <2>9
<1>7. ASSUME NEW s \in DOMAIN sessions
      PROVE  Delivered(s)' + Cardinality(Ghosts(s))' + Again(s)'
                 <= Cardinality(AnsweredIn(s))' + faults'
  <2>1. PICK g \in Nat, h \in Nat, a \in {0, 1}, b \in {0, 1} :
                /\ g = Cardinality(Ghosts(s)) /\ h = Cardinality(Ghosts(s)')
                /\ a = Again(s) /\ b = Again(s)' /\ h <= g /\ b <= a
    BY <1>6
  <2>2. PICK n \in Nat, d \in Nat, f \in Nat :
            /\ n = Cardinality(AnsweredIn(s)) /\ d = Delivered(s) /\ f = faults
    BY <1>1, SessionOf
  <2>3. d + g + a <= n + f
    BY <2>1, <2>2 DEF StudyInv, RepeatInv
  <2>4. h <= g /\ b <= a
    BY <2>1
  <2>5. d + h + b <= n + f
    BY <2>3, <2>4
  <2>6. Delivered(s)' = d /\ Cardinality(AnsweredIn(s))' = n
    BY <1>2, <2>2 DEF Delivered, AnsweredIn
  <2> QED
    BY <1>1, <2>1, <2>2, <2>5, <2>6
<1>8. ASSUME NEW s \in DOMAIN sessions,
             sessions[s].config.mode = "daily_review",
             ~sessions[s].config.byTime
      PROVE  Delivered(s)' + Cardinality(Ghosts(s))' + InHand(s)' <= Target + faults'
  <2>1. PICK g \in Nat, h \in Nat, a \in {0, 1}, b \in {0, 1} :
                /\ g = Cardinality(Ghosts(s)) /\ h = Cardinality(Ghosts(s)')
                /\ a = InHand(s) /\ b = InHand(s)'
                /\ h <= g /\ h <= faults /\ (s # r => b <= a)
    BY <1>6
  <2>2. PICK n \in Nat, d \in Nat, f \in Nat :
            n = Target /\ d = Delivered(s) /\ f = faults
    BY <1>1, SessionOf, StudyAssumption
  <2>3. d + g + a <= n + f
    BY <1>8, <2>1, <2>2 DEF StudyInv, DailyInv
  <2>4. h <= g /\ h <= f
    BY <2>1, <2>2
  <2>5. d + h + b <= n + f
    <3>1. CASE s = r
      <4>1. d < n
        <5>1. ~ (Delivered(s) >= Target)
          BY <1>3, <1>8, <3>1 DEF BudgetSpent
        <5> QED
          BY <2>2, <5>1
      <4> QED
        BY <2>4, <4>1
    <3>2. CASE s # r
      <4>1. b <= a
        BY <2>1, <3>2
      <4> QED
        BY <2>3, <2>4, <4>1
    <3> QED
      BY <3>1, <3>2
  <2>6. Delivered(s)' = d
    BY <1>2, <2>2 DEF Delivered
  <2> QED
    BY <1>1, <2>1, <2>2, <2>5, <2>6
<1> QED
  BY <1>2, <1>5, <1>7, <1>8 DEF OvershootInv, RepeatInv, DailyInv

\* What recording answer i does to the tables.
LEMMA AnswerTables ==
  ASSUME StructInv, NEW r \in DOMAIN sessions, NEW i \in Items, NEW kind,
         Answer(r, i, kind)
  PROVE  /\ sessions' \in Seq(SessionType)
         /\ Len(sessions') = Len(sessions) /\ DOMAIN sessions' = DOMAIN sessions
         /\ \A s \in DOMAIN sessions :
               /\ sessions'[s].config = sessions[s].config
               /\ sessions'[s].status = sessions[s].status
               /\ s # r => AnsweredIn(s)' = AnsweredIn(s)
                              /\ Delivered(s)' = Delivered(s)
         /\ AnsweredIn(r)' = AnsweredIn(r) \cup {i}
         /\ Delivered(r)' = Delivered(r) + 1
         /\ \A j \in Items : card'[j] = "new" => card[j] = "new"
         /\ \/ introduced' = introduced
            \/ /\ introduced' = introduced + 1
               /\ card[i] = "new" /\ card'[i] = "later"
<1>1. PICK x : x = [sessions[r] EXCEPT !.items = @ \cup {i}, !.delivered = @ + 1]
  OBVIOUS
<1>2. sessions \in Seq(SessionType) /\ sessions[r] \in SessionType
  BY SessionOf DEF StructInv, QueueInv
<1>3. sessions' = [sessions EXCEPT ![r] = x]
  BY <1>1, <1>2 DEF Answer
<1>4. /\ x \in SessionType /\ x.items = sessions[r].items \cup {i}
      /\ x.delivered = sessions[r].delivered + 1
      /\ x.config = sessions[r].config /\ x.status = sessions[r].status
  <2>1. PICK n \in Nat : n = sessions[r].delivered + 1
    BY <1>2 DEF SessionType
  <2>2. PICK m \in SUBSET Items : m = sessions[r].items \cup {i}
    BY <1>2 DEF SessionType
  <2>3. x = [sessions[r] EXCEPT !.items = m, !.delivered = n]
    BY <1>1, <2>1, <2>2
  <2> QED
    BY <1>2, <2>1, <2>2, <2>3 DEF SessionType
<1>5. /\ sessions' \in Seq(SessionType)
      /\ Len(sessions') = Len(sessions) /\ DOMAIN sessions' = DOMAIN sessions
      /\ \A s \in DOMAIN sessions :
            sessions'[s] = IF s = r THEN x ELSE sessions[s]
  BY <1>2, <1>3, <1>4
<1>6. \A s \in DOMAIN sessions :
               /\ sessions'[s].config = sessions[s].config
               /\ sessions'[s].status = sessions[s].status
               /\ s # r => AnsweredIn(s)' = AnsweredIn(s)
                              /\ Delivered(s)' = Delivered(s)
  BY <1>4, <1>5 DEF AnsweredIn, Delivered
<1>7. /\ AnsweredIn(r)' = AnsweredIn(r) \cup {i}
      /\ Delivered(r)' = Delivered(r) + 1
  BY <1>4, <1>5 DEF AnsweredIn, Delivered
<1>8. card \in [Items -> {"new", "due", "later"}]
  BY DEF StructInv, QueueInv
<1>9. card' = card \/ card' = [card EXCEPT ![i] = "later"]
  BY DEF Answer
<1>10. \A j \in Items : card'[j] = "new" => card[j] = "new"
  BY <1>8, <1>9
<1>11. \/ introduced' = introduced
       \/ /\ introduced' = introduced + 1
          /\ card[i] = "new" /\ card'[i] = "later"
  <2>1. CASE kind = "skip"
    BY <2>1 DEF Answer
  <2>2. CASE kind # "skip" /\ card[i] = "new"
    <3>1. card' = [card EXCEPT ![i] = "later"]
      BY <2>2 DEF Answer
    <3>2. introduced' = introduced + 1
      BY <2>2 DEF Answer
    <3> QED
      BY <1>8, <2>2, <3>1, <3>2
  <2>3. CASE kind # "skip" /\ card[i] # "new"
    <3>1. introduced' = introduced + 0 /\ introduced \in Nat
      BY <2>3 DEF Answer, StructInv, QueueInv
    <3> QED
      BY <3>1
  <2> QED
    BY <2>1, <2>2, <2>3
<1> QED
  BY <1>5, <1>6, <1>7, <1>10, <1>11

\* Answer i of session r is recorded.  Either the question was in hand and no
\* other takes its place, or its failure n counts no more.
Record(r, i) ==
    /\ faults' = faults
    /\ \A s \in DOMAIN sessions, j \in Items : Hand(s, j)' => Hand(s, j)
    /\ \A s \in DOMAIN sessions : Ghosts(s)' \subseteq Ghosts(s)
    /\ AllGhosts' \subseteq AllGhosts
    /\ \/ Hand(r, i) /\ \A j \in Items : ~Hand(r, j)'
       \/ \E n \in Ghosts(r) : n \notin Ghosts(r)' /\ n \notin AllGhosts'

LEMMA RecordCounts ==
  ASSUME StudyInv, NEW r \in DOMAIN sessions, NEW i \in Items, NEW kind,
         Answer(r, i, kind), Record(r, i)
  PROVE  OvershootInv' /\ RepeatInv' /\ DailyInv'
<1>1. StructInv /\ faults \in Nat /\ introduced \in Nat /\ faults' = faults
  BY DEF StudyInv, StructInv, PagesInv, QueueInv, Record
<1>2. /\ Len(sessions') = Len(sessions) /\ DOMAIN sessions' = DOMAIN sessions
      /\ \A s \in DOMAIN sessions :
            /\ sessions'[s].config = sessions[s].config
            /\ s # r => AnsweredIn(s)' = AnsweredIn(s) /\ Delivered(s)' = Delivered(s)
      /\ AnsweredIn(r)' = AnsweredIn(r) \cup {i}
      /\ Delivered(r)' = Delivered(r) + 1
      /\ \A j \in Items : card'[j] = "new" => card[j] = "new"
      /\ \/ introduced' = introduced
         \/ /\ introduced' = introduced + 1
            /\ card[i] = "new" /\ card'[i] = "later"
  BY <1>1, AnswerTables
<1>3. PICK x \in {0, 1} : /\ introduced' = introduced + x
                          /\ x = 1 => card[i] = "new"
  BY <1>1, <1>2
<1>4. ASSUME NewCap > 0
      PROVE  introduced' + Cardinality(NewInHand)' + Cardinality(AllGhosts)'
                 <= NewCap - 1 + Len(sessions)' + faults'
  <2>1. NewInHand' \subseteq NewInHand
    BY <1>2 DEF NewInHand, Record
  <2>2. PICK h \in Nat, k \in Nat : /\ h = Cardinality(NewInHand)
                                    /\ k = Cardinality(NewInHand') /\ k <= h
    BY <1>1, <2>1, InHandFinite, AtMostOneMore
  <2>3. PICK a \in Nat, b \in Nat : /\ a = Cardinality(AllGhosts)
                                    /\ b = Cardinality(AllGhosts') /\ b <= a
    BY <1>1, GhostsCounted, AtMostOneMore DEF Record
  <2>4. x = 1 => k + 1 <= h \/ b + 1 <= a
    <3>1. CASE x = 1 /\ Hand(r, i) /\ \A j \in Items : ~Hand(r, j)'
      <4>1. r \in NewInHand
        BY <1>3, <3>1 DEF NewInHand
      <4>2. NewInHand' \subseteq NewInHand \ {r}
        BY <2>1, <3>1 DEF NewInHand
      <4>3. IsFiniteSet(NewInHand)
        BY <1>1, InHandFinite
      <4>4. k + 1 <= h
        BY <2>2, <4>1, <4>2, <4>3, OneLess
      <4> QED
        BY <4>4
    <3>2. CASE \E n \in Ghosts(r) : n \notin AllGhosts'
      <4>1. PICK n \in Ghosts(r) : n \notin AllGhosts'
        BY <3>2
      <4>2. n \in AllGhosts /\ IsFiniteSet(AllGhosts)
        BY <1>1, <4>1, GhostsCounted
      <4>3. AllGhosts' \subseteq AllGhosts \ {n}
        BY <4>1 DEF Record
      <4>4. b + 1 <= a
        BY <2>3, <4>2, <4>3, OneLess
      <4> QED
        BY <4>4
    <3> QED
      BY <3>1, <3>2 DEF Record
  <2>5. PICK m \in Nat, l \in Nat, f \in Nat :
            m = introduced /\ l = Len(sessions) /\ f = faults
    BY <1>1, InHandFinite
  <2>6. m + h + a <= NewCap - 1 + l + f
    BY <1>4, <2>2, <2>3, <2>5 DEF StudyInv, OvershootInv
  <2>7. (m + x) + k + b <= NewCap - 1 + l + f
    <3>1. k <= h /\ b <= a /\ NewCap \in Nat
      BY <2>2, <2>3, StudyAssumption
    <3>2. x = 0 \/ x = 1
      OBVIOUS
    <3>3. x + k + b <= h + a
      BY <2>4, <3>1, <3>2
    <3> QED
      BY <2>6, <3>1, <3>3
  <2>8. introduced' = m + x /\ Len(sessions') = l /\ faults' = f
    BY <1>1, <1>2, <1>3, <2>5
  <2> QED
    BY <2>2, <2>3, <2>7, <2>8
<1>5. ASSUME NEW s \in DOMAIN sessions
      PROVE  \E n \in Nat, p \in Nat, d \in Nat, e \in Nat :
                /\ n = Cardinality(AnsweredIn(s)) /\ p = Cardinality(AnsweredIn(s)')
                /\ d = Delivered(s) /\ e = Delivered(s)'
                /\ s # r => p = n /\ e = d /\ AnsweredIn(s)' = AnsweredIn(s)
                /\ s = r => e = d + 1
                /\ s = r /\ i \notin AnsweredIn(s) => p = n + 1
                /\ s = r /\ i \in AnsweredIn(s) =>
                      p = n /\ AnsweredIn(s)' = AnsweredIn(s)
  <2>1. PICK n \in Nat, d \in Nat : n = Cardinality(AnsweredIn(s)) /\ d = Delivered(s)
    BY <1>1, SessionOf
  <2>2. CASE s # r
    <3>1. AnsweredIn(s)' = AnsweredIn(s) /\ Delivered(s)' = Delivered(s)
      BY <1>2, <2>2
    <3> QED
      BY <2>1, <2>2, <3>1
  <2>3. CASE s = r /\ i \in AnsweredIn(s)
    <3>1. AnsweredIn(s)' = AnsweredIn(s) /\ Delivered(s)' = d + 1
      BY <1>2, <2>1, <2>3
    <3>2. d + 1 \in Nat
      OBVIOUS
    <3> QED
      BY <2>1, <2>3, <3>1, <3>2
  <2>4. CASE s = r /\ i \notin AnsweredIn(s)
    <3>1. AnsweredIn(s)' = AnsweredIn(s) \cup {i} /\ Delivered(s)' = d + 1
      BY <1>2, <2>1, <2>4
    <3>2. Cardinality(AnsweredIn(s) \cup {i}) = n + 1
      BY <1>1, <2>1, <2>4, SessionOf, FS_AddElement
    <3>3. d + 1 \in Nat /\ n + 1 \in Nat
      OBVIOUS
    <3> QED
      BY <2>1, <2>4, <3>1, <3>2, <3>3
  <2> QED
    BY <2>2, <2>3, <2>4
<1>6. ASSUME NEW s \in DOMAIN sessions
      PROVE  \E g \in Nat, h \in Nat, c \in {0, 1}, d \in {0, 1} :
                /\ g = Cardinality(Ghosts(s)) /\ h = Cardinality(Ghosts(s)')
                /\ c = InHand(s) /\ d = InHand(s)'
                /\ h <= g /\ d <= c
                /\ s = r => \/ h + 1 <= g
                            \/ /\ Hand(s, i) /\ \A j \in Items : ~Hand(s, j)'
                               /\ c = 1 /\ d = 0
  <2>1. PICK c \in {0, 1}, d \in {0, 1} : c = InHand(s) /\ d = InHand(s)'
    BY DEF InHand
  <2>2. Ghosts(s)' \subseteq Ghosts(s) /\ IsFiniteSet(Ghosts(s))
    BY <1>1, GhostsCounted DEF Record
  <2>3. PICK g \in Nat, h \in Nat :
              /\ g = Cardinality(Ghosts(s)) /\ h = Cardinality(Ghosts(s)')
              /\ h <= g
    BY <1>1, <2>2, GhostsCounted, AtMostOneMore
  <2>4. d <= c
    BY <2>1 DEF InHand, Record
  <2>5. ASSUME s = r, Hand(r, i), \A j \in Items : ~Hand(r, j)'
        PROVE  /\ Hand(s, i) /\ \A j \in Items : ~Hand(s, j)'
               /\ c = 1 /\ d = 0
    BY <2>1, <2>5 DEF InHand
  <2>6. ASSUME s = r, NEW n \in Ghosts(r), n \notin Ghosts(r)'
        PROVE  h + 1 <= g
    <3>1. n \in Ghosts(s) /\ Ghosts(s)' \subseteq Ghosts(s) \ {n}
      BY <2>2, <2>6
    <3> QED
      BY <2>2, <2>3, <3>1, OneLess
  <2>7. s = r => \/ h + 1 <= g
                 \/ /\ Hand(s, i) /\ \A j \in Items : ~Hand(s, j)'
                    /\ c = 1 /\ d = 0
    BY <2>5, <2>6 DEF Record
  <2> QED
    BY <2>1, <2>3, <2>4, <2>7
<1>7. ASSUME NEW s \in DOMAIN sessions
      PROVE  Delivered(s)' + Cardinality(Ghosts(s))' + Again(s)'
                 <= Cardinality(AnsweredIn(s))' + faults'
  <2>1. PICK g \in Nat, h \in Nat :
                /\ g = Cardinality(Ghosts(s)) /\ h = Cardinality(Ghosts(s)')
                /\ h <= g
                /\ s = r => h + 1 <= g \/ (Hand(s, i) /\ \A j \in Items : ~Hand(s, j)')
    BY <1>6
  <2>2. PICK n \in Nat, p \in Nat, d \in Nat, e \in Nat :
                /\ n = Cardinality(AnsweredIn(s)) /\ p = Cardinality(AnsweredIn(s)')
                /\ d = Delivered(s) /\ e = Delivered(s)'
                /\ s # r => p = n /\ e = d /\ AnsweredIn(s)' = AnsweredIn(s)
                /\ s = r => e = d + 1
                /\ s = r /\ i \notin AnsweredIn(s) => p = n + 1
                /\ s = r /\ i \in AnsweredIn(s) =>
                      p = n /\ AnsweredIn(s)' = AnsweredIn(s)
    BY <1>5
  <2>3. PICK a \in {0, 1}, b \in {0, 1}, f \in Nat :
            a = Again(s) /\ b = Again(s)' /\ f = faults
    BY <1>1 DEF Again
  <2>4. d + g + a <= n + f
    BY <2>1, <2>2, <2>3 DEF StudyInv, RepeatInv
  <2>5. AnsweredIn(s) \subseteq Items
    BY <1>1, SessionOf
  <2>6. AnsweredIn(s)' = AnsweredIn(s) => b <= a
    BY <2>3, <2>5 DEF Again, Record
  <2>7. s = r /\ (\A j \in Items : ~Hand(s, j)') => b = 0
    <3>1. s = r => AnsweredIn(s)' \subseteq Items
      BY <1>2, <2>5
    <3> QED
      BY <2>3, <3>1 DEF Again
  <2>8. Hand(s, i) /\ i \in AnsweredIn(s) => a = 1
    BY <2>3 DEF Again
  <2>9. e + h + b <= p + f
    <3>1. CASE s # r
      <4>1. p = n /\ e = d /\ b <= a /\ h <= g
        BY <2>1, <2>2, <2>6, <3>1
      <4> QED
        BY <2>4, <4>1
    <3>2. CASE s = r /\ i \in AnsweredIn(s)
      <4>1. p = n /\ e = d + 1 /\ b <= a /\ h <= g
        BY <2>1, <2>2, <2>6, <3>2
      <4>2. h + 1 <= g \/ (a = 1 /\ b = 0)
        BY <2>1, <2>7, <2>8, <3>2
      <4> QED
        BY <2>4, <4>1, <4>2
    <3>3. CASE s = r /\ i \notin AnsweredIn(s)
      <4>1. p = n + 1 /\ e = d + 1 /\ h <= g
        BY <2>1, <2>2, <3>3
      <4>2. h + 1 <= g \/ b = 0
        BY <2>1, <2>7, <3>3
      <4>3. b <= 1 /\ 0 <= a
        OBVIOUS
      <4> QED
        BY <2>4, <4>1, <4>2, <4>3
    <3> QED
      BY <3>1, <3>2, <3>3
  <2> QED
    BY <1>1, <2>1, <2>2, <2>3, <2>9
<1>8. ASSUME NEW s \in DOMAIN sessions,
             sessions'[s].config.mode = "daily_review",
             ~sessions'[s].config.byTime
      PROVE  Delivered(s)' + Cardinality(Ghosts(s))' + InHand(s)' <= Target + faults'
  <2>1. PICK g \in Nat, h \in Nat, a \in {0, 1}, b \in {0, 1} :
                /\ g = Cardinality(Ghosts(s)) /\ h = Cardinality(Ghosts(s)')
                /\ a = InHand(s) /\ b = InHand(s)'
                /\ h <= g /\ b <= a
                /\ s = r => h + 1 <= g \/ (a = 1 /\ b = 0)
    BY <1>6
  <2>2. PICK d \in Nat, e \in Nat :
                /\ d = Delivered(s) /\ e = Delivered(s)'
                /\ s # r => e = d
                /\ s = r => e = d + 1
    BY <1>5
  <2>3. PICK n \in Nat, f \in Nat : n = Target /\ f = faults
    BY <1>1, StudyAssumption
  <2>4. sessions[s].config.mode = "daily_review" /\ ~sessions[s].config.byTime
    BY <1>2, <1>8
  <2>5. d + g + a <= n + f
    BY <2>1, <2>2, <2>3, <2>4 DEF StudyInv, DailyInv
  <2>6. /\ h <= g /\ b <= a
        /\ s # r => e = d
        /\ s = r => e = d + 1
        /\ s = r => h + 1 <= g \/ (a = 1 /\ b = 0)
    BY <2>1, <2>2
  <2>7. e + h + b <= n + f
    BY <2>5, <2>6
  <2> QED
    BY <1>1, <2>1, <2>2, <2>3, <2>7
<1> QED
  BY <1>2, <1>4, <1>7, <1>8 DEF OvershootInv, RepeatInv, DailyInv

\* A session is started for which nothing is in hand.
NewSession ==
    /\ \E config \in ConfigType : StartSession(config)
    /\ faults' = faults
    /\ \A s \in DOMAIN sessions, j \in Items : Hand(s, j)' => Hand(s, j)
    /\ \A s \in DOMAIN sessions : Ghosts(s)' \subseteq Ghosts(s)
    /\ AllGhosts' \subseteq AllGhosts
    /\ \E n \in Nat :
          /\ n = Len(sessions) + 1
          /\ \A j \in Items : ~Hand(n, j)'
          /\ Ghosts(n)' = {}

LEMMA StartTables ==
  ASSUME StructInv, NEW config \in ConfigType, StartSession(config),
         NEW n \in Nat, n = Len(sessions)
  PROVE  /\ sessions' \in Seq(SessionType)
         /\ Len(sessions') = n + 1 /\ DOMAIN sessions' = 1 .. n + 1
         /\ DOMAIN sessions = 1 .. n
         /\ \A s \in 1 .. n : sessions'[s] = sessions[s]
         /\ AnsweredIn(n + 1)' = {} /\ Delivered(n + 1)' = 0
         /\ sessions'[n + 1].status = "in_progress"
<1>1. PICK x : x = [config |-> config, status |-> "in_progress", timeUp |-> FALSE,
                    items |-> {}, delivered |-> 0]
  OBVIOUS
<1>2. /\ x \in SessionType /\ x.items = {} /\ x.delivered = 0
      /\ x.status = "in_progress"
  BY <1>1 DEF SessionType
<1>3. sessions' = Append(sessions, x) /\ sessions \in Seq(SessionType)
  BY <1>1 DEF StartSession, StructInv, QueueInv
<1>5. /\ sessions' \in Seq(SessionType) /\ Len(sessions') = n + 1
      /\ DOMAIN sessions' = 1 .. n + 1 /\ sessions'[n + 1] = x
      /\ \A s \in 1 .. n : sessions'[s] = sessions[s]
  BY <1>2, <1>3
<1>6. DOMAIN sessions = 1 .. n
  BY <1>3
<1>7. AnsweredIn(n + 1)' = {} /\ Delivered(n + 1)' = 0
  BY <1>2, <1>5 DEF AnsweredIn, Delivered
<1> QED
  BY <1>2, <1>5, <1>6, <1>7

LEMMA NewSessionCounts ==
  ASSUME StudyInv, NewSession
  PROVE  OvershootInv' /\ RepeatInv' /\ DailyInv'
<1>1. StructInv /\ faults \in Nat /\ introduced \in Nat /\ faults' = faults
  BY DEF StudyInv, StructInv, PagesInv, QueueInv, NewSession
<1>2. PICK l \in Nat : l = Len(sessions) /\ DOMAIN sessions = 1 .. l
  BY <1>1, InHandFinite
<1>3. /\ Len(sessions') = l + 1 /\ DOMAIN sessions' = 1 .. l + 1
      /\ \A s \in 1 .. l : sessions'[s] = sessions[s]
      /\ AnsweredIn(l + 1)' = {} /\ Delivered(l + 1)' = 0
  BY <1>1, <1>2, StartTables DEF NewSession
<1>4. card' = card /\ introduced' = introduced
  BY DEF NewSession, StartSession
<1>5. \A s \in 1 .. l + 1 : s \in 1 .. l \/ s = l + 1
  OBVIOUS
<1>6. /\ \A j \in Items : ~Hand(l + 1, j)'
      /\ Ghosts(l + 1)' = {}
  <2>1. PICK n \in Nat : /\ n = Len(sessions) + 1
                         /\ \A j \in Items : ~Hand(n, j)'
                         /\ Ghosts(n)' = {}
    BY DEF NewSession
  <2>2. n = l + 1
    BY <1>2, <2>1
  <2>3. ASSUME NEW j \in Items
        PROVE  ~Hand(l + 1, j)'
    BY <2>1, <2>2 DEF Hand
  <2>4. Ghosts(l + 1)' = {}
    BY <2>1, <2>2 DEF Ghosts
  <2> QED
    BY <2>3, <2>4
<1>7. ASSUME NewCap > 0
      PROVE  introduced' + Cardinality(NewInHand)' + Cardinality(AllGhosts)'
                 <= NewCap - 1 + Len(sessions)' + faults'
  <2>1. NewInHand' \subseteq NewInHand
    BY <1>2, <1>3, <1>4, <1>5, <1>6 DEF NewInHand, NewSession
  <2>2. PICK h \in Nat, k \in Nat : /\ h = Cardinality(NewInHand)
                                    /\ k = Cardinality(NewInHand') /\ k <= h
    BY <1>1, <2>1, InHandFinite, AtMostOneMore
  <2>3. PICK a \in Nat, b \in Nat : /\ a = Cardinality(AllGhosts)
                                    /\ b = Cardinality(AllGhosts') /\ b <= a
    BY <1>1, GhostsCounted, AtMostOneMore DEF NewSession
  <2>4. PICK m \in Nat, f \in Nat : m = introduced /\ f = faults
    BY <1>1
  <2>5. m + h + a <= NewCap - 1 + l + f
    BY <1>2, <1>7, <2>2, <2>3, <2>4 DEF StudyInv, OvershootInv
  <2>6. m + k + b <= NewCap - 1 + (l + 1) + f
    <3>1. k <= h /\ b <= a /\ NewCap \in Nat
      BY <2>2, <2>3, StudyAssumption
    <3> QED
      BY <2>5, <3>1
  <2> QED
    BY <1>1, <1>3, <1>4, <2>2, <2>3, <2>4, <2>6
<1>8. ASSUME NEW s \in 1 .. l
      PROVE  \E g \in Nat, h \in Nat, a \in {0, 1}, b \in {0, 1},
                c \in {0, 1}, d \in {0, 1} :
                /\ g = Cardinality(Ghosts(s)) /\ h = Cardinality(Ghosts(s)')
                /\ a = Again(s) /\ b = Again(s)'
                /\ c = InHand(s) /\ d = InHand(s)'
                /\ h <= g /\ b <= a /\ d <= c
  <2>1. AnsweredIn(s)' = AnsweredIn(s) /\ AnsweredIn(s) \subseteq Items
    BY <1>1, <1>2, <1>3, SessionOf DEF AnsweredIn
  <2>2. PICK a \in {0, 1}, b \in {0, 1}, c \in {0, 1}, d \in {0, 1} :
            a = Again(s) /\ b = Again(s)' /\ c = InHand(s) /\ d = InHand(s)'
    BY DEF Again, InHand
  <2>3. Ghosts(s)' \subseteq Ghosts(s)
    BY <1>2 DEF NewSession
  <2>4. PICK g \in Nat, h \in Nat :
              /\ g = Cardinality(Ghosts(s)) /\ h = Cardinality(Ghosts(s)')
              /\ h <= g
    BY <1>1, <2>3, GhostsCounted, AtMostOneMore
  <2>5. \A j \in Items : Hand(s, j)' => Hand(s, j)
    BY <1>2 DEF NewSession
  <2>6. b <= a
    BY <2>1, <2>2, <2>5 DEF Again
  <2>7. d <= c
    BY <2>2, <2>5 DEF InHand
  <2> QED
    BY <2>2, <2>4, <2>6, <2>7
<1>9. ASSUME NEW s \in 1 .. l
      PROVE  Delivered(s)' + Cardinality(Ghosts(s))' + Again(s)'
                 <= Cardinality(AnsweredIn(s))' + faults'
  <2>1. PICK g \in Nat, h \in Nat, a \in {0, 1}, b \in {0, 1} :
                /\ g = Cardinality(Ghosts(s)) /\ h = Cardinality(Ghosts(s)')
                /\ a = Again(s) /\ b = Again(s)' /\ h <= g /\ b <= a
    BY <1>8
  <2>2. PICK n \in Nat, d \in Nat, f \in Nat :
            /\ n = Cardinality(AnsweredIn(s)) /\ d = Delivered(s) /\ f = faults
    BY <1>1, <1>2, SessionOf
  <2>3. d + g + a <= n + f
    BY <1>2, <2>1, <2>2 DEF StudyInv, RepeatInv
  <2>4. h <= g /\ b <= a
    BY <2>1
  <2>5. d + h + b <= n + f
    BY <2>3, <2>4
  <2>6. Delivered(s)' = d /\ Cardinality(AnsweredIn(s))' = n
    BY <1>3, <2>2 DEF Delivered, AnsweredIn
  <2> QED
    BY <1>1, <2>1, <2>2, <2>5, <2>6
<1>10. ASSUME NEW s \in 1 .. l,
              sessions'[s].config.mode = "daily_review",
              ~sessions'[s].config.byTime
       PROVE  Delivered(s)' + Cardinality(Ghosts(s))' + InHand(s)' <= Target + faults'
  <2>1. PICK g \in Nat, h \in Nat, a \in {0, 1}, b \in {0, 1} :
                /\ g = Cardinality(Ghosts(s)) /\ h = Cardinality(Ghosts(s)')
                /\ a = InHand(s) /\ b = InHand(s)' /\ h <= g /\ b <= a
    BY <1>8
  <2>2. PICK n \in Nat, d \in Nat, f \in Nat :
            n = Target /\ d = Delivered(s) /\ f = faults
    BY <1>1, <1>2, SessionOf, StudyAssumption
  <2>3. d + g + a <= n + f
    BY <1>2, <1>3, <1>10, <2>1, <2>2 DEF StudyInv, DailyInv
  <2>4. h <= g /\ b <= a
    BY <2>1
  <2>5. d + h + b <= n + f
    BY <2>3, <2>4
  <2>6. Delivered(s)' = d
    BY <1>3, <2>2 DEF Delivered
  <2> QED
    BY <1>1, <2>1, <2>2, <2>5, <2>6
<1>11. /\ Again(l + 1)' = 0 /\ InHand(l + 1)' = 0
       /\ Cardinality(Ghosts(l + 1))' = 0 /\ Cardinality(AnsweredIn(l + 1))' = 0
  <2>1. Again(l + 1)' = 0 /\ InHand(l + 1)' = 0
    BY <1>3, <1>6 DEF Again, InHand
  <2>2. Cardinality({}) = 0
    BY FS_EmptySet
  <2> QED
    BY <1>3, <1>6, <2>1, <2>2
<1>12. ASSUME NEW s \in 1 .. l + 1
       PROVE  Delivered(s)' + Cardinality(Ghosts(s))' + Again(s)'
                  <= Cardinality(AnsweredIn(s))' + faults'
  <2>1. CASE s \in 1 .. l
    BY <1>9, <2>1
  <2>2. CASE s = l + 1
    BY <1>1, <1>3, <1>11, <2>2
  <2> QED
    BY <2>1, <2>2
<1>13. ASSUME NEW s \in 1 .. l + 1,
              sessions'[s].config.mode = "daily_review",
              ~sessions'[s].config.byTime
       PROVE  Delivered(s)' + Cardinality(Ghosts(s))' + InHand(s)' <= Target + faults'
  <2>1. CASE s \in 1 .. l
    BY <1>10, <1>13, <2>1
  <2>2. CASE s = l + 1
    <3>1. Target \in Nat
      BY StudyAssumption
    <3> QED
      BY <1>1, <1>3, <1>11, <2>2, <3>1
  <2> QED
    BY <2>1, <2>2
<1> QED
  BY <1>3, <1>7, <1>12, <1>13 DEF OvershootInv, RepeatInv, DailyInv

-----------------------------------------------------------------------------
(* Who drives which session. *)

LEMMA CallOf ==
  ASSUME StructInv, NEW c \in calls
  PROVE  /\ c \in CallType /\ CallOK(c) /\ c.tab \in Tabs
         /\ c.gone \in Nat /\ c.lost \in Nat /\ c.session \in Nat
         /\ Sid(c) \in Nat /\ Sid(c) <= Len(sessions)
         /\ c \in Waiting(c.tab) <=> Live(c) /\ Awaited(c)
         /\ c.op # "start" => Sid(c) \in DOMAIN sessions
<1>1. c \in CallType /\ CallOK(c)
  BY DEF StructInv, PagesInv, TabInv
<1>2. c.reply \in ReplyType
  BY <1>1 DEF CallType
<1>3. /\ c.tab \in Tabs /\ c.gone \in Nat /\ c.lost \in Nat /\ c.session \in Nat
      /\ c.reply.session \in Nat
  BY <1>1, <1>2 DEF CallType, ReplyType
<1>4. PICK n \in Nat : n = Len(sessions) /\ DOMAIN sessions = 1 .. n
  BY InHandFinite
<1>5. c.op = "start" => c.reply.session <= n
  <2>1. CASE c.served
    BY <1>1, <1>4, <2>1 DEF CallOK
  <2>2. CASE ~c.served
    <3>1. c.reply.session = 0
      BY <1>1, <2>2, FreshTyped DEF CallOK
    <3> QED
      BY <1>4, <3>1
  <2> QED
    BY <2>1, <2>2
<1>6. c.op # "start" => c.session \in 1 .. n
  BY <1>1, <1>4 DEF CallOK
<1>7. c \in Waiting(c.tab) <=> Live(c) /\ Awaited(c)
  BY DEF Waiting
<1> QED
  BY <1>1, <1>3, <1>4, <1>5, <1>6, <1>7 DEF Sid

LEMMA TabOf ==
  ASSUME StructInv, NEW t \in Tabs
  PROVE  /\ page[t] \in PageType /\ Run(t) \in RunType /\ RunOK(page[t])
         /\ Run(t).sid \in Nat /\ Run(t).sid <= Len(sessions)
         /\ \A c \in Waiting(t) : /\ c \in calls /\ c.tab = t /\ Live(c) /\ Awaited(c)
                                  /\ Fits(c, page[t])
         /\ \A c \in Waiting(t), d \in Waiting(t) : c = d
<1>1. page[t] \in PageType /\ Run(t) \in RunType /\ page[t].run = Run(t)
  BY PageOf DEF StructInv
<1>2. RunOK(page[t])
  BY DEF StructInv, TabInv
<1>3. Run(t).sid \in Nat /\ Run(t).sid <= Len(sessions)
  <2>1. PICK n \in Nat : n = Len(sessions)
    BY InHandFinite
  <2>2. Run(t).sid \in 0 .. n
    BY <1>1, <1>2, <2>1 DEF RunOK
  <2> QED
    BY <2>1, <2>2
<1>4. \A c \in Waiting(t) : c \in calls /\ c.tab = t /\ Live(c) /\ Awaited(c)
  BY DEF Waiting
<1>5. \A c \in Waiting(t) : Fits(c, page[t])
  BY <1>4 DEF StructInv, TabInv
<1>6. \A c \in Waiting(t), d \in Waiting(t) : c = d
  BY <1>4 DEF StructInv, TabInv
<1> QED
  BY <1>1, <1>2, <1>3, <1>4, <1>5, <1>6

\* The party that drives a session is the only one.
LEMMA Sole ==
  ASSUME StructInv, NEW c \in calls, Awaited(c), Sid(c) # 0
  PROVE  /\ \A t \in Tabs : Run(t).sid = Sid(c) =>
               t = c.tab /\ ~Detached(c) /\ Waiting(t) = {c} /\ Fits(c, page[t])
         /\ \A e \in calls : Detached(e) /\ Sid(e) = Sid(c) => e = c
<1>1. ASSUME NEW t \in Tabs, Run(t).sid = Sid(c)
      PROVE  t = c.tab /\ ~Detached(c) /\ Waiting(t) = {c} /\ Fits(c, page[t])
  <2>1. ~Detached(c)
    BY <1>1 DEF StructInv, TokenInv
  <2>2. Live(c) /\ c.op # "start"
    BY <2>1 DEF Detached
  <2>3. c.tab \in Tabs /\ c \in Waiting(c.tab)
    BY <2>2, CallOf
  <2>4. Fits(c, page[c.tab])
    BY <2>3, TabOf
  <2>5. c.op \in {"next", "answer", "finish"}
    BY <2>2, CallOf DEF CallType
  <2>6. Run(c.tab).sid = Sid(c)
    BY <2>2, <2>4, <2>5 DEF Fits, Sid, Run
  <2>7. t = c.tab
    BY <1>1, <2>3, <2>6 DEF StructInv, TokenInv
  <2>8. Waiting(t) = {c}
    BY <2>3, <2>7, TabOf
  <2> QED
    BY <2>1, <2>4, <2>7, <2>8
<1>2. ASSUME NEW e \in calls, Detached(e), Sid(e) = Sid(c)
      PROVE  e = c
  <2>1. CASE Detached(c)
    BY <1>2, <2>1 DEF StructInv, TokenInv
  <2>2. CASE ~Detached(c)
    <3>1. Live(c) /\ c.op # "start"
      BY <2>2 DEF Detached
    <3>2. c.tab \in Tabs /\ c \in Waiting(c.tab)
      BY <3>1, CallOf
    <3>3. Fits(c, page[c.tab])
      BY <3>2, TabOf
    <3>4. c.op \in {"next", "answer", "finish"}
      BY <3>1, CallOf DEF CallType
    <3>5. Run(c.tab).sid = Sid(c)
      BY <3>1, <3>3, <3>4 DEF Fits, Sid, Run
    <3> QED
      BY <1>2, <3>2, <3>5 DEF StructInv, TokenInv
  <2> QED
    BY <2>1, <2>2
<1> QED
  BY <1>1, <1>2

\* What holds of a request and of a page holds as the tables and counts grow.
LEMMA KeepOK ==
  ASSUME StructInv, left' \in Nat, left <= left', faults' \in Nat, faults <= faults',
         Len(sessions') \in Nat, Len(sessions) <= Len(sessions')
  PROVE  /\ \A c \in calls : CallOK(c)'
         /\ \A p \in PageType : RunOK(p) => RunOK(p)'
<1>1. /\ left \in Nat /\ faults \in Nat /\ Len(sessions) \in Nat
  BY InHandFinite DEF StructInv, PagesInv
<1>2. ASSUME NEW n \in 1 .. Len(sessions)
      PROVE  n \in 1 .. Len(sessions')
  BY <1>1
<1>3. ASSUME NEW n \in 0 .. Len(sessions)
      PROVE  n \in 0 .. Len(sessions')
  BY <1>1
<1>4. ASSUME NEW c \in calls
      PROVE  CallOK(c)'
  <2>1. CallOK(c) /\ c.gone \in Nat /\ c.lost \in Nat
    BY CallOf
  <2>2. c.gone <= left' /\ c.lost <= faults'
    BY <1>1, <2>1 DEF CallOK
  <2> QED
    BY <1>2, <2>1, <2>2 DEF CallOK
<1>5. ASSUME NEW p \in PageType, RunOK(p)
      PROVE  RunOK(p)'
  BY <1>3, <1>5 DEF RunOK
<1> QED
  BY <1>4, <1>5

\* Steps that change neither the requests nor what the tabs show.
LEMMA SameTabs ==
  ASSUME StructInv, PagesInv', \A u \in Tabs : SameSight(page[u], page'[u]),
         calls' = calls, left' = left, faults <= faults',
         Len(sessions') = Len(sessions)
  PROVE  /\ TabInv' /\ TokenInv'
         /\ \A s \in Nat, i \in Items : Hand(s, i)' => Hand(s, i)
         /\ \A s \in Nat : Ghosts(s)' = Ghosts(s)
         /\ AllGhosts' = AllGhosts
<1>1. \A c \in calls : CallOK(c)'
  BY InHandFinite, KeepOK DEF StructInv, PagesInv
<1>2. ASSUME NEW t \in Tabs
      PROVE  /\ RunOK(page[t])' /\ Waiting(t)' = Waiting(t)
             /\ Run(t)'.sid = Run(t).sid /\ Run(t)'.phase = Run(t).phase
             /\ Run(t)'.item = Run(t).item /\ page'[t].screen = page[t].screen
             /\ page'[t].run = Run(t)' /\ page[t].run = Run(t)
             /\ \A c \in Waiting(t) : Fits(c, page[t])'
  <2>1. SameSight(page[t], page'[t])
    OBVIOUS
  <2>2. RunOK(page[t]) /\ \A c \in Waiting(t) : Fits(c, page[t])
    BY TabOf
  <2>3. RunOK(page[t])'
    BY <2>1, <2>2 DEF RunOK, SameSight
  <2>4. \A c \in Waiting(t) : Fits(c, page[t])'
    BY <2>1, <2>2 DEF Fits, SameSight
  <2>5. Waiting(t)' = Waiting(t)
    BY DEF Waiting
  <2> QED
    BY <2>1, <2>3, <2>4, <2>5 DEF SameSight, Run
<1>3. TabInv'
  <2>1. \A c \in calls, d \in calls :
          /\ c.lost # 0 /\ c.lost = d.lost => c = d
          /\ c \in Waiting(c.tab)' /\ d \in Waiting(c.tab)' => c = d
    BY <1>2, CallOf DEF StructInv, TabInv
  <2>2. \A c \in calls : c \in Waiting(c.tab)' => Fits(c, page[c.tab])'
    BY <1>2, CallOf
  <2> QED
    BY <1>1, <1>2, <2>1, <2>2 DEF TabInv
<1>4. TokenInv'
  BY <1>2 DEF StructInv, TokenInv
<1>5. ASSUME NEW s \in Nat, NEW i \in Items, Hand(s, i)'
      PROVE  Hand(s, i)
  BY <1>2, <1>5 DEF Hand, Held
<1> QED
  BY <1>3, <1>4, <1>5 DEF Ghosts, AllGhosts

\* A page is left: the request it waits for, if any, goes on without it.
LEMMA LeftAlone ==
  ASSUME StructInv, PagesInv', NEW t \in Tabs, calls' = Orphaned(t),
         \/ Waiting(t) = {} /\ left' = left
         \/ Waiting(t) # {} /\ left' = left + 1,
         \A u \in Tabs : u # t => page'[u] = page[u],
         page'[t].screen # "session", page'[t].run = FreshSession,
         sessions' = sessions, faults' = faults
  PROVE  /\ TabInv' /\ TokenInv'
         /\ \A s \in Nat, i \in Items : Hand(s, i)' => Hand(s, i)
         /\ \A s \in Nat : Ghosts(s)' \subseteq Ghosts(s)
         /\ AllGhosts' \subseteq AllGhosts
         /\ Waiting(t)' = {} /\ \A u \in Tabs : u # t => Waiting(u)' = Waiting(u)
         /\ \A d \in calls' : \E c \in calls :
               /\ d.op = c.op /\ d.served = c.served /\ d.reply = c.reply
               /\ d.item = c.item
<1>1. PICK l \in Nat : l = left
  BY DEF StructInv, PagesInv
<1>2. ASSUME NEW d \in calls'
      PROVE  \E c \in calls :
                /\ c \notin Waiting(t) => d = c
                /\ c \in Waiting(t) => d = [c EXCEPT !.gone = l + 1] /\ left' = l + 1
  BY <1>1, <1>2 DEF Orphaned
<1>3. ASSUME NEW d \in calls'
      PROVE  \E c \in calls :
                /\ c \in CallType
                /\ d \in CallType /\ d.op = c.op /\ d.session = c.session
                /\ d.item = c.item /\ d.reply = c.reply /\ d.served = c.served
                /\ d.ok = c.ok /\ d.lost = c.lost /\ d.tab = c.tab /\ d.kind = c.kind
                /\ c \notin Waiting(t) => d = c
                /\ c \in Waiting(t) => d.gone # 0 /\ d.gone = left'
  <2>1. PICK c \in calls :
                /\ c \notin Waiting(t) => d = c
                /\ c \in Waiting(t) => d = [c EXCEPT !.gone = l + 1] /\ left' = l + 1
    BY <1>2
  <2>2. c \in CallType
    BY CallOf
  <2>3. CASE c \in Waiting(t)
    <3>1. PICK g \in Nat : g = l + 1 /\ g # 0
      OBVIOUS
    <3>2. d = [c EXCEPT !.gone = g] /\ left' = g
      BY <2>1, <2>3, <3>1
    <3> QED
      BY <2>2, <2>3, <3>1, <3>2 DEF CallType
  <2> QED
    BY <2>1, <2>2, <2>3
<1>4. \A u \in Tabs : u # t => Waiting(u)' = Waiting(u)
  <2>1. ASSUME NEW u \in Tabs, u # t, NEW d \in Waiting(u)'
        PROVE  d \in Waiting(u)
    <3>1. d \in calls' /\ d.tab = u /\ Live(d) /\ Awaited(d)
      BY <2>1 DEF Waiting
    <3>2. PICK c \in calls :
                /\ d.tab = c.tab
                /\ c \notin Waiting(t) => d = c
                /\ c \in Waiting(t) => d.gone # 0
      BY <1>3, <3>1
    <3> QED
      BY <3>1, <3>2 DEF Waiting, Live
  <2>2. ASSUME NEW u \in Tabs, u # t, NEW c \in Waiting(u)
        PROVE  c \in Waiting(u)'
    <3>1. c \in calls /\ c \notin Waiting(t)
      BY <2>2 DEF Waiting
    <3>2. c \in calls'
      BY <3>1 DEF Orphaned
    <3> QED
      BY <2>2, <3>2 DEF Waiting
  <2> QED
    BY <2>1, <2>2
<1>5. Waiting(t)' = {}
  <2>1. ASSUME NEW d \in Waiting(t)'
        PROVE  FALSE
    <3>1. d \in calls' /\ d.tab = t /\ Live(d) /\ Awaited(d)
      BY <2>1 DEF Waiting
    <3>2. PICK c \in calls :
                /\ d.tab = c.tab
                /\ c \notin Waiting(t) => d = c
                /\ c \in Waiting(t) => d.gone # 0
      BY <1>3, <3>1
    <3> QED
      BY <3>1, <3>2 DEF Waiting, Live
  <2> QED
    BY <2>1
<1>6. /\ left' \in Nat /\ left <= left' /\ faults' \in Nat /\ faults <= faults'
      /\ Len(sessions') \in Nat /\ Len(sessions) <= Len(sessions')
  BY <1>1, InHandFinite DEF StructInv, PagesInv
<1>7. /\ \A c \in calls : CallOK(c)'
      /\ \A p \in PageType : RunOK(p) => RunOK(p)'
  BY <1>6, KeepOK
<1>8. \A d \in calls' : CallOK(d)'
  <2>1. ASSUME NEW d \in calls'
        PROVE  CallOK(d)'
    <3>1. PICK c \in calls :
                /\ c \in CallType
                /\ d \in CallType /\ d.op = c.op /\ d.session = c.session
                /\ d.item = c.item /\ d.reply = c.reply /\ d.served = c.served
                /\ d.ok = c.ok /\ d.lost = c.lost
                /\ c \notin Waiting(t) => d = c
                /\ c \in Waiting(t) => d.gone # 0 /\ d.gone = left'
      BY <1>3
    <3>2. CallOK(c)'
      BY <1>7
    <3>3. d.gone <= left'
      <4>1. CASE c \in Waiting(t)
        BY <1>6, <3>1, <4>1
      <4>2. CASE c \notin Waiting(t)
        BY <3>1, <3>2, <4>2 DEF CallOK
      <4> QED
        BY <4>1, <4>2
    <3> QED
      BY <3>1, <3>2, <3>3 DEF CallOK
  <2> QED
    BY <2>1
<1>9. \A u \in Tabs : RunOK(page[u])'
  <2>1. ASSUME NEW u \in Tabs, u # t
        PROVE  RunOK(page[u])'
    <3>1. PICK p : p = page[u]
      OBVIOUS
    <3>2. RunOK(p)' /\ page'[u] = p
      BY <1>7, <2>1, <3>1, TabOf
    <3> QED
      BY <3>2 DEF RunOK
  <2>2. RunOK(page[t])'
    BY <1>6, FreshTyped DEF RunOK
  <2> QED
    BY <2>1, <2>2
<1>10. \A c \in calls', d \in calls' : c.lost # 0 /\ c.lost = d.lost => c = d
  <2>1. ASSUME NEW d \in calls', NEW e \in calls', d.lost # 0, d.lost = e.lost
        PROVE  d = e
    <3>1. PICK c \in calls : /\ d.lost = c.lost
                             /\ c \notin Waiting(t) => d = c
      BY <1>3
    <3>2. PICK b \in calls : /\ e.lost = b.lost
                             /\ b \notin Waiting(t) => e = b
      BY <1>3
    <3>3. c = b
      BY <2>1, <3>1, <3>2 DEF StructInv, TabInv
    <3>4. c \notin Waiting(t)
      BY <2>1, <3>1 DEF Waiting, Awaited
    <3> QED
      BY <3>1, <3>2, <3>3, <3>4
  <2> QED
    BY <2>1
<1>11. ASSUME NEW d \in calls', d \in Waiting(d.tab)'
       PROVE  /\ d.tab \in Tabs /\ d.tab # t
              /\ d \in Waiting(d.tab) /\ Fits(d, page[d.tab])'
  <2>1. d.tab \in Tabs
    BY <1>3 DEF CallType
  <2>2. d.tab # t
    BY <1>5, <1>11
  <2>3. d \in Waiting(d.tab)
    BY <1>4, <1>11, <2>1, <2>2
  <2>4. Fits(d, page[d.tab])
    BY <2>1, <2>3, TabOf
  <2>5. Fits(d, page[d.tab])'
    BY <2>1, <2>2, <2>4 DEF Fits
  <2> QED
    BY <2>1, <2>2, <2>3, <2>5
<1>12. ASSUME NEW c \in calls', NEW d \in calls',
              c \in Waiting(c.tab)', d \in Waiting(c.tab)'
       PROVE  c = d
  BY <1>4, <1>11, <1>12, TabOf
<1>13. TabInv'
  BY <1>8, <1>9, <1>10, <1>11, <1>12 DEF TabInv
<1>14. \A u \in Tabs : /\ Run(u)'.sid # 0 => Run(u)'.sid = Run(u).sid /\ u # t
                       /\ u # t => Run(u)' = Run(u)
  BY FreshTyped DEF Run
<1>15. ASSUME NEW d \in calls', Detached(d)
       PROVE  \E c \in calls :
                 /\ Sid(d) = Sid(c) /\ d.op = c.op
                 /\ d.item = c.item /\ d.session = c.session
                 /\ Recorded(d) <=> Recorded(c)
                 /\ \/ Detached(c) /\ d = c
                    \/ /\ c \in Waiting(t)
                       /\ c \in calls /\ d.gone = left'
                       /\ d = [c EXCEPT !.gone = l + 1]
                       /\ Detached(c) \/ (c.op # "start" /\ Sid(c) = Run(t).sid)
  <2>1. PICK c \in calls :
                /\ c \notin Waiting(t) => d = c
                /\ c \in Waiting(t) => d = [c EXCEPT !.gone = l + 1] /\ left' = l + 1
    BY <1>2
  <2>2. c \in CallType
    BY CallOf
  <2>3. CASE c \notin Waiting(t)
    BY <1>15, <2>1, <2>3
  <2>4. CASE c \in Waiting(t)
    <3>1. PICK g \in Nat : g = l + 1 /\ g # 0
      OBVIOUS
    <3>2. d = [c EXCEPT !.gone = g] /\ left' = g
      BY <2>1, <2>4, <3>1
    <3>3. /\ d.op = c.op /\ d.reply = c.reply /\ d.session = c.session
          /\ d.served = c.served /\ d.ok = c.ok /\ d.item = c.item /\ d.gone = g
      BY <2>2, <3>2 DEF CallType
    <3>4. Fits(c, page[t]) /\ Live(c) /\ Awaited(c)
      BY <2>4, TabOf
    <3>5. c.op # "start" => Sid(c) = Run(t).sid
      <4>1. c.op \in {"start", "next", "answer", "finish"}
        BY <2>2 DEF CallType
      <4> QED
        BY <3>4, <4>1 DEF Fits, Sid, Run
    <3>6. c.op = "start" => Detached(c)
      BY <3>4 DEF Detached
    <3>7. Sid(d) = Sid(c) /\ (Recorded(d) <=> Recorded(c))
      BY <3>3 DEF Sid, Recorded
    <3> QED
      BY <2>1, <2>4, <3>1, <3>2, <3>3, <3>5, <3>6, <3>7
  <2> QED
    BY <2>3, <2>4
<1>16. TokenInv'
  <2>1. ASSUME NEW u \in Tabs, NEW v \in Tabs,
               Run(u)'.sid # 0, Run(u)'.sid = Run(v)'.sid
        PROVE  u = v
    BY <1>14, <2>1 DEF StructInv, TokenInv
  <2>2. ASSUME NEW d \in calls', NEW e \in calls', Detached(d), Detached(e),
               Sid(d) # 0, Sid(d) = Sid(e)
        PROVE  d = e
    <3>1. PICK c \in calls :
                 /\ Sid(d) = Sid(c)
                 /\ \/ Detached(c) /\ d = c
                    \/ /\ c \in Waiting(t)
                       /\ d = [c EXCEPT !.gone = l + 1]
                       /\ Detached(c) \/ Sid(c) = Run(t).sid
      BY <1>15, <2>2
    <3>2. PICK b \in calls :
                 /\ Sid(e) = Sid(b)
                 /\ \/ Detached(b) /\ e = b
                    \/ /\ b \in Waiting(t)
                       /\ e = [b EXCEPT !.gone = l + 1]
                       /\ Detached(b) \/ Sid(b) = Run(t).sid
      BY <1>15, <2>2
    <3>3. Awaited(c) /\ Awaited(b)
      BY <3>1, <3>2 DEF Detached, Waiting
    <3>4. CASE c \in Waiting(t) /\ b \in Waiting(t)
      <4>1. c = b
        BY <3>4, TabOf
      <4>2. d \notin Waiting(t)
        <5>1. d \in Waiting(t) => d \in calls /\ Live(d) /\ Awaited(d)
          BY TabOf
        <5>2. d \in Waiting(t) => d \in Waiting(t)'
          BY <5>1 DEF Waiting
        <5> QED
          BY <1>5, <5>2
      <4>3. e \notin Waiting(t)
        <5>1. e \in Waiting(t) => e \in calls /\ Live(e) /\ Awaited(e)
          BY TabOf
        <5>2. e \in Waiting(t) => e \in Waiting(t)'
          BY <5>1 DEF Waiting
        <5> QED
          BY <1>5, <5>2
      <4> QED
        BY <3>1, <3>2, <3>4, <4>1, <4>2, <4>3
    <3>5. CASE Detached(c) /\ Detached(b) /\ ~(c \in Waiting(t) /\ b \in Waiting(t))
      <4>1. c = b
        BY <2>2, <3>1, <3>2, <3>5 DEF StructInv, TokenInv
      <4> QED
        BY <3>1, <3>2, <3>5, <4>1
    <3>6. CASE Detached(c) /\ c \notin Waiting(t) /\ ~Detached(b)
      <4>1. Sid(c) = Run(t).sid /\ Sid(c) # 0
        BY <2>2, <3>1, <3>2, <3>6
      <4> QED
        BY <3>6, <4>1 DEF StructInv, TokenInv
    <3>7. CASE ~Detached(c) /\ Detached(b) /\ b \notin Waiting(t)
      <4>1. Sid(b) = Run(t).sid /\ Sid(b) # 0
        BY <2>2, <3>1, <3>2, <3>7
      <4> QED
        BY <3>7, <4>1 DEF StructInv, TokenInv
    <3> QED
      BY <3>1, <3>2, <3>4, <3>5, <3>6, <3>7
  <2>3. ASSUME NEW d \in calls', NEW u \in Tabs, Detached(d), Sid(d) # 0
        PROVE  Sid(d) # Run(u)'.sid
    <3>1. PICK c \in calls :
                 /\ Sid(d) = Sid(c)
                 /\ Detached(c) \/ Sid(c) = Run(t).sid
      BY <1>15, <2>3
    <3>2. CASE Run(u)'.sid = 0
      BY <2>3, <3>2
    <3>3. CASE Run(u)'.sid # 0
      <4>1. Run(u)'.sid = Run(u).sid /\ u # t
        BY <1>14, <3>3
      <4>2. Detached(c) => Sid(c) # Run(u).sid
        BY <2>3, <3>1 DEF StructInv, TokenInv
      <4>3. Run(t).sid # 0 => Run(t).sid # Run(u).sid
        BY <4>1 DEF StructInv, TokenInv
      <4> QED
        BY <2>3, <3>1, <4>1, <4>2, <4>3
    <3> QED
      BY <3>2, <3>3
  <2> QED
    BY <2>1, <2>2, <2>3 DEF TokenInv, Detached, Sid, Awaited, Live
<1>17. ASSUME NEW s \in Nat, NEW i \in Items, Hand(s, i)'
       PROVE  Hand(s, i)
  <2>1. ASSUME NEW u \in Tabs, Run(u)'.sid = s, Held(u, i)'
        PROVE  Hand(s, i)
    <3>1. u # t
      <4>1. Run(t)'.phase = "loading"
        BY FreshTyped DEF Run
      <4> QED
        BY <1>5, <2>1, <4>1 DEF Held
    <3>2. Run(u)' = Run(u) /\ Waiting(u)' = Waiting(u)
      BY <1>4, <1>14, <3>1
    <3> QED
      BY <2>1, <3>2 DEF Hand, Held
  <2>2. ASSUME NEW d \in calls', Detached(d), d.op = "answer", ~Recorded(d),
               d.session = s, d.item = i
        PROVE  Hand(s, i)
    <3>1. PICK c \in calls :
                 /\ d.op = c.op /\ d.item = c.item /\ d.session = c.session
                 /\ Recorded(d) <=> Recorded(c)
                 /\ Detached(c) \/ c \in Waiting(t)
      BY <1>15, <2>2
    <3>2. CASE Detached(c)
      BY <2>2, <3>1, <3>2 DEF Hand
    <3>3. CASE c \in Waiting(t)
      <4>1. Fits(c, page[t]) /\ Waiting(t) = {c}
        BY <3>3, TabOf
      <4>2. Run(t).phase = "active" /\ Run(t).item = i /\ Run(t).sid = s
        BY <2>2, <3>1, <4>1 DEF Fits, Run
      <4> QED
        BY <2>2, <3>1, <4>1, <4>2 DEF Hand, Held
    <3> QED
      BY <3>1, <3>2, <3>3
  <2> QED
    BY <1>17, <2>1, <2>2 DEF Hand, Detached, Recorded, Awaited, Live
<1>18. ASSUME NEW d \in calls', ~Awaited(d)
       PROVE  d \in calls
  <2>1. PICK c \in calls : d.lost = c.lost /\ (c \notin Waiting(t) => d = c)
    BY <1>3
  <2>2. c \notin Waiting(t)
    BY <1>18, <2>1 DEF Waiting, Awaited
  <2> QED
    BY <2>1, <2>2
<1>19. /\ \A s \in Nat : Ghosts(s)' \subseteq Ghosts(s)
       /\ AllGhosts' \subseteq AllGhosts
  BY <1>18 DEF Ghosts, AllGhosts, Awaited
<1>20. \A d \in calls' : \E c \in calls :
               /\ d.op = c.op /\ d.served = c.served /\ d.reply = c.reply
               /\ d.item = c.item
  BY <1>3
<1> QED
  BY <1>4, <1>5, <1>13, <1>16, <1>17, <1>19, <1>20

\* The requests X of tab t, one or none, give way to Y, one or none.
Exchange(t, X, Y) ==
    /\ X \subseteq calls /\ \A x \in X, y \in X : x = y
    /\ Y \subseteq CallType /\ \A x \in Y, y \in Y : x = y
    /\ calls' = (calls \ X) \cup Y
    /\ \A u \in Tabs : u # t => page'[u] = page[u]
    /\ RunOK(page[t])'
    /\ \A c \in Waiting(t) : c \in X \/ Fits(c, page'[t])
    /\ \A x \in X : x.tab = t
    /\ \A y \in Y :
          /\ y.tab = t /\ CallOK(y)'
          /\ y.lost # 0 => y.lost > faults \/ \E x \in X : x.lost = y.lost
          /\ Live(y) /\ Awaited(y) => Waiting(t) \subseteq X /\ Fits(y, page'[t])
          /\ Detached(y) /\ Sid(y) # 0 =>
                \/ Sid(y) > Len(sessions)
                \/ \E x \in X : Detached(x) /\ Sid(x) = Sid(y)
    /\ \/ Run(t)'.sid \in {0, Run(t).sid}
       \/ \E x \in X : /\ Detached(x) /\ Run(t)'.sid = Sid(x)
                       /\ \A y \in Y : ~Detached(y)

LEMMA Exchanged ==
  ASSUME StructInv, PagesInv', NEW t \in Tabs, NEW X, NEW Y, Exchange(t, X, Y),
         left <= left', faults <= faults',
         Len(sessions') \in Nat, Len(sessions) <= Len(sessions')
  PROVE  /\ TabInv' /\ TokenInv'
         /\ \A u \in Tabs : u # t => Waiting(u)' = Waiting(u)
         /\ Waiting(t)' = (Waiting(t) \ X) \cup {y \in Y : Live(y) /\ Awaited(y)}
         /\ \A s \in Nat, i \in Items : Hand(s, i)' =>
               \/ Hand(s, i)
               \/ Run(t)'.sid = s /\ Held(t, i)'
               \/ \E y \in Y : /\ Detached(y) /\ y.op = "answer" /\ ~Recorded(y)
                               /\ y.session = s /\ y.item = i
<1>1. /\ X \subseteq calls /\ \A x \in X, y \in X : x = y
      /\ Y \subseteq CallType /\ \A x \in Y, y \in Y : x = y
      /\ calls' = (calls \ X) \cup Y
      /\ \A u \in Tabs : u # t => page'[u] = page[u]
      /\ RunOK(page[t])'
      /\ \A c \in Waiting(t) : c \in X \/ Fits(c, page'[t])
      /\ \A x \in X : x.tab = t
  BY DEF Exchange
<1>2. ASSUME NEW y \in Y
      PROVE  /\ y.tab = t /\ CallOK(y)' /\ y.lost \in Nat
             /\ y.lost # 0 => y.lost > faults \/ \E x \in X : x.lost = y.lost
             /\ Live(y) /\ Awaited(y) => Waiting(t) \subseteq X /\ Fits(y, page'[t])
             /\ Detached(y) /\ Sid(y) # 0 =>
                   \/ Sid(y) > Len(sessions)
                   \/ \E x \in X : Detached(x) /\ Sid(x) = Sid(y)
  BY <1>1 DEF Exchange, CallType
<1>3. \/ Run(t)'.sid \in {0, Run(t).sid}
      \/ \E x \in X : /\ Detached(x) /\ Run(t)'.sid = Sid(x)
                      /\ \A y \in Y : ~Detached(y)
  BY DEF Exchange
<1>4. /\ left' \in Nat /\ faults' \in Nat /\ faults \in Nat /\ Len(sessions) \in Nat
  BY InHandFinite DEF StructInv, PagesInv
<1>5. /\ \A c \in calls : CallOK(c)'
      /\ \A p \in PageType : RunOK(p) => RunOK(p)'
  BY <1>4, KeepOK
<1>6. /\ \A u \in Tabs : u # t => Waiting(u)' = Waiting(u)
      /\ Waiting(t)' = (Waiting(t) \ X) \cup {y \in Y : Live(y) /\ Awaited(y)}
  BY <1>1, <1>2 DEF Waiting
<1>7. ASSUME NEW u \in Tabs
      PROVE  /\ RunOK(page[u])'
             /\ u # t => Run(u)' = Run(u) /\ page'[u] = page[u]
  <2>1. PICK p : p = page[u]
    OBVIOUS
  <2>2. RunOK(p) /\ p \in PageType
    BY <2>1, TabOf
  <2>3. RunOK(p)'
    BY <1>5, <2>2
  <2>4. u # t => page'[u] = p
    BY <1>1, <2>1
  <2>5. u # t => RunOK(page[u])'
    BY <2>3, <2>4 DEF RunOK
  <2> QED
    BY <1>1, <2>1, <2>4, <2>5 DEF Run
<1>8. \A d \in calls' : CallOK(d)'
  BY <1>1, <1>2, <1>5
<1>9. ASSUME NEW d \in calls', NEW e \in calls', d.lost # 0, d.lost = e.lost
      PROVE  d = e
  <2>1. ASSUME NEW y \in Y, NEW c \in calls, c \notin X, y.lost # 0
        PROVE  y.lost # c.lost
    <3>1. CASE y.lost > faults
      <4>1. c.lost <= faults /\ c.lost \in Nat
        BY CallOf DEF CallOK
      <4> QED
        BY <1>2, <1>4, <3>1, <4>1
    <3>2. CASE \E x \in X : x.lost = y.lost
      <4>1. PICK x \in X : x.lost = y.lost
        BY <3>2
      <4>2. x \in calls
        BY <1>1
      <4>3. x.lost = c.lost => x = c
        BY <2>1, <4>1, <4>2 DEF StructInv, TabInv
      <4> QED
        BY <2>1, <4>1, <4>3
    <3> QED
      BY <1>2, <2>1, <3>1, <3>2
  <2>2. CASE d \in Y /\ e \in Y
    BY <1>1, <2>2
  <2>3. CASE d \in calls \ X /\ e \in calls \ X
    BY <1>9, <2>3 DEF StructInv, TabInv
  <2> QED
    BY <1>1, <1>9, <2>1, <2>2, <2>3
<1>10. ASSUME NEW d \in calls', d \in Waiting(d.tab)'
       PROVE  /\ d.tab \in Tabs /\ Fits(d, page[d.tab])'
              /\ \A e \in calls' : e \in Waiting(d.tab)' => e = d
  <2>1. d.tab \in Tabs
    BY DEF PagesInv, CallType
  <2>2. CASE d.tab # t
    <3>1. Waiting(d.tab)' = Waiting(d.tab) /\ page'[d.tab] = page[d.tab]
      BY <1>6, <1>7, <2>1, <2>2
    <3>2. /\ Fits(d, page[d.tab])
          /\ \A e \in Waiting(d.tab) : e = d
      BY <1>10, <2>1, <3>1, TabOf
    <3>3. Fits(d, page[d.tab])'
      BY <3>1, <3>2 DEF Fits
    <3> QED
      BY <2>1, <3>1, <3>2, <3>3
  <2>3. CASE d.tab = t /\ d \in Waiting(t) \ X
    <3>1. Fits(d, page'[t])
      BY <1>1, <2>3
    <3>2. \A e \in Waiting(t) : e = d
      BY <2>3, TabOf
    <3>3. ASSUME NEW y \in Y, Live(y), Awaited(y)
          PROVE  FALSE
      BY <1>2, <2>3, <3>3
    <3>4. \A e \in Waiting(t)' : e = d
      BY <1>6, <3>2, <3>3
    <3> QED
      BY <2>1, <2>3, <3>1, <3>4 DEF Fits
  <2>4. CASE d.tab = t /\ d \in Y /\ Live(d) /\ Awaited(d)
    <3>1. Waiting(t) \subseteq X /\ Fits(d, page'[t])
      BY <1>2, <2>4
    <3>2. \A e \in Waiting(t)' : e = d
      BY <1>1, <1>6, <2>4, <3>1
    <3> QED
      BY <2>1, <2>4, <3>1, <3>2 DEF Fits
  <2> QED
    BY <1>6, <1>10, <2>1, <2>2, <2>3, <2>4
<1>11. TabInv'
  <2>1. \A c \in calls', d \in calls' :
          c \in Waiting(c.tab)' /\ d \in Waiting(c.tab)' => c = d
    BY <1>10
  <2> QED
    BY <1>7, <1>8, <1>9, <1>10, <2>1 DEF TabInv
<1>12. ASSUME NEW d \in calls, Detached(d), Sid(d) # 0, NEW e \in calls, Detached(e),
              Sid(d) = Sid(e)
       PROVE  d = e
  BY <1>12 DEF StructInv, TokenInv
<1>13. ASSUME NEW d \in calls, Detached(d), Sid(d) # 0, NEW u \in Tabs
       PROVE  Sid(d) # Run(u).sid
  BY <1>13 DEF StructInv, TokenInv
<1>14. ASSUME NEW u \in Tabs, NEW v \in Tabs, Run(u).sid # 0, Run(u).sid = Run(v).sid
       PROVE  u = v
  BY <1>14 DEF StructInv, TokenInv
<1>15. \A u \in Tabs : Run(u).sid \in Nat /\ Run(u).sid <= Len(sessions)
  BY TabOf
<1>16. \A c \in calls : Sid(c) \in Nat /\ Sid(c) <= Len(sessions)
  BY CallOf
<1>17. Run(t)'.sid \in Nat /\ Run(t)'.sid <= Len(sessions)
  BY <1>1, <1>3, <1>4, <1>15, <1>16
<1>18. ASSUME NEW u \in Tabs, NEW v \in Tabs, Run(u)'.sid # 0, Run(u)'.sid = Run(v)'.sid
       PROVE  u = v
  <2>1. ASSUME NEW w \in Tabs, w # t, Run(t)'.sid # 0
        PROVE  Run(t)'.sid # Run(w)'.sid
    <3>1. Run(w)' = Run(w)
      BY <1>7, <2>1
    <3>2. CASE Run(t)'.sid \in {0, Run(t).sid}
      BY <1>14, <2>1, <3>1, <3>2
    <3>3. CASE \E x \in X : Detached(x) /\ Run(t)'.sid = Sid(x)
      BY <1>1, <1>13, <2>1, <3>1, <3>3
    <3> QED
      BY <1>3, <3>2, <3>3
  <2>2. CASE u # t /\ v # t
    BY <1>7, <1>14, <1>18, <2>2
  <2> QED
    BY <1>18, <2>1, <2>2
<1>19. ASSUME NEW y \in Y, Detached(y), Sid(y) # 0
       PROVE  /\ \A c \in calls : c \notin X /\ Detached(c) => Sid(c) # Sid(y)
              /\ \A u \in Tabs : Sid(y) # Run(u)'.sid
  <2>1. Run(t)'.sid \in {0, Run(t).sid}
    BY <1>3, <1>19
  <2>2. \A u \in Tabs : Run(u)'.sid \in {0, Run(u).sid}
    BY <1>7, <2>1
  <2>3. CASE Sid(y) > Len(sessions)
    <3>1. \A c \in calls : Sid(c) # Sid(y)
      BY <1>4, <1>16, <2>3
    <3>2. \A u \in Tabs : Sid(y) # Run(u).sid
      BY <1>4, <1>15, <2>3
    <3> QED
      BY <1>19, <2>2, <3>1, <3>2
  <2>4. CASE \E x \in X : Detached(x) /\ Sid(x) = Sid(y)
    <3>1. PICK x \in X : Detached(x) /\ Sid(x) = Sid(y)
      BY <2>4
    <3>2. x \in calls
      BY <1>1
    <3>3. \A c \in calls : c \notin X /\ Detached(c) => Sid(c) # Sid(y)
      BY <1>12, <1>19, <3>1, <3>2
    <3>4. \A u \in Tabs : Sid(y) # Run(u).sid
      BY <1>13, <1>19, <3>1, <3>2
    <3> QED
      BY <1>19, <2>2, <3>3, <3>4
  <2> QED
    BY <1>2, <1>19, <2>3, <2>4
<1>20. ASSUME NEW d \in calls, d \notin X, Detached(d), Sid(d) # 0, NEW u \in Tabs
       PROVE  Sid(d) # Run(u)'.sid
  <2>1. CASE u # t
    BY <1>7, <1>13, <1>20, <2>1
  <2>2. CASE Run(t)'.sid \in {0, Run(t).sid} /\ u = t
    BY <1>13, <1>20, <2>2
  <2>3. CASE u = t /\ \E x \in X : Detached(x) /\ Run(t)'.sid = Sid(x)
    BY <1>1, <1>12, <1>20, <2>3
  <2> QED
    BY <1>3, <2>1, <2>2, <2>3
<1>21. TokenInv'
  <2>1. ASSUME NEW d \in calls', NEW e \in calls', Detached(d), Detached(e),
               Sid(d) # 0, Sid(d) = Sid(e)
        PROVE  d = e
    <3>1. CASE d \in Y /\ e \in Y
      BY <1>1, <3>1
    <3>2. CASE d \in calls \ X /\ e \in calls \ X
      BY <1>12, <2>1, <3>2
    <3> QED
      BY <1>1, <1>19, <2>1, <3>1, <3>2
  <2>2. ASSUME NEW d \in calls', NEW u \in Tabs, Detached(d), Sid(d) # 0
        PROVE  Sid(d) # Run(u)'.sid
    BY <1>1, <1>19, <1>20, <2>2
  <2> QED
    BY <1>18, <2>1, <2>2 DEF TokenInv, Detached, Sid, Awaited, Live
<1>22. ASSUME NEW s \in Nat, NEW i \in Items, Hand(s, i)'
       PROVE  \/ Hand(s, i)
              \/ Run(t)'.sid = s /\ Held(t, i)'
              \/ \E y \in Y : /\ Detached(y) /\ y.op = "answer" /\ ~Recorded(y)
                              /\ y.session = s /\ y.item = i
  <2>1. ASSUME NEW u \in Tabs, Run(u)'.sid = s, Held(u, i)', u # t
        PROVE  Hand(s, i)
    <3>1. Run(u)' = Run(u) /\ Waiting(u)' = Waiting(u)
      BY <1>6, <1>7, <2>1
    <3> QED
      BY <2>1, <3>1 DEF Hand, Held
  <2>2. ASSUME NEW d \in calls, Detached(d), d.op = "answer", ~Recorded(d),
               d.session = s, d.item = i
        PROVE  Hand(s, i)
    BY <2>2 DEF Hand
  <2> QED
    BY <1>1, <1>22, <2>1, <2>2 DEF Hand, Detached, Recorded, Awaited, Live
<1> QED
  BY <1>6, <1>11, <1>21, <1>22

-----------------------------------------------------------------------------
(* The steps, one by one. *)

\* Neither the requests, nor what the tabs show, nor what is recorded: only the
\* tables of the queue and what the forms hold.
QuietStep ==
    /\ QueueInv' /\ PagesInv'
    /\ \A u \in Tabs : SameSight(page[u], page'[u])
    /\ calls' = calls /\ left' = left /\ faults <= faults'
    /\ QuietQueue
    /\ \A s \in DOMAIN sessions : sessions'[s].status = sessions[s].status

LEMMA QuietKeeps ==
  ASSUME StudyInv, QuietStep
  PROVE  StudyInv'
<1>1. StructInv /\ NoNewInv /\ EndInv
  BY DEF StudyInv
<1>2. /\ QueueInv' /\ PagesInv' /\ QuietQueue
      /\ \A u \in Tabs : SameSight(page[u], page'[u])
      /\ calls' = calls /\ left' = left /\ faults <= faults'
      /\ \A s \in DOMAIN sessions : sessions'[s].status = sessions[s].status
      /\ Len(sessions') = Len(sessions)
  BY DEF QuietStep, QuietQueue
<1>3. /\ TabInv' /\ TokenInv'
      /\ \A s \in Nat, i \in Items : Hand(s, i)' => Hand(s, i)
      /\ \A s \in Nat : Ghosts(s)' = Ghosts(s)
      /\ AllGhosts' = AllGhosts
  BY <1>1, <1>2, SameTabs
<1>4. QuietHands
  <2>1. \A s \in DOMAIN sessions : s \in Nat
    BY <1>1, SessionOf
  <2> QED
    BY <1>3, <2>1 DEF QuietHands
<1>5. faults' \in Nat /\ faults \in Nat
  BY <1>1, <1>2 DEF StructInv, PagesInv
<1>6. OvershootInv' /\ RepeatInv' /\ DailyInv'
  BY <1>2, <1>4, <1>5, QuietCounts
<1>7. /\ \A u \in Tabs : /\ Run(u)'.sid = Run(u).sid /\ Run(u)'.phase = Run(u).phase
                         /\ Run(u)'.item = Run(u).item /\ Waiting(u)' = Waiting(u)
  BY <1>2 DEF SameSight, Run, Waiting
<1>8. NoNewInv'
  <2> SUFFICES ASSUME NewCap = 0
               PROVE  NoNewInv'
    BY DEF NoNewInv
  <2>1. introduced' = 0
    BY <1>1, <1>2 DEF NoNewInv, QuietQueue, StructInv, QueueInv
  <2>2. \A i \in Items : card'[i] = "new" => card[i] = "new"
    BY <1>2 DEF QuietQueue
  <2>3. ASSUME NEW c \in calls'
        PROVE  /\ c.op = "answer" => card'[c.item] # "new"
               /\ c.reply.item \in Items => card'[c.reply.item] # "new"
    <3>1. c \in calls /\ CallOK(c)
      BY <1>1, <1>2, CallOf
    <3> QED
      BY <1>1, <2>2, <3>1 DEF NoNewInv, CallOK
  <2>4. \A t \in Tabs : Run(t)'.item \in Items => card'[Run(t)'.item] # "new"
    BY <1>1, <1>7, <2>2 DEF NoNewInv
  <2> QED
    BY <2>1, <2>3, <2>4 DEF NoNewInv
<1>9. EndInv'
  <2> SUFFICES ASSUME faults' = 0
               PROVE  EndInv'
    BY DEF EndInv
  <2>1. faults = 0
    BY <1>2, <1>5
  <2>2. ASSUME NEW t \in Tabs, Run(t)'.sid # 0, ~Open(Run(t).sid)'
        PROVE  Run(t)'.phase \in {"done", "caughtUp"} \/ Pending(t, "finish")'
    <3>1. PICK s \in Nat : s = Run(t).sid /\ s # 0 /\ s <= Len(sessions)
      BY <1>1, <1>7, <2>2, TabOf
    <3>2. s \in DOMAIN sessions /\ Run(t)'.sid = s
      BY <1>1, <1>7, <3>1, InHandFinite
    <3>3. ~Open(Run(t).sid)
      BY <1>2, <2>2, <3>1, <3>2 DEF Open
    <3>4. Run(t).phase \in {"done", "caughtUp"} \/ Pending(t, "finish")
      BY <1>1, <2>1, <3>1, <3>3 DEF EndInv
    <3> QED
      BY <1>7, <3>4 DEF Pending
  <2>3. ASSUME NEW c \in calls', c.op = "start", c.served
        PROVE  Open(c.reply.session)'
    <3>1. c \in calls /\ CallOK(c)
      BY <1>1, <1>2, CallOf
    <3>2. c.reply.session \in DOMAIN sessions
      BY <1>1, <2>3, <3>1, InHandFinite DEF CallOK
    <3>3. Open(c.reply.session)
      BY <1>1, <2>1, <2>3, <3>1 DEF EndInv
    <3> QED
      BY <1>2, <3>2, <3>3 DEF Open
  <2> QED
    BY <2>2, <2>3 DEF EndInv
<1> QED
  BY <1>2, <1>3, <1>6, <1>8, <1>9 DEF StudyInv, StructInv

\* The overview is fetched, a form is edited, the target is saved.
LEMMA StillKeeps ==
  ASSUME StudyInv, StillStep
  PROVE  StudyInv'
<1>1. StructInv
  BY DEF StudyInv
<1>2. QueueInv'
  BY <1>1 DEF StructInv, StillStep, QueueInv, study, Known, AnsweredIn
<1>3. PagesInv'
  BY <1>1 DEF StructInv, StillStep, PagesInv
<1>4. QuietQueue
  BY <1>1 DEF StructInv, StillStep, QueueInv, study, QuietQueue, AnsweredIn, Delivered
<1>5. QuietStep
  BY <1>2, <1>3, <1>4 DEF QuietStep, StillStep, study
<1> QED
  BY <1>5, QuietKeeps

LEMMA IdleKeeps ==
  ASSUME StudyInv, UNCHANGED vars
  PROVE  StudyInv'
<1>1. StillStep
  BY DEF StudyInv, StructInv, PagesInv, StillStep, vars, SameSight, study
<1> QED
  BY <1>1, StillKeeps

\* Midnight, a deletion, a time that is up: some mishap was left.
LEMMA MishapLeft ==
  ASSUME QueueInv, Mishaps < MaxMishaps
  PROVE  day + 1 \in Nat /\ day + 1 <= MaxMishaps
<1>1. PICK a \in Nat : a = Cardinality(Items \ active)
  BY MishapsCounted
<1>2. PICK b \in Nat :
          b = Cardinality({s \in DOMAIN sessions : sessions[s].timeUp})
  BY MishapsCounted
<1>3. day + a + b < MaxMishaps
  BY <1>1, <1>2 DEF Mishaps
<1>4. day \in Nat /\ MaxMishaps \in Nat
  BY StudyAssumption DEF QueueInv
<1> QED
  BY <1>3, <1>4

LEMMA PassingQuiet ==
  ASSUME QueueInv, Passing
  PROVE  /\ QueueInv' /\ QuietQueue
         /\ \A s \in DOMAIN sessions : sessions'[s].status = sessions[s].status
<1> DEFINE Quiet ==
      /\ QueueInv' /\ QuietQueue
      /\ \A s \in DOMAIN sessions : sessions'[s].status = sessions[s].status
<1>1. CASE NewDay
  <2>1. day + 1 \in Nat /\ day + 1 <= MaxMishaps
    BY <1>1, MishapLeft DEF NewDay
  <2>2. PICK d \in Nat : d = day + 1
    BY <2>1
  <2>3. /\ day' = d /\ d <= MaxMishaps /\ introduced' = 0
        /\ UNCHANGED <<card, dueOrder, active, sessions, scored>>
    BY <1>1, <2>1, <2>2 DEF NewDay
  <2>4. Cardinality(Known) \in Nat
    <3>1. IsFiniteSet(Known)
      BY StudyAssumption, FS_Subset DEF Known
    <3> QED
      BY <3>1, FS_CardinalityType
  <2>5. Known' = Known
    BY <2>3 DEF Known
  <2>6. introduced' \in Nat /\ introduced' <= Cardinality(Known')
    BY <2>3, <2>4, <2>5
  <2>7. QueueInv'
    BY <2>3, <2>6 DEF QueueInv, AnsweredIn
  <2>8. QuietQueue
    BY <2>3 DEF QueueInv, QuietQueue, AnsweredIn, Delivered
  <2> QED
    BY <2>3, <2>7, <2>8
<1>2. ASSUME NEW i \in Items, BecomeDue(i)
      PROVE  Quiet
  <2>1. /\ card[i] = "later" /\ card' = [card EXCEPT ![i] = "due"]
        /\ dueOrder' = Append(dueOrder, i)
        /\ UNCHANGED <<introduced, day, active, sessions, scored>>
    BY <1>2 DEF BecomeDue
  <2>2. /\ card' \in [Items -> {"new", "due", "later"}]
        /\ \A j \in Items : /\ j # i => card'[j] = card[j]
                            /\ card'[j] = "new" <=> card[j] = "new"
        /\ card'[i] = "due"
    BY <2>1 DEF QueueInv
  <2>3. Known' = Known
    BY <2>2 DEF Known
  <2>4. PICK n \in Nat : n = Len(dueOrder)
    BY DEF QueueInv
  <2>5. PICK q : q = dueOrder
    OBVIOUS
  <2>6. /\ q \in Seq(Items) /\ DOMAIN q = 1 .. n
        /\ \A j \in 1 .. n, k \in 1 .. n : q[j] = q[k] => j = k
        /\ \A j \in Items : card[j] = "due" <=> \E k \in 1 .. n : q[k] = j
    BY <2>4, <2>5 DEF QueueInv
  <2>7. PICK r : r = Append(q, i)
    OBVIOUS
  <2>8. /\ r \in Seq(Items) /\ DOMAIN r = 1 .. n + 1
        /\ r[n + 1] = i /\ \A k \in 1 .. n : r[k] = q[k]
    BY <2>4, <2>5, <2>6, <2>7
  <2>9. \A k \in 1 .. n : q[k] # i
    BY <2>1, <2>6
  <2>10. \A j \in 1 .. n + 1, k \in 1 .. n + 1 : r[j] = r[k] => j = k
    BY <2>6, <2>8, <2>9
  <2>11. \A j \in Items :
            card'[j] = "due" <=> \E k \in 1 .. n + 1 : r[k] = j
    <3>1. ASSUME NEW j \in Items, card'[j] = "due"
          PROVE  \E k \in 1 .. n + 1 : r[k] = j
      <4>1. CASE j = i
        BY <2>8, <4>1
      <4>2. CASE j # i
        <5>1. PICK k \in 1 .. n : q[k] = j
          BY <2>2, <2>6, <3>1, <4>2
        <5> QED
          BY <2>8, <5>1
      <4> QED
        BY <4>1, <4>2
    <3>2. ASSUME NEW k \in 1 .. n + 1
          PROVE  card'[r[k]] = "due"
      <4>1. CASE k = n + 1
        BY <2>2, <2>8, <4>1
      <4>2. CASE k # n + 1
        <5>1. k \in 1 .. n /\ r[k] = q[k] /\ q[k] \in Items /\ q[k] # i
          BY <2>6, <2>8, <2>9, <4>2
        <5>2. card[q[k]] = "due"
          BY <2>6, <5>1
        <5> QED
          BY <2>2, <5>1, <5>2
      <4> QED
        BY <4>1, <4>2
    <3> QED
      BY <3>1, <3>2
  <2>12. dueOrder' = r
    BY <2>1, <2>5, <2>7
  <2>13. /\ dueOrder' \in Seq(Items)
         /\ \A j \in DOMAIN dueOrder', k \in DOMAIN dueOrder' :
               dueOrder'[j] = dueOrder'[k] => j = k
    BY <2>8, <2>10, <2>12
  <2>14. {dueOrder'[k] : k \in DOMAIN dueOrder'} = {j \in Items : card'[j] = "due"}
    <3>1. \A k \in 1 .. n + 1 : r[k] \in Items
      BY <2>8
    <3>2. {r[k] : k \in 1 .. n + 1} = {j \in Items : card'[j] = "due"}
      BY <2>11, <3>1
    <3> QED
      BY <2>8, <2>12, <3>2
  <2>15. QueueInv'
    BY <2>1, <2>2, <2>3, <2>13, <2>14 DEF QueueInv, AnsweredIn
  <2>16. QuietQueue
    BY <2>1, <2>2 DEF QueueInv, QuietQueue, AnsweredIn, Delivered
  <2> QED
    BY <2>1, <2>15, <2>16
<1>3. ASSUME NEW i \in Items, Delete(i)
      PROVE  Quiet
  <2>1. QueueInv'
    BY <1>3 DEF Delete, QueueInv, Known, AnsweredIn
  <2>2. QuietQueue
    BY <1>3 DEF Delete, QueueInv, QuietQueue, AnsweredIn, Delivered
  <2> QED
    BY <1>3, <2>1, <2>2 DEF Delete
<1>4. ASSUME NEW s \in DOMAIN sessions, TimeUp(s)
      PROVE  Quiet
  <2>1. PICK n \in Nat : n = Len(sessions) /\ DOMAIN sessions = 1 .. n
    BY DEF QueueInv
  <2>2. /\ sessions' = [sessions EXCEPT ![s].timeUp = TRUE]
        /\ UNCHANGED <<card, dueOrder, introduced, day, active, scored>>
    BY <1>4 DEF TimeUp
  <2>3. sessions \in [1 .. n -> SessionType]
    BY <2>1 DEF QueueInv
  <2>4. sessions' \in [1 .. n -> SessionType]
    BY <2>1, <2>2, <2>3 DEF SessionType
  <2>5. sessions' \in Seq(SessionType) /\ Len(sessions') = n /\ DOMAIN sessions' = 1 .. n
    BY <2>1, <2>4
  <2>6. ASSUME NEW r \in DOMAIN sessions
        PROVE  /\ sessions'[r].items = sessions[r].items
               /\ sessions'[r].delivered = sessions[r].delivered
               /\ sessions'[r].config = sessions[r].config
               /\ sessions'[r].status = sessions[r].status
    BY <2>1, <2>2, <2>3 DEF SessionType
  <2>7. Known' = Known
    BY <2>2 DEF Known
  <2>8. QueueInv'
    BY <2>1, <2>2, <2>5, <2>6, <2>7 DEF QueueInv, AnsweredIn
  <2>9. QuietQueue
    BY <2>1, <2>2, <2>5, <2>6 DEF QueueInv, QuietQueue, AnsweredIn, Delivered
  <2> QED
    BY <2>6, <2>8, <2>9
<1> QED
  BY <1>1, <1>2, <1>3, <1>4 DEF Passing

LEMMA PassingKeeps ==
  ASSUME StudyInv, Passing, UNCHANGED <<page, saved, calls, faults, left>>
  PROVE  StudyInv'
<1>1. StructInv
  BY DEF StudyInv
<1>2. /\ QueueInv' /\ QuietQueue
      /\ \A s \in DOMAIN sessions : sessions'[s].status = sessions[s].status
  BY <1>1, PassingQuiet DEF StructInv
<1>3. PagesInv' /\ faults \in Nat
  BY <1>1 DEF StructInv, PagesInv
<1>4. \A u \in Tabs : SameSight(page[u], page'[u])
  BY DEF SameSight
<1>5. QuietStep
  BY <1>2, <1>3, <1>4 DEF QuietStep
<1> QED
  BY <1>5, QuietKeeps

LEMMA SeedTyped ==
  ASSUME PagesInv, NEW S, S \subseteq Topics
  PROVE  Seed(S) \subseteq Topics
BY DEF Seed, PagesInv

\* The page a link leads to.
LEMMA GoPage ==
  ASSUME StructInv, NEW t \in Tabs, NEW screen, Go(t, screen)
  PROVE  /\ PagesInv' /\ page'[t].screen # "session" /\ page'[t].run = FreshSession
         /\ \A u \in Tabs : u # t => page'[u] = page[u]
         /\ \/ Waiting(t) = {} /\ left' = left
            \/ Waiting(t) # {} /\ left' = left + 1
<1>1. page[t] \in PageType /\ Categories(t) \subseteq Topics
  BY PageOf DEF StructInv
<1>2. screen \in {"home", "study", "daily", "profile"}
  BY DEF Go
<1>3. PICK b \in BOOLEAN : b = (screen \in {"daily", "profile"} /\ saved.byTime)
  OBVIOUS
<1>4. PICK g \in BOOLEAN : g = (screen = "daily" /\ Restored(Categories(t)))
  OBVIOUS
<1>5. PICK e \in SUBSET Topics :
          e = IF screen = "daily" THEN Seed(Categories(t)) ELSE {}
  BY <1>1, SeedTyped DEF StructInv
<1>6. PICK p : p = [page[t] EXCEPT !.screen = screen, !.run = FreshSession,
                                   !.failed = FALSE, !.byTime = b, !.given = g,
                                   !.sel = e]
  OBVIOUS
<1>7. p \in PageType /\ p.screen = screen /\ p.run = FreshSession
  BY <1>1, <1>2, <1>6, FreshTyped DEF PageType
<1>8. page' = [page EXCEPT ![t] = p]
  BY <1>3, <1>4, <1>5, <1>6 DEF Go, StructInv, PagesInv
<1>9. page' \in [Tabs -> PageType] /\ page'[t] = p
  BY <1>7, <1>8 DEF StructInv, PagesInv
<1>10. \A u \in Tabs : u # t => page'[u] = page[u]
  BY <1>8 DEF StructInv, PagesInv
<1>11. \/ Waiting(t) = {} /\ left' = left
       \/ Waiting(t) # {} /\ left' = left + 1
  BY DEF Go, LeavePage
<1>12. PICK l \in Nat : l = left
  BY DEF StructInv, PagesInv
<1>13. left' \in Nat
  BY <1>11, <1>12
<1>14. ASSUME NEW d \in Orphaned(t)
       PROVE  d \in CallType
  <2>1. PICK c \in calls :
            d = IF c \in Waiting(t) THEN [c EXCEPT !.gone = left + 1] ELSE c
    BY <1>14 DEF Orphaned
  <2>2. PICK g1 \in Nat : g1 = left + 1
    BY <1>12
  <2>3. d = IF c \in Waiting(t) THEN [c EXCEPT !.gone = g1] ELSE c
    BY <2>1, <2>2
  <2>4. c \in CallType
    BY CallOf
  <2> QED
    BY <2>3, <2>4 DEF CallType
<1>15. calls' \subseteq CallType
  BY <1>14 DEF Go
<1>16. PagesInv'
  BY <1>9, <1>13, <1>15 DEF Go, StructInv, PagesInv
<1> QED
  BY <1>2, <1>7, <1>9, <1>10, <1>11, <1>16

LEMMA GoKeeps ==
  ASSUME StudyInv, NEW t \in Tabs, NEW screen, Go(t, screen)
  PROVE  StudyInv'
<1>1. StructInv /\ NoNewInv /\ EndInv
  BY DEF StudyInv
<1>2. /\ PagesInv' /\ page'[t].screen # "session" /\ page'[t].run = FreshSession
      /\ \A u \in Tabs : u # t => page'[u] = page[u]
      /\ \/ Waiting(t) = {} /\ left' = left
         \/ Waiting(t) # {} /\ left' = left + 1
  BY <1>1, GoPage
<1>3. calls' = Orphaned(t) /\ UNCHANGED <<study, saved, faults>>
  BY DEF Go
<1>4. /\ TabInv' /\ TokenInv'
      /\ \A s \in Nat, i \in Items : Hand(s, i)' => Hand(s, i)
      /\ \A s \in Nat : Ghosts(s)' \subseteq Ghosts(s)
      /\ AllGhosts' \subseteq AllGhosts
      /\ Waiting(t)' = {} /\ \A u \in Tabs : u # t => Waiting(u)' = Waiting(u)
      /\ \A d \in calls' : \E c \in calls :
            /\ d.op = c.op /\ d.served = c.served /\ d.reply = c.reply
            /\ d.item = c.item
  BY <1>1, <1>2, <1>3, LeftAlone DEF study
<1>5. QuietHands
  <2>1. \A s \in DOMAIN sessions : s \in Nat
    BY <1>1, SessionOf
  <2> QED
    BY <1>4, <2>1 DEF QuietHands
<1>6. QueueInv'
  BY <1>1, <1>3 DEF StructInv, QueueInv, study, Known, AnsweredIn
<1>7. QuietQueue
  BY <1>1, <1>3 DEF StructInv, QueueInv, study, QuietQueue, AnsweredIn, Delivered
<1>8. faults' = faults /\ faults \in Nat
  BY <1>1, <1>3 DEF StructInv, PagesInv
<1>9. OvershootInv' /\ RepeatInv' /\ DailyInv'
  BY <1>5, <1>7, <1>8, QuietCounts
<1>10. ASSUME NEW u \in Tabs
       PROVE  \/ u # t /\ Run(u)' = Run(u)
              \/ /\ u = t /\ Run(u)'.sid = 0 /\ Run(u)'.item \notin Items
  BY <1>2, FreshTyped, RunnerAssumption DEF Run
<1>11. NoNewInv'
  <2> SUFFICES ASSUME NewCap = 0
               PROVE  NoNewInv'
    BY DEF NoNewInv
  <2>1. introduced' = 0 /\ card' = card
    BY <1>1, <1>3 DEF NoNewInv, study
  <2>2. \A c \in calls' :
              /\ c.op = "answer" => card'[c.item] # "new"
              /\ c.reply.item \in Items => card'[c.reply.item] # "new"
    <3>1. \A c \in calls :
              /\ c.op = "answer" => card[c.item] # "new"
              /\ c.reply.item \in Items => card[c.reply.item] # "new"
      BY <1>1 DEF NoNewInv
    <3> QED
      BY <1>4, <2>1, <3>1
  <2>3. \A u \in Tabs : Run(u)'.item \in Items => card'[Run(u)'.item] # "new"
    BY <1>1, <1>10, <2>1 DEF NoNewInv
  <2> QED
    BY <2>1, <2>2, <2>3 DEF NoNewInv
<1>12. EndInv'
  <2> SUFFICES ASSUME faults' = 0
               PROVE  EndInv'
    BY DEF EndInv
  <2>1. faults = 0 /\ sessions' = sessions
    BY <1>3, <1>8 DEF study
  <2>2. ASSUME NEW u \in Tabs, Run(u)'.sid # 0, ~Open(Run(u).sid)'
        PROVE  Run(u)'.phase \in {"done", "caughtUp"} \/ Pending(u, "finish")'
    <3>1. u # t /\ Run(u)' = Run(u)
      BY <1>10, <2>2
    <3>2. ~Open(Run(u).sid) /\ Run(u).sid # 0
      BY <2>1, <2>2, <3>1 DEF Open
    <3>3. Run(u).phase \in {"done", "caughtUp"} \/ Pending(u, "finish")
      BY <1>1, <2>1, <3>2 DEF EndInv
    <3> QED
      BY <1>4, <3>1, <3>3 DEF Pending
  <2>3. ASSUME NEW d \in calls', d.op = "start", d.served
        PROVE  Open(d.reply.session)'
    <3>1. PICK c \in calls : c.op = "start" /\ c.served /\ d.reply = c.reply
      BY <1>4, <2>3
    <3>2. Open(c.reply.session)
      BY <1>1, <2>1, <3>1 DEF EndInv
    <3> QED
      BY <2>1, <3>1, <3>2 DEF Open
  <2> QED
    BY <2>2, <2>3 DEF EndInv
<1> QED
  BY <1>2, <1>4, <1>6, <1>9, <1>11, <1>12 DEF StudyInv, StructInv

\* What an exchange must keep for the caps and the ends of sessions.
Keeps(t, X, Y) ==
    /\ NewCap = 0 =>
          /\ introduced' = 0
          /\ \A y \in Y :
                /\ y.op = "answer" => card'[y.item] # "new"
                /\ y.reply.item \in Items => card'[y.reply.item] # "new"
          /\ Run(t)'.item \in Items => card'[Run(t)'.item] # "new"
    /\ faults' = 0 =>
          /\ Run(t)'.sid # 0 /\ ~Open(Run(t).sid)'
                => Run(t)'.phase \in {"done", "caughtUp"} \/ Pending(t, "finish")'
          /\ \A y \in Y : y.op = "start" /\ y.served => Open(y.reply.session)'
          /\ \A u \in Tabs :
                u # t /\ Run(u).sid # 0 /\ Open(Run(u).sid) => Open(Run(u).sid)'
          /\ \A c \in calls :
                c \notin X /\ c.op = "start" /\ c.served /\ Open(c.reply.session)
                    => Open(c.reply.session)'

LEMMA ExchangeRest ==
  ASSUME StudyInv, PagesInv', NEW t \in Tabs, NEW X, NEW Y, Exchange(t, X, Y),
         Keeps(t, X, Y), left <= left', faults <= faults',
         Len(sessions') \in Nat, Len(sessions) <= Len(sessions'),
         \A i \in Items : card'[i] = "new" => card[i] = "new"
  PROVE  /\ NoNewInv' /\ EndInv'
         /\ \A s \in Nat : \A n \in Ghosts(s)' :
               \/ n \in Ghosts(s)
               \/ \E y \in Y : /\ y.op = "answer" /\ ~Awaited(y)
                               /\ y.session = s /\ n = y.lost
         /\ \A n \in AllGhosts' :
               \/ n \in AllGhosts
               \/ \E y \in Y : y.op = "answer" /\ ~Awaited(y) /\ n = y.lost
         /\ \A x \in X : x.lost # 0 /\ Y = {} =>
               x.lost \notin AllGhosts' /\ \A s \in Nat : x.lost \notin Ghosts(s)'
<1>1. /\ StructInv /\ NoNewInv /\ EndInv
  BY DEF StudyInv
<1>2. /\ X \subseteq calls
      /\ calls' = (calls \ X) \cup Y
      /\ \A u \in Tabs : u # t => page'[u] = page[u]
  BY DEF Exchange
<1>3. \A u \in Tabs : u # t => Waiting(u)' = Waiting(u) /\ Run(u)' = Run(u)
  BY <1>1, <1>2, Exchanged DEF Run
<1>4. NoNewInv'
  <2> SUFFICES ASSUME NewCap = 0
               PROVE  NoNewInv'
    BY DEF NoNewInv
  <2>1. /\ introduced' = 0
        /\ \A y \in Y :
              /\ y.op = "answer" => card'[y.item] # "new"
              /\ y.reply.item \in Items => card'[y.reply.item] # "new"
        /\ Run(t)'.item \in Items => card'[Run(t)'.item] # "new"
    BY DEF Keeps
  <2>2. ASSUME NEW c \in calls
        PROVE  /\ c.op = "answer" => card'[c.item] # "new"
               /\ c.reply.item \in Items => card'[c.reply.item] # "new"
    <3>1. CallOK(c)
      BY <1>1, CallOf
    <3> QED
      BY <1>1, <3>1 DEF NoNewInv, CallOK
  <2>3. \A u \in Tabs : Run(u)'.item \in Items => card'[Run(u)'.item] # "new"
    BY <1>1, <1>3, <2>1 DEF NoNewInv
  <2> QED
    BY <1>2, <2>1, <2>2, <2>3 DEF NoNewInv
<1>5. EndInv'
  <2> SUFFICES ASSUME faults' = 0
               PROVE  EndInv'
    BY DEF EndInv
  <2>1. faults = 0
    BY <1>1 DEF StructInv, PagesInv
  <2>2. /\ Run(t)'.sid # 0 /\ ~Open(Run(t).sid)'
              => Run(t)'.phase \in {"done", "caughtUp"} \/ Pending(t, "finish")'
        /\ \A y \in Y : y.op = "start" /\ y.served => Open(y.reply.session)'
        /\ \A u \in Tabs :
              u # t /\ Run(u).sid # 0 /\ Open(Run(u).sid) => Open(Run(u).sid)'
        /\ \A c \in calls :
              c \notin X /\ c.op = "start" /\ c.served /\ Open(c.reply.session)
                  => Open(c.reply.session)'
    BY DEF Keeps
  <2>3. ASSUME NEW u \in Tabs, u # t, Run(u)'.sid # 0, ~Open(Run(u).sid)'
        PROVE  Run(u)'.phase \in {"done", "caughtUp"} \/ Pending(u, "finish")'
    <3>1. ~Open(Run(u).sid) /\ Run(u).sid # 0
      BY <1>3, <2>2, <2>3
    <3>2. Run(u).phase \in {"done", "caughtUp"} \/ Pending(u, "finish")
      BY <1>1, <2>1, <3>1 DEF EndInv
    <3> QED
      BY <1>3, <2>3, <3>2 DEF Pending
  <2>4. ASSUME NEW d \in calls', d.op = "start", d.served
        PROVE  Open(d.reply.session)'
    <3>1. CASE d \in calls \ X
      <4>1. Open(d.reply.session)
        BY <1>1, <2>1, <2>4, <3>1 DEF EndInv
      <4> QED
        BY <2>2, <2>4, <3>1, <4>1
    <3>2. CASE d \in Y
      BY <2>2, <2>4, <3>2
    <3> QED
      BY <1>2, <3>1, <3>2
  <2> QED
    BY <2>2, <2>3, <2>4 DEF EndInv
<1>6. \A s \in Nat : \A n \in Ghosts(s)' :
         \/ n \in Ghosts(s)
         \/ \E y \in Y : /\ y.op = "answer" /\ ~Awaited(y)
                         /\ y.session = s /\ n = y.lost
  BY <1>2 DEF Ghosts, Awaited
<1>7. \A n \in AllGhosts' :
         \/ n \in AllGhosts
         \/ \E y \in Y : y.op = "answer" /\ ~Awaited(y) /\ n = y.lost
  BY <1>2 DEF AllGhosts, Awaited
<1>8. ASSUME NEW x \in X, x.lost # 0, Y = {}
      PROVE  x.lost \notin AllGhosts' /\ \A s \in Nat : x.lost \notin Ghosts(s)'
  <2>1. \A c \in calls' : c.lost # x.lost
    BY <1>1, <1>2, <1>8 DEF StructInv, TabInv
  <2> QED
    BY <2>1 DEF AllGhosts, Ghosts
<1> QED
  BY <1>4, <1>5, <1>6, <1>7, <1>8

\* Exchanges that leave the tables alone and put no question in a hand.
LEMMA QuietExchange ==
  ASSUME StudyInv, PagesInv', NEW t \in Tabs, NEW X, NEW Y, Exchange(t, X, Y),
         Keeps(t, X, Y), left <= left', faults <= faults', UNCHANGED study,
         \A i \in Items : Held(t, i)' => Hand(Run(t)'.sid, i),
         \A y \in Y : y.op = "answer" =>
            Awaited(y) /\ (Detached(y) /\ ~Recorded(y) => Hand(y.session, y.item))
  PROVE  StudyInv'
<1>1. StructInv
  BY DEF StudyInv
<1>2. /\ Len(sessions') \in Nat /\ Len(sessions) <= Len(sessions')
      /\ card' = card /\ sessions' = sessions
  BY <1>1, InHandFinite DEF study
<1>3. /\ TabInv' /\ TokenInv'
      /\ \A s \in Nat, i \in Items : Hand(s, i)' =>
            \/ Hand(s, i)
            \/ Run(t)'.sid = s /\ Held(t, i)'
            \/ \E y \in Y : /\ Detached(y) /\ y.op = "answer" /\ ~Recorded(y)
                            /\ y.session = s /\ y.item = i
  BY <1>1, <1>2, Exchanged
<1>4. /\ NoNewInv' /\ EndInv'
      /\ \A s \in Nat : \A n \in Ghosts(s)' :
            \/ n \in Ghosts(s)
            \/ \E y \in Y : /\ y.op = "answer" /\ ~Awaited(y)
                            /\ y.session = s /\ n = y.lost
      /\ \A n \in AllGhosts' :
            \/ n \in AllGhosts
            \/ \E y \in Y : y.op = "answer" /\ ~Awaited(y) /\ n = y.lost
  BY <1>2, ExchangeRest
<1>5. QuietHands
  <2>1. \A s \in DOMAIN sessions : s \in Nat
    BY <1>1, SessionOf
  <2>2. ASSUME NEW s \in Nat, NEW i \in Items, Hand(s, i)'
        PROVE  Hand(s, i)
    BY <1>3, <2>2
  <2>3. /\ \A s \in Nat : Ghosts(s)' \subseteq Ghosts(s)
        /\ AllGhosts' \subseteq AllGhosts
    BY <1>4
  <2> QED
    BY <2>1, <2>2, <2>3 DEF QuietHands
<1>6. QueueInv'
  BY <1>1 DEF StructInv, QueueInv, study, Known, AnsweredIn
<1>7. QuietQueue
  BY <1>1 DEF StructInv, QueueInv, study, QuietQueue, AnsweredIn, Delivered
<1>8. faults' \in Nat
  BY DEF PagesInv
<1>9. OvershootInv' /\ RepeatInv' /\ DailyInv'
  BY <1>5, <1>7, <1>8, QuietCounts
<1> QED
  BY <1>3, <1>4, <1>6, <1>9 DEF StudyInv, StructInv

LEMMA CallTyped ==
  ASSUME NEW t \in Tabs, NEW op \in {"start", "next", "answer", "finish"},
         NEW s \in Nat, NEW i \in Items \cup {NoItem},
         NEW kind \in Kinds \cup {"none"}, NEW config \in ConfigType
  PROVE  Call(t, op, s, i, kind, config) \in CallType
<1>1. NoReply \in ReplyType
  BY FreshTyped
<1> QED
  BY <1>1 DEF Call, CallType

\* A session page is mounted and starts.
LEMMA EnterKeeps ==
  ASSUME StudyInv, NEW t \in Tabs, NEW config \in ConfigType,
         EnterSession(t, config), ~On(t, "session"),
         saved' \in [topics : SUBSET Topics, byTime : BOOLEAN],
         faults' \in Nat, faults <= faults', faults' <= MaxTrouble, UNCHANGED study
  PROVE  StudyInv'
<1>1. StructInv /\ NoNewInv /\ EndInv
  BY DEF StudyInv
<1>2. Waiting(t) = {}
  BY <1>1, TabOf DEF Fits, On
<1>3. PICK d : d = Call(t, "start", 0, NoItem, "none", config)
  OBVIOUS
<1>4. d \in CallType
  BY <1>3, CallTyped
<1>5. /\ d.tab = t /\ d.op = "start" /\ d.gone = 0 /\ d.lost = 0 /\ ~d.served
      /\ ~d.ok /\ d.reply = NoReply
  BY <1>3 DEF Call
<1>6. calls' = (calls \ {}) \cup {d}
  BY <1>2, <1>3 DEF EnterSession, Orphaned
<1>7. PICK p : p = [page[t] EXCEPT !.screen = "session", !.failed = FALSE,
                        !.given = FALSE, !.sel = {}, !.byTime = FALSE,
                        !.run = [FreshSession EXCEPT !.config = config]]
  OBVIOUS
<1>8. page[t] \in PageType
  BY <1>1, TabOf
<1>9. PICK r : r = [FreshSession EXCEPT !.config = config]
  OBVIOUS
<1>10. /\ r \in RunType /\ r.sid = 0 /\ r.phase = "loading" /\ r.item = NoItem
  BY <1>9, FreshTyped DEF RunType
<1>11. p \in PageType /\ p.screen = "session" /\ p.run = r
  BY <1>7, <1>8, <1>9, <1>10 DEF PageType
<1>12. page' = [page EXCEPT ![t] = p]
  BY <1>1, <1>7 DEF EnterSession, StructInv, PagesInv
<1>13. /\ page' \in [Tabs -> PageType] /\ page'[t] = p
       /\ \A u \in Tabs : u # t => page'[u] = page[u]
  BY <1>1, <1>11, <1>12 DEF StructInv, PagesInv
<1>14. left' = left
  BY DEF EnterSession
<1>15. PagesInv'
  BY <1>1, <1>4, <1>6, <1>13, <1>14 DEF StructInv, PagesInv
<1>16. Run(t)' = r
  BY <1>11, <1>13 DEF Run
<1>17. Exchange(t, {}, {d})
  <2>1. RunOK(page[t])'
    BY <1>1, <1>10, <1>11, <1>13, InHandFinite DEF RunOK, study
  <2>2. CallOK(d)'
    BY <1>1, <1>5, <1>14 DEF CallOK, StructInv, PagesInv
  <2>3. Fits(d, page'[t])
    BY <1>5, <1>10, <1>11, <1>13 DEF Fits
  <2>4. Sid(d) = 0
    BY <1>5, FreshTyped DEF Sid
  <2> QED
    BY <1>2, <1>4, <1>5, <1>6, <1>10, <1>13, <1>16, <2>1, <2>2, <2>3, <2>4 DEF Exchange
<1>18. Keeps(t, {}, {d})
  <2>1. d.reply.item \notin Items /\ Run(t)'.item \notin Items
    BY <1>5, <1>10, <1>16, FreshTyped, RunnerAssumption
  <2>2. card' = card /\ introduced' = introduced /\ sessions' = sessions
    BY DEF study
  <2>3. ASSUME NewCap = 0
        PROVE  introduced' = 0
    BY <1>1, <2>2, <2>3 DEF NoNewInv
  <2>4. /\ \A u \in Tabs :
              u # t /\ Run(u).sid # 0 /\ Open(Run(u).sid) => Open(Run(u).sid)'
        /\ \A c \in calls : Open(c.reply.session) => Open(c.reply.session)'
    BY <1>13, <2>2 DEF Open, Run
  <2> QED
    BY <1>5, <1>10, <1>16, <2>1, <2>3, <2>4 DEF Keeps
<1>19. /\ \A i \in Items : Held(t, i)' => Hand(Run(t)'.sid, i)
       /\ \A y \in {d} : y.op # "answer"
  <2>1. /\ Len(sessions') \in Nat /\ Len(sessions) <= Len(sessions')
    BY <1>1, InHandFinite DEF study
  <2>2. Waiting(t)' = (Waiting(t) \ {}) \cup {y \in {d} : Live(y) /\ Awaited(y)}
    BY <1>1, <1>14, <1>15, <1>17, <2>1, Exchanged DEF StructInv, PagesInv
  <2>3. \A c \in Waiting(t)' : c = d
    BY <1>2, <2>2
  <2> QED
    BY <1>5, <1>10, <1>16, <2>3 DEF Held
<1> QED
  BY <1>1, <1>14, <1>15, <1>17, <1>18, <1>19, QuietExchange DEF StructInv, PagesInv

LEMMA StartCategoryKeeps ==
  ASSUME StudyInv, NEW t \in Tabs, NEW u \in Topics, StartCategory(t, u)
  PROVE  StudyInv'
<1>1. StructInv
  BY DEF StudyInv
<1>2. On(t, "study") /\ u \in Categories(t) /\ page[t].overview[u].mode # "none"
  BY DEF StartCategory, CategoryEnabled
<1>3. page[t].overview[u] \in CardType
  <2>1. page[t] \in PageType
    BY <1>1, TabOf
  <2>2. page[t].overview \in UNION {[S -> CardType] : S \in SUBSET Topics}
    BY <2>1 DEF PageType
  <2> QED
    BY <1>2, <2>2 DEF Categories
<1>4. PICK config : config = [mode |-> page[t].overview[u].mode, topics |-> {u},
                        exam |-> page[t].overview[u].exam, byTime |-> FALSE]
  OBVIOUS
<1>5. config \in ConfigType
  BY <1>2, <1>3, <1>4 DEF CardType, ConfigType
<1>6. EnterSession(t, config) /\ UNCHANGED <<study, saved, faults>>
  BY <1>4 DEF StartCategory
<1>7. ~On(t, "session")
  BY <1>2 DEF On
<1>8. /\ saved' \in [topics : SUBSET Topics, byTime : BOOLEAN]
      /\ faults' \in Nat /\ faults <= faults' /\ faults' <= MaxTrouble
  BY <1>1, <1>6 DEF StructInv, PagesInv
<1> QED
  BY <1>5, <1>6, <1>7, <1>8, EnterKeeps

LEMMA StartDailyKeeps ==
  ASSUME StudyInv, NEW t \in Tabs, StartDaily(t)
  PROVE  StudyInv'
<1>1. StructInv
  BY DEF StudyInv
<1>2. page[t] \in PageType /\ Chosen(t) \subseteq Topics
  BY <1>1, PageOf DEF StructInv
<1>3. PICK topics \in SUBSET Topics : topics = IF AllSelected(t) THEN {} ELSE Chosen(t)
  BY <1>2
<1>4. PICK b \in BOOLEAN : b = page[t].byTime
  BY <1>2 DEF PageType
<1>5. PICK config : config = [mode |-> "daily_review", topics |-> topics,
                              exam |-> 0, byTime |-> b]
  OBVIOUS
<1>6. config \in ConfigType
  BY <1>5 DEF ConfigType, Modes
<1>7. /\ DailyStartEnabled(t) /\ EnterSession(t, config) /\ UNCHANGED study
      /\ \/ saved' = [topics |-> topics, byTime |-> b] /\ UNCHANGED faults
         \/ Trouble < MaxTrouble /\ faults' = faults + 1 /\ UNCHANGED saved
  BY <1>3, <1>4, <1>5 DEF StartDaily
<1>8. ~On(t, "session")
  BY <1>7 DEF DailyStartEnabled, On
<1>9. saved' \in [topics : SUBSET Topics, byTime : BOOLEAN]
  BY <1>1, <1>7 DEF StructInv, PagesInv
<1>10. PICK f \in Nat : f = faults /\ f <= MaxTrouble
  BY <1>1 DEF StructInv, PagesInv
<1>11. faults' \in Nat /\ faults <= faults' /\ faults' <= MaxTrouble
  <2>1. CASE faults' = faults
    BY <1>10, <2>1
  <2>2. CASE Trouble < MaxTrouble /\ faults' = faults + 1
    <3>1. faults + 1 \in Nat /\ faults + 1 <= MaxTrouble
      BY <1>1, <2>2, Bounded DEF StructInv
    <3> QED
      BY <1>10, <2>2, <3>1
  <2> QED
    BY <1>7, <2>1, <2>2
<1> QED
  BY <1>6, <1>7, <1>8, <1>9, <1>11, EnterKeeps

\* The tab that shows a question, and waits for nothing, sends a request.
LEMMA AskKeeps ==
  ASSUME StudyInv, NEW t \in Tabs, NEW op \in {"answer", "next"},
         NEW i \in Items \cup {NoItem}, NEW kind \in Kinds \cup {"none"},
         QuestionShown(t), Waiting(t) = {},
         op = "answer" => i = Run(t).item /\ Run(t).phase = "active",
         op = "next" => Run(t).phase = "feedback",
         calls' = calls \cup {Call(t, op, Run(t).sid, i, kind, Run(t).config)},
         page' = [page EXCEPT ![t].failed = FALSE],
         UNCHANGED <<study, saved, faults, left>>
  PROVE  StudyInv'
<1>1. StructInv /\ NoNewInv /\ EndInv
  BY DEF StudyInv
<1>2. /\ page[t] \in PageType /\ Run(t) \in RunType /\ RunOK(page[t])
      /\ Run(t).sid \in Nat /\ Run(t).sid <= Len(sessions)
      /\ page[t].run = Run(t)
  BY <1>1, TabOf DEF Run
<1>3. /\ page[t].screen = "session" /\ Run(t).phase \in {"active", "feedback"}
      /\ Run(t).item \in Items /\ Run(t).sid # 0
  BY <1>2 DEF QuestionShown, On, RunOK
<1>4. PICK d : d = Call(t, op, Run(t).sid, i, kind, Run(t).config)
  OBVIOUS
<1>5. d \in CallType
  <2>1. Run(t).config \in ConfigType
    BY <1>2 DEF RunType
  <2> QED
    BY <1>2, <1>4, <2>1, CallTyped
<1>6. /\ d.tab = t /\ d.op = op /\ d.gone = 0 /\ d.lost = 0 /\ ~d.served /\ d.item = i
      /\ ~d.ok /\ d.reply = NoReply /\ d.session = Run(t).sid
  BY <1>4 DEF Call
<1>7. calls' = (calls \ {}) \cup {d}
  BY <1>4
<1>8. /\ page' \in [Tabs -> PageType] /\ page'[t].run = page[t].run
      /\ page'[t].screen = page[t].screen
      /\ \A u \in Tabs : u # t => page'[u] = page[u]
  <2>1. PICK p : p = [page[t] EXCEPT !.failed = FALSE]
    OBVIOUS
  <2>2. p \in PageType /\ p.run = page[t].run /\ p.screen = page[t].screen
    BY <1>2, <2>1 DEF PageType
  <2>3. page' = [page EXCEPT ![t] = p]
    BY <2>1
  <2> QED
    BY <1>1, <2>2, <2>3 DEF StructInv, PagesInv
<1>9. Run(t)' = Run(t)
  BY <1>8 DEF Run
<1>10. PagesInv'
  BY <1>1, <1>5, <1>7, <1>8 DEF StructInv, PagesInv
<1>11. /\ Len(sessions) \in Nat /\ DOMAIN sessions = 1 .. Len(sessions)
       /\ sessions' = sessions /\ card' = card /\ introduced' = introduced
       /\ left' = left /\ faults' = faults /\ left \in Nat /\ faults \in Nat
  BY <1>1, InHandFinite DEF study, StructInv, PagesInv
<1>12. Exchange(t, {}, {d})
  <2>1. RunOK(page[t])'
    BY <1>2, <1>8, <1>11 DEF RunOK
  <2>2. CallOK(d)'
    <3>1. d.session \in 1 .. Len(sessions')
      BY <1>2, <1>3, <1>6, <1>11
    <3> QED
      BY <1>3, <1>6, <1>11, <3>1 DEF CallOK
  <2>3. Fits(d, page'[t])
    BY <1>2, <1>3, <1>6, <1>8 DEF Fits
  <2>4. ~Detached(d)
    BY <1>6 DEF Detached, Live
  <2> QED
    BY <1>5, <1>6, <1>7, <1>8, <1>9, <2>1, <2>2, <2>3, <2>4 DEF Exchange
<1>13. Keeps(t, {}, {d})
  <2>1. NewCap = 0 =>
           /\ introduced' = 0
           /\ Run(t)'.item \in Items => card'[Run(t)'.item] # "new"
           /\ d.op = "answer" => card'[d.item] # "new"
    BY <1>1, <1>3, <1>6, <1>9, <1>11 DEF NoNewInv
  <2>2. d.reply.item \notin Items
    BY <1>6, FreshTyped, RunnerAssumption
  <2>3. faults' = 0 => Open(Run(t).sid)'
    <3>1. faults' = 0 => Open(Run(t).sid)
      BY <1>1, <1>3, <1>11 DEF EndInv, Pending
    <3> QED
      BY <1>9, <1>11, <3>1 DEF Open
  <2>4. /\ \A u \in Tabs :
              u # t /\ Run(u).sid # 0 /\ Open(Run(u).sid) => Open(Run(u).sid)'
        /\ \A c \in calls : Open(c.reply.session) => Open(c.reply.session)'
    BY <1>8, <1>11 DEF Open, Run
  <2> QED
    BY <1>6, <2>1, <2>2, <2>3, <2>4 DEF Keeps
<1>14. \A j \in Items : Held(t, j)' => Hand(Run(t)'.sid, j)
  <2>1. Waiting(t)' = (Waiting(t) \ {}) \cup {y \in {d} : Live(y) /\ Awaited(y)}
    BY <1>1, <1>10, <1>11, <1>12, Exchanged
  <2>2. \A c \in Waiting(t)' : c = d
    BY <2>1
  <2>3. ASSUME NEW j \in Items, Held(t, j)'
        PROVE  Run(t).phase = "active" /\ Run(t).item = j
    BY <1>6, <1>9, <2>2, <2>3, FreshTyped, RunnerAssumption DEF Held
  <2> QED
    BY <1>9, <2>3 DEF Hand, Held
<1>15. \A y \in {d} : Awaited(y) /\ ~Detached(y)
  BY <1>6 DEF Awaited, Detached, Live
<1> QED
  BY <1>10, <1>11, <1>12, <1>13, <1>14, <1>15, QuietExchange

LEMMA OnSubmitKeeps ==
  ASSUME StudyInv, NEW t \in Tabs, NEW skip \in BOOLEAN, OnSubmit(t, skip)
  PROVE  StudyInv'
<1>1. StructInv
  BY DEF StudyInv
<1>2. SkipEnabled(t)
  BY DEF OnSubmit, SubmitEnabled
<1>3. QuestionShown(t) /\ Run(t).phase = "active" /\ ~Pending(t, "answer")
  BY <1>2 DEF SkipEnabled
<1>4. Waiting(t) = {}
  <2>1. ASSUME NEW c \in Waiting(t)
        PROVE  FALSE
    <3>1. Fits(c, page[t]) /\ c \in calls
      BY <1>1, TabOf
    <3>2. c.op \in {"start", "next", "answer", "finish"}
      BY <1>1, <3>1, CallOf DEF CallType
    <3>3. c.op # "answer"
      BY <1>3 DEF Pending
    <3> QED
      BY <1>3, <3>1, <3>2, <3>3 DEF Fits, Run
  <2> QED
    BY <2>1
<1>5. Run(t) \in RunType /\ RunOK(page[t])
  BY <1>1, TabOf
<1>6. PICK kind \in Kinds \cup {"none"} :
          kind = IF skip THEN "skip" ELSE Run(t).selected
  BY <1>5 DEF RunType, Kinds
<1>7. Run(t).item \in Items \cup {NoItem}
  BY <1>5 DEF RunType
<1>8. calls' = calls \cup
          {Call(t, "answer", Run(t).sid, Run(t).item, kind, Run(t).config)}
  BY <1>6 DEF OnSubmit
<1>9. /\ page' = [page EXCEPT ![t].failed = FALSE]
      /\ UNCHANGED <<study, saved, faults, left>>
  BY DEF OnSubmit
<1> QED
  BY <1>3, <1>4, <1>7, <1>8, <1>9, AskKeeps

LEMMA OnNextKeeps ==
  ASSUME StudyInv, NEW t \in Tabs, OnNext(t)
  PROVE  StudyInv'
<1>1. StructInv
  BY DEF StudyInv
<1>2. /\ QuestionShown(t) /\ Run(t).phase = "feedback"
      /\ ~Pending(t, "next") /\ ~Pending(t, "finish")
  BY DEF OnNext, NextEnabled
<1>3. Waiting(t) = {}
  <2>1. ASSUME NEW c \in Waiting(t)
        PROVE  FALSE
    <3>1. Fits(c, page[t]) /\ c \in calls
      BY <1>1, TabOf
    <3>2. c.op \in {"start", "next", "answer", "finish"}
      BY <1>1, <3>1, CallOf DEF CallType
    <3>3. c.op \notin {"next", "finish"}
      BY <1>2 DEF Pending
    <3> QED
      BY <1>2, <3>1, <3>2, <3>3 DEF Fits, Run
  <2> QED
    BY <2>1
<1>4. /\ calls' = calls \cup
             {Call(t, "next", Run(t).sid, NoItem, "none", Run(t).config)}
      /\ page' = [page EXCEPT ![t].failed = FALSE]
      /\ UNCHANGED <<study, saved, faults, left>>
  BY DEF OnNext
<1>5. NoItem \in Items \cup {NoItem} /\ "none" \in Kinds \cup {"none"}
  OBVIOUS
<1> QED
  BY <1>2, <1>3, <1>4, <1>5, AskKeeps

\* The page that sent a request shows its reply, if it is still there.
LEMMA ShowIs ==
  ASSUME StructInv, NEW c \in calls, NEW run \in RunType, Show(c, run),
         NEW t \in Tabs, t = c.tab
  PROVE  /\ page' \in [Tabs -> PageType]
         /\ \A u \in Tabs : u # t => page'[u] = page[u]
         /\ page'[t].screen = page[t].screen /\ page'[t].run = Run(t)'
         /\ Live(c) => Run(t)' = run
         /\ ~Live(c) => page' = page /\ Run(t)' = Run(t)
<1>1. page[t] \in PageType
  BY TabOf
<1>2. PICK p : p = [page[t] EXCEPT !.run = run]
  OBVIOUS
<1>3. p \in PageType /\ p.run = run /\ p.screen = page[t].screen
  BY <1>1, <1>2 DEF PageType
<1>4. CASE Live(c)
  <2>1. page' = [page EXCEPT ![t] = p]
    BY <1>2, <1>4 DEF Show
  <2> QED
    BY <1>3, <1>4, <2>1 DEF StructInv, PagesInv, Run
<1>5. CASE ~Live(c)
  <2>1. page' = page
    BY <1>5 DEF Show
  <2> QED
    BY <1>5, <2>1 DEF StructInv, PagesInv, Run
<1> QED
  BY <1>4, <1>5

\* The tables of the sessions and the counts of a step that changes none.
LEMMA SameTables ==
  ASSUME StudyInv, UNCHANGED <<study, faults, left>>
  PROVE  /\ Len(sessions') \in Nat /\ Len(sessions) \in Nat
         /\ Len(sessions') = Len(sessions) /\ DOMAIN sessions = 1 .. Len(sessions)
         /\ sessions' = sessions /\ card' = card /\ introduced' = introduced
         /\ left' = left /\ faults' = faults /\ left \in Nat /\ faults \in Nat
         /\ left <= left' /\ faults <= faults'
<1>1. StructInv
  BY DEF StudyInv
<1> QED
  BY <1>1, InHandFinite DEF study, StructInv, PagesInv

\* A request whose tab waits for it is the only one it waits for.
LEMMA SoleWait ==
  ASSUME StructInv, NEW c \in calls, Awaited(c), Live(c), NEW t \in Tabs, t = c.tab
  PROVE  /\ Waiting(t) = {c} /\ Fits(c, page[t]) /\ page[t].screen = "session"
         /\ c.op = "start" => Run(t).phase = "loading" /\ Run(t).sid = 0
         /\ c.op \in {"next", "finish"} =>
               c.session = Run(t).sid /\ Run(t).phase \in {"loading", "feedback"}
         /\ c.op = "answer" =>
               /\ c.session = Run(t).sid /\ c.item = Run(t).item
               /\ Run(t).phase = "active"
         /\ c.op # "start" => Run(t).sid # 0 /\ Run(t).sid = Sid(c)
<1>1. c \in Waiting(t) /\ c \in CallType /\ CallOK(c)
  BY CallOf
<1>2. Fits(c, page[t]) /\ Waiting(t) = {c}
  BY <1>1, TabOf
<1>3. /\ page[t].screen = "session"
      /\ c.op = "start" => Run(t).phase = "loading" /\ Run(t).sid = 0
      /\ c.op \in {"next", "finish"} =>
            c.session = Run(t).sid /\ Run(t).phase \in {"loading", "feedback"}
      /\ c.op = "answer" =>
            /\ c.session = Run(t).sid /\ c.item = Run(t).item
            /\ Run(t).phase = "active"
  BY <1>2 DEF Fits, Run
<1>4. c.op # "start" => c.session # 0 /\ c.session = Sid(c)
  BY <1>1, InHandFinite DEF CallOK, Sid
<1>5. c.op \in {"start", "next", "answer", "finish"}
  BY <1>1 DEF CallType
<1> QED
  BY <1>2, <1>3, <1>4, <1>5

LEMMA StartRepliedKeeps ==
  ASSUME StudyInv, NEW c \in calls, StartReplied(c)
  PROVE  StudyInv'
<1>1. StructInv /\ NoNewInv /\ EndInv
  BY DEF StudyInv
<1>2. PICK t \in Tabs : t = c.tab
  BY <1>1, CallOf
<1>3. /\ c.op = "start" /\ Awaited(c) /\ c.served /\ c.ok
      /\ Continue(c, "next", c.reply.session)
      /\ UNCHANGED <<study, saved, faults, left>>
  BY DEF StartReplied, Replied
<1>4. /\ c \in CallType /\ CallOK(c) /\ c.config \in ConfigType
      /\ c.gone \in Nat /\ c.gone <= left
  BY <1>1, CallOf DEF CallType, CallOK
<1>5. PICK n \in Nat : n = c.reply.session /\ n # 0 /\ n \in DOMAIN sessions
  BY <1>1, <1>3, <1>4, InHandFinite DEF CallOK
<1>6. /\ Len(sessions') \in Nat /\ Len(sessions) \in Nat
      /\ Len(sessions') = Len(sessions) /\ DOMAIN sessions = 1 .. Len(sessions)
      /\ sessions' = sessions /\ card' = card /\ introduced' = introduced
      /\ left' = left /\ faults' = faults /\ left \in Nat /\ faults \in Nat
      /\ left <= left' /\ faults <= faults'
  BY <1>3, SameTables
<1>7. PICK e : e = Call(t, "next", n, NoItem, "none", c.config)
  OBVIOUS
<1>8. e \in CallType
  BY <1>4, <1>7, CallTyped
<1>9. PICK d : d = [e EXCEPT !.gone = c.gone]
  OBVIOUS
<1>10. /\ d \in CallType /\ d.tab = t /\ d.op = "next" /\ d.gone = c.gone /\ d.lost = 0
       /\ ~d.served /\ ~d.ok /\ d.reply = NoReply /\ d.session = n
  BY <1>4, <1>7, <1>8, <1>9 DEF CallType, Call
<1>11. calls' = (calls \ {c}) \cup {d}
  BY <1>2, <1>3, <1>5, <1>7, <1>9 DEF Continue
<1>12. Run(t) \in RunType /\ RunOK(page[t]) /\ page[t].run = Run(t)
  BY <1>1, TabOf DEF Run
<1>13. PICK run : run = [Run(t) EXCEPT !.sid = n]
  OBVIOUS
<1>14. /\ run \in RunType /\ run.sid = n /\ run.phase = Run(t).phase
       /\ run.item = Run(t).item
  BY <1>12, <1>13 DEF RunType
<1>15. Show(c, run)
  BY <1>2, <1>5, <1>13 DEF StartReplied
<1>16. /\ page' \in [Tabs -> PageType]
       /\ \A u \in Tabs : u # t => page'[u] = page[u]
       /\ page'[t].screen = page[t].screen /\ page'[t].run = Run(t)'
       /\ Live(c) => Run(t)' = run
       /\ ~Live(c) => page' = page /\ Run(t)' = Run(t)
  BY <1>1, <1>2, <1>14, <1>15, ShowIs
<1>17. PagesInv'
  BY <1>1, <1>3, <1>10, <1>11, <1>16 DEF StructInv, PagesInv
<1>18. Live(c) => /\ Waiting(t) = {c} /\ page[t].screen = "session"
                  /\ Run(t).phase = "loading" /\ Run(t).sid = 0
  BY <1>1, <1>2, <1>3, SoleWait
<1>19. /\ Sid(c) = n /\ Sid(d) = n /\ Detached(c) /\ (Live(d) <=> Live(c))
       /\ Awaited(d) /\ (Detached(d) <=> ~Live(c))
  BY <1>3, <1>5, <1>10 DEF Sid, Detached, Live, Awaited
<1>20. Exchange(t, {c}, {d})
  <2>1. RunOK(page[t])'
    <3>1. n \in 0 .. Len(sessions')
      BY <1>5, <1>6
    <3> QED
      BY <1>5, <1>6, <1>12, <1>14, <1>16, <1>18, <3>1 DEF RunOK
  <2>2. CallOK(d)'
    BY <1>4, <1>5, <1>6, <1>10 DEF CallOK
  <2>3. Live(c) => Fits(d, page'[t])
    BY <1>10, <1>14, <1>16, <1>18 DEF Fits
  <2>4. \A b \in Waiting(t) : b \in {c} \/ Fits(b, page'[t])
    BY <1>1, <1>16, <1>18, TabOf
  <2>5. d.lost = 0 /\ c.tab = t
    BY <1>2, <1>10
  <2>6. \/ Run(t)'.sid \in {0, Run(t).sid}
        \/ Detached(c) /\ Run(t)'.sid = Sid(c) /\ ~Detached(d)
    BY <1>14, <1>16, <1>19
  <2> QED
    BY <1>10, <1>11, <1>16, <1>18, <1>19, <2>1, <2>2, <2>3, <2>4, <2>5, <2>6
       DEF Exchange
<1>21. /\ Waiting(t)' = (Waiting(t) \ {c}) \cup {y \in {d} : Live(y) /\ Awaited(y)}
  BY <1>1, <1>6, <1>17, <1>20, Exchanged
<1>22. ~Live(c) => Waiting(t)' = Waiting(t)
  BY <1>19, <1>21 DEF Waiting
<1>23. Keeps(t, {c}, {d})
  <2>1. ASSUME NewCap = 0
        PROVE  /\ introduced' = 0
               /\ Run(t)'.item \in Items => card'[Run(t)'.item] # "new"
    <3>1. Run(t)'.item = Run(t).item
      BY <1>14, <1>16
    <3> QED
      BY <1>1, <1>6, <2>1, <3>1 DEF NoNewInv
  <2>2. d.reply.item \notin Items /\ d.op = "next"
    BY <1>10, FreshTyped, RunnerAssumption
  <2>3. ASSUME faults' = 0, Run(t)'.sid # 0, ~Open(Run(t).sid)'
        PROVE  Run(t)'.phase \in {"done", "caughtUp"} \/ Pending(t, "finish")'
    <3>1. faults = 0 /\ Open(n)
      BY <1>1, <1>3, <1>5, <1>6, <2>3 DEF EndInv
    <3>2. ~Live(c)
      BY <1>6, <1>14, <1>16, <2>3, <3>1 DEF Open
    <3>3. Run(t).phase \in {"done", "caughtUp"} \/ Pending(t, "finish")
      BY <1>1, <1>6, <1>16, <2>3, <3>1, <3>2 DEF EndInv, Open
    <3> QED
      BY <1>16, <1>22, <3>2, <3>3 DEF Pending
  <2>4. /\ \A u \in Tabs :
              u # t /\ Run(u).sid # 0 /\ Open(Run(u).sid) => Open(Run(u).sid)'
        /\ \A b \in calls : Open(b.reply.session) => Open(b.reply.session)'
    BY <1>6, <1>16 DEF Open, Run
  <2> QED
    BY <2>1, <2>2, <2>3, <2>4 DEF Keeps
<1>24. \A i \in Items : Held(t, i)' => Hand(Run(t)'.sid, i)
  <2>1. CASE Live(c)
    <3>1. \A b \in Waiting(t)' : b = d
      BY <1>18, <1>21, <2>1
    <3> QED
      BY <1>10, <1>14, <1>16, <1>18, <2>1, <3>1, FreshTyped, RunnerAssumption DEF Held
  <2>2. CASE ~Live(c)
    BY <1>16, <1>22, <2>2 DEF Held, Hand
  <2> QED
    BY <2>1, <2>2
<1>25. \A y \in {d} : y.op # "answer"
  BY <1>10
<1> QED
  BY <1>3, <1>6, <1>17, <1>20, <1>23, <1>24, <1>25, QuietExchange

\* Nothing is left to serve: the session is finished.
LEMMA NextEndsKeeps ==
  ASSUME StudyInv, NEW c \in calls, NextReplied(c), c.reply.item = NoItem
  PROVE  StudyInv'
<1>1. StructInv /\ NoNewInv /\ EndInv
  BY DEF StudyInv
<1>2. PICK t \in Tabs : t = c.tab
  BY <1>1, CallOf
<1>3. /\ c.op = "next" /\ Awaited(c) /\ c.served /\ c.ok
      /\ Continue(c, "finish", c.session) /\ UNCHANGED page
      /\ UNCHANGED <<study, saved, faults, left>>
  BY DEF NextReplied, Replied
<1>4. /\ c \in CallType /\ CallOK(c) /\ c.config \in ConfigType
      /\ c.gone \in Nat /\ c.gone <= left /\ c.session \in Nat
  BY <1>1, CallOf DEF CallType, CallOK
<1>5. PICK n \in Nat : n = c.session
  BY <1>4
<1>6. /\ Len(sessions') \in Nat /\ Len(sessions) \in Nat
      /\ Len(sessions') = Len(sessions) /\ DOMAIN sessions = 1 .. Len(sessions)
      /\ sessions' = sessions /\ card' = card /\ introduced' = introduced
      /\ left' = left /\ faults' = faults /\ left \in Nat /\ faults \in Nat
      /\ left <= left' /\ faults <= faults'
  BY <1>3, SameTables
<1>7. PICK e : e = Call(t, "finish", n, NoItem, "none", c.config)
  OBVIOUS
<1>8. e \in CallType
  BY <1>4, <1>7, CallTyped
<1>9. PICK d : d = [e EXCEPT !.gone = c.gone]
  OBVIOUS
<1>10. /\ d \in CallType /\ d.tab = t /\ d.op = "finish" /\ d.gone = c.gone
       /\ d.lost = 0 /\ ~d.served /\ ~d.ok /\ d.reply = NoReply /\ d.session = n
  BY <1>4, <1>7, <1>8, <1>9 DEF CallType, Call
<1>11. calls' = (calls \ {c}) \cup {d}
  BY <1>2, <1>3, <1>5, <1>7, <1>9 DEF Continue
<1>12. Run(t)' = Run(t) /\ page[t].run = Run(t) /\ RunOK(page[t])
  BY <1>1, <1>3, TabOf DEF Run
<1>13. PagesInv'
  BY <1>1, <1>3, <1>10, <1>11 DEF StructInv, PagesInv
<1>14. Live(c) => /\ Waiting(t) = {c} /\ page[t].screen = "session"
                  /\ Run(t).phase \in {"loading", "feedback"} /\ Run(t).sid = n
  BY <1>1, <1>2, <1>3, <1>5, SoleWait
<1>15. /\ Sid(c) = n /\ Sid(d) = n /\ (Live(d) <=> Live(c))
       /\ Awaited(d) /\ (Detached(d) <=> ~Live(c)) /\ (Detached(c) <=> ~Live(c))
  BY <1>3, <1>5, <1>10 DEF Sid, Detached, Live, Awaited
<1>16. Exchange(t, {c}, {d})
  <2>1. RunOK(page[t])'
    BY <1>3, <1>6, <1>12 DEF RunOK
  <2>2. CallOK(d)'
    BY <1>3, <1>4, <1>5, <1>6, <1>10 DEF CallOK
  <2>3. Live(c) => Fits(d, page'[t])
    BY <1>3, <1>10, <1>12, <1>14 DEF Fits
  <2>4. \A b \in Waiting(t) : Fits(b, page'[t])
    BY <1>1, <1>3, TabOf
  <2>5. d.lost = 0 /\ c.tab = t
    BY <1>2, <1>10
  <2> QED
    BY <1>3, <1>10, <1>11, <1>12, <1>14, <1>15, <2>1, <2>2, <2>3, <2>4, <2>5
       DEF Exchange
<1>17. /\ Waiting(t)' = (Waiting(t) \ {c}) \cup {y \in {d} : Live(y) /\ Awaited(y)}
  BY <1>1, <1>6, <1>13, <1>16, Exchanged
<1>18. ~Live(c) => Waiting(t)' = Waiting(t)
  BY <1>15, <1>17 DEF Waiting
<1>19. Keeps(t, {c}, {d})
  <2>1. ASSUME NewCap = 0
        PROVE  /\ introduced' = 0
               /\ Run(t)'.item \in Items => card'[Run(t)'.item] # "new"
    BY <1>1, <1>6, <1>12, <2>1 DEF NoNewInv
  <2>2. d.reply.item \notin Items /\ d.op = "finish"
    BY <1>10, FreshTyped, RunnerAssumption
  <2>3. ASSUME faults' = 0, Run(t)'.sid # 0, ~Open(Run(t).sid)'
        PROVE  Run(t)'.phase \in {"done", "caughtUp"} \/ Pending(t, "finish")'
    <3>1. CASE Live(c)
      <4>1. d \in Waiting(t)'
        BY <1>15, <1>17, <3>1
      <4> QED
        BY <1>10, <4>1 DEF Pending
    <3>2. CASE ~Live(c)
      <4>1. Run(t).phase \in {"done", "caughtUp"} \/ Pending(t, "finish")
        BY <1>1, <1>6, <1>12, <2>3 DEF EndInv, Open
      <4> QED
        BY <1>12, <1>18, <3>2, <4>1 DEF Pending
    <3> QED
      BY <3>1, <3>2
  <2>4. /\ \A u \in Tabs :
              u # t /\ Run(u).sid # 0 /\ Open(Run(u).sid) => Open(Run(u).sid)'
        /\ \A b \in calls : Open(b.reply.session) => Open(b.reply.session)'
    BY <1>3, <1>6 DEF Open, Run
  <2> QED
    BY <2>1, <2>2, <2>3, <2>4 DEF Keeps
<1>20. \A i \in Items : Held(t, i)' => Hand(Run(t)'.sid, i)
  <2>1. CASE Live(c)
    <3>1. \A b \in Waiting(t)' : b = d
      BY <1>14, <1>17, <2>1
    <3> QED
      BY <1>10, <1>12, <1>14, <2>1, <3>1 DEF Held
  <2>2. CASE ~Live(c)
    BY <1>12, <1>18, <2>2 DEF Held, Hand
  <2> QED
    BY <2>1, <2>2
<1>21. \A y \in {d} : y.op # "answer"
  BY <1>10
<1> QED
  BY <1>3, <1>6, <1>13, <1>16, <1>19, <1>20, <1>21, QuietExchange

\* A request is answered for good, and its tab shows the run it now has.
LEMMA ShownKeeps ==
  ASSUME StudyInv, NEW c \in calls, Awaited(c), NEW run \in RunType, Show(c, run),
         calls' = calls \ {c}, UNCHANGED <<study, saved, faults, left>>,
         Live(c) => c.op # "start",
         Live(c) => run.sid = Run(c.tab).sid,
         Live(c) /\ run.phase \in {"active", "feedback"} => run.item \in Items,
         Live(c) => run.item = Run(c.tab).item \/ run.item = c.reply.item,
         Live(c) /\ run.phase = "active" =>
            c.op = "next" /\ c.reply.item = run.item,
         run.phase \in {"done", "caughtUp"} \/ c.op # "finish"
  PROVE  StudyInv'
<1>1. StructInv /\ NoNewInv /\ EndInv
  BY DEF StudyInv
<1>2. PICK t \in Tabs : t = c.tab
  BY <1>1, CallOf
<1>3. /\ Len(sessions') \in Nat /\ Len(sessions) \in Nat
      /\ Len(sessions') = Len(sessions) /\ DOMAIN sessions = 1 .. Len(sessions)
      /\ sessions' = sessions /\ card' = card /\ introduced' = introduced
      /\ left' = left /\ faults' = faults /\ left \in Nat /\ faults \in Nat
      /\ left <= left' /\ faults <= faults'
  BY SameTables
<1>4. Run(t) \in RunType /\ RunOK(page[t]) /\ page[t].run = Run(t)
  BY <1>1, TabOf DEF Run
<1>5. /\ page' \in [Tabs -> PageType]
      /\ \A u \in Tabs : u # t => page'[u] = page[u]
      /\ page'[t].screen = page[t].screen /\ page'[t].run = Run(t)'
      /\ Live(c) => Run(t)' = run
      /\ ~Live(c) => page' = page /\ Run(t)' = Run(t)
  BY <1>1, <1>2, ShowIs
<1>6. PagesInv'
  BY <1>1, <1>5 DEF StructInv, PagesInv
<1>7. Live(c) => /\ Waiting(t) = {c} /\ page[t].screen = "session"
                 /\ Run(t).sid # 0 /\ run.sid = Run(t).sid
                 /\ c.op # "finish" =>
                       Run(t).phase \in {"loading", "feedback", "active"}
  <2>1. c \in CallType
    BY <1>1, CallOf
  <2>2. c.op \in {"start", "next", "answer", "finish"}
    BY <2>1 DEF CallType
  <2> QED
    BY <1>1, <1>2, <2>2, SoleWait
<1>8. Exchange(t, {c}, {})
  <2>1. RunOK(page[t])'
    BY <1>2, <1>3, <1>4, <1>5, <1>7 DEF RunOK
  <2>2. \A b \in Waiting(t) : b \in {c} \/ Fits(b, page'[t])
    BY <1>1, <1>5, <1>7, TabOf
  <2>3. Run(t)'.sid = Run(t).sid
    BY <1>2, <1>5
  <2> QED
    BY <1>2, <1>5, <2>1, <2>2, <2>3 DEF Exchange
<1>9. /\ Waiting(t)' = (Waiting(t) \ {c}) \cup {y \in {} : Live(y) /\ Awaited(y)}
  BY <1>1, <1>3, <1>6, <1>8, Exchanged
<1>10. /\ ~Live(c) => Waiting(t)' = Waiting(t)
       /\ Live(c) => Waiting(t)' = {}
  BY <1>7, <1>9 DEF Waiting
<1>11. Keeps(t, {c}, {})
  <2>1. ASSUME NewCap = 0
        PROVE  /\ introduced' = 0
               /\ Run(t)'.item \in Items => card'[Run(t)'.item] # "new"
    BY <1>1, <1>2, <1>3, <1>5, <2>1 DEF NoNewInv
  <2>2. ASSUME faults' = 0, Run(t)'.sid # 0, ~Open(Run(t).sid)'
        PROVE  Run(t)'.phase \in {"done", "caughtUp"} \/ Pending(t, "finish")'
    <3>1. Run(t).sid # 0 /\ ~Open(Run(t).sid)
      BY <1>2, <1>3, <1>5, <2>2 DEF Open
    <3>2. Run(t).phase \in {"done", "caughtUp"} \/ Pending(t, "finish")
      BY <1>1, <1>3, <2>2, <3>1 DEF EndInv
    <3>3. CASE Live(c)
      <4>1. c.op = "finish"
        BY <1>7, <3>2, <3>3 DEF Pending
      <4> QED
        BY <1>5, <3>3, <4>1
    <3>4. CASE ~Live(c)
      BY <1>5, <1>10, <3>2, <3>4 DEF Pending
    <3> QED
      BY <3>3, <3>4
  <2>3. /\ \A u \in Tabs :
              u # t /\ Run(u).sid # 0 /\ Open(Run(u).sid) => Open(Run(u).sid)'
        /\ \A b \in calls : Open(b.reply.session) => Open(b.reply.session)'
    BY <1>3, <1>5 DEF Open, Run
  <2> QED
    BY <2>1, <2>2, <2>3 DEF Keeps
<1>12. \A i \in Items : Held(t, i)' => Hand(Run(t)'.sid, i)
  <2>1. CASE Live(c)
    <3>1. ASSUME NEW i \in Items, Held(t, i)'
          PROVE  Held(t, i)
      <4>1. run.phase = "active" /\ run.item = i
        BY <1>5, <1>10, <2>1, <3>1 DEF Held
      <4>2. c \in Waiting(t) /\ c.op = "next" /\ c.reply.item = i
        BY <1>7, <2>1, <4>1
      <4> QED
        BY <4>2 DEF Held
    <3>2. Run(t)'.sid = Run(t).sid
      BY <1>2, <1>5
    <3> QED
      BY <3>1, <3>2 DEF Hand
  <2>2. CASE ~Live(c)
    BY <1>5, <1>10, <2>2 DEF Held, Hand
  <2> QED
    BY <2>1, <2>2
<1> QED
  BY <1>3, <1>6, <1>8, <1>11, <1>12, QuietExchange

LEMMA NextRepliedKeeps ==
  ASSUME StudyInv, NEW c \in calls, NextReplied(c)
  PROVE  StudyInv'
<1>1. CASE c.reply.item = NoItem
  BY <1>1, NextEndsKeeps
<1>2. CASE c.reply.item # NoItem
  <2>1. StructInv
    BY DEF StudyInv
  <2>2. PICK t \in Tabs : t = c.tab
    BY <2>1, CallOf
  <2>3. c.op = "next" /\ Awaited(c)
    BY DEF NextReplied, Replied
  <2>4. c.reply.item \in Items
    <3>1. c \in CallType
      BY <2>1, CallOf
    <3>2. c.reply \in ReplyType
      BY <3>1 DEF CallType
    <3> QED
      BY <1>2, <3>2 DEF ReplyType
  <2>5. PICK run : run = [Run(t) EXCEPT !.item = c.reply.item,
                                        !.selected = "none", !.phase = "active"]
    OBVIOUS
  <2>6. Run(t) \in RunType
    BY <2>1, TabOf
  <2>7. /\ run \in RunType /\ run.item = c.reply.item /\ run.phase = "active"
        /\ run.sid = Run(t).sid
    BY <2>4, <2>5, <2>6 DEF RunType
  <2>8. /\ calls' = calls \ {c} /\ Show(c, run)
        /\ UNCHANGED <<study, saved, faults, left>>
    BY <1>2, <2>2, <2>5 DEF NextReplied
  <2> QED
    BY <2>2, <2>3, <2>4, <2>7, <2>8, ShownKeeps
<1> QED
  BY <1>1, <1>2

LEMMA AnswerRepliedKeeps ==
  ASSUME StudyInv, NEW c \in calls, AnswerReplied(c)
  PROVE  StudyInv'
<1>1. StructInv
  BY DEF StudyInv
<1>2. PICK t \in Tabs : t = c.tab
  BY <1>1, CallOf
<1>3. c.op = "answer" /\ Awaited(c)
  BY DEF AnswerReplied, Replied
<1>4. PICK run : run = [Run(t) EXCEPT !.phase = "feedback"]
  OBVIOUS
<1>5. Run(t) \in RunType /\ RunOK(page[t]) /\ page[t].run = Run(t)
  BY <1>1, TabOf DEF Run
<1>6. /\ run \in RunType /\ run.item = Run(t).item /\ run.phase = "feedback"
      /\ run.sid = Run(t).sid
  BY <1>4, <1>5 DEF RunType
<1>7. Live(c) => run.item \in Items
  <2>1. Live(c) => Run(t).phase = "active"
    BY <1>1, <1>2, <1>3, SoleWait
  <2> QED
    BY <1>5, <1>6, <2>1 DEF RunOK
<1>8. /\ calls' = calls \ {c} /\ Show(c, run)
      /\ UNCHANGED <<study, saved, faults, left>>
  BY <1>2, <1>4 DEF AnswerReplied
<1> QED
  BY <1>2, <1>3, <1>6, <1>7, <1>8, ShownKeeps

LEMMA FinishRepliedKeeps ==
  ASSUME StudyInv, NEW c \in calls, FinishReplied(c)
  PROVE  StudyInv'
<1>1. StructInv
  BY DEF StudyInv
<1>2. PICK t \in Tabs : t = c.tab
  BY <1>1, CallOf
<1>3. c.op = "finish" /\ Awaited(c)
  BY DEF FinishReplied, Replied
<1>4. PICK phase \in {"done", "caughtUp"} :
          phase = IF c.config.mode = "daily_review" /\ c.reply.count = 0
                  THEN "caughtUp" ELSE "done"
  OBVIOUS
<1>5. PICK run : run = [Run(t) EXCEPT !.phase = phase]
  OBVIOUS
<1>6. Run(t) \in RunType
  BY <1>1, TabOf
<1>7. /\ run \in RunType /\ run.item = Run(t).item /\ run.phase = phase
      /\ run.sid = Run(t).sid
  BY <1>4, <1>5, <1>6 DEF RunType
<1>8. /\ calls' = calls \ {c} /\ Show(c, run)
      /\ UNCHANGED <<study, saved, faults, left>>
  BY <1>2, <1>4, <1>5 DEF FinishReplied
<1> QED
  BY <1>2, <1>3, <1>7, <1>8, ShownKeeps

\* The page that sent a request is told that it failed, if it is still there.
LEMMA FailureShown ==
  ASSUME StructInv, NEW c \in calls, NEW t \in Tabs, t = c.tab,
         page' = IF Live(c) THEN [page EXCEPT ![c.tab].failed = TRUE] ELSE page
  PROVE  /\ page' \in [Tabs -> PageType]
         /\ \A u \in Tabs : u # t => page'[u] = page[u]
         /\ page'[t].screen = page[t].screen /\ page'[t].run = page[t].run
         /\ Run(t)' = Run(t) /\ page[t].run = Run(t)
<1>1. page[t] \in PageType
  BY TabOf
<1>2. PICK p : p = [page[t] EXCEPT !.failed = TRUE]
  OBVIOUS
<1>3. p \in PageType /\ p.run = page[t].run /\ p.screen = page[t].screen
  BY <1>1, <1>2 DEF PageType
<1>4. page' = IF Live(c) THEN [page EXCEPT ![t] = p] ELSE page
  BY <1>2
<1>5. \/ page' = [page EXCEPT ![t] = p]
      \/ page' = page
  BY <1>4
<1> QED
  BY <1>3, <1>5 DEF StructInv, PagesInv, Run

\* A reply that says no: the tables do not change.
LEMMA RefusedKeeps ==
  ASSUME StudyInv, NEW c \in calls, Awaited(c), c.served, ~c.ok,
         calls' = calls \ {c}, UNCHANGED <<study, saved, faults, left>>,
         page' = IF Live(c) THEN [page EXCEPT ![c.tab].failed = TRUE] ELSE page
  PROVE  StudyInv'
<1>1. StructInv /\ NoNewInv /\ EndInv
  BY DEF StudyInv
<1>2. PICK t \in Tabs : t = c.tab
  BY <1>1, CallOf
<1>3. /\ Len(sessions') \in Nat /\ Len(sessions) \in Nat
      /\ Len(sessions') = Len(sessions) /\ DOMAIN sessions = 1 .. Len(sessions)
      /\ sessions' = sessions /\ card' = card /\ introduced' = introduced
      /\ left' = left /\ faults' = faults /\ left \in Nat /\ faults \in Nat
      /\ left <= left' /\ faults <= faults'
  BY SameTables
<1>4. /\ page' \in [Tabs -> PageType]
      /\ \A u \in Tabs : u # t => page'[u] = page[u]
      /\ page'[t].screen = page[t].screen /\ page'[t].run = page[t].run
      /\ Run(t)' = Run(t) /\ page[t].run = Run(t)
  BY <1>1, <1>2, FailureShown
<1>5. PagesInv'
  BY <1>1, <1>4 DEF StructInv, PagesInv
<1>6. c.op \in {"next", "answer"} /\ ~Recorded(c)
  BY <1>1, CallOf DEF CallOK, CallType, Recorded
<1>7. Exchange(t, {c}, {})
  <2>1. RunOK(page[t]) /\ \A b \in Waiting(t) : Fits(b, page[t])
    BY <1>1, TabOf
  <2>2. RunOK(page[t])'
    BY <1>3, <1>4, <2>1 DEF RunOK
  <2>3. \A b \in Waiting(t) : Fits(b, page'[t])
    BY <1>4, <2>1 DEF Fits
  <2> QED
    BY <1>2, <1>4, <2>2, <2>3 DEF Exchange
<1>8. /\ Waiting(t)' = (Waiting(t) \ {c}) \cup {y \in {} : Live(y) /\ Awaited(y)}
  BY <1>1, <1>3, <1>5, <1>7, Exchanged
<1>9. Waiting(t)' = Waiting(t) \ {c}
  BY <1>8
<1>10. Keeps(t, {c}, {})
  <2>1. ASSUME NewCap = 0
        PROVE  /\ introduced' = 0
               /\ Run(t)'.item \in Items => card'[Run(t)'.item] # "new"
    BY <1>1, <1>3, <1>4, <2>1 DEF NoNewInv
  <2>2. ASSUME faults' = 0, Run(t)'.sid # 0, ~Open(Run(t).sid)'
        PROVE  Run(t)'.phase \in {"done", "caughtUp"} \/ Pending(t, "finish")'
    <3>1. Run(t).sid # 0 /\ ~Open(Run(t).sid)
      BY <1>3, <1>4, <2>2 DEF Open
    <3>2. Run(t).phase \in {"done", "caughtUp"} \/ Pending(t, "finish")
      BY <1>1, <1>3, <2>2, <3>1 DEF EndInv
    <3> QED
      BY <1>4, <1>6, <1>9, <3>2 DEF Pending
  <2>3. /\ \A u \in Tabs :
              u # t /\ Run(u).sid # 0 /\ Open(Run(u).sid) => Open(Run(u).sid)'
        /\ \A b \in calls : Open(b.reply.session) => Open(b.reply.session)'
    BY <1>3, <1>4 DEF Open, Run
  <2> QED
    BY <2>1, <2>2, <2>3 DEF Keeps
<1>11. \A i \in Items : Held(t, i)' => Hand(Run(t)'.sid, i)
  BY <1>4, <1>6, <1>9 DEF Held, Hand
<1> QED
  BY <1>3, <1>5, <1>7, <1>10, <1>11, QuietExchange

\* The reply is lost, or the request seems to be.
LEMMA FaultKeeps ==
  ASSUME StudyInv, NEW c \in calls, Awaited(c),
         Trouble < MaxTrouble, faults' = faults + 1,
         calls' = (calls \ {c})
                    \cup {d \in {[c EXCEPT !.lost = faults + 1]} : ~c.served},
         UNCHANGED <<study, saved, left>>,
         page' = IF Live(c) THEN [page EXCEPT ![c.tab].failed = TRUE] ELSE page
  PROVE  StudyInv'
<1>1. StructInv /\ NoNewInv /\ EndInv
  BY DEF StudyInv
<1>2. PICK t \in Tabs : t = c.tab
  BY <1>1, CallOf
<1>3. PICK f \in Nat : f = faults + 1 /\ f > faults /\ f <= MaxTrouble /\ f # 0
  BY <1>1, Bounded DEF StructInv, PagesInv
<1>4. /\ Len(sessions') \in Nat /\ Len(sessions) \in Nat
      /\ Len(sessions') = Len(sessions) /\ DOMAIN sessions = 1 .. Len(sessions)
      /\ sessions' = sessions /\ card' = card /\ introduced' = introduced
      /\ left' = left /\ faults' = f /\ left \in Nat /\ faults \in Nat
      /\ left <= left' /\ faults <= faults'
  BY <1>1, <1>3, InHandFinite DEF study, StructInv, PagesInv
<1>5. /\ page' \in [Tabs -> PageType]
      /\ \A u \in Tabs : u # t => page'[u] = page[u]
      /\ page'[t].screen = page[t].screen /\ page'[t].run = page[t].run
      /\ Run(t)' = Run(t) /\ page[t].run = Run(t)
  BY <1>1, <1>2, FailureShown
<1>6. PICK d : d = [c EXCEPT !.lost = f]
  OBVIOUS
<1>7. c \in CallType /\ CallOK(c)
  BY <1>1, CallOf
<1>8. /\ d \in CallType /\ d.tab = t /\ d.op = c.op /\ d.session = c.session
      /\ d.item = c.item /\ d.reply = c.reply /\ d.served = c.served /\ d.ok = c.ok
      /\ d.gone = c.gone /\ d.lost = f
  BY <1>2, <1>3, <1>6, <1>7 DEF CallType
<1>9. PICK Y : Y = {x \in {d} : ~c.served}
  OBVIOUS
<1>10. calls' = (calls \ {c}) \cup Y
  BY <1>3, <1>6, <1>9
<1>11. PagesInv'
  BY <1>1, <1>3, <1>4, <1>5, <1>8, <1>9, <1>10 DEF StructInv, PagesInv
<1>12. ~Awaited(d) /\ ~Detached(d)
  BY <1>3, <1>8 DEF Awaited, Detached
<1>13. Exchange(t, {c}, Y)
  <2>1. RunOK(page[t]) /\ \A b \in Waiting(t) : Fits(b, page[t])
    BY <1>1, TabOf
  <2>2. RunOK(page[t])'
    BY <1>4, <1>5, <2>1 DEF RunOK
  <2>3. \A b \in Waiting(t) : Fits(b, page'[t])
    BY <1>5, <2>1 DEF Fits
  <2>4. ~c.served => CallOK(d)'
    BY <1>4, <1>7, <1>8 DEF CallOK
  <2>5. d.lost > faults
    BY <1>3, <1>8
  <2>6. \A y \in Y : y = d /\ ~c.served
    BY <1>9
  <2>7. /\ {c} \subseteq calls /\ \A x \in {c}, y \in {c} : x = y
        /\ Y \subseteq CallType /\ \A x \in Y, y \in Y : x = y
        /\ \A x \in {c} : x.tab = t
        /\ \A u \in Tabs : u # t => page'[u] = page[u]
        /\ \A b \in Waiting(t) : b \in {c} \/ Fits(b, page'[t])
    BY <1>2, <1>5, <1>8, <2>3, <2>6
  <2>8. ASSUME NEW y \in Y
        PROVE  /\ y.tab = t /\ CallOK(y)'
               /\ y.lost # 0 => y.lost > faults \/ \E x \in {c} : x.lost = y.lost
               /\ ~Awaited(y) /\ ~Detached(y)
    <3>1. y = d /\ ~c.served
      BY <2>6
    <3> QED
      BY <1>8, <1>12, <2>4, <2>5, <3>1
  <2>9. Run(t)'.sid \in {0, Run(t).sid}
    BY <1>5
  <2> QED
    BY <1>10, <2>2, <2>7, <2>8, <2>9 DEF Exchange
<1>14. Keeps(t, {c}, Y)
  <2>1. ASSUME NewCap = 0
        PROVE  /\ introduced' = 0
               /\ Run(t)'.item \in Items => card'[Run(t)'.item] # "new"
               /\ \A y \in Y :
                     /\ y.op = "answer" => card'[y.item] # "new"
                     /\ y.reply.item \in Items => card'[y.reply.item] # "new"
    <3>1. \A y \in Y : y.op = c.op /\ y.item = c.item /\ y.reply = c.reply
      BY <1>8, <1>9
    <3> QED
      BY <1>1, <1>4, <1>5, <2>1, <3>1 DEF NoNewInv
  <2>2. faults' # 0
    BY <1>3, <1>4
  <2> QED
    BY <2>1, <2>2 DEF Keeps
<1>15. /\ TabInv' /\ TokenInv'
       /\ Waiting(t)' = (Waiting(t) \ {c}) \cup {y \in Y : Live(y) /\ Awaited(y)}
       /\ \A s \in Nat, i \in Items : Hand(s, i)' =>
             \/ Hand(s, i)
             \/ Run(t)'.sid = s /\ Held(t, i)'
             \/ \E y \in Y : /\ Detached(y) /\ y.op = "answer" /\ ~Recorded(y)
                             /\ y.session = s /\ y.item = i
  BY <1>1, <1>4, <1>11, <1>13, Exchanged
<1>16. /\ NoNewInv' /\ EndInv'
       /\ \A s \in Nat : \A n \in Ghosts(s)' :
             \/ n \in Ghosts(s)
             \/ \E y \in Y : /\ y.op = "answer" /\ ~Awaited(y)
                             /\ y.session = s /\ n = y.lost
       /\ \A n \in AllGhosts' :
             \/ n \in AllGhosts
             \/ \E y \in Y : y.op = "answer" /\ ~Awaited(y) /\ n = y.lost
  BY <1>4, <1>11, <1>13, <1>14, ExchangeRest
<1>17. Waiting(t)' = Waiting(t) \ {c}
  <2>1. \A y \in Y : ~Awaited(y)
    BY <1>9, <1>12
  <2> QED
    BY <1>15, <2>1
<1>18. \A y \in Y : ~Detached(y) /\ y.lost = f
  BY <1>8, <1>9, <1>12
<1>19. \A s \in DOMAIN sessions : s \in Nat
  BY <1>1, SessionOf
<1>20. FailHands
  <2>1. CASE ~c.served
    <3>1. ASSUME NEW i \in Items, Held(t, i)'
          PROVE  Held(t, i)
      BY <1>5, <1>17, <2>1, <3>1 DEF Held, Recorded
    <3>2. ASSUME NEW s \in Nat, NEW i \in Items, Hand(s, i)'
          PROVE  Hand(s, i)
      BY <1>5, <1>15, <1>18, <3>1, <3>2 DEF Hand
    <3>3. \A s \in Nat : Ghosts(s)' \subseteq Ghosts(s) \cup {f}
      BY <1>16, <1>18
    <3>4. AllGhosts' \subseteq AllGhosts \cup {f}
      BY <1>16, <1>18
    <3> QED
      BY <1>3, <1>19, <3>2, <3>3, <3>4 DEF FailHands
  <2>2. CASE c.served
    <3>1. Y = {}
      BY <1>9, <2>2
    <3>2. ASSUME NEW s \in Nat, NEW i \in Items, Hand(s, i)'
          PROVE  Hand(s, i) \/ s = Run(t).sid
      BY <1>5, <1>15, <3>1, <3>2
    <3>3. /\ \A s \in Nat : Ghosts(s)' \subseteq Ghosts(s)
          /\ AllGhosts' \subseteq AllGhosts
      BY <1>16, <3>1
    <3> QED
      BY <1>19, <3>2, <3>3 DEF FailHands
  <2> QED
    BY <2>1, <2>2
<1>21. OvershootInv' /\ RepeatInv' /\ DailyInv'
  BY <1>20, FailCounts
<1>22. QueueInv'
  BY <1>1 DEF StructInv, QueueInv, study, Known, AnsweredIn
<1> QED
  BY <1>11, <1>15, <1>16, <1>21, <1>22 DEF StudyInv, StructInv

LEMMA CallFailsKeeps ==
  ASSUME StudyInv, NEW c \in calls, CallFails(c)
  PROVE  StudyInv'
<1>1. /\ Awaited(c) /\ UNCHANGED <<study, saved, left>>
      /\ page' = IF Live(c) THEN [page EXCEPT ![c.tab].failed = TRUE] ELSE page
      /\ calls' = (calls \ {c})
                    \cup {d \in {[c EXCEPT !.lost = faults + 1]} : ~c.served}
  BY DEF CallFails
<1>2. CASE c.served /\ ~c.ok /\ UNCHANGED faults
  <2>1. calls' = calls \ {c}
    BY <1>1, <1>2
  <2> QED
    BY <1>1, <1>2, <2>1, RefusedKeeps
<1>3. CASE Trouble < MaxTrouble /\ faults' = faults + 1
  BY <1>1, <1>3, FaultKeeps
<1> QED
  BY <1>2, <1>3 DEF CallFails

-----------------------------------------------------------------------------
(* The server. *)

\* Request c of tab t is served: whoever awaits it finds d in its place.
Served(t, c, d, Y) ==
    /\ t = c.tab /\ c \in CallType /\ CallOK(c) /\ ~c.served /\ c.reply = NoReply
    /\ d \in CallType /\ d.tab = t /\ d.op = c.op /\ d.session = c.session
    /\ d.item = c.item /\ d.gone = c.gone /\ d.lost = c.lost /\ d.served
    /\ Y = {x \in {d} : Awaited(c)}
    /\ calls' = (calls \ {c}) \cup Y
    /\ Live(d) <=> Live(c)
    /\ Awaited(d) <=> Awaited(c)
    /\ Detached(d) <=> Detached(c)
    /\ c.op # "start" => Sid(d) = Sid(c)
    /\ c.op = "start" => Sid(d) = d.reply.session
    /\ ~Recorded(c)

LEMMA AnsweredIs ==
  ASSUME StructInv, NEW c \in calls, ~c.served, NEW ok \in BOOLEAN,
         NEW reply \in ReplyType, Answered(c, ok, reply)
  PROVE  \E t \in Tabs, d \in CallType, Y \in SUBSET CallType :
            Served(t, c, d, Y) /\ d.ok = ok /\ d.reply = reply
<1>1. c \in CallType /\ CallOK(c) /\ c.tab \in Tabs
  BY CallOf
<1>2. PICK d : d = [c EXCEPT !.served = TRUE, !.ok = ok, !.reply = reply]
  OBVIOUS
<1>3. /\ d \in CallType /\ d.tab = c.tab /\ d.op = c.op /\ d.session = c.session
      /\ d.item = c.item /\ d.gone = c.gone /\ d.lost = c.lost /\ d.served
      /\ d.ok = ok /\ d.reply = reply
  BY <1>1, <1>2 DEF CallType
<1>4. PICK Y : Y = {x \in {d} : Awaited(c)}
  OBVIOUS
<1>5. calls' = (calls \ {c}) \cup Y /\ Y \in SUBSET CallType
  BY <1>2, <1>3, <1>4 DEF Answered
<1>6. /\ (Live(d) <=> Live(c)) /\ (Awaited(d) <=> Awaited(c))
      /\ (Detached(d) <=> Detached(c))
      /\ c.op # "start" => Sid(d) = Sid(c)
      /\ c.op = "start" => Sid(d) = d.reply.session
      /\ ~Recorded(c)
  BY <1>3 DEF Live, Awaited, Detached, Sid, Recorded
<1>7. c.reply = NoReply
  BY <1>1 DEF CallOK
<1> QED
  BY <1>1, <1>3, <1>4, <1>5, <1>6, <1>7 DEF Served

\* What tab t shows, and waits for, once its request c has become d.
ServedSight(t, c, d, Y) ==
    /\ PagesInv' /\ Exchange(t, {c}, Y)
    /\ Run(t)' = Run(t)
    /\ left <= left' /\ faults <= faults'
    /\ Waiting(t)' = (Waiting(t) \ {c}) \cup {y \in Y : Live(c) /\ Awaited(c)}
    /\ ~ (Live(c) /\ Awaited(c)) => Waiting(t)' = Waiting(t)
    /\ Live(c) /\ Awaited(c) =>
          /\ Waiting(t) = {c} /\ Waiting(t)' = {d}
          /\ c.op = "start" => Run(t).phase = "loading" /\ Run(t).sid = 0
          /\ c.op \in {"next", "finish"} =>
                c.session = Run(t).sid /\ Run(t).phase \in {"loading", "feedback"}
          /\ c.op = "answer" =>
                /\ c.session = Run(t).sid /\ c.item = Run(t).item
                /\ Run(t).phase = "active"

LEMMA ServedExchange ==
  ASSUME StructInv, NEW c \in calls, NEW t \in Tabs, NEW d \in CallType,
         NEW Y \in SUBSET CallType, Served(t, c, d, Y),
         UNCHANGED <<page, saved, faults, left>>,
         Len(sessions') \in Nat, Len(sessions) <= Len(sessions'),
         Awaited(c) => CallOK(d)',
         c.op = "start" => Sid(d) > Len(sessions)
  PROVE  ServedSight(t, c, d, Y)
<1>1. /\ t = c.tab /\ d.tab = t /\ d.op = c.op /\ d.session = c.session
      /\ d.item = c.item /\ d.gone = c.gone /\ d.lost = c.lost
      /\ Y = {x \in {d} : Awaited(c)}
      /\ calls' = (calls \ {c}) \cup Y
      /\ (Live(d) <=> Live(c)) /\ (Awaited(d) <=> Awaited(c))
      /\ (Detached(d) <=> Detached(c))
      /\ c.op # "start" => Sid(d) = Sid(c)
  BY DEF Served
<1>2. PagesInv' /\ left <= left' /\ faults <= faults'
  BY <1>1 DEF StructInv, PagesInv
<1>3. Run(t)' = Run(t) /\ page[t].run = Run(t)
  BY DEF Run
<1>4. Live(c) /\ Awaited(c) =>
         /\ Waiting(t) = {c} /\ Fits(c, page[t])
         /\ c.op = "start" => Run(t).phase = "loading" /\ Run(t).sid = 0
         /\ c.op \in {"next", "finish"} =>
               c.session = Run(t).sid /\ Run(t).phase \in {"loading", "feedback"}
         /\ c.op = "answer" =>
               /\ c.session = Run(t).sid /\ c.item = Run(t).item
               /\ Run(t).phase = "active"
  BY <1>1, SoleWait
<1>5. Exchange(t, {c}, Y)
  <2>1. RunOK(page[t])'
    <3>1. PICK p : p = page[t]
      OBVIOUS
    <3>2. RunOK(p) /\ p \in PageType
      BY <3>1, TabOf
    <3>3. RunOK(p)'
      BY <1>2, <3>2, KeepOK DEF PagesInv
    <3> QED
      BY <3>1, <3>3 DEF RunOK
  <2>2. \A b \in Waiting(t) : Fits(b, page'[t])
    BY TabOf
  <2>3. Live(c) /\ Awaited(c) => Fits(d, page'[t])
    BY <1>1, <1>4 DEF Fits
  <2>4. \A y \in Y : y = d /\ Awaited(c)
    BY <1>1
  <2>5. ASSUME NEW y \in Y
        PROVE  /\ y.tab = t /\ CallOK(y)'
               /\ y.lost # 0 => y.lost > faults \/ \E x \in {c} : x.lost = y.lost
               /\ Live(y) /\ Awaited(y) => Waiting(t) \subseteq {c} /\ Fits(y, page'[t])
               /\ Detached(y) /\ Sid(y) # 0 =>
                     \/ Sid(y) > Len(sessions)
                     \/ \E x \in {c} : Detached(x) /\ Sid(x) = Sid(y)
    <3>1. y = d /\ Awaited(c)
      BY <2>4
    <3> QED
      BY <1>1, <1>4, <2>3, <3>1
  <2>6. /\ {c} \subseteq calls /\ \A x \in {c}, y \in {c} : x = y
        /\ Y \subseteq CallType /\ \A x \in Y, y \in Y : x = y
        /\ \A x \in {c} : x.tab = t
        /\ \A u \in Tabs : u # t => page'[u] = page[u]
        /\ \A b \in Waiting(t) : b \in {c} \/ Fits(b, page'[t])
        /\ Run(t)'.sid \in {0, Run(t).sid}
    BY <1>1, <1>3, <2>2, <2>4
  <2> QED
    BY <1>1, <2>1, <2>5, <2>6 DEF Exchange
<1>6. Waiting(t)' = (Waiting(t) \ {c}) \cup {y \in Y : Live(y) /\ Awaited(y)}
  BY <1>2, <1>5, Exchanged
<1>7. {y \in Y : Live(y) /\ Awaited(y)} = {y \in Y : Live(c) /\ Awaited(c)}
  BY <1>1
<1>8. ~ (Live(c) /\ Awaited(c)) => Waiting(t)' = Waiting(t)
  <2>1. ~ (Live(c) /\ Awaited(c)) => c \notin Waiting(t)
    BY DEF Waiting
  <2> QED
    BY <1>6, <1>7, <2>1
<1>9. Live(c) /\ Awaited(c) => Waiting(t)' = {d}
  BY <1>1, <1>4, <1>6, <1>7
<1> QED
  BY <1>2, <1>3, <1>4, <1>5, <1>6, <1>7, <1>8, <1>9 DEF ServedSight

\* A request that failed never reached the server.
LEMMA LostKeeps ==
  ASSUME StudyInv, NEW c \in calls, Lost(c)
  PROVE  StudyInv'
<1>1. StructInv /\ NoNewInv /\ EndInv
  BY DEF StudyInv
<1>2. PICK t \in Tabs : t = c.tab
  BY <1>1, CallOf
<1>3. /\ ~Awaited(c) /\ calls' = calls \ {c}
      /\ UNCHANGED <<study, page, saved, faults, left>>
  BY DEF Lost
<1>4. /\ Len(sessions') \in Nat /\ Len(sessions) \in Nat
      /\ Len(sessions') = Len(sessions) /\ DOMAIN sessions = 1 .. Len(sessions)
      /\ sessions' = sessions /\ card' = card /\ introduced' = introduced
      /\ left' = left /\ faults' = faults /\ left \in Nat /\ faults \in Nat
      /\ left <= left' /\ faults <= faults'
  BY <1>3, SameTables
<1>5. PagesInv'
  BY <1>1, <1>3 DEF StructInv, PagesInv
<1>6. Run(t)' = Run(t) /\ page[t].run = Run(t) /\ Waiting(t)' = Waiting(t)
  BY <1>3 DEF Run, Waiting
<1>7. Exchange(t, {c}, {})
  <2>1. RunOK(page[t]) /\ \A b \in Waiting(t) : Fits(b, page[t])
    BY <1>1, TabOf
  <2>2. RunOK(page[t])'
    BY <1>3, <1>4, <2>1 DEF RunOK
  <2> QED
    BY <1>2, <1>3, <1>6, <2>1, <2>2 DEF Exchange
<1>8. Keeps(t, {c}, {})
  <2>1. ASSUME NewCap = 0
        PROVE  /\ introduced' = 0
               /\ Run(t)'.item \in Items => card'[Run(t)'.item] # "new"
    BY <1>1, <1>4, <1>6, <2>1 DEF NoNewInv
  <2>2. ASSUME faults' = 0, Run(t)'.sid # 0, ~Open(Run(t).sid)'
        PROVE  Run(t)'.phase \in {"done", "caughtUp"} \/ Pending(t, "finish")'
    <3>1. Run(t).phase \in {"done", "caughtUp"} \/ Pending(t, "finish")
      BY <1>1, <1>4, <1>6, <2>2 DEF EndInv, Open
    <3> QED
      BY <1>6, <3>1 DEF Pending
  <2>3. /\ \A u \in Tabs :
              u # t /\ Run(u).sid # 0 /\ Open(Run(u).sid) => Open(Run(u).sid)'
        /\ \A b \in calls : Open(b.reply.session) => Open(b.reply.session)'
    BY <1>3, <1>4 DEF Open, Run
  <2> QED
    BY <2>1, <2>2, <2>3 DEF Keeps
<1>9. \A i \in Items : Held(t, i)' => Hand(Run(t)'.sid, i)
  BY <1>6 DEF Held, Hand
<1> QED
  BY <1>3, <1>4, <1>5, <1>7, <1>8, <1>9, QuietExchange

\* What a request that was served changes for a tab whose sessions stay open.
LEMMA ServedKeeps ==
  ASSUME StudyInv, NEW c \in calls, NEW t \in Tabs, NEW d \in CallType,
         NEW Y \in SUBSET CallType, Served(t, c, d, Y), Exchange(t, {c}, Y),
         Run(t)' = Run(t), \A u \in Tabs : page'[u] = page[u], faults' = faults,
         Waiting(t)' = (Waiting(t) \ {c}) \cup {y \in Y : Live(c) /\ Awaited(c)},
         \A i \in Items : card'[i] = "new" => card[i] = "new",
         NewCap = 0 =>
            introduced' = 0 /\ (d.reply.item \in Items => card[d.reply.item] # "new"),
         c.op = "start" => Open(d.reply.session)',
         \A s \in DOMAIN sessions : sessions'[s].status = sessions[s].status
  PROVE  Keeps(t, {c}, Y)
<1>1. StructInv /\ NoNewInv /\ EndInv
  BY DEF StudyInv
<1>2. /\ t = c.tab /\ d.op = c.op /\ d.item = c.item /\ CallOK(c)
      /\ Y = {x \in {d} : Awaited(c)}
  BY DEF Served
<1>3. \A s \in Nat : s # 0 /\ s <= Len(sessions) => (Open(s)' <=> Open(s))
  <2>1. \A s \in Nat : s # 0 /\ s <= Len(sessions) => s \in DOMAIN sessions
    BY <1>1, InHandFinite
  <2> QED
    BY <2>1 DEF Open
<1>4. ASSUME NewCap = 0
      PROVE  /\ introduced' = 0
             /\ \A y \in Y :
                   /\ y.op = "answer" => card'[y.item] # "new"
                   /\ y.reply.item \in Items => card'[y.reply.item] # "new"
             /\ Run(t)'.item \in Items => card'[Run(t)'.item] # "new"
  <2>1. c.op = "answer" => c.item \in Items /\ card[c.item] # "new"
    BY <1>1, <1>2, <1>4 DEF NoNewInv, CallOK
  <2>2. Run(t).item \in Items => card[Run(t).item] # "new"
    BY <1>1, <1>4 DEF NoNewInv
  <2> QED
    BY <1>2, <1>4, <2>1, <2>2
<1>5. ASSUME faults' = 0
      PROVE  /\ Run(t)'.sid # 0 /\ ~Open(Run(t).sid)'
                   => Run(t)'.phase \in {"done", "caughtUp"} \/ Pending(t, "finish")'
             /\ \A y \in Y : y.op = "start" /\ y.served => Open(y.reply.session)'
             /\ \A u \in Tabs :
                   u # t /\ Run(u).sid # 0 /\ Open(Run(u).sid) => Open(Run(u).sid)'
             /\ \A b \in calls :
                   b \notin {c} /\ b.op = "start" /\ b.served /\ Open(b.reply.session)
                       => Open(b.reply.session)'
  <2>1. ASSUME Run(t)'.sid # 0, ~Open(Run(t).sid)'
        PROVE  Run(t)'.phase \in {"done", "caughtUp"} \/ Pending(t, "finish")'
    <3>1. PICK s \in Nat : s = Run(t).sid /\ s # 0 /\ s <= Len(sessions)
      BY <1>1, <2>1, TabOf
    <3>2. ~Open(s)' /\ Run(t)'.sid = s
      BY <2>1, <3>1 DEF Open
    <3>3. ~Open(Run(t).sid) /\ Run(t).sid # 0
      BY <1>3, <3>1, <3>2
    <3>4. Run(t).phase \in {"done", "caughtUp"} \/ Pending(t, "finish")
      BY <1>1, <1>5, <3>3 DEF EndInv
    <3>5. Pending(t, "finish") => Pending(t, "finish")'
      <4>1. ASSUME NEW b \in Waiting(t), b.op = "finish"
            PROVE  \E e \in Waiting(t)' : e.op = "finish"
        <5>1. CASE b = c
          <6>1. Live(c) /\ Awaited(c) /\ d \in Y
            BY <1>1, <1>2, <4>1, <5>1, TabOf
          <6> QED
            BY <1>2, <4>1, <5>1, <6>1
        <5>2. CASE b # c
          BY <4>1, <5>2
        <5> QED
          BY <5>1, <5>2
      <4> QED
        BY <4>1 DEF Pending
    <3> QED
      BY <3>4, <3>5
  <2>2. \A y \in Y : y.op = "start" /\ y.served => Open(y.reply.session)'
    BY <1>2 DEF Open
  <2>3. ASSUME NEW u \in Tabs, u # t, Run(u).sid # 0, Open(Run(u).sid)
        PROVE  Open(Run(u).sid)'
    <3>1. PICK s \in Nat : s = Run(u).sid /\ s # 0 /\ s <= Len(sessions)
      BY <1>1, <2>3, TabOf
    <3>2. Run(u)'.sid = s
      BY <3>1 DEF Run
    <3>3. Open(s)'
      BY <1>3, <2>3, <3>1
    <3> QED
      BY <3>2, <3>3 DEF Open
  <2>4. ASSUME NEW b \in calls, b.op = "start", b.served, Open(b.reply.session)
        PROVE  Open(b.reply.session)'
    <3>1. b.reply.session \in DOMAIN sessions
      BY <1>1, <2>4, CallOf, InHandFinite DEF CallOK
    <3> QED
      BY <2>4, <3>1 DEF Open
  <2> QED
    BY <2>1, <2>2, <2>3, <2>4
<1> QED
  BY <1>4, <1>5 DEF Keeps

\* A request that the server refuses, or answers with nothing to serve.
LEMMA NothingServedKeeps ==
  ASSUME StudyInv, NEW c \in calls, ~c.served, c.op \in {"next", "answer"},
         NEW ok \in BOOLEAN, Answered(c, ok, NoReply), c.op = "answer" => ~ok,
         UNCHANGED <<study, page, saved, faults, left>>
  PROVE  StudyInv'
<1>1. StructInv /\ NoNewInv /\ EndInv
  BY DEF StudyInv
<1>2. PICK t \in Tabs, d \in CallType, Y \in SUBSET CallType :
          Served(t, c, d, Y) /\ d.ok = ok /\ d.reply = NoReply
  BY <1>1, AnsweredIs, FreshTyped
<1>3. /\ t = c.tab /\ CallOK(c) /\ c.reply = NoReply
      /\ d.tab = t /\ d.op = c.op /\ d.session = c.session
      /\ d.item = c.item /\ d.gone = c.gone /\ d.lost = c.lost /\ d.served
      /\ Y = {x \in {d} : Awaited(c)}
      /\ (Awaited(d) <=> Awaited(c)) /\ (Detached(d) <=> Detached(c)) /\ ~Recorded(c)
  BY <1>2 DEF Served
<1>4. /\ Len(sessions') \in Nat /\ Len(sessions) \in Nat
      /\ Len(sessions') = Len(sessions) /\ DOMAIN sessions = 1 .. Len(sessions)
      /\ sessions' = sessions /\ card' = card /\ introduced' = introduced
      /\ left' = left /\ faults' = faults /\ left \in Nat /\ faults \in Nat
      /\ left <= left' /\ faults <= faults'
  BY SameTables
<1>5. Awaited(c) => CallOK(d)'
  BY <1>3, <1>4 DEF CallOK, Awaited
<1>6. ServedSight(t, c, d, Y)
  <2>1. Len(sessions') \in Nat /\ Len(sessions) <= Len(sessions')
    BY <1>4
  <2> QED
    BY <1>1, <1>2, <1>5, <2>1, ServedExchange
<1>6a. /\ PagesInv' /\ Exchange(t, {c}, Y) /\ Run(t)' = Run(t)
       /\ Waiting(t)' = (Waiting(t) \ {c}) \cup {y \in Y : Live(c) /\ Awaited(c)}
       /\ ~ (Live(c) /\ Awaited(c)) => Waiting(t)' = Waiting(t)
       /\ Live(c) /\ Awaited(c) => Waiting(t) = {c} /\ Waiting(t)' = {d}
  BY <1>6 DEF ServedSight
<1>7. Keeps(t, {c}, Y)
  <2>1. d.reply.item \notin Items
    BY <1>2, FreshTyped, RunnerAssumption
  <2>2. NewCap = 0 => introduced' = 0
    BY <1>1, <1>4 DEF NoNewInv
  <2> QED
    BY <1>2, <1>4, <1>6a, <2>1, <2>2, ServedKeeps
<1>8. \A i \in Items : Held(t, i)' => Hand(Run(t)'.sid, i)
  <2>1. ASSUME NEW i \in Items, Held(t, i)', Live(c) /\ Awaited(c)
        PROVE  Held(t, i)
    <3>1. d.reply.item # i
      BY <1>2, FreshTyped, RunnerAssumption
    <3> QED
      BY <1>3, <1>6a, <2>1, <3>1 DEF Held
  <2>2. ASSUME NEW i \in Items, Held(t, i)', ~ (Live(c) /\ Awaited(c))
        PROVE  Held(t, i)
    BY <1>6a, <2>2 DEF Held
  <2> QED
    BY <1>6a, <2>1, <2>2 DEF Hand
<1>9. ASSUME NEW y \in Y, y.op = "answer"
      PROVE  Awaited(y) /\ (Detached(y) /\ ~Recorded(y) => Hand(y.session, y.item))
  <2>1. y = d /\ Awaited(c)
    BY <1>3
  <2>2. Detached(c) => Hand(c.session, c.item)
    BY <1>3, <1>9, <2>1 DEF Hand
  <2> QED
    BY <1>3, <2>1, <2>2
<1> QED
  BY <1>4, <1>6a, <1>7, <1>8, <1>9, QuietExchange

\* An item is served: the question passes into the hand of the one who asked.
LEMMA ItemServedKeeps ==
  ASSUME StudyInv, NEW c \in calls, ~c.served, c.op = "next", Awaited(c),
         NEW i \in Servable(c.session),
         Answered(c, TRUE, [NoReply EXCEPT !.item = i]),
         UNCHANGED <<study, page, saved, faults, left>>
  PROVE  StudyInv'
<1>1. StructInv /\ NoNewInv /\ EndInv
  BY DEF StudyInv
<1>2. PICK r \in DOMAIN sessions : r = c.session /\ Sid(c) = r /\ r # 0 /\ r \in Nat
  BY <1>1, CallOf, SessionOf DEF CallOK, Sid
<1>3. /\ i \in Items
      /\ card[i] = "new" => BudgetLeft
  <2>1. i \in Candidates(r) /\ (card[i] = "new" => BudgetLeft)
    BY <1>1, <1>2, ServableIs DEF StructInv
  <2> QED
    BY <1>1, <2>1 DEF Candidates, StructInv, QueueInv
<1>4. PICK reply \in ReplyType : reply = [NoReply EXCEPT !.item = i] /\ reply.item = i
  BY <1>3, FreshTyped DEF ReplyType
<1>5. PICK t \in Tabs, d \in CallType, Y \in SUBSET CallType :
          Served(t, c, d, Y) /\ d.ok = TRUE /\ d.reply = reply
  BY <1>1, <1>4, AnsweredIs
<1>6. /\ t = c.tab /\ CallOK(c) /\ c.reply = NoReply
      /\ d.tab = t /\ d.op = c.op /\ d.session = c.session
      /\ d.item = c.item /\ d.gone = c.gone /\ d.lost = c.lost /\ d.served
      /\ Y = {x \in {d} : Awaited(c)}
      /\ calls' = (calls \ {c}) \cup Y
      /\ (Awaited(d) <=> Awaited(c)) /\ (Detached(d) <=> Detached(c)) /\ ~Recorded(c)
  BY <1>5 DEF Served
<1>7. /\ Len(sessions') \in Nat /\ Len(sessions) \in Nat
      /\ Len(sessions') = Len(sessions) /\ DOMAIN sessions = 1 .. Len(sessions)
      /\ sessions' = sessions /\ card' = card /\ introduced' = introduced
      /\ left' = left /\ faults' = faults /\ left \in Nat /\ faults \in Nat
      /\ left <= left' /\ faults <= faults'
  BY SameTables
<1>8. CallOK(d)'
  BY <1>6, <1>7 DEF CallOK, Awaited
<1>8a. ServedSight(t, c, d, Y)
  <2>1. Len(sessions') \in Nat /\ Len(sessions) <= Len(sessions')
    BY <1>7
  <2> QED
    BY <1>1, <1>5, <1>8, <2>1, ServedExchange
<1>9. /\ PagesInv' /\ Exchange(t, {c}, Y) /\ Run(t)' = Run(t)
      /\ left <= left' /\ faults <= faults'
      /\ Waiting(t)' = (Waiting(t) \ {c}) \cup {y \in Y : Live(c) /\ Awaited(c)}
      /\ ~Live(c) => Waiting(t)' = Waiting(t)
      /\ Live(c) => /\ Waiting(t) = {c} /\ Waiting(t)' = {d}
                    /\ c.session = Run(t).sid /\ Run(t).phase \in {"loading", "feedback"}
  BY <1>8a DEF ServedSight
<1>10. Keeps(t, {c}, Y)
  <2>1. NewCap = 0 =>
           introduced' = 0 /\ (d.reply.item \in Items => card[d.reply.item] # "new")
    <3>1. NewCap = 0 => introduced = 0
      BY <1>1 DEF NoNewInv
    <3>2. NewCap = 0 => ~BudgetLeft
      BY <3>1 DEF BudgetLeft
    <3> QED
      BY <1>3, <1>4, <1>5, <1>7, <3>1, <3>2
  <2> QED
    BY <1>5, <1>7, <1>9, <2>1, ServedKeeps
<1>11. /\ TabInv' /\ TokenInv'
       /\ \A s \in Nat, j \in Items : Hand(s, j)' =>
             \/ Hand(s, j)
             \/ Run(t)'.sid = s /\ Held(t, j)'
             \/ \E y \in Y : /\ Detached(y) /\ y.op = "answer" /\ ~Recorded(y)
                             /\ y.session = s /\ y.item = j
  BY <1>1, <1>7, <1>9, Exchanged
<1>12. /\ NoNewInv' /\ EndInv'
       /\ \A s \in Nat : \A n \in Ghosts(s)' :
             \/ n \in Ghosts(s)
             \/ \E y \in Y : /\ y.op = "answer" /\ ~Awaited(y)
                             /\ y.session = s /\ n = y.lost
       /\ \A n \in AllGhosts' :
             \/ n \in AllGhosts
             \/ \E y \in Y : y.op = "answer" /\ ~Awaited(y) /\ n = y.lost
  BY <1>7, <1>9, <1>10, ExchangeRest
<1>13. \A y \in Y : y.op # "answer"
  BY <1>6
<1>14. /\ \A u \in Tabs : Run(u).sid = r =>
             u = t /\ Live(c) /\ Waiting(u) = {c}
       /\ \A e \in calls : Detached(e) /\ Sid(e) = r => e = c
  BY <1>1, <1>2, <1>6, Sole DEF Detached
<1>15. Live(c) => Run(t).sid = r
  BY <1>2, <1>9
<1>16. ASSUME NEW j \in Items, Hand(r, j)'
       PROVE  j = i
  <2>1. CASE \E u \in Tabs : Run(u)'.sid = r /\ Held(u, j)'
    <3>1. PICK u \in Tabs : Run(u)'.sid = r /\ Held(u, j)'
      BY <2>1
    <3>2. Run(u)' = Run(u)
      BY DEF Run
    <3>3. u = t /\ Live(c)
      BY <1>14, <3>1, <3>2
    <3>4. Waiting(t)' = {d} /\ Run(t)'.phase # "active"
      BY <1>9, <3>3
    <3> QED
      BY <1>4, <1>5, <3>1, <3>3, <3>4 DEF Held
  <2>2. CASE \E e \in calls' : /\ Detached(e) /\ e.op = "answer" /\ ~Recorded(e)
                               /\ e.session = r /\ e.item = j
    <3>1. PICK e \in calls' : Detached(e) /\ e.op = "answer" /\ e.session = r
      BY <2>2
    <3>2. e \in calls /\ e # c
      BY <1>6, <3>1
    <3>3. Sid(e) = r
      BY <3>1 DEF Sid
    <3> QED
      BY <1>14, <3>1, <3>2, <3>3
  <2> QED
    BY <1>16, <2>1, <2>2 DEF Hand, Detached, Recorded, Awaited, Live
<1>17. ASSUME NEW s \in Nat, s # r, NEW j \in Items, Hand(s, j)'
       PROVE  Hand(s, j)
  <2>1. ASSUME Run(t)'.sid = s, Held(t, j)'
        PROVE  Hand(s, j)
    <3>1. ~Live(c)
      BY <1>9, <1>15, <1>17, <2>1
    <3>2. Waiting(t)' = Waiting(t) /\ Run(t)' = Run(t)
      BY <1>9, <3>1
    <3> QED
      BY <2>1, <3>2 DEF Held, Hand
  <2> QED
    BY <1>11, <1>13, <1>17, <2>1
<1>18. HandOut(r, i)
  <2>1. \A s \in DOMAIN sessions : s \in Nat
    BY <1>1, SessionOf
  <2>2. /\ \A s \in Nat : Ghosts(s)' \subseteq Ghosts(s)
        /\ AllGhosts' \subseteq AllGhosts
    BY <1>12, <1>13
  <2>3. \A s \in DOMAIN sessions, j \in Items :
          Hand(s, j)' => (s # r /\ Hand(s, j)) \/ (s = r /\ j = i)
    BY <1>16, <1>17, <2>1
  <2>4. i \in Servable(r) /\ UNCHANGED <<study, faults>>
    BY <1>2
  <2> QED
    BY <2>1, <2>2, <2>3, <2>4 DEF HandOut
<1>19. OvershootInv' /\ RepeatInv' /\ DailyInv'
  BY <1>18, HandOutCounts
<1>20. QueueInv'
  BY <1>1 DEF StructInv, QueueInv, study, Known, AnsweredIn
<1> QED
  BY <1>9, <1>11, <1>12, <1>19, <1>20 DEF StudyInv, StructInv

\* A request for an item that nobody awaits any more does nothing.
LEMMA UnawaitedKeeps ==
  ASSUME StudyInv, NEW c \in calls, ~c.served, ~Awaited(c),
         NEW ok, NEW reply, Answered(c, ok, reply),
         UNCHANGED <<study, page, saved, faults, left>>
  PROVE  StudyInv'
<1>1. calls' = calls \ {c}
  BY DEF Answered
<1>2. Lost(c)
  BY <1>1 DEF Lost
<1> QED
  BY <1>2, LostKeeps

LEMMA ServeNextKeeps ==
  ASSUME StudyInv, NEW c \in calls, ~c.served, ServeNext(c),
         UNCHANGED <<page, saved, faults, left>>
  PROVE  StudyInv'
<1>1. c.op = "next" /\ UNCHANGED <<study, page, saved, faults, left>>
  BY DEF ServeNext
<1>2. CASE \E ok \in BOOLEAN : Answered(c, ok, NoReply)
  <2>1. PICK ok \in BOOLEAN : Answered(c, ok, NoReply)
    BY <1>2
  <2> QED
    BY <1>1, <2>1, NothingServedKeeps
<1>3. CASE \E i \in Servable(c.session) :
                Answered(c, TRUE, [NoReply EXCEPT !.item = i])
  <2>1. PICK i \in Servable(c.session) :
                Answered(c, TRUE, [NoReply EXCEPT !.item = i])
    BY <1>3
  <2>2. CASE Awaited(c)
    BY <1>1, <2>1, <2>2, ItemServedKeeps
  <2>3. CASE ~Awaited(c)
    BY <1>1, <2>1, <2>3, UnawaitedKeeps
  <2> QED
    BY <2>2, <2>3
<1> QED
  BY <1>2, <1>3 DEF ServeNext

\* A session is started: whoever asked is told its number, if he still awaits it.
LEMMA ServeStartKeeps ==
  ASSUME StudyInv, NEW c \in calls, ~c.served, ServeStart(c),
         UNCHANGED <<page, saved, faults, left>>
  PROVE  StudyInv'
<1>1. StructInv /\ NoNewInv /\ EndInv
  BY DEF StudyInv
<1>2. PICK n \in Nat : n = Len(sessions)
  BY <1>1, InHandFinite
<1>3. PICK m \in Nat : m = n + 1 /\ m # 0 /\ m > n
  OBVIOUS
<1>4. /\ c.op = "start" /\ StartSession(c.config)
      /\ Answered(c, TRUE, [NoReply EXCEPT !.session = m])
  BY <1>2, <1>3 DEF ServeStart
<1>5. PICK config \in ConfigType : config = c.config
  BY <1>1, CallOf DEF CallType
<1>6. /\ sessions' \in Seq(SessionType)
      /\ Len(sessions') = m /\ DOMAIN sessions' = 1 .. m
      /\ DOMAIN sessions = 1 .. n
      /\ \A s \in 1 .. n : sessions'[s] = sessions[s]
      /\ sessions'[m].items = {} /\ sessions'[m].status = "in_progress"
  <2>1. /\ sessions' \in Seq(SessionType)
        /\ Len(sessions') = n + 1 /\ DOMAIN sessions' = 1 .. n + 1
        /\ DOMAIN sessions = 1 .. n
        /\ \A s \in 1 .. n : sessions'[s] = sessions[s]
        /\ AnsweredIn(n + 1)' = {}
        /\ sessions'[n + 1].status = "in_progress"
    BY <1>1, <1>2, <1>4, <1>5, StartTables
  <2> QED
    BY <1>3, <2>1 DEF AnsweredIn
<1>7. UNCHANGED <<card, dueOrder, introduced, day, active, scored>>
  BY <1>4 DEF StartSession
<1>8. QueueInv'
  <2>1. \A s \in 1 .. m : sessions'[s].items \subseteq scored'
    <3>1. ASSUME NEW s \in 1 .. m
          PROVE  sessions'[s].items \subseteq scored'
      <4>1. CASE s = m
        BY <1>6, <4>1
      <4>2. CASE s # m
        <5>1. s \in 1 .. n
          BY <1>3, <4>2
        <5>2. sessions[s].items \subseteq scored
          BY <1>1, <1>6, <5>1 DEF StructInv, QueueInv, AnsweredIn
        <5> QED
          BY <1>6, <1>7, <5>1, <5>2
      <4> QED
        BY <4>1, <4>2
    <3> QED
      BY <3>1
  <2>2. Known' = Known
    BY <1>7 DEF Known
  <2> QED
    BY <1>1, <1>6, <1>7, <2>1, <2>2 DEF StructInv, QueueInv, AnsweredIn
<1>9. PICK reply \in ReplyType : /\ reply = [NoReply EXCEPT !.session = m]
                                 /\ reply.session = m /\ reply.item = NoItem
  <2>1. NoReply \in ReplyType /\ NoReply.item = NoItem
    BY FreshTyped
  <2>2. PICK e : e = [NoReply EXCEPT !.session = m]
    OBVIOUS
  <2>3. e \in ReplyType /\ e.session = m /\ e.item = NoItem
    BY <2>1, <2>2 DEF ReplyType
  <2> QED
    BY <2>2, <2>3
<1>10. PICK t \in Tabs, d \in CallType, Y \in SUBSET CallType :
          Served(t, c, d, Y) /\ d.ok = TRUE /\ d.reply = reply
  BY <1>1, <1>4, <1>9, AnsweredIs
<1>11. /\ t = c.tab /\ CallOK(c) /\ c.reply = NoReply
       /\ d.tab = t /\ d.op = c.op /\ d.gone = c.gone /\ d.lost = c.lost /\ d.served
       /\ Y = {x \in {d} : Awaited(c)} /\ Sid(d) = m
  BY <1>4, <1>9, <1>10 DEF Served
<1>12. Len(sessions') \in Nat /\ Len(sessions) <= Len(sessions')
  BY <1>2, <1>3, <1>6
<1>13. Awaited(c) => CallOK(d)'
  <2>1. m \in 1 .. Len(sessions')
    BY <1>3, <1>6
  <2> QED
    BY <1>4, <1>9, <1>10, <1>11, <2>1 DEF CallOK, Awaited
<1>14. ServedSight(t, c, d, Y)
  <2>1. Sid(d) > Len(sessions)
    BY <1>2, <1>3, <1>11
  <2> QED
    BY <1>1, <1>10, <1>12, <1>13, <2>1, ServedExchange
<1>15. /\ PagesInv' /\ Exchange(t, {c}, Y) /\ Run(t)' = Run(t)
       /\ left <= left' /\ faults <= faults'
       /\ Waiting(t)' = (Waiting(t) \ {c}) \cup {y \in Y : Live(c) /\ Awaited(c)}
       /\ ~ (Live(c) /\ Awaited(c)) => Waiting(t)' = Waiting(t)
       /\ Live(c) /\ Awaited(c) => Waiting(t) = {c} /\ Waiting(t)' = {d}
  BY <1>14 DEF ServedSight
<1>16. Keeps(t, {c}, Y)
  <2>1. d.reply.item \notin Items
    BY <1>9, <1>10, RunnerAssumption
  <2>2. NewCap = 0 => introduced' = 0
    BY <1>1, <1>7 DEF NoNewInv
  <2>3. Open(d.reply.session)'
    BY <1>6, <1>9, <1>10 DEF Open
  <2>4. \A s \in DOMAIN sessions : sessions'[s].status = sessions[s].status
    BY <1>6
  <2>5. /\ \A u \in Tabs : page'[u] = page[u]
        /\ \A i \in Items : card'[i] = "new" => card[i] = "new"
        /\ faults' = faults
    BY <1>7
  <2> QED
    BY <1>10, <1>15, <2>1, <2>2, <2>3, <2>4, <2>5, ServedKeeps
<1>17. \A i \in Items : card'[i] = "new" => card[i] = "new"
  BY <1>7
<1>18. /\ TabInv' /\ TokenInv'
       /\ \A s \in Nat, j \in Items : Hand(s, j)' =>
             \/ Hand(s, j)
             \/ Run(t)'.sid = s /\ Held(t, j)'
             \/ \E y \in Y : /\ Detached(y) /\ y.op = "answer" /\ ~Recorded(y)
                             /\ y.session = s /\ y.item = j
  BY <1>1, <1>12, <1>15, Exchanged
<1>19. /\ NoNewInv' /\ EndInv'
       /\ \A s \in Nat : \A k \in Ghosts(s)' :
             \/ k \in Ghosts(s)
             \/ \E y \in Y : /\ y.op = "answer" /\ ~Awaited(y)
                             /\ y.session = s /\ k = y.lost
       /\ \A k \in AllGhosts' :
             \/ k \in AllGhosts
             \/ \E y \in Y : y.op = "answer" /\ ~Awaited(y) /\ k = y.lost
  BY <1>12, <1>15, <1>16, <1>17, ExchangeRest
<1>20. \A y \in Y : y.op # "answer"
  BY <1>4, <1>11
<1>21. /\ \A s \in Nat : Ghosts(s)' \subseteq Ghosts(s)
       /\ AllGhosts' \subseteq AllGhosts
  BY <1>19, <1>20
<1>22. ASSUME NEW j \in Items, Held(t, j)'
       PROVE  Held(t, j)
  <2>1. CASE Live(c) /\ Awaited(c)
    <3>1. d.reply.item # j /\ ~Recorded(c)
      BY <1>4, <1>9, <1>10, RunnerAssumption DEF Recorded
    <3> QED
      BY <1>15, <1>22, <2>1, <3>1 DEF Held
  <2>2. CASE ~ (Live(c) /\ Awaited(c))
    BY <1>15, <1>22, <2>2 DEF Held
  <2> QED
    BY <2>1, <2>2
<1>23. ASSUME NEW s \in Nat, NEW j \in Items, Hand(s, j)'
       PROVE  Hand(s, j)
  <2>1. Run(t)'.sid = s /\ Held(t, j)' => Hand(s, j)
    BY <1>15, <1>22 DEF Hand
  <2> QED
    BY <1>18, <1>20, <1>23, <2>1
<1>24. Ghosts(m) = {} /\ \A j \in Items : ~Hand(m, j)
  <2>1. \A u \in Tabs : Run(u).sid # m
    <3>1. \A u \in Tabs : Run(u).sid \in Nat /\ Run(u).sid <= n
      BY <1>1, <1>2, TabOf
    <3> QED
      BY <1>3, <3>1
  <2>2. \A e \in calls : e.op = "answer" => e.session # m
    <3>1. \A e \in calls : e.op = "answer" => e.session \in 1 .. n
      BY <1>1, <1>2, CallOf DEF CallOK
    <3> QED
      BY <1>3, <3>1
  <2> QED
    BY <2>1, <2>2 DEF Hand, Ghosts
<1>25. NewSession
  <2>1. \A s \in DOMAIN sessions : s \in Nat
    BY <1>1, SessionOf
  <2>2. Ghosts(m)' = {}
    BY <1>21, <1>24
  <2>3. \A j \in Items : ~Hand(m, j)'
    BY <1>23, <1>24
  <2>4. m = Len(sessions) + 1
    BY <1>2, <1>3
  <2>5. \E conf \in ConfigType : StartSession(conf)
    BY <1>4, <1>5
  <2> QED
    BY <1>21, <1>23, <2>1, <2>2, <2>3, <2>4, <2>5 DEF NewSession
<1>26. OvershootInv' /\ RepeatInv' /\ DailyInv'
  BY <1>25, NewSessionCounts
<1> QED
  BY <1>8, <1>15, <1>18, <1>19, <1>26 DEF StudyInv, StructInv

\* A session is completed: only its own tab shows it, and that one awaits it.
LEMMA ServeFinishKeeps ==
  ASSUME StudyInv, NEW c \in calls, ~c.served, ServeFinish(c),
         UNCHANGED <<page, saved, faults, left>>
  PROVE  StudyInv'
<1>1. StructInv /\ NoNewInv /\ EndInv
  BY DEF StudyInv
<1>2. PICK n \in Nat : n = Len(sessions) /\ DOMAIN sessions = 1 .. n
  BY <1>1, InHandFinite
<1>3. c.op = "finish" /\ FinishSession(c.session)
  BY DEF ServeFinish
<1>4. PICK r \in 1 .. n : r = c.session /\ Sid(c) = r /\ r # 0
  BY <1>1, <1>2, <1>3, CallOf DEF CallOK, Sid
<1>5. /\ sessions' = [sessions EXCEPT ![r].status = "completed"]
      /\ UNCHANGED <<card, dueOrder, introduced, day, active, scored>>
  BY <1>3, <1>4 DEF FinishSession
<1>6. sessions \in [1 .. n -> SessionType]
  BY <1>1, <1>2 DEF StructInv, QueueInv
<1>7. sessions' \in [1 .. n -> SessionType]
  BY <1>5, <1>6 DEF SessionType
<1>8. sessions' \in Seq(SessionType) /\ Len(sessions') = n /\ DOMAIN sessions' = 1 .. n
  BY <1>2, <1>7
<1>9. \A s \in 1 .. n : /\ sessions'[s].items = sessions[s].items
                        /\ sessions'[s].delivered = sessions[s].delivered
                        /\ sessions'[s].config = sessions[s].config
                        /\ s # r => sessions'[s].status = sessions[s].status
  BY <1>5, <1>6 DEF SessionType
<1>10. Known' = Known
  BY <1>5 DEF Known
<1>11. QueueInv'
  BY <1>1, <1>2, <1>5, <1>8, <1>9, <1>10 DEF StructInv, QueueInv, AnsweredIn
<1>12. QuietQueue
  BY <1>1, <1>2, <1>5, <1>8, <1>9
     DEF StructInv, QueueInv, QuietQueue, AnsweredIn, Delivered
<1>13. PICK reply \in ReplyType : /\ reply = [NoReply EXCEPT !.count = Delivered(r)]
                                  /\ reply.item = NoItem
  <2>1. NoReply \in ReplyType /\ NoReply.item = NoItem /\ Delivered(r) \in Nat
    BY <1>1, <1>2, FreshTyped, SessionOf
  <2>2. PICK e : e = [NoReply EXCEPT !.count = Delivered(r)]
    OBVIOUS
  <2>3. e \in ReplyType /\ e.item = NoItem
    BY <2>1, <2>2 DEF ReplyType
  <2> QED
    BY <2>2, <2>3
<1>14. Answered(c, TRUE, reply)
  BY <1>4, <1>13 DEF ServeFinish
<1>15. PICK t \in Tabs, d \in CallType, Y \in SUBSET CallType :
          Served(t, c, d, Y) /\ d.ok = TRUE /\ d.reply = reply
  BY <1>1, <1>14, AnsweredIs
<1>16. /\ t = c.tab /\ CallOK(c) /\ c.reply = NoReply
       /\ d.tab = t /\ d.op = c.op /\ d.gone = c.gone /\ d.lost = c.lost /\ d.served
       /\ d.session = c.session
       /\ Y = {x \in {d} : Awaited(c)}
  BY <1>15 DEF Served
<1>17. Len(sessions') \in Nat /\ Len(sessions) <= Len(sessions')
  BY <1>2, <1>8
<1>18. Awaited(c) => CallOK(d)'
  BY <1>2, <1>3, <1>4, <1>8, <1>15, <1>16 DEF CallOK, Awaited
<1>19. ServedSight(t, c, d, Y)
  BY <1>1, <1>3, <1>15, <1>17, <1>18, ServedExchange
<1>20. /\ PagesInv' /\ Exchange(t, {c}, Y) /\ Run(t)' = Run(t)
       /\ left <= left' /\ faults <= faults'
       /\ Waiting(t)' = (Waiting(t) \ {c}) \cup {y \in Y : Live(c) /\ Awaited(c)}
       /\ ~ (Live(c) /\ Awaited(c)) => Waiting(t)' = Waiting(t)
       /\ Live(c) /\ Awaited(c) =>
             /\ Waiting(t) = {c} /\ Waiting(t)' = {d}
             /\ Run(t).phase \in {"loading", "feedback"}
  BY <1>3, <1>19 DEF ServedSight
<1>21. Keeps(t, {c}, Y)
  <2>1. ASSUME NewCap = 0
        PROVE  /\ introduced' = 0
               /\ \A y \in Y :
                     /\ y.op = "answer" => card'[y.item] # "new"
                     /\ y.reply.item \in Items => card'[y.reply.item] # "new"
               /\ Run(t)'.item \in Items => card'[Run(t)'.item] # "new"
    <3>1. \A y \in Y : y.op # "answer" /\ y.reply.item \notin Items
      BY <1>3, <1>13, <1>15, <1>16, RunnerAssumption
    <3> QED
      BY <1>1, <1>5, <1>20, <2>1, <3>1 DEF NoNewInv
  <2>2. ASSUME faults' = 0
        PROVE  /\ Awaited(c) /\ faults = 0
               /\ \A u \in Tabs : Run(u).sid = r =>
                     u = t /\ Live(c) /\ Waiting(t)' = {d}
               /\ \A e \in calls : e.op = "start" /\ e.served => e.reply.session # r
    <3>1. faults = 0
      BY <2>2
    <3>2. \A e \in calls : Awaited(e)
      BY <1>1, <3>1, CallOf DEF CallOK, Awaited
    <3>3. Awaited(c)
      BY <3>2
    <3>4. /\ \A u \in Tabs : Run(u).sid = r => u = t /\ ~Detached(c)
          /\ \A e \in calls : Detached(e) /\ Sid(e) = r => e = c
      BY <1>1, <1>4, <1>16, <3>3, Sole
    <3>5. ~Detached(c) => Live(c)
      BY <3>3 DEF Detached
    <3>6. \A e \in calls : e.op = "start" => Detached(e) /\ Sid(e) = e.reply.session
      BY <3>2 DEF Detached, Sid
    <3> QED
      BY <1>3, <1>20, <3>1, <3>3, <3>4, <3>5, <3>6
  <2>3. \A s \in Nat : s # 0 /\ s <= n /\ s # r => (Open(s)' <=> Open(s))
    BY <1>9 DEF Open
  <2>4. ASSUME faults' = 0, Run(t)'.sid # 0, ~Open(Run(t).sid)'
        PROVE  Run(t)'.phase \in {"done", "caughtUp"} \/ Pending(t, "finish")'
    <3>1. PICK s \in Nat : s = Run(t).sid /\ s # 0 /\ s <= n
      BY <1>1, <1>2, <1>20, <2>4, TabOf
    <3>2. ~Open(s)' /\ Run(t)'.sid = s
      BY <1>20, <2>4, <3>1 DEF Open
    <3>3. CASE s = r
      <4>1. d \in Waiting(t)' /\ d.op = "finish"
        BY <1>3, <1>16, <2>2, <2>4, <3>1, <3>3
      <4> QED
        BY <4>1 DEF Pending
    <3>4. CASE s # r
      <4>1. ~Open(Run(t).sid) /\ Run(t).sid # 0
        BY <2>3, <3>1, <3>2, <3>4
      <4>2. Run(t).phase \in {"done", "caughtUp"} \/ Pending(t, "finish")
        BY <1>1, <2>2, <2>4, <4>1 DEF EndInv
      <4>3. ~ (Live(c) /\ Awaited(c))
        <5>1. Live(c) /\ Awaited(c) => Run(t).sid = r
          BY <1>1, <1>3, <1>4, <1>16, SoleWait
        <5> QED
          BY <3>1, <3>4, <5>1
      <4>4. Waiting(t)' = Waiting(t)
        BY <1>20, <4>3
      <4> QED
        BY <1>20, <4>2, <4>4 DEF Pending
    <3> QED
      BY <3>3, <3>4
  <2>5. \A y \in Y : y.op # "start"
    BY <1>3, <1>16
  <2>6. ASSUME faults' = 0, NEW u \in Tabs, u # t, Run(u).sid # 0, Open(Run(u).sid)
        PROVE  Open(Run(u).sid)'
    <3>1. PICK s \in Nat : s = Run(u).sid /\ s # 0 /\ s <= n
      BY <1>1, <1>2, <2>6, TabOf
    <3>2. s # r
      BY <2>2, <2>6, <3>1
    <3>3. Open(s)' /\ Run(u)'.sid = s
      BY <2>3, <2>6, <3>1, <3>2 DEF Run
    <3> QED
      BY <3>3 DEF Open
  <2>7. ASSUME faults' = 0, NEW e \in calls, e.op = "start", e.served,
               Open(e.reply.session)
        PROVE  Open(e.reply.session)'
    <3>1. e.reply.session \in 1 .. n /\ e.reply.session # r
      BY <1>1, <1>2, <2>2, <2>7, CallOf DEF CallOK
    <3> QED
      BY <1>9, <2>7, <3>1 DEF Open
  <2> QED
    BY <2>1, <2>4, <2>5, <2>6, <2>7 DEF Keeps
<1>22. \A i \in Items : card'[i] = "new" => card[i] = "new"
  BY <1>5
<1>23. /\ TabInv' /\ TokenInv'
       /\ \A s \in Nat, j \in Items : Hand(s, j)' =>
             \/ Hand(s, j)
             \/ Run(t)'.sid = s /\ Held(t, j)'
             \/ \E y \in Y : /\ Detached(y) /\ y.op = "answer" /\ ~Recorded(y)
                             /\ y.session = s /\ y.item = j
  BY <1>1, <1>17, <1>20, Exchanged
<1>24. /\ NoNewInv' /\ EndInv'
       /\ \A s \in Nat : \A k \in Ghosts(s)' :
             \/ k \in Ghosts(s)
             \/ \E y \in Y : /\ y.op = "answer" /\ ~Awaited(y)
                             /\ y.session = s /\ k = y.lost
       /\ \A k \in AllGhosts' :
             \/ k \in AllGhosts
             \/ \E y \in Y : y.op = "answer" /\ ~Awaited(y) /\ k = y.lost
  BY <1>17, <1>20, <1>21, <1>22, ExchangeRest
<1>25. \A y \in Y : y.op # "answer"
  BY <1>3, <1>16
<1>26. ASSUME NEW j \in Items, Held(t, j)'
       PROVE  Held(t, j)
  <2>1. CASE Live(c) /\ Awaited(c)
    BY <1>3, <1>16, <1>20, <1>26, <2>1 DEF Held
  <2>2. CASE ~ (Live(c) /\ Awaited(c))
    BY <1>20, <1>26, <2>2 DEF Held
  <2> QED
    BY <2>1, <2>2
<1>27. QuietHands
  <2>1. \A s \in DOMAIN sessions : s \in Nat
    BY <1>1, SessionOf
  <2>2. ASSUME NEW s \in Nat, NEW j \in Items, Hand(s, j)'
        PROVE  Hand(s, j)
    <3>1. Run(t)'.sid = s /\ Held(t, j)' => Hand(s, j)
      BY <1>20, <1>26 DEF Hand
    <3> QED
      BY <1>23, <1>25, <2>2, <3>1
  <2>3. /\ \A s \in Nat : Ghosts(s)' \subseteq Ghosts(s)
        /\ AllGhosts' \subseteq AllGhosts
    BY <1>24, <1>25
  <2> QED
    BY <2>1, <2>2, <2>3 DEF QuietHands
<1>28. OvershootInv' /\ RepeatInv' /\ DailyInv'
  <2>1. faults' \in Nat
    BY <1>20 DEF PagesInv
  <2> QED
    BY <1>12, <1>20, <1>27, <2>1, QuietCounts
<1> QED
  BY <1>11, <1>20, <1>23, <1>24, <1>28 DEF StudyInv, StructInv

\* The queue holds the due cards still, and no more are new today than known.
LEMMA AnswerQueue ==
  ASSUME StructInv, NEW r \in DOMAIN sessions, NEW i \in Items, NEW kind,
         Answer(r, i, kind)
  PROVE  QueueInv'
<1>1. QueueInv
  BY DEF StructInv
<1>2. /\ sessions' \in Seq(SessionType) /\ DOMAIN sessions' = DOMAIN sessions
      /\ \A s \in DOMAIN sessions : s # r => AnsweredIn(s)' = AnsweredIn(s)
      /\ AnsweredIn(r)' = AnsweredIn(r) \cup {i}
      /\ \A j \in Items : card'[j] = "new" => card[j] = "new"
      /\ \/ introduced' = introduced
         \/ /\ introduced' = introduced + 1
            /\ card[i] = "new" /\ card'[i] = "later"
  BY AnswerTables
<1>3. scored' = scored \cup {i} /\ UNCHANGED <<day, active>>
  BY DEF Answer
<1>4. /\ card' \in [Items -> {"new", "due", "later"}]
      /\ dueOrder' \in Seq(Items)
      /\ \A j \in DOMAIN dueOrder', k \in DOMAIN dueOrder' :
            dueOrder'[j] = dueOrder'[k] => j = k
      /\ {dueOrder'[k] : k \in DOMAIN dueOrder'} = {j \in Items : card'[j] = "due"}
  <2>1. CASE kind = "skip"
    <3>1. card' = card /\ dueOrder' = dueOrder
      BY <2>1 DEF Answer
    <3> QED
      BY <1>1, <3>1 DEF QueueInv
  <2>2. CASE kind # "skip"
    <3>1. /\ card' = [card EXCEPT ![i] = "later"]
          /\ dueOrder' = IF card[i] = "due" THEN Unqueued(i) ELSE dueOrder
      BY <2>2 DEF Answer
    <3>2. /\ card' \in [Items -> {"new", "due", "later"}] /\ card'[i] = "later"
          /\ \A j \in Items : j # i => card'[j] = card[j]
      BY <1>1, <3>1 DEF QueueInv
    <3>3. {j \in Items : card'[j] = "due"} = {j \in Items : card[j] = "due"} \ {i}
      BY <3>2
    <3>4. {dueOrder[k] : k \in DOMAIN dueOrder} = {j \in Items : card[j] = "due"}
      BY <1>1 DEF QueueInv
    <3>5. CASE card[i] = "due"
      <4>1. /\ Unqueued(i) \in Seq(Items)
            /\ \A j \in DOMAIN Unqueued(i), k \in DOMAIN Unqueued(i) :
                  Unqueued(i)[j] = Unqueued(i)[k] => j = k
            /\ {Unqueued(i)[k] : k \in DOMAIN Unqueued(i)}
                  = {dueOrder[k] : k \in DOMAIN dueOrder} \ {i}
        BY <1>1, <3>5, UnqueuedIs
      <4>2. PICK q : q = Unqueued(i)
        OBVIOUS
      <4>3. /\ q \in Seq(Items)
            /\ \A j \in DOMAIN q, k \in DOMAIN q : q[j] = q[k] => j = k
            /\ {q[k] : k \in DOMAIN q} = {dueOrder[k] : k \in DOMAIN dueOrder} \ {i}
        BY <4>1, <4>2
      <4>4. dueOrder' = q
        BY <3>1, <3>5, <4>2
      <4>5. {q[k] : k \in DOMAIN q} = {j \in Items : card'[j] = "due"}
        BY <3>3, <3>4, <4>3
      <4> QED
        BY <3>2, <4>3, <4>4, <4>5
    <3>6. CASE card[i] # "due"
      <4>1. dueOrder' = dueOrder
        BY <3>1, <3>6
      <4>2. {j \in Items : card'[j] = "due"} = {j \in Items : card[j] = "due"}
        BY <3>3, <3>6
      <4> QED
        BY <1>1, <3>2, <3>4, <4>1, <4>2 DEF QueueInv
    <3> QED
      BY <3>5, <3>6
  <2> QED
    BY <2>1, <2>2
<1>5. introduced' \in Nat /\ introduced' <= Cardinality(Known')
  <2>1. /\ IsFiniteSet(Known) /\ IsFiniteSet(Known')
        /\ Cardinality(Known) \in Nat /\ Cardinality(Known') \in Nat
    <3>1. IsFiniteSet(Known) /\ IsFiniteSet(Known')
      BY StudyAssumption, FS_Subset DEF Known
    <3> QED
      BY <3>1, FS_CardinalityType
  <2>2. Known \subseteq Known'
    BY <1>2 DEF Known
  <2>3. PICK m \in Nat : m = introduced /\ m <= Cardinality(Known)
    BY <1>1 DEF QueueInv
  <2>4. CASE introduced' = introduced
    <3>1. Cardinality(Known) <= Cardinality(Known')
      BY <2>1, <2>2, FS_Subset
    <3> QED
      BY <2>1, <2>3, <2>4, <3>1
  <2>5. CASE introduced' = introduced + 1 /\ card[i] = "new" /\ card'[i] = "later"
    <3>1. Known \cup {i} \subseteq Known' /\ i \notin Known
      BY <2>2, <2>5 DEF Known
    <3>2. Cardinality(Known \cup {i}) = Cardinality(Known) + 1
      BY <2>1, <3>1, FS_AddElement
    <3>3. Cardinality(Known \cup {i}) <= Cardinality(Known')
      BY <2>1, <3>1, FS_Subset
    <3> QED
      BY <2>1, <2>3, <2>5, <3>2, <3>3
  <2> QED
    BY <1>2, <2>4, <2>5
<1>6. \A s \in DOMAIN sessions' : AnsweredIn(s)' \subseteq scored'
  BY <1>1, <1>2, <1>3 DEF QueueInv
<1>7. /\ day' \in Nat /\ day' <= MaxMishaps
      /\ active' \subseteq Items /\ scored' \subseteq Items
  BY <1>1, <1>3 DEF QueueInv
<1> QED
  BY <1>2, <1>4, <1>5, <1>6, <1>7 DEF QueueInv

\* An answer is recorded: that of the question in hand, or one that seemed lost.
LEMMA AnswerServedKeeps ==
  ASSUME StudyInv, NEW c \in calls, ~c.served, c.op = "answer",
         Answer(c.session, c.item, c.kind),
         Answered(c, TRUE, [NoReply EXCEPT !.kind = c.kind]),
         UNCHANGED <<page, saved, faults, left>>
  PROVE  StudyInv'
<1>1. StructInv /\ NoNewInv /\ EndInv
  BY DEF StudyInv
<1>2. PICK r \in DOMAIN sessions : r = c.session /\ Sid(c) = r /\ r # 0 /\ r \in Nat
  BY <1>1, CallOf, SessionOf DEF CallOK, Sid
<1>3. PICK i \in Items : i = c.item
  BY <1>1, CallOf DEF CallOK
<1>4. PICK kind \in Kinds \cup {"none"} : kind = c.kind
  BY <1>1, CallOf DEF CallType
<1>5. Answer(r, i, kind)
  BY <1>2, <1>3, <1>4
<1>6. QueueInv'
  BY <1>1, <1>5, AnswerQueue
<1>7. /\ Len(sessions') = Len(sessions) /\ DOMAIN sessions' = DOMAIN sessions
      /\ \A s \in DOMAIN sessions : sessions'[s].status = sessions[s].status
      /\ \A j \in Items : card'[j] = "new" => card[j] = "new"
      /\ introduced' = introduced \/ card[i] = "new"
  BY <1>1, <1>5, AnswerTables
<1>8. PICK reply \in ReplyType : /\ reply = [NoReply EXCEPT !.kind = kind]
                                 /\ reply.item = NoItem
  <2>1. NoReply \in ReplyType /\ NoReply.item = NoItem
    BY FreshTyped
  <2>2. PICK e : e = [NoReply EXCEPT !.kind = kind]
    OBVIOUS
  <2>3. e \in ReplyType /\ e.item = NoItem
    BY <2>1, <2>2 DEF ReplyType
  <2> QED
    BY <2>2, <2>3
<1>9. PICK t \in Tabs, d \in CallType, Y \in SUBSET CallType :
          Served(t, c, d, Y) /\ d.ok = TRUE /\ d.reply = reply
  BY <1>1, <1>4, <1>8, AnsweredIs
<1>10. /\ t = c.tab /\ CallOK(c) /\ c.reply = NoReply
       /\ d.tab = t /\ d.op = c.op /\ d.gone = c.gone /\ d.lost = c.lost /\ d.served
       /\ d.session = c.session /\ d.item = c.item
       /\ Y = {x \in {d} : Awaited(c)}
       /\ calls' = (calls \ {c}) \cup Y
       /\ (Awaited(d) <=> Awaited(c)) /\ ~Recorded(c) /\ Recorded(d)
  BY <1>9 DEF Served, Recorded
<1>11. Len(sessions') \in Nat /\ Len(sessions) <= Len(sessions')
  BY <1>1, <1>7, InHandFinite
<1>12. Awaited(c) => CallOK(d)'
  BY <1>7, <1>9, <1>10 DEF CallOK, Awaited
<1>13. ServedSight(t, c, d, Y)
  BY <1>1, <1>9, <1>11, <1>12, ServedExchange
<1>14. /\ PagesInv' /\ Exchange(t, {c}, Y) /\ Run(t)' = Run(t)
       /\ left <= left' /\ faults <= faults'
       /\ Waiting(t)' = (Waiting(t) \ {c}) \cup {y \in Y : Live(c) /\ Awaited(c)}
       /\ ~ (Live(c) /\ Awaited(c)) => Waiting(t)' = Waiting(t)
       /\ Live(c) /\ Awaited(c) =>
             /\ Waiting(t) = {c} /\ Waiting(t)' = {d}
             /\ Run(t).sid = r /\ Run(t).item = i /\ Run(t).phase = "active"
  BY <1>2, <1>3, <1>13 DEF ServedSight
<1>15. Keeps(t, {c}, Y)
  <2>1. d.reply.item \notin Items
    BY <1>8, <1>9, RunnerAssumption
  <2>2. NewCap = 0 => introduced' = 0
    BY <1>1, <1>3, <1>7 DEF NoNewInv
  <2>3. /\ \A u \in Tabs : page'[u] = page[u]
        /\ faults' = faults
    OBVIOUS
  <2> QED
    BY <1>7, <1>9, <1>14, <2>1, <2>2, <2>3, ServedKeeps
<1>16. /\ TabInv' /\ TokenInv'
       /\ \A s \in Nat, j \in Items : Hand(s, j)' =>
             \/ Hand(s, j)
             \/ Run(t)'.sid = s /\ Held(t, j)'
             \/ \E y \in Y : /\ Detached(y) /\ y.op = "answer" /\ ~Recorded(y)
                             /\ y.session = s /\ y.item = j
  BY <1>1, <1>11, <1>14, Exchanged
<1>17. /\ NoNewInv' /\ EndInv'
       /\ \A s \in Nat : \A k \in Ghosts(s)' :
             \/ k \in Ghosts(s)
             \/ \E y \in Y : /\ y.op = "answer" /\ ~Awaited(y)
                             /\ y.session = s /\ k = y.lost
       /\ \A k \in AllGhosts' :
             \/ k \in AllGhosts
             \/ \E y \in Y : y.op = "answer" /\ ~Awaited(y) /\ k = y.lost
       /\ \A x \in {c} : x.lost # 0 /\ Y = {} =>
             x.lost \notin AllGhosts' /\ \A s \in Nat : x.lost \notin Ghosts(s)'
  BY <1>7, <1>11, <1>14, <1>15, ExchangeRest
<1>18. \A y \in Y : y = d /\ Awaited(y) /\ Recorded(y)
  BY <1>10
<1>19. /\ \A s \in Nat : Ghosts(s)' \subseteq Ghosts(s)
       /\ AllGhosts' \subseteq AllGhosts
  BY <1>17, <1>18
<1>20. ASSUME NEW j \in Items, Held(t, j)'
       PROVE  Held(t, j)
  <2>1. CASE Live(c) /\ Awaited(c)
    <3>1. FALSE
      BY <1>10, <1>14, <1>20, <2>1 DEF Held
    <3> QED
      BY <3>1
  <2>2. CASE ~ (Live(c) /\ Awaited(c))
    BY <1>14, <1>20, <2>2 DEF Held
  <2> QED
    BY <2>1, <2>2
<1>21. ASSUME NEW s \in Nat, NEW j \in Items, Hand(s, j)'
       PROVE  Hand(s, j)
  <2>1. Run(t)'.sid = s /\ Held(t, j)' => Hand(s, j)
    BY <1>14, <1>20 DEF Hand
  <2> QED
    BY <1>16, <1>18, <1>21, <2>1
<1>22. CASE Awaited(c)
  <2>1. /\ \A u \in Tabs : Run(u).sid = r => u = t /\ ~Detached(c)
        /\ \A e \in calls : Detached(e) /\ Sid(e) = r => e = c
    BY <1>1, <1>2, <1>10, <1>22, Sole
  <2>2. Hand(r, i)
    <3>1. CASE Detached(c)
      BY <1>2, <1>3, <1>10, <3>1 DEF Hand
    <3>2. CASE ~Detached(c)
      <4>1. Live(c)
        BY <1>22, <3>2 DEF Detached
      <4>2. Held(t, i)
        BY <1>10, <1>14, <1>22, <4>1 DEF Held
      <4> QED
        BY <1>14, <1>22, <4>1, <4>2 DEF Hand
    <3> QED
      BY <3>1, <3>2
  <2>3. ASSUME NEW j \in Items, Hand(r, j)'
        PROVE  FALSE
    <3>1. CASE \E u \in Tabs : Run(u)'.sid = r /\ Held(u, j)'
      <4>1. PICK u \in Tabs : Run(u)'.sid = r /\ Held(u, j)'
        BY <3>1
      <4>2. Run(u)' = Run(u)
        BY DEF Run
      <4>3. u = t /\ Live(c)
        BY <1>22, <2>1, <4>1, <4>2 DEF Detached
      <4>4. Waiting(t)' = {d}
        BY <1>14, <1>22, <4>3
      <4> QED
        BY <1>10, <4>1, <4>3, <4>4 DEF Held
    <3>2. CASE \E e \in calls' : /\ Detached(e) /\ e.op = "answer" /\ ~Recorded(e)
                                 /\ e.session = r /\ e.item = j
      <4>1. PICK e \in calls' : /\ Detached(e) /\ e.op = "answer" /\ ~Recorded(e)
                                /\ e.session = r
        BY <3>2
      <4>2. e \in calls /\ e # c
        BY <1>10, <1>18, <4>1
      <4>3. Sid(e) = r
        BY <4>1 DEF Sid
      <4> QED
        BY <2>1, <4>1, <4>2, <4>3
    <3> QED
      BY <2>3, <3>1, <3>2 DEF Hand, Detached, Recorded, Awaited, Live
  <2>4. Record(r, i)
    <3>1. \A s \in DOMAIN sessions : s \in Nat
      BY <1>1, SessionOf
    <3>2. Hand(r, i) /\ \A j \in Items : ~Hand(r, j)'
      BY <2>2, <2>3
    <3> QED
      BY <1>19, <1>21, <3>1, <3>2 DEF Record
  <2>5. OvershootInv' /\ RepeatInv' /\ DailyInv'
    BY <1>5, <2>4, RecordCounts
  <2> QED
    BY <1>6, <1>14, <1>16, <1>17, <2>5 DEF StudyInv, StructInv
<1>23. CASE ~Awaited(c)
  <2>1. Y = {} /\ c.lost # 0
    BY <1>10, <1>23 DEF Awaited
  <2>2. c.lost \in Ghosts(r)
    BY <1>2, <1>23 DEF Ghosts
  <2>3. c.lost \notin AllGhosts' /\ c.lost \notin Ghosts(r)'
    BY <1>2, <1>17, <2>1
  <2>4. Record(r, i)
    <3>1. \A s \in DOMAIN sessions : s \in Nat
      BY <1>1, SessionOf
    <3>2. \E k \in Ghosts(r) : k \notin Ghosts(r)' /\ k \notin AllGhosts'
      BY <2>2, <2>3
    <3> QED
      BY <1>19, <1>21, <3>1, <3>2 DEF Record
  <2>5. OvershootInv' /\ RepeatInv' /\ DailyInv'
    BY <1>5, <2>4, RecordCounts
  <2> QED
    BY <1>6, <1>14, <1>16, <1>17, <2>5 DEF StudyInv, StructInv
<1> QED
  BY <1>22, <1>23

LEMMA ServeAnswerKeeps ==
  ASSUME StudyInv, NEW c \in calls, ~c.served, ServeAnswer(c),
         UNCHANGED <<page, saved, faults, left>>
  PROVE  StudyInv'
<1>1. c.op = "answer"
  BY DEF ServeAnswer
<1>2. CASE Open(c.session) /\ c.item \in active
  <2>1. /\ Answer(c.session, c.item, c.kind)
        /\ Answered(c, TRUE, [NoReply EXCEPT !.kind = c.kind])
    BY <1>2 DEF ServeAnswer
  <2> QED
    BY <1>1, <2>1, AnswerServedKeeps
<1>3. CASE ~(Open(c.session) /\ c.item \in active)
  <2>1. Answered(c, FALSE, NoReply) /\ UNCHANGED study
    BY <1>3 DEF ServeAnswer
  <2> QED
    BY <1>1, <2>1, NothingServedKeeps
<1> QED
  BY <1>2, <1>3

-----------------------------------------------------------------------------
(* The invariant, and what it says. *)

LEMMA InitStudy ==
  ASSUME Init
  PROVE  StudyInv
<1>1. /\ card = [i \in Items |-> "new"] /\ dueOrder = <<>> /\ introduced = 0
      /\ day = 0 /\ active = Items /\ sessions = <<>> /\ scored = {}
      /\ page = [t \in Tabs |-> FreshPage]
      /\ saved = [topics |-> {}, byTime |-> FALSE]
      /\ calls = {} /\ faults = 0 /\ left = 0
  BY DEF Init, StudyInit
<1>2. /\ sessions \in Seq(SessionType) /\ dueOrder \in Seq(Items)
      /\ DOMAIN sessions = {} /\ DOMAIN dueOrder = {} /\ Len(sessions) = 0
  BY <1>1
<1>3. QueueInv
  <2>1. Known = {}
    BY <1>1 DEF Known
  <2>2. Cardinality(Known) = 0
    BY <2>1, FS_EmptySet
  <2>3. MaxMishaps \in Nat
    BY StudyAssumption
  <2>4. {dueOrder[k] : k \in DOMAIN dueOrder} = {i \in Items : card[i] = "due"}
    BY <1>1, <1>2
  <2> QED
    BY <1>1, <1>2, <2>2, <2>3, <2>4 DEF QueueInv
<1>4. FreshPage \in PageType /\ FreshPage.run = FreshSession
  <2>1. <<>> \in [{} -> CardType]
    OBVIOUS
  <2>2. <<>> \in UNION {[S -> CardType] : S \in SUBSET Topics}
    BY <2>1
  <2> QED
    BY <2>2, FreshTyped DEF FreshPage, PageType
<1>5. PagesInv
  BY <1>1, <1>4, RunnerAssumption DEF PagesInv
<1>6. \A t \in Tabs : Run(t) = FreshSession /\ page[t] = FreshPage
  BY <1>1, <1>4 DEF Run
<1>7. TabInv
  <2>1. \A t \in Tabs : RunOK(page[t])
    BY <1>2, <1>4, <1>6, FreshTyped DEF RunOK
  <2> QED
    BY <1>1, <2>1 DEF TabInv
<1>8. TokenInv
  BY <1>1, <1>6, FreshTyped DEF TokenInv
<1>9. OvershootInv
  <2>1. NewInHand = {} /\ AllGhosts = {}
    BY <1>1, <1>2 DEF NewInHand, AllGhosts
  <2>2. Cardinality(NewInHand) = 0 /\ Cardinality(AllGhosts) = 0
    BY <2>1, FS_EmptySet
  <2>3. NewCap \in Nat
    BY StudyAssumption
  <2> QED
    BY <1>1, <1>2, <2>2, <2>3 DEF OvershootInv
<1>10. NoNewInv
  BY <1>1, <1>6, FreshTyped, RunnerAssumption DEF NoNewInv
<1>11. RepeatInv /\ DailyInv
  BY <1>2 DEF RepeatInv, DailyInv
<1>12. EndInv
  BY <1>1, <1>6, FreshTyped DEF EndInv
<1> QED
  BY <1>3, <1>5, <1>7, <1>8, <1>9, <1>10, <1>11, <1>12 DEF StudyInv, StructInv

LEMMA UserKeeps ==
  ASSUME StudyInv, NEW t \in Tabs, User(t)
  PROVE  StudyInv'
<1>1. StructInv
  BY DEF StudyInv
<1>2. CASE \E screen \in {"home", "study", "daily", "profile"} : Go(t, screen)
  BY <1>2, GoKeeps
<1>3. CASE FetchOverview(t)
  BY <1>1, <1>3, OverviewStill, StillKeeps
<1>4. CASE \/ ToggleAll(t) \/ SetLimitType(t) \/ SetTargetType(t)
           \/ \E u \in Topics : ToggleTopic(t, u)
           \/ \E kind \in Kinds : Select(t, kind)
  BY <1>1, <1>4, FormStill, StillKeeps
<1>5. CASE SaveTarget(t)
  BY <1>1, <1>5, SaveTargetStill, StillKeeps
<1>6. CASE StartDaily(t)
  BY <1>6, StartDailyKeeps
<1>7. CASE \E u \in Topics : StartCategory(t, u)
  BY <1>7, StartCategoryKeeps
<1>8. CASE \E skip \in BOOLEAN : OnSubmit(t, skip)
  BY <1>8, OnSubmitKeeps
<1>9. CASE OnNext(t)
  BY <1>9, OnNextKeeps
<1> QED
  BY <1>2, <1>3, <1>4, <1>5, <1>6, <1>7, <1>8, <1>9 DEF User

LEMMA NextStudy ==
  ASSUME StudyInv, [Next]_vars
  PROVE  StudyInv'
<1>1. ASSUME NEW t \in Tabs, User(t)
      PROVE  StudyInv'
  BY <1>1, UserKeeps
<1>2. ASSUME NEW c \in calls, Reply(c)
      PROVE  StudyInv'
  BY <1>2, StartRepliedKeeps, NextRepliedKeeps, AnswerRepliedKeeps,
     FinishRepliedKeeps, CallFailsKeeps DEF Reply
<1>3. ASSUME NEW c \in calls, Serve(c)
      PROVE  StudyInv'
  BY <1>3, ServeStartKeeps, ServeNextKeeps, ServeAnswerKeeps, ServeFinishKeeps
     DEF Serve
<1>4. ASSUME NEW c \in calls, Lost(c)
      PROVE  StudyInv'
  BY <1>4, LostKeeps
<1>5. ASSUME Passing, UNCHANGED <<page, saved, calls, faults, left>>
      PROVE  StudyInv'
  BY <1>5, PassingKeeps
<1>6. CASE UNCHANGED vars
  BY <1>6, IdleKeeps
<1> QED
  BY <1>1, <1>2, <1>3, <1>4, <1>5, <1>6 DEF Next

\* The tables of the queue, the pages and the requests keep their types; the
\* queue holds exactly the due cards, a session's answers were recorded, and
\* the page never shows a question without an item.
THEOREM StudyTyped == Spec => []TypeOK
<1>1. ASSUME StudyInv
      PROVE  TypeOK
  <2>1. StructInv
    BY <1>1 DEF StudyInv
  <2>2. introduced \in 0 .. Cardinality(Items)
    <3>1. Known \subseteq Items
      BY DEF Known
    <3>2. /\ IsFiniteSet(Known) /\ Cardinality(Known) \in Nat
          /\ Cardinality(Items) \in Nat /\ Cardinality(Known) <= Cardinality(Items)
      BY <3>1, StudyAssumption, FS_Subset, FS_CardinalityType
    <3>3. introduced \in Nat /\ introduced <= Cardinality(Known)
      BY <2>1 DEF StructInv, QueueInv
    <3> QED
      BY <3>2, <3>3
  <2>3. /\ card \in [Items -> {"new", "due", "later"}]
        /\ {dueOrder[k] : k \in DOMAIN dueOrder} = {i \in Items : card[i] = "due"}
        /\ active \subseteq Items /\ scored \subseteq Items
    BY <2>1 DEF StructInv, QueueInv
  <2>4. day \in 0 .. MaxMishaps
    BY <2>1, StudyAssumption DEF StructInv, QueueInv
  <2>5. \A s \in DOMAIN sessions :
          /\ sessions[s].config \in ConfigType
          /\ sessions[s].status \in {"in_progress", "completed"}
          /\ AnsweredIn(s) \subseteq scored
    <3>1. \A s \in DOMAIN sessions : sessions[s] \in SessionType
      BY <2>1, SessionOf
    <3> QED
      BY <2>1, <3>1 DEF StructInv, QueueInv, SessionType
  <2>6. ASSUME NEW t \in Tabs
        PROVE  /\ Categories(t) \subseteq Topics /\ page[t].sel \subseteq Topics
               /\ Run(t).sid \in 0 .. Len(sessions)
               /\ Run(t).item \in Items \cup {NoItem}
               /\ QuestionShown(t) => Run(t).item # NoItem
    <3>1. /\ page[t] \in PageType /\ Run(t) \in RunType /\ RunOK(page[t])
          /\ Categories(t) \subseteq Topics /\ page[t].run = Run(t)
      BY <2>1, PageOf, TabOf DEF StructInv
    <3>2. page[t].sel \subseteq Topics /\ Run(t).item \in Items \cup {NoItem}
      BY <3>1 DEF PageType, RunType
    <3>3. Run(t).sid \in 0 .. Len(sessions)
      BY <3>1 DEF RunOK
    <3>4. QuestionShown(t) => Run(t).item # NoItem
      BY <3>1, RunnerAssumption DEF RunOK, QuestionShown
    <3> QED
      BY <3>1, <3>2, <3>3, <3>4
  <2>7. /\ saved \in [topics : SUBSET Topics, byTime : BOOLEAN]
        /\ faults \in 0 .. MaxTrouble
    BY <2>1, RunnerAssumption DEF StructInv, PagesInv
  <2> QED
    BY <2>2, <2>3, <2>4, <2>5, <2>6, <2>7 DEF TypeOK
<1> QED
  BY <1>1, InitStudy, NextStudy, PTL DEF Spec

\* However many tabs and sessions run at once, the new cards of a day overshoot
\* the learner's cap by less than the sessions there are and the answers that
\* seemed to fail.
THEOREM OvershootBounded == Spec => []BudgetOvershoot
<1>1. ASSUME StudyInv
      PROVE  BudgetOvershoot
  <2>1. /\ StructInv /\ NewCap \in Nat /\ introduced \in Nat /\ faults \in Nat
    BY <1>1, StudyAssumption DEF StudyInv, StructInv, QueueInv, PagesInv
  <2>2. PICK a \in Nat : a = Cardinality(NewInHand)
    BY <2>1, InHandFinite
  <2>3. PICK b \in Nat : b = Cardinality(AllGhosts)
    BY <2>1, GhostsCounted
  <2>4. PICK n \in Nat : n = Len(sessions)
    BY <2>1, InHandFinite
  <2>5. CASE NewCap = 0
    <3>1. introduced = 0
      BY <1>1, <2>5 DEF StudyInv, NoNewInv
    <3> QED
      BY <2>5, <3>1 DEF BudgetOvershoot
  <2>6. CASE NewCap > 0
    <3>1. introduced + a + b <= NewCap - 1 + n + faults
      BY <1>1, <2>2, <2>3, <2>4, <2>6 DEF StudyInv, OvershootInv
    <3>2. introduced <= NewCap + n - 1 + faults
      BY <2>1, <2>2, <2>3, <2>4, <3>1
    <3> QED
      BY <2>4, <3>2 DEF BudgetOvershoot
  <2> QED
    BY <2>1, <2>5, <2>6
<1> QED
  BY <1>1, InitStudy, NextStudy, PTL DEF Spec

\* A session counts an item twice only for an answer that seemed to fail: it
\* arrived all the same, and the learner gave it again.
THEOREM RepeatsExplained == Spec => []RepeatNeedsFault
<1>1. ASSUME StudyInv
      PROVE  RepeatNeedsFault
  <2>1. StructInv /\ faults \in Nat
    BY <1>1 DEF StudyInv, StructInv, PagesInv
  <2>2. ASSUME NEW s \in DOMAIN sessions
        PROVE  Delivered(s) - Cardinality(AnsweredIn(s)) <= faults
    <3>1. Cardinality(AnsweredIn(s)) \in Nat /\ Delivered(s) \in Nat
      BY <2>1, SessionOf
    <3>2. PICK g \in Nat : g = Cardinality(Ghosts(s))
      BY <2>1, GhostsCounted
    <3>3. PICK a \in Nat : a = Again(s)
      BY DEF Again
    <3>4. Delivered(s) + g + a <= Cardinality(AnsweredIn(s)) + faults
      BY <1>1, <3>2, <3>3 DEF StudyInv, RepeatInv
    <3> QED
      BY <2>1, <3>1, <3>4
  <2> QED
    BY <2>2 DEF RepeatNeedsFault
<1> QED
  BY <1>1, InitStudy, NextStudy, PTL DEF Spec

\* A daily review by count goes past its target only by answers that seemed to
\* fail.
THEOREM DailyBounded == Spec => []DailyWithinTarget
<1>1. ASSUME StudyInv
      PROVE  DailyWithinTarget
  <2>1. StructInv /\ faults \in Nat /\ Target \in Nat
    BY <1>1, StudyAssumption DEF StudyInv, StructInv, PagesInv
  <2>2. ASSUME NEW s \in DOMAIN sessions,
               sessions[s].config.mode = "daily_review", ~sessions[s].config.byTime
        PROVE  Delivered(s) <= Target + faults
    <3>1. Delivered(s) \in Nat
      BY <2>1, SessionOf
    <3>2. PICK g \in Nat : g = Cardinality(Ghosts(s))
      BY <2>1, GhostsCounted
    <3>3. PICK a \in Nat : a = InHand(s)
      BY DEF InHand
    <3>4. Delivered(s) + g + a <= Target + faults
      BY <1>1, <2>2, <3>2, <3>3 DEF StudyInv, DailyInv
    <3> QED
      BY <2>1, <3>1, <3>4
  <2> QED
    BY <2>2 DEF DailyWithinTarget
<1> QED
  BY <1>1, InitStudy, NextStudy, PTL DEF Spec

\* A tab whose session the server has completed shows its end or is about to,
\* as long as no request has failed.
THEOREM DeadEndsExplained == Spec => []DeadEndNeedsFault
<1>1. ASSUME StudyInv
      PROVE  DeadEndNeedsFault
  <2>1. faults \in Nat
    BY <1>1 DEF StudyInv, StructInv, PagesInv
  <2>2. CASE faults = 0
    BY <1>1, <2>2 DEF StudyInv, EndInv, DeadEndNeedsFault, DoneShown, CaughtUpShown
  <2>3. CASE faults > 0
    BY <2>3 DEF DeadEndNeedsFault
  <2> QED
    BY <2>1, <2>2, <2>3
<1> QED
  BY <1>1, InitStudy, NextStudy, PTL DEF Spec
=============================================================================
