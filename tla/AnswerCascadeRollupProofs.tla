----------------------- MODULE AnswerCascadeRollupProofs -----------------------
(***************************************************************************)
(* Theorems about the tables that AnswerCascade derives from its ledgers:  *)
(* cards, session counters, abilities and topic rollups, and about the     *)
(* order in which a request locks them.                                    *)
(***************************************************************************)
EXTENDS AnswerCascadeProofs, FiniteSetTheorems

-----------------------------------------------------------------------------
(* Cardinalities of growing sets. *)

LEMMA CardGrows ==
    ASSUME NEW T, IsFiniteSet(T), NEW S, S \subseteq T
    PROVE  /\ IsFiniteSet(S) /\ Cardinality(S) \in Nat /\ Cardinality(T) \in Nat
           /\ Cardinality(S) <= Cardinality(T)
BY FS_Subset, FS_CardinalityType

LEMMA CardAdds ==
    ASSUME NEW S, IsFiniteSet(S), NEW x, x \notin S
    PROVE  /\ IsFiniteSet(S \cup {x}) /\ Cardinality(S) \in Nat
           /\ Cardinality(S \cup {x}) = Cardinality(S) + 1
BY FS_AddElement, FS_CardinalityType

-----------------------------------------------------------------------------
(* What a step of a handler leaves alone. *)

LEMMA OthersStay ==
    ASSUME TypeInv, NEW r \in Requests, Arrive(r) \/ Step(r) \/ Crash(r),
           NEW q \in Requests, q # r
    PROVE  /\ pc'[q] = pc[q] /\ mem'[q] = mem[q]
           /\ req'[q] = req[q] /\ buf'[q] = buf[q]
<1>1. CASE Quiet(r)
  <2>1. pc'[q] = pc[q] /\ mem'[q] = mem[q] /\ req'[q] = req[q]
    BY <1>1, QuietFrame
  <2>2. buf'[q] = buf[q]
    BY <1>1 DEF Quiet, Arrive, Load, LoadItem, GlobalTheta, TopicTheta,
           InsertTopicTheta, GlobalRow, GlobalPoints, GlobalUpdate, TopicPoints,
           TopicUpdate, Counters, MasteryRead, MasteryWrite, Close, PutTheta,
           TypeInv, TypeOK
  <2> QED
    BY <2>1, <2>2
<1>2. CASE Respond(r) \/ WriteCard(r) \/ Commit(r)
  BY <1>2 DEF Respond, WriteCard, Commit, Goto, TypeInv, TypeOK
<1>3. CASE \E l \in Ended : Rollback(r, l)
  BY <1>3 DEF Rollback, Goto, TypeInv, TypeOK
<1> QED
  BY <1>1, <1>2, <1>3, StepKinds

LEMMA TablesStay ==
    ASSUME NEW r \in Requests, Quiet(r) \/ Respond(r) \/ WriteCard(r)
    PROVE  UNCHANGED <<tables, bank>> /\ (~Arrive(r) => UNCHANGED req)
BY DEF Quiet, Arrive, Load, LoadItem, GlobalTheta, TopicTheta, InsertTopicTheta,
       GlobalRow, GlobalPoints, GlobalUpdate, TopicPoints, TopicUpdate, Counters,
       MasteryRead, MasteryWrite, Close, Respond, WriteCard

\* Which steps change which Python variable.
LEMMA MemFrame ==
    ASSUME TypeInv, NEW r \in Requests, Quiet(r) \/ Respond(r) \/ WriteCard(r)
    PROVE  /\ ~(Load(r) \/ Counters(r)) =>
                  /\ mem'[r].delivered = mem[r].delivered
                  /\ mem'[r].correct = mem[r].correct
                  /\ mem'[r].skipped = mem[r].skipped
           /\ ~(Counters(r) \/ MasteryWrite(r)) =>
                  /\ mem'[r].k = mem[r].k
                  /\ ~(Arrive(r) \/ LoadItem(r)) => mem'[r].topic = mem[r].topic
                  /\ ~(GlobalRow(r) \/ TopicPoints(r)) => mem'[r].row = mem[r].row
                  /\ ~(GlobalPoints(r) \/ TopicPoints(r)) =>
                         mem'[r].points = mem[r].points
                  /\ ~(Respond(r) \/ MasteryRead(r)) => mem'[r].snap = mem[r].snap
<1>1. mem[r] \in MemType
  BY HandlerTyped
<1>2. CASE UNCHANGED mem
  BY <1>2 DEF Load, Counters, Arrive, LoadItem, GlobalRow, TopicPoints,
              GlobalPoints, Respond, MasteryRead
<1>3. CASE Arrive(r) \/ LoadItem(r)
  <2>1. UNCHANGED mem \/ \E t : mem'[r] = [mem[r] EXCEPT !.topic = t]
    <3>1. CASE Arrive(r)
      <4>1. PICK m \in Menu :
               \/ mem' = [mem EXCEPT ![r] = [mem[r] EXCEPT !.topic = m.scope]]
               \/ mem' = mem
        BY <3>1 DEF Arrive
      <4> QED
        BY <4>1 DEF TypeInv, TypeOK
    <3>2. CASE LoadItem(r)
      <4>1. mem' = [mem EXCEPT ![r] =
                       [mem[r] EXCEPT !.topic = topicOf[Answer(r).item]]]
        BY <3>2 DEF LoadItem
      <4> QED
        BY <4>1 DEF TypeInv, TypeOK
    <3> QED
      BY <1>3, <3>1, <3>2
  <2>2. ~Load(r) /\ ~Counters(r) /\ ~GlobalRow(r) /\ ~GlobalPoints(r)
    BY <1>3 DEF Arrive, LoadItem, Load, Counters, GlobalRow, GlobalPoints
  <2>3. CASE UNCHANGED mem
    BY <1>2, <2>3
  <2>4. CASE \E t : mem'[r] = [mem[r] EXCEPT !.topic = t]
    BY <1>1, <1>3, <2>4 DEF MemType
  <2> QED
    BY <2>1, <2>3, <2>4
<1>4. CASE Load(r)
  <2>1. \E d, c, s : mem'[r] = [mem[r] EXCEPT !.delivered = d, !.correct = c,
                                              !.skipped = s]
    BY <1>4 DEF Load, TypeInv, TypeOK
  <2> QED
    BY <1>1, <1>4, <2>1 DEF MemType
<1>5. CASE GlobalRow(r) \/ GlobalPoints(r) \/ TopicPoints(r)
  <2>1. CASE GlobalRow(r)
    <3>1. \E x : mem'[r] = [mem[r] EXCEPT !.row = x]
      BY <2>1 DEF GlobalRow, TypeInv, TypeOK
    <3> QED
      BY <1>1, <2>1, <3>1 DEF MemType
  <2>2. CASE GlobalPoints(r)
    <3>1. \E x : mem'[r] = [mem[r] EXCEPT !.points = x]
      BY <2>2 DEF GlobalPoints, TypeInv, TypeOK
    <3> QED
      BY <1>1, <2>2, <3>1 DEF MemType
  <2>3. CASE TopicPoints(r)
    <3>1. \E x, y : mem'[r] = [mem[r] EXCEPT !.row = x, !.points = y]
      <4>1. PICK x : mem' = [mem EXCEPT ![r] = [mem[r] EXCEPT !.row = x.by,
                                 !.points = Points(r, mem[r].topic)]]
        BY <2>3 DEF TopicPoints
      <4> QED
        BY <4>1 DEF TypeInv, TypeOK
    <3> QED
      BY <1>1, <2>3, <3>1 DEF MemType
  <2> QED
    BY <1>5, <2>1, <2>2, <2>3
<1>6. CASE Respond(r) \/ MasteryRead(r)
  <2>1. UNCHANGED mem \/ \E n : mem'[r] = [mem[r] EXCEPT !.snap = n]
    <3>1. \/ UNCHANGED mem
          \/ mem' = [mem EXCEPT ![r] = [mem[r] EXCEPT !.snap =
                 Overlay(buf[r].card[Answer(r).item], card[Answer(r).item])]]
          \/ mem' = [mem EXCEPT ![r] = [mem[r] EXCEPT !.snap =
                 Overlay(buf[r].mastery[mem[r].topic], mastery[mem[r].topic])]]
      BY <1>6 DEF Respond, MasteryRead
    <3> QED
      BY <3>1 DEF TypeInv, TypeOK
  <2>3. CASE UNCHANGED mem
    BY <1>2, <2>3
  <2>4. CASE \E n : mem'[r] = [mem[r] EXCEPT !.snap = n]
    BY <1>1, <1>6, <2>4 DEF MemType
  <2> QED
    BY <2>1, <2>3, <2>4
<1>7. CASE MasteryWrite(r)
  <2>1. \/ mem'[r] = mem[r]
        \/ mem'[r] = [mem[r] EXCEPT !.k = mem[r].k + 1, !.topic = NoTopic,
                                    !.row = r, !.snap = 0, !.points = {}]
    BY <1>7 DEF MasteryWrite, NextAnswer, TypeInv, TypeOK
  <2> QED
    BY <1>1, <1>7, <2>1 DEF MemType
<1>8. CASE Counters(r)
  BY <1>8
<1> QED
  BY <1>2, <1>3, <1>4, <1>5, <1>6, <1>7, <1>8
     DEF Quiet, GlobalTheta, TopicTheta, InsertTopicTheta, GlobalUpdate,
         TopicUpdate, Close, WriteCard

\* Which steps write which rows.
LEMMA BufFrame ==
    ASSUME TypeInv, NEW r \in Requests, Quiet(r) \/ Respond(r) \/ WriteCard(r)
    PROVE  /\ ~(\/ GlobalTheta(r) \/ InsertTopicTheta(r) \/ GlobalUpdate(r)
                \/ TopicUpdate(r)) => buf'[r].theta = buf[r].theta
           /\ ~Respond(r) => buf'[r].responses = buf[r].responses
           /\ ~WriteCard(r) => /\ buf'[r].card = buf[r].card
                               /\ buf'[r].log = buf[r].log
           /\ ~(Counters(r) \/ Close(r)) => buf'[r].session = buf[r].session
           /\ ~MasteryWrite(r) => buf'[r].mastery = buf[r].mastery
<1>1. buf[r] \in BufType
  BY HandlerTyped
<1>2. CASE UNCHANGED buf
  BY <1>2 DEF GlobalTheta, InsertTopicTheta, GlobalUpdate, TopicUpdate, Respond,
              WriteCard, Counters, Close, MasteryWrite
<1>3. CASE GlobalTheta(r) \/ InsertTopicTheta(r) \/ GlobalUpdate(r) \/ TopicUpdate(r)
  <2>1. buf'[r] = buf[r] \/ \E x : PutTheta(r, x)
    BY <1>3 DEF GlobalTheta, InsertTopicTheta, GlobalUpdate, TopicUpdate
  <2>2. buf'[r] = buf[r] \/ \E y : buf'[r] = [buf[r] EXCEPT !.theta = y]
    BY <2>1 DEF PutTheta, TypeInv, TypeOK
  <2> QED
    BY <1>1, <1>3, <2>2 DEF BufType
<1>4. CASE Respond(r)
  <2>1. \E y : buf'[r] = [buf[r] EXCEPT !.responses = y]
    BY <1>4 DEF Respond, TypeInv, TypeOK
  <2> QED
    BY <1>1, <1>4, <2>1 DEF BufType
<1>5. CASE WriteCard(r)
  <2>1. \E c, l : buf'[r] = [buf[r] EXCEPT !.card = c, !.log = l]
    BY <1>5 DEF WriteCard, TypeInv, TypeOK
  <2> QED
    BY <1>1, <1>5, <2>1 DEF BufType
<1>6. CASE Counters(r) \/ Close(r)
  <2>1. buf'[r] = [buf[r] EXCEPT !.session = TRUE]
    BY <1>6 DEF Counters, Close, TypeInv, TypeOK
  <2> QED
    BY <1>1, <1>6, <2>1 DEF BufType
<1>7. CASE MasteryWrite(r)
  <2>1. \E y : buf'[r] = [buf[r] EXCEPT !.mastery = y]
    BY <1>7 DEF MasteryWrite, TypeInv, TypeOK
  <2> QED
    BY <1>1, <1>7, <2>1 DEF BufType
<1> QED
  BY <1>2, <1>3, <1>4, <1>5, <1>6, <1>7
     DEF Quiet, Arrive, Load, LoadItem, TopicTheta, GlobalRow, GlobalPoints,
         TopicPoints, MasteryRead

\* From which statement to which each step goes.
LEMMA ControlFlow ==
    ASSUME TypeInv, NEW r \in Requests
    PROVE  /\ Arrive(r) => pc[r] = "idle" /\ pc'[r] \in {"global", "topic", "load"}
           /\ Load(r) => /\ pc[r] = "load" /\ req[r].op # "start"
                         /\ pc'[r] = IF req[r].op = "finish"
                                     THEN "close" ELSE "item"
           /\ LoadItem(r) => pc[r] = "item" /\ pc'[r] = "global"
           /\ GlobalTheta(r) => /\ pc[r] = "global"
                                /\ pc'[r] \in {"commit", "respond", "topic"}
           /\ TopicTheta(r) => /\ pc[r] = "topic"
                               /\ pc'[r] \in {"topic_insert", "commit", "respond"}
           /\ InsertTopicTheta(r) => /\ pc[r] = "topic_insert"
                                     /\ pc'[r] \in {"commit", "respond"}
           /\ Respond(r) => /\ pc[r] = "respond"
                            /\ pc'[r] = IF Answer(r).kind = "skip"
                                        THEN "counters" ELSE "card_write"
           /\ WriteCard(r) => pc[r] = "card_write" /\ pc'[r] = "global_row"
           /\ GlobalRow(r) => pc[r] = "global_row" /\ pc'[r] = "global_points"
           /\ GlobalPoints(r) => pc[r] = "global_points" /\ pc'[r] = "global_update"
           /\ GlobalUpdate(r) => /\ pc[r] = "global_update"
                                 /\ pc'[r] = IF mem[r].topic = NoTopic
                                             THEN "counters" ELSE "topic_points"
           /\ TopicPoints(r) => pc[r] = "topic_points" /\ pc'[r] = "topic_update"
           /\ TopicUpdate(r) => pc[r] = "topic_update" /\ pc'[r] = "counters"
           /\ Counters(r) => /\ pc[r] = "counters"
                             /\ pc'[r] \in {"mastery_read", "item", "commit"}
           /\ MasteryRead(r) => pc[r] = "mastery_read" /\ pc'[r] = "mastery_write"
           /\ MasteryWrite(r) => /\ pc[r] = "mastery_write"
                                 /\ pc'[r] \in {"item", "commit"}
           /\ Close(r) => pc[r] = "close" /\ pc'[r] = "commit"
           /\ Commit(r) => pc[r] = "commit" /\ pc'[r] = "ok"
<1>1. Load(r) => req[r].op # "start"
  BY HandlerTyped DEF Load, ControlOf
<1>2. pc \in [Requests -> {"idle"} \cup Statements \cup Ended]
  BY DEF TypeInv, TypeOK
<1>3. \A l : Goto(r, l) => pc'[r] = l
  BY <1>2 DEF Goto
<1>4. Arrive(r) => pc[r] = "idle" /\ pc'[r] \in {"global", "topic", "load"}
  <2> SUFFICES ASSUME Arrive(r)
               PROVE  pc[r] = "idle" /\ \E l \in {"global", "topic", "load"} : Goto(r, l)
    BY <1>3
  <2> QED
    BY DEF Arrive
<1>5. \A m : NextAnswer(r, m) => pc'[r] \in {"item", "commit"}
  BY <1>3 DEF NextAnswer
<1>6. Counters(r) => pc[r] = "counters" /\ pc'[r] \in {"mastery_read", "item", "commit"}
  BY <1>3, <1>5 DEF Counters
<1>7. MasteryWrite(r) => pc[r] = "mastery_write" /\ pc'[r] \in {"item", "commit"}
  BY <1>5 DEF MasteryWrite
<1>8. /\ GlobalTheta(r) => /\ pc[r] = "global"
                           /\ pc'[r] \in {"commit", "respond", "topic"}
      /\ TopicTheta(r) => /\ pc[r] = "topic"
                          /\ pc'[r] \in {"topic_insert", "commit", "respond"}
      /\ InsertTopicTheta(r) => /\ pc[r] = "topic_insert"
                                /\ pc'[r] \in {"commit", "respond"}
  BY <1>3 DEF GlobalTheta, TopicTheta, InsertTopicTheta, AfterTopic
<1>9. /\ Respond(r) => /\ pc[r] = "respond"
                       /\ pc'[r] = IF Answer(r).kind = "skip"
                                   THEN "counters" ELSE "card_write"
      /\ WriteCard(r) => pc[r] = "card_write" /\ pc'[r] = "global_row"
  BY <1>3 DEF Respond, WriteCard
<1> QED
  BY <1>1, <1>3, <1>4, <1>6, <1>7, <1>8, <1>9
     DEF Load, LoadItem, GlobalRow, GlobalPoints, GlobalUpdate, TopicPoints,
         TopicUpdate, MasteryRead, Close, Commit

\* What the loop leaves when an answer is done.
LEMMA NextAnswerEffect ==
    ASSUME TypeInv, NEW r \in Requests, NEW m \in MemType, NextAnswer(r, m)
    PROVE  \/ /\ m.k < Len(req[r].answers) /\ pc'[r] = "item"
              /\ mem'[r].k = m.k + 1 /\ mem'[r].topic = NoTopic
              /\ mem'[r].delivered = m.delivered /\ mem'[r].correct = m.correct
              /\ mem'[r].skipped = m.skipped /\ mem'[r].points = {}
              /\ mem'[r].row = r
           \/ ~(m.k < Len(req[r].answers)) /\ pc'[r] = "commit" /\ mem'[r] = m
<1> DEFINE n == [m EXCEPT !.k = m.k + 1, !.topic = NoTopic, !.row = r,
                          !.snap = 0, !.points = {}]
<1>1. /\ n.k = m.k + 1 /\ n.topic = NoTopic /\ n.points = {} /\ n.row = r
      /\ n.delivered = m.delivered /\ n.correct = m.correct
      /\ n.skipped = m.skipped
  BY DEF MemType
<1> HIDE DEF n
<1>2. \/ m.k < Len(req[r].answers) /\ pc'[r] = "item" /\ mem'[r] = n
      \/ ~(m.k < Len(req[r].answers)) /\ pc'[r] = "commit" /\ mem'[r] = m
  BY DEF NextAnswer, Goto, TypeInv, TypeOK, n
<1> QED
  BY <1>1, <1>2

LEMMA CountersEffect ==
    ASSUME TypeInv, NEW r \in Requests, Counters(r)
    PROVE  /\ mem'[r].delivered = mem[r].delivered + 1
           /\ mem'[r].correct =
                  mem[r].correct + (IF Answer(r).kind = "correct" THEN 1 ELSE 0)
           /\ mem'[r].skipped =
                  mem[r].skipped + (IF Answer(r).kind = "skip" THEN 1 ELSE 0)
           /\ \/ /\ pc'[r] = "mastery_read" /\ mem'[r].k = mem[r].k
                 /\ mem[r].topic # NoTopic /\ Answer(r).kind # "skip"
                 /\ mem'[r].topic = mem[r].topic
                 /\ mem'[r].points = mem[r].points
              \/ /\ mem[r].topic = NoTopic \/ Answer(r).kind = "skip"
                 /\ \/ /\ pc'[r] = "item" /\ mem[r].k < Len(req[r].answers)
                       /\ mem'[r].k = mem[r].k + 1 /\ mem'[r].points = {}
                       /\ mem'[r].topic = NoTopic
                    \/ /\ pc'[r] = "commit" /\ ~(mem[r].k < Len(req[r].answers))
                       /\ mem'[r].k = mem[r].k /\ mem'[r].points = mem[r].points
                       /\ mem'[r].topic = mem[r].topic
<1>1. /\ mem[r] \in MemType
      /\ CountedOnce(r) \in MemType
      /\ CountedOnce(r).k = mem[r].k /\ CountedOnce(r).topic = mem[r].topic
  BY HandlerTyped, CountedTyped
<1>2. /\ CountedOnce(r).delivered = mem[r].delivered + 1
      /\ CountedOnce(r).correct =
             mem[r].correct + (IF Answer(r).kind = "correct" THEN 1 ELSE 0)
      /\ CountedOnce(r).skipped =
             mem[r].skipped + (IF Answer(r).kind = "skip" THEN 1 ELSE 0)
      /\ CountedOnce(r).points = mem[r].points
  BY <1>1 DEF CountedOnce, MemType
<1>3. CASE mem[r].topic = NoTopic \/ Answer(r).kind = "skip"
  <2>1. NextAnswer(r, CountedOnce(r))
    BY <1>3 DEF Counters
  <2> QED
    BY <1>1, <1>2, <1>3, <2>1, NextAnswerEffect
<1>4. CASE ~(mem[r].topic = NoTopic \/ Answer(r).kind = "skip")
  <2>1. pc'[r] = "mastery_read" /\ mem'[r] = CountedOnce(r)
    BY <1>4 DEF Counters, Goto, TypeInv, TypeOK
  <2> QED
    BY <1>1, <1>2, <1>4, <2>1
<1> QED
  BY <1>3, <1>4

LEMMA MasteryWriteEffect ==
    ASSUME TypeInv, NEW r \in Requests, MasteryWrite(r)
    PROVE  /\ buf'[r].mastery =
                  [buf[r].mastery EXCEPT ![mem[r].topic] = mem[r].snap + 1]
           /\ \/ /\ pc'[r] = "item" /\ mem[r].k < Len(req[r].answers)
                 /\ mem'[r].k = mem[r].k + 1 /\ mem'[r].points = {}
                 /\ mem'[r].topic = NoTopic
              \/ /\ pc'[r] = "commit" /\ ~(mem[r].k < Len(req[r].answers))
                 /\ mem'[r] = mem[r]
<1>1. mem[r] \in MemType /\ buf[r] \in BufType
  BY HandlerTyped
<1>2. buf'[r] = [buf[r] EXCEPT !.mastery =
                    [buf[r].mastery EXCEPT ![mem[r].topic] = mem[r].snap + 1]]
  BY DEF MasteryWrite, TypeInv, TypeOK
<1>3. \A x : [buf[r] EXCEPT !.mastery = x].mastery = x
  BY <1>1 DEF BufType
<1>4. NextAnswer(r, mem[r])
  BY DEF MasteryWrite
<1> QED
  BY <1>1, <1>2, <1>3, <1>4, NextAnswerEffect

LEMMA RespondEffect ==
    ASSUME TypeInv, NEW r \in Requests, Respond(r)
    PROVE  /\ req[r].op = "answer" /\ Active(r)
           /\ Answer(r) \in AnswerType
           /\ buf'[r].responses = buf[r].responses \cup
                  {[id |-> <<r, mem[r].k>>, session |-> req[r].session,
                    item |-> Answer(r).item, topic |-> mem[r].topic,
                    kind |-> Answer(r).kind]}
           /\ Answer(r).kind # "skip" =>
                  mem'[r].snap = Overlay(buf[r].card[Answer(r).item],
                                         card[Answer(r).item])
           /\ Answer(r)' = Answer(r)
<1>1. mem[r] \in MemType /\ buf[r] \in BufType
  BY HandlerTyped
<1>2. pc[r] = "respond" /\ req[r].op = "answer" /\ Active(r)
  BY HandlerTyped, ControlFlow DEF ControlOf, Grading, Active, Statements
<1>3. Answer(r) \in AnswerType
  BY <1>2, AnswerTyped DEF Statements
<1> DEFINE new == [id |-> <<r, mem[r].k>>, session |-> req[r].session,
                   item |-> Answer(r).item, topic |-> mem[r].topic,
                   kind |-> Answer(r).kind]
<1>4. buf'[r] = [buf[r] EXCEPT !.responses = buf[r].responses \cup {new}]
  BY DEF Respond, TypeInv, TypeOK
<1>5. \A x : [buf[r] EXCEPT !.responses = x].responses = x
  BY <1>1 DEF BufType
<1>6. Answer(r).kind # "skip" =>
          mem' = [mem EXCEPT ![r] = [mem[r] EXCEPT !.snap =
                     Overlay(buf[r].card[Answer(r).item], card[Answer(r).item])]]
  BY DEF Respond
<1>7. \A x : [mem[r] EXCEPT !.snap = x].snap = x
  BY <1>1 DEF MemType
<1>8. mem'[r].k = mem[r].k /\ req' = req
  BY MemFrame, TablesStay, <1>2 DEF Counters, MasteryWrite, Arrive
<1> QED
  BY <1>2, <1>3, <1>4, <1>5, <1>6, <1>7, <1>8 DEF Answer, TypeInv, TypeOK

LEMMA WriteCardEffect ==
    ASSUME TypeInv, NEW r \in Requests, WriteCard(r)
    PROVE  /\ req[r].op = "answer" /\ Active(r)
           /\ Answer(r).item \in Items
           /\ buf'[r].card = [buf[r].card EXCEPT ![Answer(r).item] = mem[r].snap + 1]
           /\ \E l \in LogType :
                  /\ l.id = <<r, mem[r].k>> /\ l.item = Answer(r).item
                  /\ buf'[r].log = buf[r].log \cup {l}
<1> DEFINE i == Answer(r).item
           log == [id |-> <<r, mem[r].k>>, item |-> i,
                   before |-> IF mem[r].snap = 0 THEN "new" ELSE "seen"]
<1>1. mem[r] \in MemType /\ buf[r] \in BufType
  BY HandlerTyped
<1>2. pc[r] = "card_write" /\ req[r].op = "answer" /\ Active(r)
  BY HandlerTyped, ControlFlow DEF ControlOf, Grading, Active, Statements
<1>3. i \in Items
  BY <1>2, AnswerTyped DEF Statements, AnswerType
<1>4. log \in LogType /\ log.id = <<r, mem[r].k>> /\ log.item = i
  BY <1>1, <1>3 DEF LogType, Ids, MemType
<1>5. buf'[r] = [buf[r] EXCEPT !.card = [buf[r].card EXCEPT ![i] = mem[r].snap + 1],
                               !.log = buf[r].log \cup {log}]
  BY DEF WriteCard, TypeInv, TypeOK
<1>6. \A x, y : /\ [buf[r] EXCEPT !.card = x, !.log = y].card = x
                /\ [buf[r] EXCEPT !.card = x, !.log = y].log = y
  BY <1>1 DEF BufType
<1> HIDE DEF log
<1> QED
  BY <1>2, <1>3, <1>4, <1>5, <1>6

\* What a rollback and a commit leave of the transaction.
LEMMA RollbackEffect ==
    ASSUME TypeInv, NEW r \in Requests, NEW l \in Ended, Rollback(r, l)
    PROVE  /\ UNCHANGED <<tables, bank, req>>
           /\ pc'[r] = l /\ ~Active(r)'
           /\ mem'[r] = NoMem(r) /\ buf'[r] = NoWrites
           /\ \A q \in Requests : q # r => /\ pc'[q] = pc[q] /\ mem'[q] = mem[q]
                                          /\ buf'[q] = buf[q]
BY DEF Rollback, Goto, Active, Ended, Statements, TypeInv, TypeOK

LEMMA CommitEffect ==
    ASSUME TypeInv, NEW r \in Requests, Commit(r)
    PROVE  /\ UNCHANGED <<bank, req>>
           /\ pc[r] = "commit" /\ pc'[r] = "ok" /\ Active(r) /\ ~Active(r)'
           /\ mem'[r] = NoMem(r) /\ buf'[r] = NoWrites
           /\ \A q \in Requests : q # r => /\ pc'[q] = pc[q] /\ mem'[q] = mem[q]
                                          /\ buf'[q] = buf[q]
           /\ reviewLog' = reviewLog \cup buf[r].log
           /\ responses' = responses \cup buf[r].responses
           /\ \A i \in Items :
                  card'[i] = IF buf[r].card[i] > 0 THEN buf[r].card[i] ELSE card[i]
           /\ \A t \in Topics :
                  mastery'[t] = IF buf[r].mastery[t] > 0
                               THEN buf[r].mastery[t] ELSE mastery[t]
           /\ theta' = SeenThetas(r)
<1>1. /\ UNCHANGED <<bank, req>>
      /\ pc[r] = "commit" /\ pc'[r] = "ok" /\ Active(r) /\ ~Active(r)'
  BY DEF Commit, Goto, Active, Statements, TypeInv, TypeOK
<1>2. /\ mem'[r] = NoMem(r) /\ buf'[r] = NoWrites
      /\ \A q \in Requests : q # r => /\ pc'[q] = pc[q] /\ mem'[q] = mem[q]
                                     /\ buf'[q] = buf[q]
  BY DEF Commit, Goto, TypeInv, TypeOK
<1> QED
  BY <1>1, <1>2 DEF Commit, Overlay

LEMMA FreshRows ==
    /\ NoWrites.responses = {} /\ NoWrites.log = {} /\ NoWrites.theta = {}
    /\ \A i \in Items : NoWrites.card[i] = 0
    /\ \A t \in Topics : NoWrites.mastery[t] = 0
    /\ NoWrites.session = FALSE
    /\ \A r \in Requests :
           /\ NoMem(r).k = 1 /\ NoMem(r).topic = NoTopic /\ NoMem(r).row = r
           /\ NoMem(r).delivered = 0 /\ NoMem(r).correct = 0
           /\ NoMem(r).skipped = 0 /\ NoMem(r).snap = 0 /\ NoMem(r).points = {}
BY DEF NoWrites, NoMem


-----------------------------------------------------------------------------
(* Repetitions and logs.  A committed card alone says nothing about the      *)
(* next one: what a transaction has read or written of a card must be backed *)
(* by the logs it sees.                                                      *)

PendingLogs(r, i) == {l \in buf[r].log : l.item = i}

SeenLogs(r, i) == LogsOf(i) \cup PendingLogs(r, i)

PendingReps(r) ==
    /\ IsFiniteSet(buf[r].log)
    /\ \A i \in Items : buf[r].card[i] <= Cardinality(SeenLogs(r, i))
    /\ pc[r] = "card_write" =>
           /\ \A i \in Items :
                  i = Answer(r).item => mem[r].snap <= Cardinality(SeenLogs(r, i))
           /\ \A l \in buf[r].log : l.id # <<r, mem[r].k>>

RepsInv ==
    /\ IsFiniteSet(reviewLog)
    /\ \A i \in Items : card[i] <= Cardinality(LogsOf(i))
    /\ \A r \in Requests : PendingReps(r)

LEMMA LogsFinite ==
    ASSUME IsFiniteSet(reviewLog), NEW i
    PROVE  /\ IsFiniteSet(LogsOf(i)) /\ Cardinality(LogsOf(i)) \in Nat
           /\ \A r \in Requests :
                  IsFiniteSet(buf[r].log) =>
                      /\ IsFiniteSet(SeenLogs(r, i))
                      /\ Cardinality(SeenLogs(r, i)) \in Nat
                      /\ Cardinality(LogsOf(i)) <= Cardinality(SeenLogs(r, i))
<1>1. IsFiniteSet(LogsOf(i)) /\ Cardinality(LogsOf(i)) \in Nat
  <2>1. LogsOf(i) \subseteq reviewLog
    BY DEF LogsOf
  <2> QED
    BY <2>1, CardGrows
<1>2. ASSUME NEW r \in Requests, IsFiniteSet(buf[r].log)
      PROVE  /\ IsFiniteSet(SeenLogs(r, i))
             /\ Cardinality(SeenLogs(r, i)) \in Nat
             /\ Cardinality(LogsOf(i)) <= Cardinality(SeenLogs(r, i))
  <2>1. IsFiniteSet(reviewLog \cup buf[r].log)
    BY <1>2, FS_Union
  <2>2. SeenLogs(r, i) \subseteq reviewLog \cup buf[r].log
    BY DEF SeenLogs, LogsOf, PendingLogs
  <2>3. IsFiniteSet(SeenLogs(r, i)) /\ Cardinality(SeenLogs(r, i)) \in Nat
    BY <2>1, <2>2, CardGrows
  <2>4. LogsOf(i) \subseteq SeenLogs(r, i)
    BY DEF SeenLogs
  <2> QED
    BY <2>3, <2>4, CardGrows
<1> QED
  BY <1>1, <1>2

\* A transaction whose own rows stay is only better backed as logs arrive.
LEMMA RepsGrow ==
    ASSUME NEW q \in Requests, TypeInv, PendingReps(q),
           IsFiniteSet(reviewLog'), reviewLog \subseteq reviewLog',
           buf'[q].card = buf[q].card, buf'[q].log = buf[q].log,
           pc'[q] = "card_write" =>
               /\ pc[q] = "card_write"
               /\ mem'[q] = mem[q] /\ req'[q] = req[q]
    PROVE  PendingReps(q)'
<1>1. IsFiniteSet(buf'[q].log)
  BY DEF PendingReps
<1>2. ASSUME NEW i
      PROVE  /\ Cardinality(SeenLogs(q, i)) \in Nat
             /\ Cardinality(SeenLogs(q, i)') \in Nat
             /\ Cardinality(SeenLogs(q, i)) <= Cardinality(SeenLogs(q, i)')
  <2>1. IsFiniteSet(reviewLog' \cup buf'[q].log)
    BY <1>1, FS_Union
  <2>2. SeenLogs(q, i)' \subseteq reviewLog' \cup buf'[q].log
    BY DEF SeenLogs, LogsOf, PendingLogs
  <2>3. IsFiniteSet(SeenLogs(q, i)')
    BY <2>1, <2>2, CardGrows
  <2>4. SeenLogs(q, i) \subseteq SeenLogs(q, i)'
    BY DEF SeenLogs, LogsOf, PendingLogs
  <2> QED
    BY <2>3, <2>4, CardGrows
<1>3. buf[q].card \in [Items -> Nat] /\ mem[q].snap \in Nat
  BY HandlerTyped DEF BufType, MemType
<1>4. ASSUME NEW i \in Items PROVE buf'[q].card[i] <= Cardinality(SeenLogs(q, i)')
  <2>1. buf[q].card[i] <= Cardinality(SeenLogs(q, i)) /\ buf[q].card[i] \in Nat
    BY <1>3 DEF PendingReps
  <2> QED
    BY <1>2, <2>1
<1>5. ASSUME pc'[q] = "card_write"
      PROVE  /\ \A i \in Items : i = Answer(q)'.item =>
                    mem'[q].snap <= Cardinality(SeenLogs(q, i)')
             /\ \A l \in buf'[q].log : l.id # <<q, mem'[q].k>>
  <2>1. Answer(q)' = Answer(q) /\ mem'[q] = mem[q]
    BY <1>5 DEF Answer
  <2>2. \A i \in Items :
            i = Answer(q).item => mem[q].snap <= Cardinality(SeenLogs(q, i))
    BY <1>5 DEF PendingReps
  <2>3. \A i \in Items :
            i = Answer(q).item => mem[q].snap <= Cardinality(SeenLogs(q, i)')
    BY <1>2, <1>3, <2>2
  <2> QED
    BY <1>5, <2>1, <2>3 DEF PendingReps
<1> QED
  BY <1>1, <1>4, <1>5 DEF PendingReps

LEMMA RepsRespond ==
    ASSUME TypeInv, RepsInv, HistoryInv, NEW r \in Requests, Respond(r)
    PROVE  PendingReps(r)'
<1> DEFINE i == Answer(r).item
<1>1. /\ reviewLog' = reviewLog /\ buf'[r].card = buf[r].card
      /\ buf'[r].log = buf[r].log /\ pc[r] = "respond"
      /\ mem'[r].k = mem[r].k
  BY TablesStay, BufFrame, MemFrame, ControlFlow
     DEF tables, WriteCard, Counters, MasteryWrite
<1>2. PendingReps(r) /\ PendingHistory(r) /\ IsFiniteSet(reviewLog)
      /\ \A j \in Items : card[j] <= Cardinality(LogsOf(j))
  BY DEF RepsInv, HistoryInv
<1>3. \A j : SeenLogs(r, j)' = SeenLogs(r, j)
  BY <1>1 DEF SeenLogs, LogsOf, PendingLogs
<1>4. Answer(r)' = Answer(r) /\ i \in Items
  BY RespondEffect DEF AnswerType
<1>5. pc'[r] = "card_write" =>
          mem'[r].snap <= Cardinality(SeenLogs(r, i))
  <2>1. pc'[r] = "card_write" =>
            mem'[r].snap = Overlay(buf[r].card[i], card[i])
    BY RespondEffect, ControlFlow
  <2>2. /\ Cardinality(SeenLogs(r, i)) \in Nat /\ Cardinality(LogsOf(i)) \in Nat
        /\ Cardinality(LogsOf(i)) <= Cardinality(SeenLogs(r, i))
    BY <1>2, LogsFinite DEF PendingReps
  <2>3. card[i] \in Nat /\ buf[r].card[i] \in Nat
    BY <1>4, HandlerTyped DEF BufType, TypeInv, TypeOK
  <2>4. buf[r].card[i] <= Cardinality(SeenLogs(r, i)) /\ card[i] <= Cardinality(LogsOf(i))
    BY <1>2, <1>4 DEF PendingReps
  <2> QED
    BY <2>1, <2>2, <2>3, <2>4 DEF Overlay
<1>6. \A l \in buf[r].log : l.id # <<r, mem[r].k>>
  <2>1. \A l \in buf[r].log : l.id[2] \in 1 .. Written(r)
    BY <1>2, PendingIds DEF PendingHistory
  <2>2. Written(r) = mem[r].k - 1 /\ mem[r].k \in Nat
    BY <1>1, HandlerTyped DEF Written, Responded, MemType
  <2> QED
    BY <2>1, <2>2
<1> QED
  BY <1>1, <1>2, <1>3, <1>4, <1>5, <1>6 DEF PendingReps

LEMMA RepsWriteCard ==
    ASSUME TypeInv, RepsInv, HistoryInv, NEW r \in Requests, WriteCard(r)
    PROVE  PendingReps(r)'
<1>0. PICK i \in Items : i = Answer(r).item
  BY WriteCardEffect
<1>1. /\ reviewLog' = reviewLog /\ pc[r] = "card_write" /\ pc'[r] = "global_row"
  BY TablesStay, ControlFlow DEF tables
<1>2. PICK l \in LogType : /\ l.id = <<r, mem[r].k>> /\ l.item = i
                           /\ buf'[r].log = buf[r].log \cup {l}
  BY <1>0, WriteCardEffect
<1>3. buf'[r].card = [buf[r].card EXCEPT ![i] = mem[r].snap + 1]
  BY <1>0, WriteCardEffect
<1>4. PendingReps(r) /\ IsFiniteSet(reviewLog)
  BY DEF RepsInv
<1>5. l \notin SeenLogs(r, i)
  <2>1. l \notin buf[r].log
    BY <1>1, <1>2, <1>4 DEF PendingReps
  <2>2. \A x \in reviewLog : x.id[1] # r
    BY <1>1 DEF HistoryInv, AllOrNothing, Whole, LoggedBy
  <2> QED
    BY <1>2, <2>1, <2>2 DEF SeenLogs, LogsOf, PendingLogs
<1>6. SeenLogs(r, i)' = SeenLogs(r, i) \cup {l}
  BY <1>1, <1>2 DEF SeenLogs, LogsOf, PendingLogs
<1>7. \A j : j # i => SeenLogs(r, j)' = SeenLogs(r, j)
  BY <1>1, <1>2 DEF SeenLogs, LogsOf, PendingLogs
<1>8. IsFiniteSet(SeenLogs(r, i)) /\ IsFiniteSet(buf[r].log)
  BY <1>4, LogsFinite DEF PendingReps
<1>9. Cardinality(SeenLogs(r, i)') = Cardinality(SeenLogs(r, i)) + 1
      /\ Cardinality(SeenLogs(r, i)) \in Nat
  BY <1>5, <1>6, <1>8, CardAdds
<1>10. IsFiniteSet(buf'[r].log)
  BY <1>2, <1>8, FS_AddElement
<1>11. /\ mem[r].snap <= Cardinality(SeenLogs(r, i)) /\ mem[r].snap \in Nat
       /\ buf[r].card \in [Items -> Nat]
  BY <1>0, <1>1, <1>4, HandlerTyped DEF PendingReps, MemType, BufType
<1>12. ASSUME NEW j \in Items PROVE buf'[r].card[j] <= Cardinality(SeenLogs(r, j)')
  <2>1. CASE j = i
    <3>1. buf'[r].card[j] = mem[r].snap + 1
      BY <1>3, <1>11, <2>1
    <3> QED
      BY <1>9, <1>11, <2>1, <3>1
  <2>2. CASE j # i
    BY <1>3, <1>4, <1>7, <1>11, <2>2 DEF PendingReps
  <2> QED
    BY <2>1, <2>2
<1> QED
  BY <1>1, <1>10, <1>12 DEF PendingReps

LEMMA RepsCommit ==
    ASSUME TypeInv, RepsInv, NEW r \in Requests, Commit(r)
    PROVE  RepsInv'
<1>1. IsFiniteSet(reviewLog') /\ reviewLog \subseteq reviewLog'
  <2>1. IsFiniteSet(reviewLog) /\ IsFiniteSet(buf[r].log)
    BY DEF RepsInv, PendingReps
  <2>2. reviewLog' = reviewLog \cup buf[r].log
    BY CommitEffect
  <2> QED
    BY <2>1, <2>2, FS_Union
<1>2. ASSUME NEW i \in Items PROVE card'[i] <= Cardinality(LogsOf(i)')
  <2>1. LogsOf(i)' = SeenLogs(r, i)
    BY CommitEffect DEF LogsOf, SeenLogs, PendingLogs
  <2>2. /\ Cardinality(SeenLogs(r, i)) \in Nat /\ Cardinality(LogsOf(i)) \in Nat
        /\ Cardinality(LogsOf(i)) <= Cardinality(SeenLogs(r, i))
    BY LogsFinite DEF RepsInv, PendingReps
  <2>3. card[i] \in Nat /\ buf[r].card[i] \in Nat
    BY HandlerTyped DEF BufType, TypeInv, TypeOK
  <2>4. buf[r].card[i] <= Cardinality(SeenLogs(r, i)) /\ card[i] <= Cardinality(LogsOf(i))
    BY DEF RepsInv, PendingReps
  <2> QED
    BY <2>1, <2>2, <2>3, <2>4, CommitEffect
<1>3. ASSUME NEW q \in Requests, q # r PROVE PendingReps(q)'
  BY <1>1, <1>3, CommitEffect, RepsGrow DEF RepsInv
<1>4. PendingReps(r)'
  <2>1. ASSUME NEW i \in Items PROVE Cardinality(SeenLogs(r, i)') \in Nat
    <3>1. SeenLogs(r, i)' \subseteq reviewLog'
      BY CommitEffect, FreshRows DEF SeenLogs, LogsOf, PendingLogs
    <3> QED
      BY <1>1, <3>1, CardGrows
  <2>2. buf'[r].log = {} /\ (\A i \in Items : buf'[r].card[i] = 0)
        /\ pc'[r] # "card_write"
    BY CommitEffect, FreshRows
  <2>3. IsFiniteSet(buf'[r].log)
    BY <2>2, FS_EmptySet
  <2> QED
    BY <2>1, <2>2, <2>3 DEF PendingReps
<1> QED
  BY <1>1, <1>2, <1>3, <1>4 DEF RepsInv

LEMMA RepsRollback ==
    ASSUME TypeInv, RepsInv, NEW r \in Requests, NEW l \in Ended, Rollback(r, l)
    PROVE  RepsInv'
<1>1. card' = card /\ reviewLog' = reviewLog /\ req' = req
  BY RollbackEffect DEF tables
<1>2. IsFiniteSet(reviewLog') /\ \A i \in Items : card'[i] <= Cardinality(LogsOf(i)')
  BY <1>1 DEF RepsInv, LogsOf
<1>3. ASSUME NEW q \in Requests, q # r PROVE PendingReps(q)'
  BY <1>1, <1>2, <1>3, RollbackEffect, RepsGrow DEF RepsInv
<1>4. PendingReps(r)'
  <2>1. ASSUME NEW i \in Items PROVE Cardinality(SeenLogs(r, i)') \in Nat
    <3>1. SeenLogs(r, i)' \subseteq reviewLog'
      BY RollbackEffect, FreshRows DEF SeenLogs, LogsOf, PendingLogs
    <3> QED
      BY <1>2, <3>1, CardGrows
  <2>2. buf'[r].log = {} /\ (\A i \in Items : buf'[r].card[i] = 0)
        /\ pc'[r] # "card_write"
    BY RollbackEffect, FreshRows DEF Ended
  <2>3. IsFiniteSet(buf'[r].log)
    BY <2>2, FS_EmptySet
  <2> QED
    BY <2>1, <2>2, <2>3 DEF PendingReps
<1> QED
  BY <1>2, <1>3, <1>4 DEF RepsInv

LEMMA InitRepsInv == Init => RepsInv
<1> SUFFICES ASSUME Init PROVE RepsInv
  OBVIOUS
<1>1. /\ reviewLog = {} /\ \A i \in Items : card[i] = 0
      /\ \A r \in Requests : buf[r] = NoWrites /\ pc[r] = "idle"
  BY DEF Init
<1>2. \A i : LogsOf(i) = {} /\ \A r \in Requests : SeenLogs(r, i) = {}
  BY <1>1, FreshRows DEF LogsOf, SeenLogs, PendingLogs
<1>3. IsFiniteSet({}) /\ Cardinality({}) = 0
  BY FS_EmptySet
<1>4. ASSUME NEW r \in Requests PROVE PendingReps(r)
  <2>1. /\ buf[r].log = {} /\ pc[r] = "idle"
        /\ \A i \in Items : buf[r].card[i] = 0
    BY <1>1, FreshRows
  <2>2. \A i \in Items : Cardinality(SeenLogs(r, i)) = 0
    BY <1>2, <1>3
  <2> QED
    BY <1>3, <2>1, <2>2 DEF PendingReps
<1> QED
  BY <1>1, <1>2, <1>3, <1>4 DEF RepsInv

LEMMA NextRepsInv == TypeInv /\ HistoryInv /\ RepsInv /\ [Next]_vars => RepsInv'
<1> SUFFICES ASSUME TypeInv, HistoryInv, RepsInv, [Next]_vars PROVE RepsInv'
  OBVIOUS
<1>1. ASSUME NEW r \in Requests, Arrive(r) \/ Step(r) \/ Crash(r),
             Quiet(r) \/ Respond(r) \/ WriteCard(r)
      PROVE  RepsInv'
  <2>1. card' = card /\ reviewLog' = reviewLog
    BY <1>1, TablesStay DEF tables
  <2>2. IsFiniteSet(reviewLog') /\ \A i \in Items : card'[i] <= Cardinality(LogsOf(i)')
    BY <2>1 DEF RepsInv, LogsOf
  <2>3. ASSUME NEW q \in Requests, q # r PROVE PendingReps(q)'
    BY <1>1, <2>1, <2>2, <2>3, OthersStay, RepsGrow DEF RepsInv
  <2>4. PendingReps(r)'
    <3>1. CASE Quiet(r)
      BY <2>1, <2>2, <3>1, QuietFrame, RepsGrow DEF RepsInv
    <3> QED
      BY <1>1, <3>1, RepsRespond, RepsWriteCard
  <2> QED
    BY <2>2, <2>3, <2>4 DEF RepsInv
<1>2. ASSUME NEW r \in Requests, Arrive(r) \/ Step(r) \/ Crash(r)
      PROVE  RepsInv'
  BY <1>1, <1>2, StepKinds, RepsCommit, RepsRollback
<1>3. CASE UNCHANGED <<tables, req, pc, mem, buf>>
  BY <1>3 DEF tables, RepsInv, PendingReps, SeenLogs, LogsOf, PendingLogs, Answer
<1>4. ASSUME NEW i \in Editable, NewVersion(i) \/ SoftDelete(i) \/ Retag(i)
      PROVE  RepsInv'
  BY <1>3, <1>4, AuthorFrame
<1> QED
  BY <1>2, <1>3, <1>4 DEF Next, vars

\* A card row exists exactly when a review of its item is logged, and its
\* repetitions never exceed the logged reviews, however many answers race for
\* the card and lose their update: Respond reads it unlocked, WriteCard stores
\* what it read plus one.
THEOREM CardsBacked == Spec => []CardsFollowLog
<1>1. TypeInv /\ CardInv /\ RepsInv => CardsFollowLog
  <2> SUFFICES ASSUME TypeInv, CardInv, RepsInv, NEW i \in Items
               PROVE  /\ card[i] > 0 <=> LogsOf(i) # {}
                      /\ card[i] <= Cardinality(LogsOf(i))
    BY DEF CardsFollowLog
  <2>1. card[i] > 0 => LogsOf(i) # {}
    BY DEF CardInv, CommittedCards, IntroducedIn, LogsOf
  <2>2. LogsOf(i) # {} => card[i] > 0
    BY DEF CardInv, CommittedCards, LogsOf
  <2> QED
    BY <2>1, <2>2 DEF RepsInv
<1> QED
  BY <1>1, InitTypeInv, NextTypeInv, InitCardInv, NextCardInv, InitHistoryInv,
     NextHistoryInv, InitRepsInv, NextRepsInv, PTL DEF Spec


-----------------------------------------------------------------------------
(* Session counters.  A handler's counters run ahead of the stored ones by   *)
(* the answers of its batch it has counted, which are still uncommitted.     *)

CountedUpTo(r) ==
    IF pc[r] \in {"mastery_read", "mastery_write", "commit"}
    THEN mem[r].k ELSE mem[r].k - 1

CountedAnswers(r) == {x \in buf[r].responses : x.id[2] <= CountedUpTo(r)}

SeenResponses(r, s) == ResponsesOf(s) \cup CountedAnswers(r)

PendingKinds(r) ==
    \A x \in buf[r].responses : x.kind = req[r].answers[x.id[2]].kind

PendingCounts(r) ==
    /\ IsFiniteSet(buf[r].responses)
    /\ PendingKinds(r)
    /\ mem[r].correct + mem[r].skipped <= mem[r].delivered
    /\ \A s \in Sessions :
           s = req[r].session =>
               /\ mem[r].delivered <= Cardinality(SeenResponses(r, s))
               /\ mem[r].correct <= Cardinality(Correct(SeenResponses(r, s)))
               /\ mem[r].skipped <= Cardinality(Skipped(SeenResponses(r, s)))

CountsInv ==
    /\ IsFiniteSet(responses)
    /\ CountersBacked
    /\ \A r \in Requests : PendingCounts(r)

\* Outside an answer request there is nothing to count.
LEMMA NothingPending ==
    ASSUME TypeInv, HistoryInv, NEW r \in Requests,
           ~(Active(r) /\ req[r].op = "answer")
    PROVE  buf[r].responses = {} /\ CountedAnswers(r) = {}
BY DEF HistoryInv, PendingHistory, CountedAnswers

LEMMA CountedStay ==
    ASSUME TypeInv, TypeInv', HistoryInv, HistoryInv', NEW r \in Requests,
           Quiet(r) \/ Respond(r) \/ WriteCard(r), ~Counters(r)
    PROVE  CountedAnswers(r)' = CountedAnswers(r)
<1>1. CASE ~Respond(r) /\ ~(Active(r) /\ req[r].op = "answer")
  <2>1. buf'[r].responses = buf[r].responses
    BY <1>1, BufFrame
  <2> QED
    BY <1>1, <2>1, NothingPending DEF CountedAnswers
<1>2. CASE Respond(r)
  <2>1. /\ pc[r] = "respond" /\ pc'[r] \in {"counters", "card_write"}
        /\ mem'[r].k = mem[r].k /\ mem[r].k \in Nat
    BY <1>2, ControlFlow, MemFrame, HandlerTyped DEF Counters, MasteryWrite, MemType
  <2>2. CountedUpTo(r) = mem[r].k - 1 /\ CountedUpTo(r)' = mem[r].k - 1
    BY <2>1 DEF CountedUpTo
  <2>3. PICK x : /\ x.id = <<r, mem[r].k>>
                 /\ buf'[r].responses = buf[r].responses \cup {x}
    BY <1>2, RespondEffect
  <2>4. x.id[2] = mem[r].k
    BY <2>3
  <2> QED
    BY <2>1, <2>2, <2>3, <2>4 DEF CountedAnswers
<1>3. CASE ~Respond(r) /\ Active(r) /\ req[r].op = "answer"
  <2>1. buf'[r].responses = buf[r].responses
    BY <1>3, BufFrame
  <2>2. CountedUpTo(r)' = CountedUpTo(r)
    <3>1. CASE MasteryWrite(r)
      <4>1. /\ pc[r] = "mastery_write"
            /\ \/ pc'[r] = "item" /\ mem'[r].k = mem[r].k + 1
               \/ pc'[r] = "commit" /\ mem'[r] = mem[r]
        BY <3>1, ControlFlow, MasteryWriteEffect
      <4>2. mem[r].k \in Nat
        BY HandlerTyped DEF MemType
      <4> QED
        BY <4>1, <4>2 DEF CountedUpTo
    <3>2. CASE ~MasteryWrite(r)
      <4>1. mem'[r].k = mem[r].k
        BY <3>2, MemFrame
      <4>2. ~Close(r) /\ ~Arrive(r) /\ req[r].op # "start"
        BY <1>3, HandlerTyped DEF Close, Arrive, ControlOf, Active, Statements
      <4>3. GlobalTheta(r) => pc'[r] # "commit"
        BY <4>2 DEF GlobalTheta, Goto, TypeInv, TypeOK
      <4>4. TopicTheta(r) \/ InsertTopicTheta(r) => pc'[r] # "commit"
        BY <4>2 DEF TopicTheta, InsertTopicTheta, AfterTopic, Goto, TypeInv, TypeOK
      <4>5. pc[r] \in {"mastery_read", "mastery_write", "commit"} <=>
                pc'[r] \in {"mastery_read", "mastery_write", "commit"}
        BY <1>3, <3>2, <4>2, <4>3, <4>4, ControlFlow DEF Quiet
      <4> QED
        BY <4>1, <4>5 DEF CountedUpTo
    <3> QED
      BY <3>1, <3>2
  <2> QED
    BY <2>1, <2>2 DEF CountedAnswers
<1> QED
  BY <1>1, <1>2, <1>3

LEMMA CountedAdds ==
    ASSUME TypeInv, HistoryInv, NEW r \in Requests, Counters(r),
           PendingKinds(r)
    PROVE  \E x \in buf[r].responses :
               /\ x.id = <<r, mem[r].k>> /\ x \notin responses
               /\ x.kind = Answer(r).kind /\ x.session = req[r].session
               /\ x \notin CountedAnswers(r)
               /\ CountedAnswers(r)' = CountedAnswers(r) \cup {x}
<1>1. /\ pc[r] = "counters" /\ Active(r) /\ req[r].op = "answer"
      /\ mem[r].k \in Nat \ {0}
  BY ControlFlow, HandlerTyped DEF ControlOf, Grading, Active, Statements, MemType
<1>2. PendingHistory(r) /\ Written(r) = mem[r].k
  BY <1>1 DEF HistoryInv, Written, Responded
<1>3. <<r, mem[r].k>> \in {x.id : x \in buf[r].responses}
  <2>1. {x.id : x \in buf[r].responses} = {r} \X (1 .. mem[r].k)
    BY <1>1, <1>2 DEF PendingHistory
  <2>2. mem[r].k \in 1 .. mem[r].k
    BY <1>1
  <2> QED
    BY <2>1, <2>2
<1>4. PICK x \in buf[r].responses : x.id = <<r, mem[r].k>>
  BY <1>3
<1>5. x.kind = Answer(r).kind /\ x.session = req[r].session
  BY <1>2, <1>4 DEF PendingKinds, PendingHistory, Answer
<1>6. x \notin responses
  BY <1>1, <1>4 DEF HistoryInv, AllOrNothing, Whole, Kept
<1>7. CountedUpTo(r) = mem[r].k - 1 /\ CountedUpTo(r)' = mem[r].k
  BY <1>1, CountersEffect DEF CountedUpTo
<1>8. buf'[r].responses = buf[r].responses
  BY BufFrame DEF Quiet, Respond, Counters
<1>9. \A y \in buf[r].responses : y.id[2] \in Nat /\ y.id = <<r, y.id[2]>>
  BY <1>1, <1>2, PendingIds
<1>10. \A y \in buf[r].responses : y.id[2] = mem[r].k => y = x
  BY <1>2, <1>4, <1>9 DEF PendingHistory
<1>11. x.id[2] = mem[r].k
  BY <1>4
<1> QED
  BY <1>1, <1>4, <1>5, <1>6, <1>7, <1>8, <1>9, <1>10, <1>11 DEF CountedAnswers

LEMMA KindsNext ==
    ASSUME TypeInv, HistoryInv, NEW r \in Requests, PendingKinds(r),
           Quiet(r) \/ Respond(r) \/ WriteCard(r)
    PROVE  PendingKinds(r)'
<1>1. CASE Arrive(r)
  <2>1. buf'[r].responses = {}
    BY <1>1, BufFrame, NothingPending DEF Arrive, Respond, Active, Statements, Quiet
  <2> QED
    BY <2>1 DEF PendingKinds
<1>2. CASE Respond(r)
  <2>1. PICK x : /\ x.id = <<r, mem[r].k>> /\ x.kind = Answer(r).kind
                 /\ buf'[r].responses = buf[r].responses \cup {x}
    BY <1>2, RespondEffect
  <2>2. req' = req
    BY <1>2, TablesStay DEF Arrive, Respond
  <2> QED
    BY <2>1, <2>2 DEF PendingKinds, Answer
<1>3. CASE ~Arrive(r) /\ ~Respond(r)
  <2>1. req' = req /\ buf'[r].responses = buf[r].responses
    BY <1>3, TablesStay, BufFrame
  <2> QED
    BY <2>1 DEF PendingKinds
<1> QED
  BY <1>1, <1>2, <1>3

LEMMA SeenFinite ==
    ASSUME IsFiniteSet(responses), NEW r, IsFiniteSet(buf[r].responses), NEW s
    PROVE  /\ IsFiniteSet(SeenResponses(r, s))
           /\ IsFiniteSet(Correct(SeenResponses(r, s)))
           /\ IsFiniteSet(Skipped(SeenResponses(r, s)))
<1>1. IsFiniteSet(responses \cup buf[r].responses)
  BY FS_Union
<1>2. /\ SeenResponses(r, s) \subseteq responses \cup buf[r].responses
      /\ Correct(SeenResponses(r, s)) \subseteq responses \cup buf[r].responses
      /\ Skipped(SeenResponses(r, s)) \subseteq responses \cup buf[r].responses
  BY DEF SeenResponses, ResponsesOf, CountedAnswers, Correct, Skipped
<1> QED
  BY <1>1, <1>2, CardGrows

LEMMA ResponsesFinite ==
    ASSUME IsFiniteSet(responses), NEW s
    PROVE  /\ IsFiniteSet(ResponsesOf(s))
           /\ IsFiniteSet(Correct(ResponsesOf(s)))
           /\ IsFiniteSet(Skipped(ResponsesOf(s)))
<1>1. /\ ResponsesOf(s) \subseteq responses
      /\ Correct(ResponsesOf(s)) \subseteq responses
      /\ Skipped(ResponsesOf(s)) \subseteq responses
  BY DEF ResponsesOf, Correct, Skipped
<1> QED
  BY <1>1, CardGrows


\* Counters already backed stay backed while the history around them grows.
LEMMA CountsGrow ==
    ASSUME TypeInv, NEW q \in Requests, PendingCounts(q),
           IsFiniteSet(responses'), responses \subseteq responses',
           IsFiniteSet(buf'[q].responses), PendingKinds(q)',
           CountedAnswers(q) \subseteq CountedAnswers(q)',
           mem'[q].delivered = mem[q].delivered,
           mem'[q].correct = mem[q].correct,
           mem'[q].skipped = mem[q].skipped,
           req'[q] = req[q]
    PROVE  PendingCounts(q)'
<1>1. /\ mem[q].delivered \in Nat /\ mem[q].correct \in Nat /\ mem[q].skipped \in Nat
      /\ mem[q].correct + mem[q].skipped <= mem[q].delivered
  BY HandlerTyped DEF MemType, PendingCounts
<1>2. ASSUME NEW s \in Sessions, s = req[q].session
      PROVE  /\ mem[q].delivered <= Cardinality(SeenResponses(q, s)')
             /\ mem[q].correct <= Cardinality(Correct(SeenResponses(q, s))')
             /\ mem[q].skipped <= Cardinality(Skipped(SeenResponses(q, s))')
  <2>1. /\ SeenResponses(q, s) \subseteq SeenResponses(q, s)'
        /\ Correct(SeenResponses(q, s)) \subseteq Correct(SeenResponses(q, s))'
        /\ Skipped(SeenResponses(q, s)) \subseteq Skipped(SeenResponses(q, s))'
    BY DEF SeenResponses, ResponsesOf, Correct, Skipped
  <2>2. /\ IsFiniteSet(SeenResponses(q, s)')
        /\ IsFiniteSet(Correct(SeenResponses(q, s))')
        /\ IsFiniteSet(Skipped(SeenResponses(q, s))')
    <3>1. IsFiniteSet(responses' \cup buf'[q].responses)
      BY FS_Union
    <3>2. /\ SeenResponses(q, s)' \subseteq responses' \cup buf'[q].responses
          /\ Correct(SeenResponses(q, s))' \subseteq responses' \cup buf'[q].responses
          /\ Skipped(SeenResponses(q, s))' \subseteq responses' \cup buf'[q].responses
      BY DEF SeenResponses, ResponsesOf, CountedAnswers, Correct, Skipped
    <3> QED
      BY <3>1, <3>2, CardGrows
  <2>3. /\ mem[q].delivered <= Cardinality(SeenResponses(q, s))
        /\ mem[q].correct <= Cardinality(Correct(SeenResponses(q, s)))
        /\ mem[q].skipped <= Cardinality(Skipped(SeenResponses(q, s)))
    BY <1>2 DEF PendingCounts
  <2>4. mem[q].delivered <= Cardinality(SeenResponses(q, s)')
    BY <1>1, <2>1, <2>2, <2>3, CardGrows
  <2>5. mem[q].correct <= Cardinality(Correct(SeenResponses(q, s))')
    BY <1>1, <2>1, <2>2, <2>3, CardGrows
  <2>6. mem[q].skipped <= Cardinality(Skipped(SeenResponses(q, s))')
    BY <1>1, <2>1, <2>2, <2>3, CardGrows
  <2> QED
    BY <2>4, <2>5, <2>6
<1> QED
  BY <1>1, <1>2 DEF PendingCounts

\* A handler without an answer of its own has read what is stored, or nothing.
LEMMA CountsRead ==
    ASSUME TypeInv, CountsInv, NEW q \in Requests, PendingKinds(q)',
           UNCHANGED responses, buf'[q].responses = {},
           \/ /\ mem'[q].delivered = 0 /\ mem'[q].correct = 0
              /\ mem'[q].skipped = 0
           \/ /\ req' = req
              /\ mem'[q].delivered = session[req[q].session].delivered
              /\ mem'[q].correct = session[req[q].session].correct
              /\ mem'[q].skipped = session[req[q].session].skipped
    PROVE  PendingCounts(q)'
<1>1. IsFiniteSet(responses) /\ IsFiniteSet(buf'[q].responses)
  BY FS_EmptySet DEF CountsInv
<1>2. CountedAnswers(q)' = {}
  BY DEF CountedAnswers
<1>3. \A s : SeenResponses(q, s)' = ResponsesOf(s)
  BY <1>2 DEF SeenResponses, ResponsesOf
<1>4. \A s : /\ Cardinality(ResponsesOf(s)) \in Nat
             /\ Cardinality(Correct(ResponsesOf(s))) \in Nat
             /\ Cardinality(Skipped(ResponsesOf(s))) \in Nat
  BY <1>1, ResponsesFinite, FS_CardinalityType
<1>5. \A s : /\ Correct(SeenResponses(q, s))' = Correct(ResponsesOf(s))
             /\ Skipped(SeenResponses(q, s))' = Skipped(ResponsesOf(s))
  BY <1>3 DEF Correct, Skipped
<1>6. CASE /\ mem'[q].delivered = 0 /\ mem'[q].correct = 0
           /\ mem'[q].skipped = 0
  BY <1>1, <1>3, <1>4, <1>5, <1>6 DEF PendingCounts
<1>7. CASE /\ req' = req
           /\ mem'[q].delivered = session[req[q].session].delivered
           /\ mem'[q].correct = session[req[q].session].correct
           /\ mem'[q].skipped = session[req[q].session].skipped
  <2>1. PICK s \in Sessions : s = req[q].session
    BY HandlerTyped DEF RequestType
  <2>2. /\ session[s].delivered <= Cardinality(ResponsesOf(s))
        /\ session[s].correct <= Cardinality(Correct(ResponsesOf(s)))
        /\ session[s].skipped <= Cardinality(Skipped(ResponsesOf(s)))
        /\ session[s].correct + session[s].skipped <= session[s].delivered
    BY DEF CountsInv, CountersBacked
  <2> QED
    BY <1>1, <1>3, <1>5, <1>7, <2>1, <2>2 DEF PendingCounts
<1> QED
  BY <1>6, <1>7

\* One more answer counted, one more answer to show for it.
LEMMA CountsCounters ==
    ASSUME TypeInv, HistoryInv, CountsInv, NEW r \in Requests, Counters(r)
    PROVE  PendingCounts(r)'
<1>1. PendingCounts(r) /\ IsFiniteSet(responses)
  BY DEF CountsInv
<1>2. PICK x \in buf[r].responses :
               /\ x \notin responses
               /\ x.kind = Answer(r).kind /\ x.session = req[r].session
               /\ x \notin CountedAnswers(r)
               /\ CountedAnswers(r)' = CountedAnswers(r) \cup {x}
  BY <1>1, CountedAdds DEF PendingCounts
<1>3. /\ responses' = responses /\ req' = req
      /\ buf'[r].responses = buf[r].responses
  BY TablesStay, BufFrame DEF tables, Arrive, Counters, Respond, Quiet
<1>4. PendingKinds(r)'
  BY <1>1, KindsNext DEF PendingCounts, Quiet
<1>5. PICK s \in Sessions : s = req[r].session
  BY HandlerTyped DEF RequestType
<1> DEFINE D == SeenResponses(r, s)
           C == Correct(SeenResponses(r, s))
           K == Skipped(SeenResponses(r, s))
<1>6. IsFiniteSet(D) /\ IsFiniteSet(C) /\ IsFiniteSet(K)
  BY <1>1, SeenFinite DEF PendingCounts
<1>7. x \notin D
  BY <1>2 DEF SeenResponses, ResponsesOf
<1>8. SeenResponses(r, s)' = D \cup {x}
  BY <1>2, <1>3 DEF SeenResponses, ResponsesOf
<1>9. /\ Correct(SeenResponses(r, s))' = IF x.kind = "correct" THEN C \cup {x} ELSE C
      /\ Skipped(SeenResponses(r, s))' = IF x.kind = "skip" THEN K \cup {x} ELSE K
  BY <1>8 DEF Correct, Skipped
<1>10. x \notin C /\ x \notin K
  BY <1>7 DEF Correct, Skipped
<1>11. /\ mem[r].delivered \in Nat /\ mem[r].correct \in Nat /\ mem[r].skipped \in Nat
       /\ mem[r].correct + mem[r].skipped <= mem[r].delivered
       /\ mem[r].delivered <= Cardinality(D)
       /\ mem[r].correct <= Cardinality(C)
       /\ mem[r].skipped <= Cardinality(K)
  BY <1>1, <1>5, HandlerTyped DEF MemType, PendingCounts
<1>12. /\ mem'[r].delivered = mem[r].delivered + 1
       /\ mem'[r].correct = mem[r].correct + (IF x.kind = "correct" THEN 1 ELSE 0)
       /\ mem'[r].skipped = mem[r].skipped + (IF x.kind = "skip" THEN 1 ELSE 0)
  BY <1>2, CountersEffect
<1>13. /\ Cardinality(D \cup {x}) = Cardinality(D) + 1
       /\ Cardinality(C \cup {x}) = Cardinality(C) + 1
       /\ Cardinality(K \cup {x}) = Cardinality(K) + 1
       /\ Cardinality(D) \in Nat /\ Cardinality(C) \in Nat /\ Cardinality(K) \in Nat
  BY <1>6, <1>7, <1>10, CardAdds
<1>14. mem'[r].correct + mem'[r].skipped <= mem'[r].delivered
  BY <1>11, <1>12
<1> HIDE DEF D, C, K
<1>15. /\ mem'[r].delivered <= Cardinality(SeenResponses(r, s)')
       /\ mem'[r].correct <= Cardinality(Correct(SeenResponses(r, s))')
       /\ mem'[r].skipped <= Cardinality(Skipped(SeenResponses(r, s))')
  BY <1>8, <1>9, <1>11, <1>12, <1>13
<1> QED
  BY <1>1, <1>3, <1>4, <1>5, <1>14, <1>15 DEF PendingCounts


LEMMA LoadEffect ==
    ASSUME TypeInv, NEW r \in Requests, Load(r)
    PROVE  /\ mem'[r].delivered = session[req[r].session].delivered
           /\ mem'[r].correct = session[req[r].session].correct
           /\ mem'[r].skipped = session[req[r].session].skipped
           /\ session[req[r].session].status = "in_progress"
<1> DEFINE c == session[req[r].session]
<1>1. mem'[r] = [mem[r] EXCEPT !.delivered = c.delivered, !.correct = c.correct,
                               !.skipped = c.skipped]
  BY DEF Load, TypeInv, TypeOK
<1>2. mem[r] \in MemType
  BY HandlerTyped
<1> HIDE DEF c
<1>3. mem'[r].delivered = c.delivered /\ mem'[r].correct = c.correct
      /\ mem'[r].skipped = c.skipped
  BY <1>1, <1>2 DEF MemType
<1>4. c.status = "in_progress"
  BY DEF Load, c
<1> QED
  BY <1>3, <1>4 DEF c

\* The counters a commit stores.
LEMMA WrittenCounts ==
    ASSUME TypeInv, NEW r \in Requests
    PROVE  LET w == WrittenSession(r) IN
           /\ req[r].op = "start" =>
                  w.delivered = 0 /\ w.correct = 0 /\ w.skipped = 0
           /\ req[r].op = "finish" \/ (req[r].op = "answer" /\ ~buf[r].session) =>
                  /\ w.delivered = session[req[r].session].delivered
                  /\ w.correct = session[req[r].session].correct
                  /\ w.skipped = session[req[r].session].skipped
           /\ req[r].op = "answer" /\ buf[r].session =>
                  /\ w.delivered = mem[r].delivered
                  /\ w.correct = mem[r].correct
                  /\ w.skipped = mem[r].skipped
<1> DEFINE s == session[req[r].session]
<1>1. s \in SessionType
  BY HandlerTyped
<1>2. WrittenSession(r) =
          IF req[r].op = "start"
          THEN [status |-> "in_progress", delivered |-> 0, correct |-> 0,
                skipped |-> 0, net |-> 0]
          ELSE IF ~buf[r].session THEN s
          ELSE IF req[r].op = "finish"
          THEN [s EXCEPT !.status = "completed", !.net = Net(mem[r])]
          ELSE [s EXCEPT !.delivered = mem[r].delivered,
                         !.correct = mem[r].correct, !.skipped = mem[r].skipped]
  BY DEF WrittenSession
<1> HIDE DEF s
<1>3. \A x, y, z :
          /\ [s EXCEPT !.status = x, !.net = y].delivered = s.delivered
          /\ [s EXCEPT !.status = x, !.net = y].correct = s.correct
          /\ [s EXCEPT !.status = x, !.net = y].skipped = s.skipped
          /\ [s EXCEPT !.delivered = x, !.correct = y, !.skipped = z].delivered = x
          /\ [s EXCEPT !.delivered = x, !.correct = y, !.skipped = z].correct = y
          /\ [s EXCEPT !.delivered = x, !.correct = y, !.skipped = z].skipped = z
  BY <1>1 DEF SessionType
<1>4. CASE req[r].op = "start"
  BY <1>2, <1>4
<1>5. CASE req[r].op # "start" /\ ~buf[r].session
  BY <1>2, <1>5 DEF s
<1>6. CASE req[r].op = "finish" /\ buf[r].session
  BY <1>2, <1>3, <1>6 DEF s
<1>7. CASE req[r].op \notin {"start", "finish"} /\ buf[r].session
  BY <1>2, <1>3, <1>7
<1> QED
  BY <1>4, <1>5, <1>6, <1>7

LEMMA CountsCommit ==
    ASSUME TypeInv, HistoryInv, CountsInv, NEW r \in Requests, Commit(r)
    PROVE  CountsInv'
<1>1. IsFiniteSet(responses') /\ responses \subseteq responses'
  <2>1. IsFiniteSet(responses) /\ IsFiniteSet(buf[r].responses)
    BY DEF CountsInv, PendingCounts
  <2>2. responses' = responses \cup buf[r].responses
    BY CommitEffect
  <2> QED
    BY <2>1, <2>2, FS_Union
<1>2. \A s : /\ ResponsesOf(s) \subseteq ResponsesOf(s)'
             /\ Correct(ResponsesOf(s)) \subseteq Correct(ResponsesOf(s))'
             /\ Skipped(ResponsesOf(s)) \subseteq Skipped(ResponsesOf(s))'
  BY <1>1 DEF ResponsesOf, Correct, Skipped
<1>3. \A s : /\ IsFiniteSet(ResponsesOf(s)') /\ IsFiniteSet(Correct(ResponsesOf(s))')
             /\ IsFiniteSet(Skipped(ResponsesOf(s))')
  <2>1. \A s : /\ ResponsesOf(s)' \subseteq responses'
               /\ Correct(ResponsesOf(s))' \subseteq responses'
               /\ Skipped(ResponsesOf(s))' \subseteq responses'
    BY DEF ResponsesOf, Correct, Skipped
  <2> QED
    BY <1>1, <2>1, CardGrows
<1>4. ASSUME NEW s \in Sessions
      PROVE  LET c == session[s] IN
             /\ c.delivered <= Cardinality(ResponsesOf(s)')
             /\ c.correct <= Cardinality(Correct(ResponsesOf(s))')
             /\ c.skipped <= Cardinality(Skipped(ResponsesOf(s))')
             /\ c.correct + c.skipped <= c.delivered
  <2>1. /\ session[s].delivered \in Nat /\ session[s].correct \in Nat
        /\ session[s].skipped \in Nat
    BY DEF TypeInv, TypeOK, SessionType
  <2>2. /\ session[s].delivered <= Cardinality(ResponsesOf(s))
        /\ session[s].correct <= Cardinality(Correct(ResponsesOf(s)))
        /\ session[s].skipped <= Cardinality(Skipped(ResponsesOf(s)))
        /\ session[s].correct + session[s].skipped <= session[s].delivered
    BY DEF CountsInv, CountersBacked
  <2>3. session[s].delivered <= Cardinality(ResponsesOf(s)')
    BY <1>2, <1>3, <2>1, <2>2, CardGrows
  <2>4. session[s].correct <= Cardinality(Correct(ResponsesOf(s))')
    BY <1>2, <1>3, <2>1, <2>2, CardGrows
  <2>5. session[s].skipped <= Cardinality(Skipped(ResponsesOf(s))')
    BY <1>2, <1>3, <2>1, <2>2, CardGrows
  <2> QED
    BY <2>2, <2>3, <2>4, <2>5
<1>5. PICK t \in Sessions : t = req[r].session
  BY HandlerTyped DEF RequestType
<1>6. ASSUME req[r].op = "answer", buf[r].session PROVE CountersBacked'
  <2>1. CountedAnswers(r) \subseteq buf[r].responses
        /\ \A x \in buf[r].responses : x.session = t
    BY <1>5 DEF CountedAnswers, HistoryInv, PendingHistory
  <2>2. SeenResponses(r, t) \subseteq ResponsesOf(t)'
    BY <2>1, CommitEffect DEF SeenResponses, ResponsesOf
  <2>3. /\ Correct(SeenResponses(r, t)) \subseteq Correct(ResponsesOf(t))'
        /\ Skipped(SeenResponses(r, t)) \subseteq Skipped(ResponsesOf(t))'
    BY <2>2 DEF Correct, Skipped
  <2>4. /\ mem[r].delivered \in Nat /\ mem[r].correct \in Nat
        /\ mem[r].skipped \in Nat
        /\ mem[r].correct + mem[r].skipped <= mem[r].delivered
        /\ mem[r].delivered <= Cardinality(SeenResponses(r, t))
        /\ mem[r].correct <= Cardinality(Correct(SeenResponses(r, t)))
        /\ mem[r].skipped <= Cardinality(Skipped(SeenResponses(r, t)))
    BY <1>5, HandlerTyped DEF MemType, CountsInv, PendingCounts
  <2>5. mem[r].delivered <= Cardinality(ResponsesOf(t)')
    BY <1>3, <2>2, <2>4, CardGrows
  <2>6. mem[r].correct <= Cardinality(Correct(ResponsesOf(t))')
    BY <1>3, <2>3, <2>4, CardGrows
  <2>7. mem[r].skipped <= Cardinality(Skipped(ResponsesOf(t))')
    BY <1>3, <2>3, <2>4, CardGrows
  <2>8. /\ session'[t].delivered = mem[r].delivered
        /\ session'[t].correct = mem[r].correct
        /\ session'[t].skipped = mem[r].skipped
    BY <1>5, <1>6, CommitFrame, WrittenCounts
  <2>9. \A s \in Sessions : s # t => session'[s] = session[s]
    BY <1>5, CommitFrame
  <2> QED
    BY <1>4, <2>4, <2>5, <2>6, <2>7, <2>8, <2>9 DEF CountersBacked
<1>7. ASSUME ~(req[r].op = "answer" /\ buf[r].session) PROVE CountersBacked'
  <2>1. \/ /\ session'[t].delivered = 0 /\ session'[t].correct = 0
           /\ session'[t].skipped = 0
        \/ /\ session'[t].delivered = session[t].delivered
           /\ session'[t].correct = session[t].correct
           /\ session'[t].skipped = session[t].skipped
    BY <1>5, <1>7, CommitFrame, WrittenCounts
  <2>2. \A s \in Sessions : s # t => session'[s] = session[s]
    BY <1>5, CommitFrame
  <2>3. \A s : /\ Cardinality(ResponsesOf(s)') \in Nat
               /\ Cardinality(Correct(ResponsesOf(s))') \in Nat
               /\ Cardinality(Skipped(ResponsesOf(s))') \in Nat
    BY <1>3, FS_CardinalityType
  <2> QED
    BY <1>4, <2>1, <2>2, <2>3 DEF CountersBacked
<1>8. CountersBacked'
  BY <1>6, <1>7
<1>9. ASSUME NEW q \in Requests, q # r PROVE PendingCounts(q)'
  <2>1. PendingCounts(q) /\ buf'[q] = buf[q] /\ mem'[q] = mem[q] /\ req' = req
        /\ pc'[q] = pc[q]
    BY <1>9, CommitEffect DEF CountsInv
  <2>2. PendingKinds(q)' /\ CountedAnswers(q)' = CountedAnswers(q)
    BY <2>1 DEF PendingCounts, PendingKinds, CountedAnswers, CountedUpTo
  <2>3. IsFiniteSet(buf'[q].responses)
    BY <2>1 DEF PendingCounts
  <2> QED
    BY <1>1, <2>1, <2>2, <2>3, CountsGrow
<1>10. PendingCounts(r)'
  <2>1. /\ buf'[r].responses = {} /\ mem'[r].delivered = 0
        /\ mem'[r].correct = 0 /\ mem'[r].skipped = 0
    BY CommitEffect, FreshRows
  <2>2. IsFiniteSet({})
    BY FS_EmptySet
  <2>3. ASSUME NEW s \in Sessions
        PROVE  /\ Cardinality(SeenResponses(r, s)') \in Nat
               /\ Cardinality(Correct(SeenResponses(r, s))') \in Nat
               /\ Cardinality(Skipped(SeenResponses(r, s))') \in Nat
    <3>1. SeenResponses(r, s)' = ResponsesOf(s)'
      BY <2>1 DEF SeenResponses, CountedAnswers
    <3>2. /\ Correct(SeenResponses(r, s))' = Correct(ResponsesOf(s))'
          /\ Skipped(SeenResponses(r, s))' = Skipped(ResponsesOf(s))'
      BY <3>1 DEF Correct, Skipped
    <3> QED
      BY <1>3, <3>1, <3>2, FS_CardinalityType
  <2> QED
    BY <2>1, <2>2, <2>3 DEF PendingCounts, PendingKinds
<1> QED
  BY <1>1, <1>8, <1>9, <1>10 DEF CountsInv

LEMMA CountsRollback ==
    ASSUME TypeInv, CountsInv, NEW r \in Requests, NEW l \in Ended, Rollback(r, l)
    PROVE  CountsInv'
<1>1. responses' = responses /\ session' = session /\ req' = req
  BY RollbackEffect DEF tables
<1>2. IsFiniteSet(responses') /\ CountersBacked'
  BY <1>1 DEF CountsInv, CountersBacked, ResponsesOf, Correct, Skipped
<1>3. ASSUME NEW q \in Requests, q # r PROVE PendingCounts(q)'
  <2>1. PendingCounts(q) /\ buf'[q] = buf[q] /\ mem'[q] = mem[q] /\ pc'[q] = pc[q]
    BY <1>3, RollbackEffect DEF CountsInv
  <2>2. PendingKinds(q)' /\ CountedAnswers(q)' = CountedAnswers(q)
    BY <1>1, <2>1 DEF PendingCounts, PendingKinds, CountedAnswers, CountedUpTo
  <2>3. IsFiniteSet(buf'[q].responses)
    BY <2>1 DEF PendingCounts
  <2> QED
    BY <1>1, <1>2, <2>1, <2>2, <2>3, CountsGrow
<1>4. PendingCounts(r)'
  <2>1. /\ buf'[r].responses = {} /\ mem'[r].delivered = 0
        /\ mem'[r].correct = 0 /\ mem'[r].skipped = 0
    BY RollbackEffect, FreshRows
  <2>2. PendingKinds(r)'
    BY <2>1 DEF PendingKinds
  <2> QED
    BY <1>1, <2>1, <2>2, CountsRead
<1> QED
  BY <1>2, <1>3, <1>4 DEF CountsInv

LEMMA CountsQuiet ==
    ASSUME TypeInv, TypeInv', HistoryInv, HistoryInv', CountsInv,
           NEW r \in Requests, Arrive(r) \/ Step(r) \/ Crash(r),
           Quiet(r) \/ Respond(r) \/ WriteCard(r)
    PROVE  CountsInv'
<1>1. responses' = responses /\ session' = session
  BY TablesStay DEF tables
<1>2. IsFiniteSet(responses') /\ CountersBacked'
  BY <1>1 DEF CountsInv, CountersBacked, ResponsesOf, Correct, Skipped
<1>3. ASSUME NEW q \in Requests, q # r PROVE PendingCounts(q)'
  <2>1. PendingCounts(q) /\ buf'[q] = buf[q] /\ mem'[q] = mem[q] /\ pc'[q] = pc[q]
        /\ req'[q] = req[q]
    BY <1>3, OthersStay DEF CountsInv
  <2>2. PendingKinds(q)' /\ CountedAnswers(q)' = CountedAnswers(q)
    BY <2>1 DEF PendingCounts, PendingKinds, CountedAnswers, CountedUpTo
  <2>3. IsFiniteSet(buf'[q].responses)
    BY <2>1 DEF PendingCounts
  <2> QED
    BY <1>1, <1>2, <2>1, <2>2, <2>3, CountsGrow
<1>4. PendingCounts(r)'
  <2>1. PendingCounts(r)
    BY DEF CountsInv
  <2>2. PendingKinds(r)'
    BY <2>1, KindsNext DEF PendingCounts
  <2>3. CASE Arrive(r) \/ Load(r)
    <3>1. buf'[r].responses = {}
      <4>1. buf'[r].responses = buf[r].responses
        BY <2>3, BufFrame DEF Arrive, Load, Respond, Quiet
      <4>2. ~Active(r) \/ Written(r) = 0
        BY <2>3, HandlerTyped, FreshRows
           DEF Arrive, Load, Active, Statements, ControlOf, Written, Responded
      <4>3. Active(r) /\ req[r].op = "answer" =>
                {x.id : x \in buf[r].responses} = {r} \X (1 .. Written(r))
        BY DEF HistoryInv, PendingHistory
      <4> QED
        BY <4>1, <4>2, <4>3, NothingPending
    <3>2. CASE Arrive(r)
      <4>1. mem[r] = NoMem(r)
        BY <3>2, HandlerTyped DEF Arrive, ControlOf
      <4>2. /\ mem'[r].delivered = mem[r].delivered
            /\ mem'[r].correct = mem[r].correct
            /\ mem'[r].skipped = mem[r].skipped
        BY <3>2, MemFrame DEF Arrive, Load, Counters
      <4> QED
        BY <1>1, <2>2, <3>1, <4>1, <4>2, FreshRows, CountsRead
    <3>3. CASE Load(r)
      <4>1. req' = req
        BY <3>3, TablesStay DEF Load, Arrive, Quiet
      <4> QED
        BY <1>1, <2>2, <3>1, <3>3, <4>1, LoadEffect, CountsRead
    <3> QED
      BY <2>3, <3>2, <3>3
  <2>4. CASE ~(Arrive(r) \/ Load(r)) /\ ~Counters(r)
    <3>1. CountedAnswers(r)' = CountedAnswers(r)
      BY <2>4, CountedStay
    <3>2. IsFiniteSet(buf'[r].responses)
      <4>1. IsFiniteSet(buf[r].responses)
        BY <2>1 DEF PendingCounts
      <4>2. \/ buf'[r].responses = buf[r].responses
            \/ \E x : buf'[r].responses = buf[r].responses \cup {x}
        BY BufFrame, RespondEffect
      <4> QED
        BY <4>1, <4>2, FS_AddElement
    <3>3. /\ mem'[r].delivered = mem[r].delivered
          /\ mem'[r].correct = mem[r].correct
          /\ mem'[r].skipped = mem[r].skipped
      BY <2>4, MemFrame
    <3>4. req' = req
      BY <2>4, TablesStay
    <3> QED
      BY <1>1, <1>2, <2>1, <2>2, <3>1, <3>2, <3>3, <3>4, CountsGrow
  <2> QED
    BY <2>3, <2>4, CountsCounters
<1> QED
  BY <1>2, <1>3, <1>4 DEF CountsInv

LEMMA InitCountsInv == Init => CountsInv
<1> SUFFICES ASSUME Init PROVE CountsInv
  OBVIOUS
<1>1. /\ responses = {}
      /\ \A s \in Sessions : /\ session[s].delivered = 0
                              /\ session[s].correct = 0 /\ session[s].skipped = 0
      /\ \A r \in Requests : buf[r] = NoWrites /\ mem[r] = NoMem(r)
  BY DEF Init
<1>2. IsFiniteSet({}) /\ Cardinality({}) = 0
  BY FS_EmptySet
<1>3. \A s : ResponsesOf(s) = {} /\ Correct({}) = {} /\ Skipped({}) = {}
  BY <1>1 DEF ResponsesOf, Correct, Skipped
<1>4. CountersBacked
  BY <1>1, <1>2, <1>3 DEF CountersBacked
<1>5. ASSUME NEW r \in Requests PROVE PendingCounts(r)
  <2>1. /\ buf[r].responses = {} /\ mem[r].delivered = 0
        /\ mem[r].correct = 0 /\ mem[r].skipped = 0
    BY <1>1, FreshRows
  <2>2. \A s : SeenResponses(r, s) = {}
    BY <1>3, <2>1 DEF SeenResponses, CountedAnswers
  <2> QED
    BY <1>2, <1>3, <2>1, <2>2 DEF PendingCounts, PendingKinds
<1> QED
  BY <1>1, <1>2, <1>4, <1>5 DEF CountsInv

LEMMA NextCountsInv ==
    TypeInv /\ TypeInv' /\ HistoryInv /\ HistoryInv' /\ CountsInv /\ [Next]_vars
        => CountsInv'
<1> SUFFICES ASSUME TypeInv, TypeInv', HistoryInv, HistoryInv', CountsInv,
                    [Next]_vars
             PROVE  CountsInv'
  OBVIOUS
<1>1. ASSUME NEW r \in Requests, Arrive(r) \/ Step(r) \/ Crash(r)
      PROVE  CountsInv'
  BY <1>1, StepKinds, CountsQuiet, CountsCommit, CountsRollback
<1>2. CASE UNCHANGED <<tables, req, pc, mem, buf>>
  <2>1. IsFiniteSet(responses') /\ CountersBacked'
    BY <1>2 DEF tables, CountsInv, CountersBacked, ResponsesOf, Correct, Skipped
  <2>2. ASSUME NEW q \in Requests PROVE PendingCounts(q)'
    <3>1. PendingCounts(q)
      BY DEF CountsInv
    <3>2. /\ PendingKinds(q)' /\ IsFiniteSet(buf'[q].responses)
          /\ CountedAnswers(q)' = CountedAnswers(q)
      BY <1>2, <3>1 DEF PendingCounts, PendingKinds, CountedAnswers, CountedUpTo
    <3> QED
      BY <1>2, <2>1, <3>1, <3>2, CountsGrow DEF tables
  <2> QED
    BY <2>1, <2>2 DEF CountsInv
<1>3. ASSUME NEW i \in Editable, NewVersion(i) \/ SoftDelete(i) \/ Retag(i)
      PROVE  CountsInv'
  BY <1>2, <1>3, AuthorFrame
<1> QED
  BY <1>1, <1>2, <1>3 DEF Next, vars

\* The counters of a session never claim an answer that is not stored, whatever
\* updates overlapping requests lose, and what finish_session subtracts is
\* never negative.
THEOREM CountersHonest == Spec => []CountersBacked
<1>1. CountsInv => CountersBacked
  BY DEF CountsInv
<1> QED
  BY <1>1, InitTypeInv, NextTypeInv, InitHistoryInv, NextHistoryInv,
     InitCountsInv, NextCountsInv, PTL DEF Spec


-----------------------------------------------------------------------------
(* Ability rows.  UNIQUE (user_id, topic_id) is enforced when a row is       *)
(* inserted; that an UPDATE never makes a second one takes the identity of   *)
(* the row from the moment it is read to the moment it is written.           *)

OneRowPerTopic ==
    \A x, y \in theta : x.scope = y.scope /\ x.scope # NoTopic => x = y

RowOwners == \A x \in theta : pc[x.by] = "ok"

TopicLocks ==
    \A r, q \in Requests : \A x \in buf[r].theta, y \in buf[q].theta :
        x.scope = y.scope /\ x.scope # NoTopic => r = q

PendingRows(r) ==
    /\ \A x, y \in buf[r].theta : x.scope = y.scope /\ x.scope # NoTopic => x = y
    /\ \A w \in buf[r].theta, x \in theta :
           w.scope = x.scope /\ w.scope # NoTopic => w.by = x.by
    /\ \A w \in buf[r].theta : w.by = r \/ pc[w.by] = "ok"

ReadRows(r) ==
    /\ pc[r] = "topic_insert" => \A w \in buf[r].theta : w.scope # mem[r].topic
    /\ pc[r] = "topic_update" =>
           \E x \in theta \cup buf[r].theta :
               x.scope = mem[r].topic /\ x.by = mem[r].row
    /\ pc[r] \in {"global_points", "global_update", "topic_update"} =>
           mem[r].row = r \/ pc[mem[r].row] = "ok"

RowsInv ==
    /\ OneRowPerTopic /\ RowOwners /\ TopicLocks
    /\ \A r \in Requests : PendingRows(r) /\ ReadRows(r)

\* A request that ended well stays so.
LEMMA OkStays ==
    ASSUME TypeInv, NEW r \in Requests, Arrive(r) \/ Step(r) \/ Crash(r),
           NEW q \in Requests, pc[q] = "ok"
    PROVE  pc'[q] = "ok"
<1>1. CASE q # r
  BY <1>1, OthersStay
<1>2. CASE q = r
  <2>1. ~Quiet(r) /\ ~Respond(r) /\ ~WriteCard(r) /\ ~Commit(r)
    BY <1>2, ControlFlow, QuietWritten
       DEF Arrive, Active, Statements, Quiet
  <2> QED
    BY <1>2, <2>1, StepKinds, RollbackKinds
<1> QED
  BY <1>1, <1>2

\* A handler that is not moved by the step keeps what it knows of the rows as
\* long as every committed row keeps a version.
LEMMA ReadRowsStay ==
    ASSUME NEW q \in Requests, ReadRows(q), pc'[q] = pc[q], mem'[q] = mem[q],
           buf'[q].theta = buf[q].theta,
           \A x \in theta : \E y \in theta' : y.scope = x.scope /\ y.by = x.by,
           \A p \in Requests : pc[p] = "ok" => pc'[p] = "ok",
           mem[q].row \in Requests
    PROVE  ReadRows(q)'
<1>1. pc[q] = "topic_update" =>
          \E x \in theta' \cup buf'[q].theta :
               x.scope = mem'[q].topic /\ x.by = mem'[q].row
  BY DEF ReadRows
<1> QED
  BY <1>1 DEF ReadRows

\* The rows themselves: nothing is written.
LEMMA RowsStay ==
    ASSUME TypeInv, RowsInv, theta' = theta,
           \A q \in Requests : \/ buf'[q].theta = buf[q].theta
                               \/ buf'[q].theta = {},
           \A q \in Requests : pc[q] = "ok" => pc'[q] = "ok",
           \A q \in Requests : ReadRows(q)'
    PROVE  RowsInv'
<1>1. /\ \A x \in theta : x.by \in Requests
      /\ \A q \in Requests : \A w \in buf[q].theta : w.by \in Requests
  BY HandlerTyped DEF TypeInv, TypeOK, ThetaType, BufType
<1>2. OneRowPerTopic' /\ RowOwners'
  BY <1>1 DEF RowsInv, OneRowPerTopic, RowOwners
<1>3. TopicLocks'
  BY DEF RowsInv, TopicLocks
<1>4. ASSUME NEW q \in Requests PROVE PendingRows(q)'
  BY <1>1 DEF RowsInv, PendingRows
<1> QED
  BY <1>2, <1>3, <1>4 DEF RowsInv

\* A write of x over the version of x that the transaction sees.
LEMMA RowsPut ==
    ASSUME TypeInv, RowsInv, theta' = theta, NEW r \in Requests,
           NEW x \in ThetaType,
           buf'[r].theta = {w \in buf[r].theta : ~SameRow(w, x)} \cup {x},
           \A q \in Requests : q # r => buf'[q].theta = buf[q].theta,
           \A q \in Requests : pc[q] = "ok" => pc'[q] = "ok",
           \A q \in Requests : ReadRows(q)',
           x.by = r \/ pc[x.by] = "ok",
           x.scope # NoTopic =>
               /\ \A q \in Requests : q # r =>
                      \A w \in buf[q].theta : w.scope # x.scope
               /\ \A w \in theta \cup buf[r].theta :
                      w.scope = x.scope => w.by = x.by
    PROVE  RowsInv'
<1>1. /\ \A y \in theta : y.by \in Requests
      /\ \A q \in Requests : \A w \in buf[q].theta : w.by \in Requests
      /\ x.by \in Requests
  BY HandlerTyped DEF TypeInv, TypeOK, ThetaType, BufType
<1>2. OneRowPerTopic' /\ RowOwners'
  BY <1>1 DEF RowsInv, OneRowPerTopic, RowOwners
<1>3. \A w \in buf'[r].theta :
          \/ w \in buf[r].theta /\ (w.scope = x.scope => x.scope = NoTopic)
          \/ w = x
  BY DEF SameRow
<1>4. TopicLocks'
  BY <1>3 DEF RowsInv, TopicLocks
<1>5. ASSUME NEW q \in Requests, q # r PROVE PendingRows(q)'
  BY <1>1, <1>5 DEF RowsInv, PendingRows
<1>6. PendingRows(r)'
  <2>1. PendingRows(r)
    BY DEF RowsInv
  <2>2. \A w, y \in buf'[r].theta : w.scope = y.scope /\ w.scope # NoTopic => w = y
    BY <1>3, <2>1 DEF PendingRows
  <2>3. \A w \in buf'[r].theta, y \in theta' :
            w.scope = y.scope /\ w.scope # NoTopic => w.by = y.by
    BY <1>3, <2>1 DEF PendingRows
  <2>4. \A w \in buf'[r].theta : w.by = r \/ pc'[w.by] = "ok"
    BY <1>1, <1>3, <2>1 DEF PendingRows
  <2> QED
    BY <2>2, <2>3, <2>4 DEF PendingRows
<1> QED
  BY <1>2, <1>4, <1>5, <1>6 DEF RowsInv

LEMMA PutThetaEffect ==
    ASSUME TypeInv, NEW r \in Requests, NEW x, PutTheta(r, x)
    PROVE  /\ buf'[r].theta = {w \in buf[r].theta : ~SameRow(w, x)} \cup {x}
           /\ \A q \in Requests : q # r => buf'[q] = buf[q]
<1>1. buf'[r] = [buf[r] EXCEPT !.theta =
                    {w \in buf[r].theta : ~SameRow(w, x)} \cup {x}]
  BY DEF PutTheta, TypeInv, TypeOK
<1>2. \A y : [buf[r] EXCEPT !.theta = y].theta = y
  BY HandlerTyped DEF BufType
<1>3. \A q \in Requests : q # r => buf'[q] = buf[q]
  BY DEF PutTheta, TypeInv, TypeOK
<1> QED
  BY <1>1, <1>2, <1>3


\* What the handler that moves knows of the rows after its step.
LEMMA ReadRowsMoved ==
    ASSUME TypeInv, RowsInv, NEW r \in Requests, Arrive(r) \/ Step(r) \/ Crash(r),
           Quiet(r) \/ Respond(r) \/ WriteCard(r)
    PROVE  ReadRows(r)'
<1>1. PendingRows(r) /\ ReadRows(r) /\ RowOwners
  BY DEF RowsInv
<1>2. CASE pc'[r] = "topic_insert"
  <2>1. TopicTheta(r)
    BY <1>2, ControlFlow DEF Quiet
  <2>2. ThetaRows(r, mem[r].topic) = {} /\ mem' = mem /\ buf' = buf
    BY <1>2, <2>1 DEF TopicTheta, AfterTopic, Goto, TypeInv, TypeOK
  <2>3. \A w \in buf[r].theta : w.scope # mem[r].topic
    BY <2>2 DEF ThetaRows, SeenThetas
  <2> QED
    BY <1>2, <2>2, <2>3 DEF ReadRows
<1>3. CASE pc'[r] = "topic_update"
  <2>1. TopicPoints(r)
    BY <1>3, ControlFlow DEF Quiet
  <2>2. PICK x \in ThetaRows(r, mem[r].topic) :
            mem' = [mem EXCEPT ![r] = [mem[r] EXCEPT !.row = x.by,
                                       !.points = Points(r, mem[r].topic)]]
    BY <2>1 DEF TopicPoints
  <2>3. /\ mem'[r] = [mem[r] EXCEPT !.row = x.by, !.points = Points(r, mem[r].topic)]
        /\ buf' = buf /\ theta' = theta
    BY <2>1, <2>2 DEF TopicPoints, tables, TypeInv, TypeOK
  <2>4. mem'[r].row = x.by /\ mem'[r].topic = mem[r].topic
    BY <2>3, HandlerTyped DEF MemType
  <2>5. x \in theta \cup buf[r].theta /\ x.scope = mem[r].topic
    BY <2>2 DEF ThetaRows, SeenThetas
  <2>6. x.by = r \/ pc[x.by] = "ok"
    BY <1>1, <2>5 DEF PendingRows, RowOwners
  <2>7. x.by \in Requests
    BY <2>5, HandlerTyped DEF TypeInv, TypeOK, ThetaType, BufType
  <2>8. x.by = r \/ pc'[x.by] = "ok"
    BY <2>6, <2>7, OkStays
  <2> QED
    BY <1>3, <2>3, <2>4, <2>5, <2>8 DEF ReadRows
<1>4. CASE pc'[r] = "global_points"
  <2>1. GlobalRow(r)
    BY <1>4, ControlFlow DEF Quiet
  <2>2. PICK x \in ThetaRows(r, NoTopic) :
            mem' = [mem EXCEPT ![r] = [mem[r] EXCEPT !.row = x.by]]
    BY <2>1 DEF GlobalRow
  <2>3. mem'[r] = [mem[r] EXCEPT !.row = x.by]
    BY <2>2 DEF TypeInv, TypeOK
  <2>4. mem'[r].row = x.by
    BY <2>3, HandlerTyped DEF MemType
  <2>5. x \in theta \cup buf[r].theta
    BY <2>2 DEF ThetaRows, SeenThetas
  <2>6. x.by = r \/ pc[x.by] = "ok"
    BY <1>1, <2>5 DEF PendingRows, RowOwners
  <2>7. x.by \in Requests
    BY <2>5, HandlerTyped DEF TypeInv, TypeOK, ThetaType, BufType
  <2>8. x.by = r \/ pc'[x.by] = "ok"
    BY <2>6, <2>7, OkStays
  <2> QED
    BY <1>4, <2>4, <2>8 DEF ReadRows
<1>5. CASE pc'[r] = "global_update"
  <2>1. GlobalPoints(r)
    BY <1>5, ControlFlow DEF Quiet
  <2>2. pc[r] = "global_points" /\ mem'[r].row = mem[r].row
    BY <2>1, ControlFlow, MemFrame
       DEF GlobalPoints, Counters, MasteryWrite, GlobalRow, TopicPoints
  <2>3. mem[r].row \in Requests /\ (mem[r].row = r \/ pc[mem[r].row] = "ok")
    BY <1>1, <2>2, HandlerTyped DEF ReadRows, MemType
  <2>4. mem'[r].row = r \/ pc'[mem'[r].row] = "ok"
    BY <2>2, <2>3, OkStays
  <2> QED
    BY <1>5, <2>4 DEF ReadRows
<1>6. CASE pc'[r] \notin {"topic_insert", "topic_update", "global_points",
                          "global_update"}
  BY <1>6 DEF ReadRows
<1> QED
  BY <1>2, <1>3, <1>4, <1>5, <1>6

LEMMA RowsQuiet ==
    ASSUME TypeInv, RowsInv, NEW r \in Requests, Arrive(r) \/ Step(r) \/ Crash(r),
           Quiet(r) \/ Respond(r) \/ WriteCard(r)
    PROVE  RowsInv'
<1>1. theta' = theta
  BY TablesStay DEF tables
<1>2. \A q \in Requests : q # r => buf'[q] = buf[q] /\ pc'[q] = pc[q]
                                   /\ mem'[q] = mem[q]
  BY OthersStay
<1>3. \A q \in Requests : pc[q] = "ok" => pc'[q] = "ok"
  BY OkStays
<1>4. ASSUME NEW q \in Requests PROVE ReadRows(q)'
  <2>1. mem[q].row \in Requests
    BY HandlerTyped DEF MemType
  <2>2. CASE q # r
    BY <1>1, <1>2, <1>3, <2>1, <2>2, ReadRowsStay DEF RowsInv
  <2> QED
    BY <2>2, ReadRowsMoved
<1>5. CASE ~(GlobalTheta(r) \/ InsertTopicTheta(r) \/ GlobalUpdate(r)
             \/ TopicUpdate(r))
  BY <1>1, <1>2, <1>3, <1>4, <1>5, BufFrame, RowsStay
<1>6. PendingRows(r) /\ ReadRows(r) /\ TopicLocks /\ OneRowPerTopic
  BY DEF RowsInv
<1>7. mem[r] \in MemType /\ ControlOf(r)
  BY HandlerTyped
<1>8. CASE GlobalTheta(r)
  <2> DEFINE x == [by |-> r, scope |-> NoTopic, used |-> {}]
  <2>1. CASE buf' = buf
    BY <1>1, <1>3, <1>4, <2>1, RowsStay
  <2>2. CASE PutTheta(r, x)
    <3>1. x \in ThetaType /\ x.by = r /\ x.scope = NoTopic
      BY DEF ThetaType
    <3> HIDE DEF x
    <3> QED
      BY <1>1, <1>2, <1>3, <1>4, <2>2, <3>1, PutThetaEffect, RowsPut
  <2> QED
    BY <1>8, <2>1, <2>2 DEF GlobalTheta
<1>9. CASE GlobalUpdate(r)
  <2> DEFINE x == [by |-> mem[r].row, scope |-> NoTopic, used |-> mem[r].points]
  <2>1. x \in ThetaType /\ x.by = mem[r].row /\ x.scope = NoTopic
    BY <1>7 DEF ThetaType, MemType
  <2>2. x.by = r \/ pc[x.by] = "ok"
    BY <1>6, <1>9, <2>1, ControlFlow DEF ReadRows
  <2>3. PutTheta(r, x)
    BY <1>9 DEF GlobalUpdate
  <2> HIDE DEF x
  <2> QED
    BY <1>1, <1>2, <1>3, <1>4, <2>1, <2>2, <2>3, PutThetaEffect, RowsPut
<1>10. CASE InsertTopicTheta(r)
  <2> DEFINE x == [by |-> r, scope |-> mem[r].topic, used |-> {}]
  <2>1. x \in ThetaType /\ x.by = r /\ x.scope = mem[r].topic
    BY <1>7 DEF ThetaType, MemType
  <2>2. /\ PutTheta(r, x) /\ pc[r] = "topic_insert" /\ Holders(r) = {}
        /\ \A w \in theta : w.scope # mem[r].topic
    BY <1>10 DEF InsertTopicTheta
  <2> HIDE DEF x
  <2>3. \A q \in Requests : q # r =>
            \A w \in buf[q].theta : w.scope # mem[r].topic
    BY <2>2 DEF Holders
  <2>4. \A w \in buf[r].theta : w.scope # mem[r].topic
    BY <1>6, <2>2 DEF ReadRows
  <2> QED
    BY <1>1, <1>2, <1>3, <1>4, <2>1, <2>2, <2>3, <2>4, PutThetaEffect, RowsPut
<1>11. CASE TopicUpdate(r)
  <2> DEFINE x == [by |-> mem[r].row, scope |-> mem[r].topic, used |-> mem[r].points]
  <2>1. x \in ThetaType /\ x.by = mem[r].row /\ x.scope = mem[r].topic
    BY <1>7 DEF ThetaType, MemType
  <2>2. PutTheta(r, x) /\ pc[r] = "topic_update" /\ Holders(r) = {}
    BY <1>11 DEF TopicUpdate
  <2> HIDE DEF x
  <2>3. \A q \in Requests : q # r =>
            \A w \in buf[q].theta : w.scope # mem[r].topic
    BY <2>2 DEF Holders
  <2>4. mem[r].topic # NoTopic
    BY <1>7, <2>2, NoTopicAssumption DEF ControlOf
  <2>5. PICK y \in theta \cup buf[r].theta :
            y.scope = mem[r].topic /\ y.by = mem[r].row
    BY <1>6, <2>2 DEF ReadRows
  <2>6. \A w \in theta \cup buf[r].theta :
            w.scope = mem[r].topic => w.by = mem[r].row
    BY <1>6, <2>4, <2>5 DEF PendingRows, OneRowPerTopic
  <2>7. x.by = r \/ pc[x.by] = "ok"
    BY <1>6, <2>1, <2>2 DEF ReadRows
  <2> QED
    BY <1>1, <1>2, <1>3, <1>4, <2>1, <2>2, <2>3, <2>6, <2>7, PutThetaEffect, RowsPut
<1> QED
  BY <1>5, <1>8, <1>9, <1>10, <1>11

LEMMA RowsCommit ==
    ASSUME TypeInv, RowsInv, NEW r \in Requests, Commit(r)
    PROVE  RowsInv'
<1>1. /\ \A q \in Requests : q # r => buf'[q] = buf[q] /\ pc'[q] = pc[q]
                                      /\ mem'[q] = mem[q]
      /\ buf'[r].theta = {} /\ pc'[r] = "ok" /\ theta' = SeenThetas(r)
  BY CommitEffect, FreshRows
<1>2. /\ \A x \in theta' : x \in theta \/ x \in buf[r].theta
      /\ \A x \in theta : \E y \in theta' : SameRow(y, x)
  BY <1>1 DEF SeenThetas, SameRow
<1>3. \A x \in theta, y \in buf[r].theta :
          x \in theta' => ~SameRow(x, y) \/ x \in buf[r].theta
  BY <1>1 DEF SeenThetas
<1>4. PendingRows(r) /\ OneRowPerTopic /\ RowOwners /\ TopicLocks
  BY DEF RowsInv
<1>5. /\ \A x \in theta : x.by \in Requests
      /\ \A q \in Requests : \A w \in buf[q].theta : w.by \in Requests
  BY HandlerTyped DEF TypeInv, TypeOK, ThetaType, BufType
<1>6. \A q \in Requests : pc[q] = "ok" => pc'[q] = "ok"
  BY <1>1
<1>7. OneRowPerTopic'
  <2> SUFFICES ASSUME NEW x \in theta', NEW y \in theta',
                      x.scope = y.scope, x.scope # NoTopic
               PROVE  x = y
    BY DEF OneRowPerTopic
  <2>1. CASE x \in buf[r].theta /\ y \in buf[r].theta
    BY <1>4, <2>1 DEF PendingRows
  <2>2. CASE x \in theta /\ y \in theta
    BY <1>4, <2>2 DEF OneRowPerTopic
  <2>3. CASE x \in theta /\ y \in buf[r].theta
    <3>1. x.by = y.by
      BY <1>4, <2>3 DEF PendingRows
    <3> QED
      BY <1>3, <2>1, <2>3, <3>1 DEF SameRow
  <2>4. CASE x \in buf[r].theta /\ y \in theta
    <3>1. x.by = y.by
      BY <1>4, <2>4 DEF PendingRows
    <3> QED
      BY <1>3, <2>1, <2>4, <3>1 DEF SameRow
  <2> QED
    BY <1>2, <2>1, <2>2, <2>3, <2>4
<1>8. RowOwners'
  BY <1>1, <1>2, <1>4, <1>5, <1>6 DEF RowOwners, PendingRows
<1>9. TopicLocks'
  BY <1>1, <1>4 DEF TopicLocks
<1>10. ASSUME NEW q \in Requests PROVE PendingRows(q)'
  <2>1. CASE q = r
    BY <1>1, <2>1 DEF PendingRows
  <2>2. CASE q # r
    <3>1. PendingRows(q) /\ buf'[q] = buf[q]
      BY <1>1, <2>2 DEF RowsInv
    <3>2. \A w \in buf[q].theta, x \in theta' :
              w.scope = x.scope /\ w.scope # NoTopic => w.by = x.by
      BY <1>2, <1>4, <2>2, <3>1 DEF PendingRows, TopicLocks
    <3> QED
      BY <1>5, <1>6, <3>1, <3>2 DEF PendingRows
  <2> QED
    BY <2>1, <2>2
<1>11. ASSUME NEW q \in Requests PROVE ReadRows(q)'
  <2>1. CASE q = r
    BY <1>1, <2>1 DEF ReadRows
  <2>2. CASE q # r
    <3>1. /\ ReadRows(q) /\ mem[q].row \in Requests
          /\ pc'[q] = pc[q] /\ mem'[q] = mem[q] /\ buf'[q].theta = buf[q].theta
      BY <1>1, <2>2, HandlerTyped DEF RowsInv, MemType
    <3>2. \A x \in theta : \E y \in theta' : y.scope = x.scope /\ y.by = x.by
      BY <1>2 DEF SameRow
    <3> QED
      BY <1>6, <3>1, <3>2, ReadRowsStay
  <2> QED
    BY <2>1, <2>2
<1> QED
  BY <1>7, <1>8, <1>9, <1>10, <1>11 DEF RowsInv

LEMMA RowsRollback ==
    ASSUME TypeInv, RowsInv, NEW r \in Requests, NEW l \in Ended, Rollback(r, l),
           pc[r] # "ok"
    PROVE  RowsInv'
<1>1. /\ theta' = theta /\ buf'[r].theta = {} /\ pc'[r] = l
      /\ \A q \in Requests : q # r => buf'[q] = buf[q] /\ pc'[q] = pc[q]
                                      /\ mem'[q] = mem[q]
  BY RollbackEffect, FreshRows DEF tables
<1>2. \A q \in Requests : pc[q] = "ok" => pc'[q] = "ok"
  BY <1>1
<1>3. ASSUME NEW q \in Requests PROVE ReadRows(q)'
  <2>1. CASE q = r
    BY <1>1, <2>1 DEF ReadRows, Ended
  <2>2. CASE q # r
    <3>1. ReadRows(q) /\ mem[q].row \in Requests
      BY HandlerTyped DEF RowsInv, MemType
    <3> QED
      BY <1>1, <1>2, <2>2, <3>1, ReadRowsStay
  <2> QED
    BY <2>1, <2>2
<1> QED
  BY <1>1, <1>2, <1>3, RowsStay

LEMMA InitRowsInv == Init => RowsInv
<1> SUFFICES ASSUME Init PROVE RowsInv
  OBVIOUS
<1>1. theta = {} /\ \A r \in Requests : buf[r].theta = {} /\ pc[r] = "idle"
  BY FreshRows DEF Init
<1> QED
  BY <1>1 DEF RowsInv, OneRowPerTopic, RowOwners, TopicLocks, PendingRows, ReadRows

LEMMA NextRowsInv == TypeInv /\ RowsInv /\ [Next]_vars => RowsInv'
<1> SUFFICES ASSUME TypeInv, RowsInv, [Next]_vars PROVE RowsInv'
  OBVIOUS
<1>1. ASSUME NEW r \in Requests, Arrive(r) \/ Step(r) \/ Crash(r)
      PROVE  RowsInv'
  <2>1. CASE Quiet(r) \/ Respond(r) \/ WriteCard(r)
    BY <1>1, <2>1, RowsQuiet
  <2>2. CASE Commit(r)
    BY <2>2, RowsCommit
  <2>3. ASSUME ~(Quiet(r) \/ Respond(r) \/ WriteCard(r) \/ Commit(r)),
               NEW l \in Ended, Rollback(r, l)
        PROVE  RowsInv'
    BY <1>1, <2>3, RollbackKinds, RowsRollback
  <2> QED
    BY <1>1, <2>1, <2>2, <2>3, StepKinds
<1>2. CASE UNCHANGED <<tables, req, pc, mem, buf>>
  BY <1>2 DEF tables, RowsInv, OneRowPerTopic, RowOwners, TopicLocks, PendingRows,
              ReadRows
<1>3. ASSUME NEW i \in Editable, NewVersion(i) \/ SoftDelete(i) \/ Retag(i)
      PROVE  RowsInv'
  BY <1>2, <1>3, AuthorFrame
<1> QED
  BY <1>1, <1>2, <1>3 DEF Next, vars


\* What an ability may be computed from: graded answers, the committed ones and
\* the transaction's own.
KnownIds(r) ==
    {y.id : y \in {z \in responses \cup buf[r].responses : z.kind # "skip"}}

UsedBy(r) ==
    /\ \A x \in buf[r].theta : x.used \subseteq KnownIds(r)
    /\ mem[r].points \subseteq KnownIds(r)

UsedInv ==
    /\ \A x \in theta : x.used \subseteq {y.id : y \in Graded}
    /\ \A r \in Requests : UsedBy(r)

LEMMA PointsKnown ==
    ASSUME NEW r \in Requests, NEW t
    PROVE  Points(r, t) \subseteq KnownIds(r)
BY DEF Points, KnownIds

\* The points in memory after a step.
LEMMA PointsMoved ==
    ASSUME TypeInv, UsedInv, NEW r \in Requests,
           Quiet(r) \/ Respond(r) \/ WriteCard(r)
    PROVE  mem'[r].points \subseteq KnownIds(r)
<1>1. mem[r] \in MemType /\ mem[r].points \subseteq KnownIds(r)
  BY HandlerTyped DEF UsedInv, UsedBy
<1>2. CASE GlobalPoints(r)
  <2>1. mem'[r] = [mem[r] EXCEPT !.points = Points(r, NoTopic)]
    BY <1>2 DEF GlobalPoints, TypeInv, TypeOK
  <2>2. mem'[r].points = Points(r, NoTopic)
    BY <1>1, <2>1 DEF MemType
  <2> QED
    BY <2>2, PointsKnown
<1>3. CASE TopicPoints(r)
  <2>1. PICK x : mem' = [mem EXCEPT ![r] = [mem[r] EXCEPT !.row = x.by,
                             !.points = Points(r, mem[r].topic)]]
    BY <1>3 DEF TopicPoints
  <2>2. mem'[r] = [mem[r] EXCEPT !.row = x.by, !.points = Points(r, mem[r].topic)]
    BY <2>1 DEF TypeInv, TypeOK
  <2>3. mem'[r].points = Points(r, mem[r].topic)
    BY <1>1, <2>2 DEF MemType
  <2> QED
    BY <2>3, PointsKnown
<1>4. CASE Counters(r)
  <2>1. mem'[r].points \in {{}, mem[r].points}
    BY <1>4, CountersEffect
  <2> QED
    BY <1>1, <2>1
<1>5. CASE MasteryWrite(r)
  <2>1. mem'[r].points = {} \/ mem'[r] = mem[r]
    BY <1>5, MasteryWriteEffect
  <2> QED
    BY <1>1, <2>1
<1>6. CASE ~(GlobalPoints(r) \/ TopicPoints(r) \/ Counters(r) \/ MasteryWrite(r))
  BY <1>1, <1>6, MemFrame
<1> QED
  BY <1>2, <1>3, <1>4, <1>5, <1>6

LEMMA UsedQuiet ==
    ASSUME TypeInv, UsedInv, NEW r \in Requests, Arrive(r) \/ Step(r) \/ Crash(r),
           Quiet(r) \/ Respond(r) \/ WriteCard(r)
    PROVE  UsedInv'
<1>1. theta' = theta /\ responses' = responses
  BY TablesStay DEF tables
<1>2. ASSUME NEW q \in Requests, q # r PROVE UsedBy(q)'
  <2>1. buf'[q] = buf[q] /\ mem'[q] = mem[q]
    BY <1>2, OthersStay
  <2> QED
    BY <1>1, <2>1 DEF UsedInv, UsedBy, KnownIds
<1>3. buf[r].responses \subseteq buf'[r].responses
  BY BufFrame, RespondEffect
<1>4. KnownIds(r) \subseteq KnownIds(r)'
  BY <1>1, <1>3 DEF KnownIds
<1>5. UsedBy(r)
  BY DEF UsedInv
<1>6. \A x \in buf'[r].theta : x.used \subseteq KnownIds(r)
  <2>1. \/ buf'[r].theta = buf[r].theta
        \/ \E x : x.used \in {{}, mem[r].points} /\ PutTheta(r, x)
    <3>1. CASE GlobalTheta(r)
      <4>1. CASE buf' = buf
        BY <4>1
      <4>2. CASE PutTheta(r, [by |-> r, scope |-> NoTopic, used |-> {}])
        BY <4>2
      <4> QED
        BY <3>1, <4>1, <4>2 DEF GlobalTheta
    <3>2. CASE InsertTopicTheta(r)
      <4>1. PutTheta(r, [by |-> r, scope |-> mem[r].topic, used |-> {}])
        BY <3>2 DEF InsertTopicTheta
      <4> QED
        BY <4>1
    <3>3. CASE GlobalUpdate(r)
      <4>1. PutTheta(r, [by |-> mem[r].row, scope |-> NoTopic,
                         used |-> mem[r].points])
        BY <3>3 DEF GlobalUpdate
      <4> QED
        BY <4>1
    <3>4. CASE TopicUpdate(r)
      <4>1. PutTheta(r, [by |-> mem[r].row, scope |-> mem[r].topic,
                         used |-> mem[r].points])
        BY <3>4 DEF TopicUpdate
      <4> QED
        BY <4>1
    <3> QED
      BY <3>1, <3>2, <3>3, <3>4, BufFrame
  <2>2. CASE \E x : x.used \in {{}, mem[r].points} /\ PutTheta(r, x)
    BY <1>5, <2>2, PutThetaEffect DEF UsedBy
  <2> QED
    BY <1>5, <2>1, <2>2 DEF UsedBy
<1>7. mem'[r].points \subseteq KnownIds(r)
  BY PointsMoved
<1>8. UsedBy(r)'
  BY <1>4, <1>6, <1>7 DEF UsedBy
<1> QED
  BY <1>1, <1>2, <1>8 DEF UsedInv, Graded

LEMMA NextUsedInv == TypeInv /\ UsedInv /\ [Next]_vars => UsedInv'
<1> SUFFICES ASSUME TypeInv, UsedInv, [Next]_vars PROVE UsedInv'
  OBVIOUS
<1>1. ASSUME NEW r \in Requests, Commit(r) PROVE UsedInv'
  <2>1. /\ \A x \in theta' : x \in theta \/ x \in buf[r].theta
        /\ responses' = responses \cup buf[r].responses
        /\ buf'[r].theta = {} /\ mem'[r].points = {}
        /\ \A q \in Requests : q # r => buf'[q] = buf[q] /\ mem'[q] = mem[q]
    BY <1>1, CommitEffect, FreshRows DEF SeenThetas
  <2>2. /\ KnownIds(r) = {y.id : y \in Graded'}
        /\ {y.id : y \in Graded} \subseteq {y.id : y \in Graded'}
    BY <2>1 DEF KnownIds, Graded
  <2>3. \A x \in theta' : x.used \subseteq {y.id : y \in Graded'}
    BY <2>1, <2>2 DEF UsedInv, UsedBy
  <2>4. ASSUME NEW q \in Requests PROVE UsedBy(q)'
    <3>1. CASE q = r
      BY <2>1, <3>1 DEF UsedBy
    <3>2. CASE q # r
      <4>1. KnownIds(q) \subseteq KnownIds(q)'
        BY <2>1, <3>2 DEF KnownIds
      <4> QED
        BY <2>1, <3>2, <4>1 DEF UsedInv, UsedBy
    <3> QED
      BY <3>1, <3>2
  <2> QED
    BY <2>3, <2>4 DEF UsedInv
<1>2. ASSUME NEW r \in Requests, NEW l \in Ended, Rollback(r, l) PROVE UsedInv'
  <2>1. /\ theta' = theta /\ responses' = responses
        /\ buf'[r].theta = {} /\ mem'[r].points = {}
        /\ \A q \in Requests : q # r => buf'[q] = buf[q] /\ mem'[q] = mem[q]
    BY <1>2, RollbackEffect, FreshRows DEF tables
  <2>2. ASSUME NEW q \in Requests PROVE UsedBy(q)'
    BY <2>1 DEF UsedInv, UsedBy, KnownIds
  <2> QED
    BY <2>1, <2>2 DEF UsedInv, Graded
<1>3. ASSUME NEW r \in Requests, Arrive(r) \/ Step(r) \/ Crash(r)
      PROVE  UsedInv'
  BY <1>1, <1>2, <1>3, StepKinds, UsedQuiet
<1>4. CASE UNCHANGED <<tables, req, pc, mem, buf>>
  BY <1>4 DEF tables, UsedInv, UsedBy, KnownIds, Graded
<1>5. ASSUME NEW i \in Editable, NewVersion(i) \/ SoftDelete(i) \/ Retag(i)
      PROVE  UsedInv'
  BY <1>4, <1>5, AuthorFrame
<1> QED
  BY <1>3, <1>4, <1>5 DEF Next, vars

LEMMA InitUsedInv == Init => UsedInv
<1> SUFFICES ASSUME Init PROVE UsedInv
  OBVIOUS
<1>1. theta = {} /\ \A r \in Requests : buf[r].theta = {} /\ mem[r].points = {}
  BY FreshRows DEF Init
<1> QED
  BY <1>1 DEF UsedInv, UsedBy

\* A topic never has two committed ability rows, and no committed ability was
\* computed from an answer that was rolled back or skipped: what a transaction
\* reads of the history is committed or its own, and both are stored together.
THEOREM ThetaSound == Spec => []ThetaFromHistory
<1>1. RowsInv /\ UsedInv => ThetaFromHistory
  BY DEF RowsInv, OneRowPerTopic, UsedInv, ThetaFromHistory
<1> QED
  BY <1>1, InitTypeInv, NextTypeInv, InitRowsInv, NextRowsInv, InitUsedInv,
     NextUsedInv, PTL DEF Spec
=============================================================================
