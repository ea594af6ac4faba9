------------------------- MODULE AnswerCascadeProofs -------------------------
(***************************************************************************)
(* Theorems about AnswerCascade for every set of requests, sessions, items *)
(* and topics.                                                             *)
(***************************************************************************)
EXTENDS AnswerCascade, TLAPS

\* The statements of _grade_one, which only an answer request executes.
Grading ==
    {"item", "respond", "card_write", "global_row", "global_points",
     "global_update", "topic_points", "topic_update", "counters",
     "mastery_read", "mastery_write"}

\* Where a handler is says which request it runs and what it has loaded.
ControlOf(r) ==
    /\ req[r] \in Menu
    /\ pc[r] = "idle" => mem[r] = NoMem(r)
    /\ pc[r] = "load" => req[r].op # "start" /\ mem[r] = NoMem(r)
    /\ pc[r] = "close" => req[r].op = "finish"
    /\ pc[r] \in Grading => req[r].op = "answer"
    /\ pc[r] \in {"global", "topic", "topic_insert"} =>
           req[r].op \in {"start", "answer"}
    /\ Active(r) /\ req[r].op = "answer" => mem[r].k <= Len(req[r].answers)
    /\ pc[r] \in {"topic", "topic_insert", "topic_points", "topic_update",
                  "mastery_read", "mastery_write"} => mem[r].topic \in Topics

Control == \A r \in Requests : ControlOf(r)

TypeInv == TypeOK /\ Control

LEMMA MenuTyped ==
    ASSUME NEW m \in Menu
    PROVE  /\ m \in RequestType
           /\ m.op = "answer" => Len(m.answers) \in Nat /\ 1 <= Len(m.answers)
           /\ m.op # "answer" => m.answers = <<>>
<1>1. m \in RequestType
  BY MenuAssumption
<1>2. m.answers \in Seq(AnswerType)
  BY <1>1 DEF RequestType
<1>3. m.op = "answer" <=> m.answers # <<>>
  BY MenuAssumption
<1> QED
  BY <1>1, <1>2, <1>3

\* The answer a handler is grading is a well-formed one.
LEMMA AnswerTyped ==
    ASSUME TypeInv, NEW r \in Requests, pc[r] \in Statements, req[r].op = "answer"
    PROVE  Answer(r) \in AnswerType
<1>1. req[r] \in Menu /\ mem[r].k <= Len(req[r].answers)
  BY DEF TypeInv, Control, ControlOf, Active
<1>2. req[r].answers \in Seq(AnswerType)
  BY <1>1, MenuTyped DEF RequestType
<1>3. mem[r].k \in Nat \ {0}
  BY DEF TypeInv, TypeOK, MemType
<1> QED
  BY <1>1, <1>2, <1>3 DEF Answer

LEMMA FreshTyped ==
    /\ NoWrites \in BufType
    /\ \A r \in Requests : NoMem(r) \in MemType
BY DEF NoWrites, BufType, NoMem, MemType

LEMMA InitTypeInv == Init => TypeInv
<1> SUFFICES ASSUME Init PROVE TypeInv
  OBVIOUS
<1>0. PICK m \in Menu : m = CHOOSE x \in Menu : TRUE
  BY MenuAssumption
<1>1. \A r \in Requests : req[r] \in Menu
  BY <1>0 DEF Init
<1>2. req \in [Requests -> RequestType]
  BY <1>1, MenuAssumption DEF Init
<1>3. TypeOK
  BY <1>2, FreshTyped, FirstTopicAssumption DEF Init, TypeOK, SessionType
<1>4. Control
  BY <1>1 DEF Init, Control, ControlOf, Active, Statements, Grading
<1> QED
  BY <1>3, <1>4 DEF TypeInv

\* A step of one handler that touches no committed row keeps the types if
\* what it leaves in that handler's own state is well-formed.
LEMMA HandlerStep ==
    ASSUME TypeInv, NEW r \in Requests,
           NEW l \in Statements \cup Ended, pc' = [pc EXCEPT ![r] = l],
           NEW m \in MemType, mem' = [mem EXCEPT ![r] = m],
           NEW b \in BufType, buf' = [buf EXCEPT ![r] = b],
           UNCHANGED <<tables, bank, req>>,
           ControlOf(r)'
    PROVE  TypeInv'
<1>1. TypeOK'
  BY DEF TypeInv, TypeOK, tables, bank
<1>2. ASSUME NEW q \in Requests, q # r PROVE ControlOf(q)'
  <2>1. ControlOf(q)
    BY DEF TypeInv, Control
  <2>2. pc'[q] = pc[q] /\ mem'[q] = mem[q] /\ req'[q] = req[q]
    BY <1>2 DEF TypeInv, TypeOK
  <2> QED
    BY <2>1, <2>2 DEF ControlOf, Active
<1> QED
  BY <1>1, <1>2 DEF TypeInv, Control

\* The same for the steps that leave the buffer alone too.
LEMMA LocalStep ==
    ASSUME TypeInv, NEW r \in Requests,
           NEW l \in Statements \cup Ended, pc' = [pc EXCEPT ![r] = l],
           NEW m \in MemType, mem' = [mem EXCEPT ![r] = m],
           UNCHANGED <<tables, bank, req, buf>>,
           ControlOf(r)'
    PROVE  TypeInv'
<1>1. buf[r] \in BufType /\ buf' = [buf EXCEPT ![r] = buf[r]]
  BY DEF TypeInv, TypeOK
<1> QED
  BY <1>1, HandlerStep

LEMMA RollbackTyped ==
    ASSUME TypeInv, NEW r \in Requests, NEW l \in Ended, Rollback(r, l)
    PROVE  TypeInv'
<1>1. pc'[r] = l /\ mem'[r] = NoMem(r) /\ req'[r] = req[r]
  BY DEF Rollback, Goto, TypeInv, TypeOK
<1>2. ControlOf(r)'
  BY <1>1 DEF ControlOf, TypeInv, Control, Ended, Active, Statements, Grading
<1> QED
  BY <1>2, FreshTyped, HandlerStep DEF Rollback, Goto

\* The parts of TypeInv about one handler, for the proofs below.
LEMMA HandlerTyped ==
    ASSUME TypeInv, NEW r \in Requests
    PROVE  /\ mem[r] \in MemType /\ buf[r] \in BufType
           /\ pc[r] \in {"idle"} \cup Statements \cup Ended
           /\ req[r] \in Menu /\ req[r] \in RequestType
           /\ session[req[r].session] \in SessionType
           /\ ControlOf(r)
<1>1. req[r] \in Menu /\ req[r] \in RequestType /\ ControlOf(r)
  BY MenuTyped DEF TypeInv, Control, ControlOf
<1>2. req[r].session \in Sessions
  BY <1>1 DEF RequestType
<1> QED
  BY <1>1, <1>2 DEF TypeInv, TypeOK

LEMMA ThetaTyped ==
    ASSUME TypeInv, NEW r \in Requests, NEW t
    PROVE  /\ SeenThetas(r) \subseteq ThetaType
           /\ ThetaRows(r, t) \subseteq ThetaType
           /\ Points(r, t) \subseteq Ids
BY HandlerTyped DEF TypeInv, TypeOK, SeenThetas, ThetaRows, Points, BufType, ResponseType

\* Updating the fields of well-formed Python variables.
LEMMA SetTopic ==
    ASSUME NEW m \in MemType, NEW t \in Topics \cup {NoTopic}
    PROVE  LET x == [m EXCEPT !.topic = t]
           IN x \in MemType /\ x.k = m.k /\ x.topic = t
BY DEF MemType

LEMMA SetRow ==
    ASSUME NEW m \in MemType, NEW q \in Requests
    PROVE  LET x == [m EXCEPT !.row = q]
           IN x \in MemType /\ x.k = m.k /\ x.topic = m.topic
BY DEF MemType

LEMMA SetPoints ==
    ASSUME NEW m \in MemType, NEW set \in SUBSET Ids
    PROVE  LET x == [m EXCEPT !.points = set]
           IN x \in MemType /\ x.k = m.k /\ x.topic = m.topic
BY DEF MemType

LEMMA SetRowPoints ==
    ASSUME NEW m \in MemType, NEW q \in Requests, NEW set \in SUBSET Ids
    PROVE  LET x == [m EXCEPT !.row = q, !.points = set]
           IN x \in MemType /\ x.k = m.k /\ x.topic = m.topic
BY DEF MemType

LEMMA SetSnap ==
    ASSUME NEW m \in MemType, NEW n \in Nat
    PROVE  LET x == [m EXCEPT !.snap = n]
           IN x \in MemType /\ x.k = m.k /\ x.topic = m.topic
BY DEF MemType

LEMMA PutThetaTyped ==
    ASSUME TypeInv, NEW r \in Requests, NEW x \in ThetaType, PutTheta(r, x)
    PROVE  \E b \in BufType : buf' = [buf EXCEPT ![r] = b]
<1> DEFINE b == [buf[r] EXCEPT !.theta = {w \in buf[r].theta : ~SameRow(w, x)} \cup {x}]
<1>1. b \in BufType
  BY HandlerTyped DEF BufType
<1>2. buf' = [buf EXCEPT ![r] = b]
  BY DEF PutTheta
<1> QED
  BY <1>1, <1>2

LEMMA ArriveTyped ==
    ASSUME TypeInv, NEW r \in Requests, Arrive(r)
    PROVE  TypeInv'
<1>1. PICK m \in Menu :
        /\ req' = [req EXCEPT ![r] = m]
        /\ IF m.op = "start"
           THEN /\ Goto(r, IF m.scope = NoTopic THEN "global" ELSE "topic")
                /\ mem' = [mem EXCEPT ![r] = [@ EXCEPT !.topic = m.scope]]
           ELSE Goto(r, "load") /\ UNCHANGED mem
  BY DEF Arrive
<1>2. mem[r] = NoMem(r)
  BY HandlerTyped DEF Arrive, ControlOf
<1>3. m \in RequestType /\ m.scope \in Topics \cup {NoTopic}
  BY MenuTyped DEF RequestType
<1>4. [NoMem(r) EXCEPT !.topic = m.scope] \in MemType
  BY <1>3 DEF MemType, NoMem
<1>5. /\ TypeOK'
      /\ ControlOf(r)'
  <2>1. CASE m.op = "start"
    <3>1. mem' = [mem EXCEPT ![r] = [NoMem(r) EXCEPT !.topic = m.scope]]
      BY <1>1, <1>2, <2>1
    <3>2. pc' = [pc EXCEPT ![r] = IF m.scope = NoTopic THEN "global" ELSE "topic"]
      BY <1>1, <2>1 DEF Goto
    <3>3. mem'[r].topic = m.scope /\ req'[r] = m
      BY <3>1, <1>1 DEF TypeInv, TypeOK, NoMem
    <3>4. TypeOK'
      BY <1>1, <1>3, <1>4, <3>1, <3>2
         DEF Arrive, TypeInv, TypeOK, Statements, tables, bank
    <3>5. ControlOf(r)'
      BY <1>3, <2>1, <3>2, <3>3 DEF TypeInv, TypeOK, ControlOf, Active, Grading
    <3> QED
      BY <3>4, <3>5
  <2>2. CASE m.op # "start"
    <3>1. pc' = [pc EXCEPT ![r] = "load"] /\ mem' = mem
      BY <1>1, <2>2 DEF Goto
    <3>2. TypeOK'
      BY <1>1, <1>3, <3>1 DEF Arrive, TypeInv, TypeOK, Statements, tables, bank
    <3>3. ControlOf(r)'
      BY <1>1, <1>2, <1>3, <2>2, <3>1, MenuTyped
         DEF TypeInv, TypeOK, ControlOf, Active, Grading, NoMem
    <3> QED
      BY <3>2, <3>3
  <2> QED
    BY <2>1, <2>2
<1>7. ASSUME NEW q \in Requests, q # r PROVE ControlOf(q)'
  <2>1. ControlOf(q)
    BY DEF TypeInv, Control
  <2>2. pc'[q] = pc[q] /\ mem'[q] = mem[q] /\ req'[q] = req[q]
    BY <1>1, <1>7 DEF TypeInv, TypeOK, Goto
  <2> QED
    BY <2>1, <2>2 DEF ControlOf, Active
<1> QED
  BY <1>5, <1>7 DEF TypeInv, Control

\* The handler steps that only read.
LEMMA ReadTyped ==
    ASSUME TypeInv, NEW r \in Requests,
           \/ Load(r) \/ LoadItem(r) \/ TopicTheta(r)
           \/ GlobalRow(r) \/ GlobalPoints(r) \/ TopicPoints(r)
           \/ MasteryRead(r)
    PROVE  TypeInv' /\ mem'[r].k = mem[r].k
<1>. USE HandlerTyped
<1>1. CASE Load(r)
  <2> DEFINE c == session[req[r].session]
             m == [mem[r] EXCEPT !.delivered = c.delivered,
                                 !.correct = c.correct, !.skipped = c.skipped]
             l == IF req[r].op = "finish" THEN "close" ELSE "item"
  <2>1. m \in MemType /\ m.k = 1 /\ mem[r].k = 1
    <3>1. c.delivered \in Nat /\ c.correct \in Nat /\ c.skipped \in Nat
      BY DEF SessionType
    <3>2. mem[r] \in MemType
      OBVIOUS
    <3>4. m \in MemType /\ m.k = mem[r].k
      BY ONLY <3>1, <3>2 DEF MemType
    <3>3. mem[r] = NoMem(r)
      BY <1>1 DEF Load, ControlOf
    <3> QED
      BY <3>3, <3>4 DEF NoMem
  <2>2. mem' = [mem EXCEPT ![r] = m] /\ pc' = [pc EXCEPT ![r] = l]
    BY <1>1 DEF Load, Goto
  <2>3. pc'[r] = l /\ mem'[r] = m /\ req'[r] = req[r]
    BY <1>1, <2>2 DEF Load, TypeInv, TypeOK
  <2>4. ControlOf(r)'
    BY <1>1, <2>1, <2>3, MenuTyped
       DEF Load, ControlOf, Active, Grading, RequestType
  <2> QED
    BY <1>1, <2>1, <2>2, <2>3, <2>4, LocalStep DEF Load, Statements
<1>2. CASE LoadItem(r)
  <2> DEFINE m == [mem[r] EXCEPT !.topic = topicOf[Answer(r).item]]
  <2>1. Answer(r).item \in Items
    BY <1>2, AnswerTyped DEF LoadItem, ControlOf, Grading, Statements, AnswerType
  <2>2. m \in MemType /\ m.k = mem[r].k
    <3>1. topicOf[Answer(r).item] \in Topics \cup {NoTopic}
      BY <2>1 DEF TypeInv, TypeOK
    <3> QED
      BY <3>1, SetTopic
  <2>3. mem' = [mem EXCEPT ![r] = m] /\ pc' = [pc EXCEPT ![r] = "global"]
    BY <1>2 DEF LoadItem, Goto
  <2>4. pc'[r] = "global" /\ mem'[r] = m /\ req'[r] = req[r]
    BY <1>2, <2>3 DEF LoadItem, TypeInv, TypeOK
  <2>5. ControlOf(r)'
    BY <1>2, <2>2, <2>4 DEF LoadItem, ControlOf, Active, Grading, Statements
  <2> QED
    BY <1>2, <2>2, <2>3, <2>4, <2>5, LocalStep DEF LoadItem, Statements
<1>3. CASE TopicTheta(r)
  <2> DEFINE l == IF ThetaRows(r, mem[r].topic) = {} THEN "topic_insert"
                  ELSE AfterTopic(r)
  <2>1. mem' = [mem EXCEPT ![r] = mem[r]] /\ pc' = [pc EXCEPT ![r] = l]
    BY <1>3 DEF TopicTheta, Goto, TypeInv, TypeOK
  <2>2. pc'[r] = l /\ mem'[r] = mem[r] /\ req'[r] = req[r]
    BY <1>3, <2>1 DEF TopicTheta, TypeInv, TypeOK
  <2>3. l \in {"topic_insert", "commit", "respond"}
        /\ (l = "respond" => req[r].op # "start")
    BY DEF AfterTopic
  <2>4. ControlOf(r)'
    BY <1>3, <2>2, <2>3 DEF TopicTheta, ControlOf, Active, Grading, Statements
  <2> QED
    BY <1>3, <2>1, <2>2, <2>3, <2>4, LocalStep DEF TopicTheta, Statements
<1>4. CASE GlobalRow(r)
  <2>1. PICK x \in ThetaRows(r, NoTopic) :
            mem' = [mem EXCEPT ![r] = [mem[r] EXCEPT !.row = x.by]]
    BY <1>4 DEF GlobalRow
  <2> DEFINE m == [mem[r] EXCEPT !.row = x.by]
  <2>2. m \in MemType /\ m.k = mem[r].k /\ m.topic = mem[r].topic
    <3>1. x.by \in Requests
      BY ThetaTyped DEF ThetaType
    <3> QED
      BY <3>1, SetRow
  <2>3. mem' = [mem EXCEPT ![r] = m] /\ pc' = [pc EXCEPT ![r] = "global_points"]
    BY <1>4, <2>1 DEF GlobalRow, Goto
  <2>4. pc'[r] = "global_points" /\ mem'[r] = m /\ req'[r] = req[r]
    BY <1>4, <2>3 DEF GlobalRow, TypeInv, TypeOK
  <2>5. ControlOf(r)'
    BY <1>4, <2>2, <2>4 DEF GlobalRow, ControlOf, Active, Grading, Statements
  <2> QED
    BY <1>4, <2>2, <2>3, <2>4, <2>5, LocalStep DEF GlobalRow, Statements
<1>5. CASE GlobalPoints(r)
  <2> DEFINE m == [mem[r] EXCEPT !.points = Points(r, NoTopic)]
  <2>2. m \in MemType /\ m.k = mem[r].k /\ m.topic = mem[r].topic
    BY ThetaTyped, SetPoints
  <2>3. mem' = [mem EXCEPT ![r] = m] /\ pc' = [pc EXCEPT ![r] = "global_update"]
    BY <1>5 DEF GlobalPoints, Goto
  <2>4. pc'[r] = "global_update" /\ mem'[r] = m /\ req'[r] = req[r]
    BY <1>5, <2>3 DEF GlobalPoints, TypeInv, TypeOK
  <2>5. ControlOf(r)'
    BY <1>5, <2>2, <2>4 DEF GlobalPoints, ControlOf, Active, Grading, Statements
  <2> QED
    BY <1>5, <2>2, <2>3, <2>4, <2>5, LocalStep DEF GlobalPoints, Statements
<1>6. CASE TopicPoints(r)
  <2>1. PICK x \in ThetaRows(r, mem[r].topic) :
            mem' = [mem EXCEPT ![r] = [mem[r] EXCEPT !.row = x.by,
                                       !.points = Points(r, mem[r].topic)]]
    BY <1>6 DEF TopicPoints
  <2> DEFINE m == [mem[r] EXCEPT !.row = x.by, !.points = Points(r, mem[r].topic)]
  <2>2. m \in MemType /\ m.k = mem[r].k /\ m.topic = mem[r].topic
    <3>1. x.by \in Requests /\ Points(r, mem[r].topic) \in SUBSET Ids
      BY ThetaTyped DEF ThetaType
    <3> QED
      BY <3>1, SetRowPoints
  <2>3. mem' = [mem EXCEPT ![r] = m] /\ pc' = [pc EXCEPT ![r] = "topic_update"]
    BY <1>6, <2>1 DEF TopicPoints, Goto
  <2>4. pc'[r] = "topic_update" /\ mem'[r] = m /\ req'[r] = req[r]
    BY <1>6, <2>3 DEF TopicPoints, TypeInv, TypeOK
  <2>5. ControlOf(r)'
    BY <1>6, <2>2, <2>4 DEF TopicPoints, ControlOf, Active, Grading, Statements
  <2> QED
    BY <1>6, <2>2, <2>3, <2>4, <2>5, LocalStep DEF TopicPoints, Statements
<1>7. CASE MasteryRead(r)
  <2> DEFINE t == mem[r].topic
             m == [mem[r] EXCEPT !.snap = Overlay(buf[r].mastery[t], mastery[t])]
  <2>1. t \in Topics
    BY <1>7 DEF MasteryRead, ControlOf
  <2>2. m \in MemType /\ m.k = mem[r].k /\ m.topic = mem[r].topic
    <3>1. Overlay(buf[r].mastery[t], mastery[t]) \in Nat
      BY <2>1 DEF BufType, TypeInv, TypeOK, Overlay
    <3> QED
      BY <3>1, SetSnap
  <2>3. mem' = [mem EXCEPT ![r] = m] /\ pc' = [pc EXCEPT ![r] = "mastery_write"]
    BY <1>7 DEF MasteryRead, Goto
  <2>4. pc'[r] = "mastery_write" /\ mem'[r] = m /\ req'[r] = req[r]
    BY <1>7, <2>3 DEF MasteryRead, TypeInv, TypeOK
  <2>5. ControlOf(r)'
    BY <1>7, <2>2, <2>4 DEF MasteryRead, ControlOf, Active, Grading, Statements
  <2> QED
    BY <1>7, <2>2, <2>3, <2>4, <2>5, LocalStep DEF MasteryRead, Statements
<1> QED
  BY <1>1, <1>2, <1>3, <1>4, <1>5, <1>6, <1>7

\* The steps that write ability rows.
LEMMA ThetaStepTyped ==
    ASSUME TypeInv, NEW r \in Requests,
           \/ InsertTopicTheta(r) \/ GlobalUpdate(r) \/ TopicUpdate(r)
           \/ GlobalTheta(r)
    PROVE  TypeInv'
<1>. USE HandlerTyped
<1>1. CASE InsertTopicTheta(r)
  <2> DEFINE x == [by |-> r, scope |-> mem[r].topic, used |-> {}]
             l == AfterTopic(r)
  <2>1. x \in ThetaType
    BY <1>1 DEF InsertTopicTheta, ControlOf, ThetaType, MemType
  <2>2. PICK b \in BufType : buf' = [buf EXCEPT ![r] = b]
    BY <1>1, <2>1, PutThetaTyped DEF InsertTopicTheta
  <2>3. /\ mem' = [mem EXCEPT ![r] = mem[r]]
        /\ pc' = [pc EXCEPT ![r] = l]
    BY <1>1 DEF InsertTopicTheta, Goto, TypeInv, TypeOK
  <2>4. pc'[r] = l /\ mem'[r] = mem[r] /\ req'[r] = req[r]
    BY <1>1, <2>3 DEF InsertTopicTheta, TypeInv, TypeOK
  <2>5. l \in Statements
    BY DEF AfterTopic, Statements
  <2>6. ControlOf(r)'
    BY <1>1, <2>4 DEF InsertTopicTheta, ControlOf, Active, Grading, Statements,
       AfterTopic, MemType
  <2> QED
    BY <1>1, <2>2, <2>3, <2>5, <2>6, HandlerStep DEF InsertTopicTheta
<1>2. CASE GlobalUpdate(r)
  <2> DEFINE x == [by |-> mem[r].row, scope |-> NoTopic, used |-> mem[r].points]
             l == IF mem[r].topic = NoTopic THEN "counters" ELSE "topic_points"
  <2>1. x \in ThetaType
    BY <1>2 DEF GlobalUpdate, ControlOf, ThetaType, MemType
  <2>2. PICK b \in BufType : buf' = [buf EXCEPT ![r] = b]
    BY <1>2, <2>1, PutThetaTyped DEF GlobalUpdate
  <2>3. /\ mem' = [mem EXCEPT ![r] = mem[r]]
        /\ pc' = [pc EXCEPT ![r] = l]
    BY <1>2 DEF GlobalUpdate, Goto, TypeInv, TypeOK
  <2>4. pc'[r] = l /\ mem'[r] = mem[r] /\ req'[r] = req[r]
    BY <1>2, <2>3 DEF GlobalUpdate, TypeInv, TypeOK
  <2>5. l \in Statements
    BY DEF AfterTopic, Statements
  <2>6. ControlOf(r)'
    BY <1>2, <2>4 DEF GlobalUpdate, ControlOf, Active, Grading, Statements,
       AfterTopic, MemType
  <2> QED
    BY <1>2, <2>2, <2>3, <2>5, <2>6, HandlerStep DEF GlobalUpdate
<1>3. CASE TopicUpdate(r)
  <2> DEFINE x == [by |-> mem[r].row, scope |-> mem[r].topic, used |-> mem[r].points]
             l == "counters"
  <2>1. x \in ThetaType
    BY <1>3 DEF TopicUpdate, ControlOf, ThetaType, MemType
  <2>2. PICK b \in BufType : buf' = [buf EXCEPT ![r] = b]
    BY <1>3, <2>1, PutThetaTyped DEF TopicUpdate
  <2>3. /\ mem' = [mem EXCEPT ![r] = mem[r]]
        /\ pc' = [pc EXCEPT ![r] = l]
    BY <1>3 DEF TopicUpdate, Goto, TypeInv, TypeOK
  <2>4. pc'[r] = l /\ mem'[r] = mem[r] /\ req'[r] = req[r]
    BY <1>3, <2>3 DEF TopicUpdate, TypeInv, TypeOK
  <2>5. l \in Statements
    BY DEF AfterTopic, Statements
  <2>6. ControlOf(r)'
    BY <1>3, <2>4 DEF TopicUpdate, ControlOf, Active, Grading, Statements,
       AfterTopic, MemType
  <2> QED
    BY <1>3, <2>2, <2>3, <2>5, <2>6, HandlerStep DEF TopicUpdate
<1>4. CASE GlobalTheta(r)
  <2> DEFINE x == [by |-> r, scope |-> NoTopic, used |-> {}]
             l == IF req[r].op = "start" THEN "commit"
                  ELSE IF mem[r].topic = NoTopic THEN "respond" ELSE "topic"
  <2>1. PICK b \in BufType : buf' = [buf EXCEPT ![r] = b]
    <3>1. CASE ThetaRows(r, NoTopic) # {}
      BY <1>4, <3>1 DEF GlobalTheta, TypeInv, TypeOK
    <3>2. CASE ThetaRows(r, NoTopic) = {}
      <4>1. x \in ThetaType /\ PutTheta(r, x)
        BY <1>4, <3>2 DEF GlobalTheta, ThetaType
      <4> QED
        BY <4>1, PutThetaTyped
    <3> QED
      BY <3>1, <3>2
  <2>3. /\ mem' = [mem EXCEPT ![r] = mem[r]]
        /\ pc' = [pc EXCEPT ![r] = l]
    BY <1>4 DEF GlobalTheta, Goto, TypeInv, TypeOK
  <2>4. pc'[r] = l /\ mem'[r] = mem[r] /\ req'[r] = req[r]
    BY <1>4, <2>3 DEF GlobalTheta, TypeInv, TypeOK
  <2>5. l \in Statements
    BY DEF Statements
  <2>6. ControlOf(r)'
    BY <1>4, <2>4 DEF GlobalTheta, ControlOf, Active, Grading, Statements, MemType
  <2> QED
    BY <1>4, <2>1, <2>3, <2>5, <2>6, HandlerStep DEF GlobalTheta
<1> QED
  BY <1>1, <1>2, <1>3, <1>4

\* What the loop does after an answer, whatever m the answer left behind.
LEMMA NextAnswerTyped ==
    ASSUME TypeInv, NEW r \in Requests, NEW m \in MemType,
           m.k = mem[r].k, pc[r] \in Grading, NextAnswer(r, m),
           NEW b \in BufType, buf' = [buf EXCEPT ![r] = b],
           UNCHANGED <<tables, bank, req>>
    PROVE  TypeInv'
<1>. USE HandlerTyped
<1> DEFINE n == [m EXCEPT !.k = m.k + 1, !.topic = NoTopic, !.row = r,
                          !.snap = 0, !.points = {}]
           more == m.k < Len(req[r].answers)
<1>1. n \in MemType /\ n.k = m.k + 1
  <2> DEFINE y == [m EXCEPT !.k = m.k + 1]
  <2>1. y \in MemType /\ y.k = m.k + 1
    BY ONLY m \in MemType DEF MemType
  <2>2. \A z \in MemType :
            LET w == [z EXCEPT !.topic = NoTopic, !.row = r, !.snap = 0,
                               !.points = {}]
            IN w \in MemType /\ w.k = z.k
    BY ONLY r \in Requests DEF MemType
  <2> HIDE DEF y
  <2>3. n = [y EXCEPT !.topic = NoTopic, !.row = r, !.snap = 0, !.points = {}]
    BY DEF y
  <2> QED
    BY <2>1, <2>2, <2>3
<1>2. req[r].op = "answer" /\ mem[r].k <= Len(req[r].answers)
  BY DEF ControlOf, Active, Grading, Statements
<1>3. Len(req[r].answers) \in Nat /\ m.k \in Nat
  BY <1>2, MenuTyped DEF MemType
<1>4. CASE more
  <2>1. mem' = [mem EXCEPT ![r] = n] /\ pc' = [pc EXCEPT ![r] = "item"]
    BY <1>4 DEF NextAnswer, Goto
  <2>2. pc'[r] = "item" /\ mem'[r] = n /\ req'[r] = req[r]
    BY <2>1 DEF TypeInv, TypeOK
  <2>3. ControlOf(r)'
    BY <1>1, <1>2, <1>3, <1>4, <2>2 DEF ControlOf
  <2> QED
    BY <1>1, <2>1, <2>3, HandlerStep DEF Statements
<1>5. CASE ~more
  <2>1. mem' = [mem EXCEPT ![r] = m] /\ pc' = [pc EXCEPT ![r] = "commit"]
    BY <1>5 DEF NextAnswer, Goto
  <2>2. pc'[r] = "commit" /\ mem'[r] = m /\ req'[r] = req[r]
    BY <2>1 DEF TypeInv, TypeOK
  <2>3. ControlOf(r)'
    BY <1>2, <2>2 DEF ControlOf, Grading
  <2> QED
    BY <2>1, <2>3, HandlerStep DEF Statements
<1> QED
  BY <1>4, <1>5

LEMMA CountedTyped ==
    ASSUME NEW r, mem[r] \in MemType
    PROVE  /\ CountedOnce(r) \in MemType
           /\ CountedOnce(r).k = mem[r].k /\ CountedOnce(r).topic = mem[r].topic
<1> DEFINE d == mem[r].delivered + 1
           c == mem[r].correct + (IF Answer(r).kind = "correct" THEN 1 ELSE 0)
           n == mem[r].skipped + (IF Answer(r).kind = "skip" THEN 1 ELSE 0)
<1>1. d \in Nat /\ c \in Nat /\ n \in Nat
  BY DEF MemType
<1>2. CountedOnce(r) = [mem[r] EXCEPT !.delivered = d, !.correct = c, !.skipped = n]
  BY DEF CountedOnce
<1> HIDE DEF d, c, n
<1> QED
  BY <1>1, <1>2 DEF MemType

\* The steps that write responses, cards, counters and rollups.
LEMMA WriteTyped ==
    ASSUME TypeInv, NEW r \in Requests,
           \/ Respond(r) \/ WriteCard(r) \/ Counters(r)
           \/ MasteryWrite(r) \/ Close(r)
    PROVE  TypeInv'
<1>. USE HandlerTyped
<1>1. CASE Respond(r)
  <2> DEFINE a == Answer(r)
             new == [id |-> <<r, mem[r].k>>, session |-> req[r].session,
                     item |-> a.item, topic |-> mem[r].topic, kind |-> a.kind]
             b == [buf[r] EXCEPT !.responses = buf[r].responses \cup {new}]
             m == IF a.kind = "skip" THEN mem[r]
                  ELSE [mem[r] EXCEPT !.snap = Overlay(buf[r].card[a.item], card[a.item])]
             l == IF a.kind = "skip" THEN "counters" ELSE "card_write"
  <2>1. a \in AnswerType
    BY <1>1, AnswerTyped DEF Respond, ControlOf, Grading, Statements
  <2>2. new \in ResponseType
    BY <2>1 DEF ResponseType, Ids, MemType, RequestType, AnswerType
  <2>3. b \in BufType
    BY <2>2 DEF BufType
  <2>4. Overlay(buf[r].card[a.item], card[a.item]) \in Nat
    BY <2>1 DEF AnswerType, BufType, TypeInv, TypeOK, Overlay
  <2>5. m \in MemType /\ m.k = mem[r].k
    BY <2>4, SetSnap
  <2>6. /\ buf' = [buf EXCEPT ![r] = b]
        /\ mem' = [mem EXCEPT ![r] = m]
        /\ pc' = [pc EXCEPT ![r] = l]
    BY <1>1 DEF Respond, Goto, TypeInv, TypeOK
  <2>7. pc'[r] = l /\ mem'[r] = m /\ req'[r] = req[r]
    BY <1>1, <2>6 DEF Respond, TypeInv, TypeOK
  <2>8. ControlOf(r)'
    BY <1>1, <2>5, <2>7 DEF Respond, ControlOf, Active, Grading, Statements
  <2> QED
    BY <1>1, <2>3, <2>5, <2>6, <2>8, HandlerStep DEF Respond, Statements
<1>2. CASE WriteCard(r)
  <2> DEFINE i == Answer(r).item
             log == [id |-> <<r, mem[r].k>>, item |-> i,
                     before |-> IF mem[r].snap = 0 THEN "new" ELSE "seen"]
             b == [buf[r] EXCEPT !.card[i] = mem[r].snap + 1,
                                  !.log = buf[r].log \cup {log}]
  <2>1. i \in Items
    BY <1>2, AnswerTyped DEF WriteCard, ControlOf, Grading, Statements, AnswerType
  <2>2. log \in LogType /\ mem[r].snap + 1 \in Nat
    BY <2>1 DEF LogType, Ids, MemType
  <2>3. b \in BufType
    BY <2>1, <2>2 DEF BufType
  <2>6. /\ buf' = [buf EXCEPT ![r] = b]
        /\ mem' = [mem EXCEPT ![r] = mem[r]]
        /\ pc' = [pc EXCEPT ![r] = "global_row"]
    BY <1>2 DEF WriteCard, Goto, TypeInv, TypeOK
  <2>7. pc'[r] = "global_row" /\ mem'[r] = mem[r] /\ req'[r] = req[r]
    BY <1>2, <2>6 DEF WriteCard, TypeInv, TypeOK
  <2>8. ControlOf(r)'
    BY <1>2, <2>7 DEF WriteCard, ControlOf, Active, Grading, Statements
  <2> QED
    BY <1>2, <2>3, <2>6, <2>8, HandlerStep DEF WriteCard, Statements
<1>3. CASE Counters(r)
  <2> DEFINE m == CountedOnce(r)
             b == [buf[r] EXCEPT !.session = TRUE]
  <2>1. m \in MemType /\ m.k = mem[r].k /\ m.topic = mem[r].topic
    <3>1. mem[r] \in MemType
      OBVIOUS
    <3> QED
      BY ONLY <3>1, CountedTyped
  <2>2. b \in BufType
    BY DEF BufType
  <2>3. buf' = [buf EXCEPT ![r] = b]
    BY <1>3 DEF Counters
  <2>4. CASE mem[r].topic = NoTopic \/ Answer(r).kind = "skip"
    BY <1>3, <2>1, <2>2, <2>3, <2>4, NextAnswerTyped DEF Counters, Grading
  <2>5. CASE ~(mem[r].topic = NoTopic \/ Answer(r).kind = "skip")
    <3>1. /\ mem' = [mem EXCEPT ![r] = m]
          /\ pc' = [pc EXCEPT ![r] = "mastery_read"]
      BY <1>3, <2>5 DEF Counters, Goto
    <3>2. pc'[r] = "mastery_read" /\ mem'[r] = m /\ req'[r] = req[r]
      BY <1>3, <3>1 DEF Counters, TypeInv, TypeOK
    <3>3. mem[r].topic \in Topics
      BY <2>5 DEF MemType
    <3>4. ControlOf(r)'
      BY <1>3, <2>1, <3>2, <3>3 DEF Counters, ControlOf, Active, Grading, Statements
    <3> QED
      BY <1>3, <2>1, <2>2, <2>3, <3>1, <3>4, HandlerStep DEF Counters, Statements
  <2> QED
    BY <2>4, <2>5
<1>4. CASE MasteryWrite(r)
  <2> DEFINE t == mem[r].topic
             b == [buf[r] EXCEPT !.mastery[t] = mem[r].snap + 1]
  <2>1. t \in Topics /\ mem[r].snap + 1 \in Nat
    BY <1>4 DEF MasteryWrite, ControlOf, MemType
  <2>2. b \in BufType
    BY <2>1 DEF BufType
  <2>3. buf' = [buf EXCEPT ![r] = b]
    BY <1>4 DEF MasteryWrite
  <2> QED
    BY <1>4, <2>2, <2>3, NextAnswerTyped DEF MasteryWrite, Grading
<1>5. CASE Close(r)
  <2> DEFINE b == [buf[r] EXCEPT !.session = TRUE]
  <2>1. b \in BufType
    BY DEF BufType
  <2>2. /\ buf' = [buf EXCEPT ![r] = b]
        /\ mem' = [mem EXCEPT ![r] = mem[r]]
        /\ pc' = [pc EXCEPT ![r] = "commit"]
    BY <1>5 DEF Close, Goto, TypeInv, TypeOK
  <2>3. pc'[r] = "commit" /\ mem'[r] = mem[r] /\ req'[r] = req[r]
    BY <1>5, <2>2 DEF Close, TypeInv, TypeOK
  <2>4. ControlOf(r)'
    BY <1>5, <2>3 DEF Close, ControlOf, Active, Grading, Statements
  <2> QED
    BY <1>5, <2>1, <2>2, <2>4, HandlerStep DEF Close, Statements
<1> QED
  BY <1>1, <1>2, <1>3, <1>4, <1>5

LEMMA CommitTyped ==
    ASSUME TypeInv, NEW r \in Requests, Commit(r)
    PROVE  TypeInv'
<1>. USE HandlerTyped
<1>1. Net(mem[r]) \in Int
  BY PenaltyAssumption DEF Net, MemType
<1>2. WrittenSession(r) \in SessionType
  <2> DEFINE s == session[req[r].session]
  <2>1. /\ s \in SessionType
        /\ mem[r].delivered \in Nat /\ mem[r].correct \in Nat
        /\ mem[r].skipped \in Nat
    BY DEF MemType
  <2> HIDE DEF s
  <2>2. [s EXCEPT !.status = "completed", !.net = Net(mem[r])] \in SessionType
    BY ONLY <1>1, <2>1 DEF SessionType
  <2>3. [s EXCEPT !.delivered = mem[r].delivered, !.correct = mem[r].correct,
                  !.skipped = mem[r].skipped] \in SessionType
    BY ONLY <2>1 DEF SessionType
  <2>4. [status |-> "in_progress", delivered |-> 0, correct |-> 0,
         skipped |-> 0, net |-> 0] \in SessionType
    BY DEF SessionType
  <2> QED
    BY <2>1, <2>2, <2>3, <2>4 DEF WrittenSession, s
<1>3. TypeOK'
  <2>1. session' \in [Sessions -> SessionType]
    BY <1>2 DEF Commit, TypeInv, TypeOK
  <2>2. theta' \subseteq ThetaType
    BY ThetaTyped DEF Commit
  <2>3. card' \in [Items -> Nat] /\ mastery' \in [Topics -> Nat]
    BY DEF Commit, Overlay, BufType, TypeInv, TypeOK
  <2>4. responses' \subseteq ResponseType /\ reviewLog' \subseteq LogType
    BY DEF Commit, BufType, TypeInv, TypeOK
  <2>5. /\ mem' \in [Requests -> MemType] /\ buf' \in [Requests -> BufType]
        /\ pc' \in [Requests -> {"idle"} \cup Statements \cup Ended]
    BY FreshTyped DEF Commit, Goto, Ended, TypeInv, TypeOK
  <2> QED
    BY <2>1, <2>2, <2>3, <2>4, <2>5 DEF Commit, TypeInv, TypeOK, bank
<1>4. ASSUME NEW q \in Requests PROVE ControlOf(q)'
  <2>1. ControlOf(q) /\ req' = req
    BY DEF TypeInv, Control, Commit
  <2>2. CASE q = r
    <3>1. pc'[q] = "ok"
      BY <2>2 DEF Commit, Goto, TypeInv, TypeOK
    <3> QED
      BY <2>1, <3>1 DEF ControlOf, Active, Statements, Grading
  <2>3. CASE q # r
    <3>1. pc'[q] = pc[q] /\ mem'[q] = mem[q]
      BY <2>3 DEF Commit, Goto, TypeInv, TypeOK
    <3> QED
      BY <2>1, <3>1 DEF ControlOf, Active
  <2> QED
    BY <2>2, <2>3
<1> QED
  BY <1>3, <1>4 DEF TypeInv, Control

LEMMA NextTypeInv == TypeInv /\ [Next]_vars => TypeInv'
<1> SUFFICES ASSUME TypeInv, [Next]_vars PROVE TypeInv'
  OBVIOUS
<1>1. ASSUME NEW r \in Requests, Arrive(r) \/ Step(r) \/ Crash(r)
      PROVE  TypeInv'
  <2>1. CASE \E l \in Ended : Rollback(r, l)
    BY <2>1, RollbackTyped
  <2>2. CASE NotInProgress(r) \/ ItemRejected(r) \/ TwoGlobalThetas(r)
             \/ DuplicateKey(r) \/ DeadlockAbort(r) \/ Crash(r)
    <3>1. \E l \in Ended : Rollback(r, l)
      BY <2>2 DEF NotInProgress, ItemRejected, TwoGlobalThetas, DuplicateKey,
                  DeadlockAbort, Crash, Ended
    <3> QED
      BY <2>1, <3>1
  <2> QED
    BY <1>1, <2>2, ArriveTyped, ReadTyped, ThetaStepTyped, WriteTyped, CommitTyped
       DEF Step
<1>2. ASSUME NEW i \in Editable, NewVersion(i) \/ SoftDelete(i) \/ Retag(i)
      PROVE  TypeInv'
  <2>1. /\ itemState' \in [Items -> {"live", "revised", "deleted"}]
        /\ topicOf' \in [Items -> Topics \cup {NoTopic}]
    BY <1>2, LinksAssumption
       DEF NewVersion, SoftDelete, SetItemState, Retag, TypeInv, TypeOK
  <2>2. UNCHANGED <<tables, req, pc, mem, buf>>
    BY <1>2 DEF NewVersion, SoftDelete, SetItemState, Retag
  <2> QED
    BY <2>1, <2>2 DEF TypeInv, TypeOK, Control, ControlOf, Active, tables
<1>3. CASE UNCHANGED vars
  BY <1>3 DEF vars, tables, bank, TypeInv, TypeOK, Control, ControlOf, Active
<1> QED
  BY <1>1, <1>2, <1>3 DEF Next

\* Every variable keeps its type, and each handler executes only statements of
\* the request it accepted, with the counters, the answer index and the topic
\* those statements rely on.
THEOREM TypeCorrect == Spec => []TypeOK
<1>1. TypeInv => TypeOK
  BY DEF TypeInv
<1> QED
  BY <1>1, InitTypeInv, NextTypeInv, PTL DEF Spec

-----------------------------------------------------------------------------
(* Cards and their logs.  OneIntroduction alone is not inductive: a pending  *)
(* 'new' log must own the insert of its card, and no two transactions may    *)
(* own the same card.                                                        *)

IntroducedIn(i, logs) == \E l \in logs : l.item = i /\ l.before = "new"

SingleIntroductions(logs) ==
    \A l, k \in logs :
        l.item = k.item /\ l.before = "new" /\ k.before = "new" => l = k

CardLocks ==
    \A r, q \in Requests : \A i \in Items :
        buf[r].card[i] > 0 /\ buf[q].card[i] > 0 => r = q

CommittedCards ==
    /\ SingleIntroductions(reviewLog)
    /\ \A l \in reviewLog : card[l.item] > 0
    /\ \A i \in Items : card[i] > 0 => IntroducedIn(i, reviewLog)

PendingCards(r) ==
    /\ SingleIntroductions(buf[r].log)
    /\ \A l \in buf[r].log : buf[r].card[l.item] > 0
    /\ \A l \in buf[r].log : l.before = "new" => card[l.item] = 0
    /\ \A i \in Items :
           buf[r].card[i] > 0 => card[i] > 0 \/ IntroducedIn(i, buf[r].log)

\* A card read with repetitions is still there when it is written.
ReadCard(r) ==
    pc[r] = "card_write" /\ mem[r].snap > 0 =>
        card[Answer(r).item] > 0 \/ buf[r].card[Answer(r).item] > 0

CardInv ==
    /\ CardLocks
    /\ CommittedCards
    /\ \A r \in Requests : PendingCards(r) /\ ReadCard(r)

-----------------------------------------------------------------------------
(* What a request has written so far, and what it has committed. *)

\* The statements after the response of the current answer was inserted.
Responded ==
    {"card_write", "global_row", "global_points", "global_update",
     "topic_points", "topic_update", "counters", "mastery_read",
     "mastery_write", "commit"}

Written(r) == IF pc[r] \in Responded THEN mem[r].k ELSE mem[r].k - 1

PendingHistory(r) ==
    /\ \A x, y \in buf[r].responses : x.id = y.id => x = y
    /\ \A x \in buf[r].responses : x.session = req[r].session
    /\ Active(r) /\ req[r].op = "answer" =>
           {x.id : x \in buf[r].responses} = {r} \X (1 .. Written(r))
    /\ ~(Active(r) /\ req[r].op = "answer") =>
           buf[r].responses = {} /\ buf[r].log = {}
    /\ \A l \in buf[r].log :
           \E x \in buf[r].responses :
               x.id = l.id /\ x.item = l.item /\ x.kind # "skip"
    /\ \A x \in buf[r].responses :
           x.kind # "skip" =>
               \/ \E l \in buf[r].log : l.id = x.id
               \/ pc[r] = "card_write" /\ x.id[2] = mem[r].k
    /\ pc[r] = "card_write" =>
           \E x \in buf[r].responses :
               /\ x.id = <<r, mem[r].k>>
               /\ x.item = Answer(r).item /\ x.kind # "skip"
    /\ pc[r] = "commit" /\ req[r].op = "answer" =>
           mem[r].k = Len(req[r].answers)

HistoryInv ==
    /\ \A r \in Requests : PendingHistory(r)
    /\ AllOrNothing

-----------------------------------------------------------------------------
(* The session a request works on. *)

SessionOf(r) ==
    Active(r) =>
        /\ req[r].op = "start" => session[req[r].session].status = "none"
        /\ req[r].op # "start" /\ pc[r] # "load" =>
               session[req[r].session].status # "none"

FreshStarts ==
    \A r, q \in Requests :
        /\ Active(r) /\ req[r].op = "start"
        /\ Active(q) /\ req[q].op = "start"
        /\ req[r].session = req[q].session
        => r = q

SessionInv == FreshStarts /\ \A r \in Requests : SessionOf(r)

-----------------------------------------------------------------------------
(* Preservation. *)

\* The steps that touch no response, no card and no log.
Quiet(r) ==
    \/ Arrive(r) \/ Load(r) \/ LoadItem(r) \/ GlobalTheta(r) \/ TopicTheta(r)
    \/ InsertTopicTheta(r) \/ GlobalRow(r) \/ GlobalPoints(r)
    \/ GlobalUpdate(r) \/ TopicPoints(r) \/ TopicUpdate(r) \/ Counters(r)
    \/ MasteryRead(r) \/ MasteryWrite(r) \/ Close(r)

\* Every step is quiet, a rollback, or one of the three that matter here.
LEMMA StepKinds ==
    ASSUME NEW r \in Requests, Arrive(r) \/ Step(r) \/ Crash(r)
    PROVE  \/ Quiet(r) \/ Respond(r) \/ WriteCard(r) \/ Commit(r)
           \/ \E l \in Ended : Rollback(r, l)
<1>1. CASE NotInProgress(r) \/ ItemRejected(r) \/ TwoGlobalThetas(r)
           \/ DuplicateKey(r) \/ DeadlockAbort(r) \/ Crash(r)
  BY <1>1 DEF NotInProgress, ItemRejected, TwoGlobalThetas, DuplicateKey,
              DeadlockAbort, Crash, Ended
<1> QED
  BY <1>1 DEF Quiet, Step

\* What the author does is invisible to the practice tables.
LEMMA AuthorFrame ==
    ASSUME NEW i, NewVersion(i) \/ SoftDelete(i) \/ Retag(i)
    PROVE  UNCHANGED <<tables, req, pc, mem, buf>>
BY DEF NewVersion, SoftDelete, SetItemState, Retag

LEMMA PutThetaFrame ==
    ASSUME TypeInv, NEW r \in Requests, NEW x, PutTheta(r, x), NEW q \in Requests
    PROVE  /\ buf'[q].card = buf[q].card /\ buf'[q].log = buf[q].log
           /\ buf'[q].responses = buf[q].responses
BY HandlerTyped DEF PutTheta, TypeInv, TypeOK, BufType

LEMMA QuietFrame ==
    ASSUME TypeInv, NEW r \in Requests, Quiet(r), NEW q \in Requests
    PROVE  /\ UNCHANGED <<card, responses, reviewLog, session>>
           /\ buf'[q].card = buf[q].card /\ buf'[q].log = buf[q].log
           /\ buf'[q].responses = buf[q].responses
           /\ q # r => pc'[q] = pc[q] /\ mem'[q] = mem[q] /\ req'[q] = req[q]
           /\ pc'[r] # "card_write"
<1>1. UNCHANGED tables
  BY DEF Quiet, Arrive, Load, LoadItem, GlobalTheta, TopicTheta, InsertTopicTheta,
         GlobalRow, GlobalPoints, GlobalUpdate, TopicPoints, TopicUpdate, Counters,
         MasteryRead, MasteryWrite, Close
<1>2. /\ buf'[q].card = buf[q].card /\ buf'[q].log = buf[q].log
      /\ buf'[q].responses = buf[q].responses
  <2>1. CASE UNCHANGED buf
    BY <2>1
  <2>2. CASE \E x : PutTheta(r, x)
    BY <2>2, PutThetaFrame
  <2>3. CASE Counters(r) \/ Close(r) \/ MasteryWrite(r)
    <3>1. \/ buf' = [buf EXCEPT ![r] = [buf[r] EXCEPT !.session = TRUE]]
          \/ buf' = [buf EXCEPT ![r] = [buf[r] EXCEPT !.mastery =
                       [buf[r].mastery EXCEPT ![mem[r].topic] = mem[r].snap + 1]]]
      BY <2>3 DEF Counters, Close, MasteryWrite
    <3>2. q # r => buf'[q] = buf[q]
      BY <3>1 DEF TypeInv, TypeOK
    <3>3. buf[r] \in BufType
      BY HandlerTyped
    <3>4. \A x : /\ [buf[r] EXCEPT !.session = x].card = buf[r].card
                 /\ [buf[r] EXCEPT !.session = x].log = buf[r].log
                 /\ [buf[r] EXCEPT !.session = x].responses = buf[r].responses
                 /\ [buf[r] EXCEPT !.mastery = x].card = buf[r].card
                 /\ [buf[r] EXCEPT !.mastery = x].log = buf[r].log
                 /\ [buf[r] EXCEPT !.mastery = x].responses = buf[r].responses
      BY <3>3 DEF BufType
    <3>5. \E x : \/ buf'[r] = [buf[r] EXCEPT !.session = x]
                \/ buf'[r] = [buf[r] EXCEPT !.mastery = x]
      BY <3>1 DEF TypeInv, TypeOK
    <3> QED
      BY <3>2, <3>4, <3>5
  <2> QED
    BY <2>1, <2>2, <2>3
       DEF Quiet, Arrive, Load, LoadItem, GlobalTheta, TopicTheta,
           InsertTopicTheta, GlobalRow, GlobalPoints, GlobalUpdate, TopicPoints,
           TopicUpdate, MasteryRead
<1>3. q # r => pc'[q] = pc[q] /\ mem'[q] = mem[q] /\ req'[q] = req[q]
  BY DEF Quiet, Arrive, Load, LoadItem, GlobalTheta, TopicTheta, InsertTopicTheta,
         GlobalRow, GlobalPoints, GlobalUpdate, TopicPoints, TopicUpdate, Counters,
         MasteryRead, MasteryWrite, Close, NextAnswer, Goto, TypeInv, TypeOK
<1>4. pc'[r] # "card_write"
  BY DEF Quiet, Arrive, Load, LoadItem, GlobalTheta, TopicTheta, InsertTopicTheta,
         GlobalRow, GlobalPoints, GlobalUpdate, TopicPoints, TopicUpdate, Counters,
         MasteryRead, MasteryWrite, Close, NextAnswer, AfterTopic, Goto, TypeInv,
         TypeOK
<1> QED
  BY <1>1, <1>2, <1>3, <1>4 DEF tables

-----------------------------------------------------------------------------
(* CardInv is inductive. *)

LEMMA CardInvQuiet ==
    ASSUME TypeInv, CardInv, NEW r \in Requests, Quiet(r)
    PROVE  CardInv'
<1>1. CardLocks'
  BY QuietFrame DEF CardInv, CardLocks
<1>2. CommittedCards'
  BY QuietFrame DEF CardInv, CommittedCards, SingleIntroductions, IntroducedIn
<1>3. ASSUME NEW q \in Requests PROVE PendingCards(q)'
  <2>1. PendingCards(q)
    BY DEF CardInv
  <2>2. card' = card /\ buf'[q].card = buf[q].card /\ buf'[q].log = buf[q].log
    BY QuietFrame
  <2> QED
    BY <2>1, <2>2 DEF PendingCards, SingleIntroductions, IntroducedIn
<1>4. ASSUME NEW q \in Requests PROVE ReadCard(q)'
  <2>1. ReadCard(q)
    BY DEF CardInv
  <2>2. card' = card /\ buf'[q].card = buf[q].card /\ pc'[r] # "card_write"
        /\ (q # r => pc'[q] = pc[q] /\ mem'[q] = mem[q] /\ req'[q] = req[q])
    BY QuietFrame
  <2> QED
    BY <2>1, <2>2 DEF ReadCard, Answer
<1> QED
  BY <1>1, <1>2, <1>3, <1>4 DEF CardInv

LEMMA CardInvRollback ==
    ASSUME TypeInv, CardInv, NEW r \in Requests, NEW l \in Ended, Rollback(r, l)
    PROVE  CardInv'
<1>1. /\ card' = card /\ reviewLog' = reviewLog
      /\ \A q \in Requests :
             q # r => /\ buf'[q] = buf[q] /\ pc'[q] = pc[q]
                      /\ mem'[q] = mem[q] /\ req'[q] = req[q]
      /\ pc'[r] = l /\ buf'[r] = NoWrites
  BY DEF Rollback, Goto, tables, TypeInv, TypeOK
<1>2. NoWrites.log = {} /\ \A i \in Items : NoWrites.card[i] = 0
  BY DEF NoWrites
<1>3. CardLocks'
  BY <1>1, <1>2 DEF CardInv, CardLocks
<1>4. CommittedCards'
  BY <1>1 DEF CardInv, CommittedCards, SingleIntroductions, IntroducedIn
<1>5. ASSUME NEW q \in Requests PROVE PendingCards(q)'
  <2>1. CASE q = r
    BY <1>1, <1>2, <2>1 DEF PendingCards, SingleIntroductions, IntroducedIn
  <2>2. CASE q # r
    BY <1>1, <2>2 DEF CardInv, PendingCards, SingleIntroductions, IntroducedIn
  <2> QED
    BY <2>1, <2>2
<1>6. ASSUME NEW q \in Requests PROVE ReadCard(q)'
  BY <1>1 DEF CardInv, ReadCard, Answer, Ended
<1> QED
  BY <1>3, <1>4, <1>5, <1>6 DEF CardInv

LEMMA CardInvRespond ==
    ASSUME TypeInv, CardInv, NEW r \in Requests, Respond(r)
    PROVE  CardInv'
<1> DEFINE i == Answer(r).item
<1>1. /\ card' = card /\ reviewLog' = reviewLog
      /\ \A q \in Requests : q # r => buf'[q] = buf[q] /\ pc'[q] = pc[q]
                                     /\ mem'[q] = mem[q] /\ req'[q] = req[q]
  BY DEF Respond, Goto, tables, TypeInv, TypeOK
<1>2. buf'[r].card = buf[r].card /\ buf'[r].log = buf[r].log
  <2>1. \A x : /\ [buf[r] EXCEPT !.responses = x].card = buf[r].card
               /\ [buf[r] EXCEPT !.responses = x].log = buf[r].log
    BY HandlerTyped DEF BufType
  <2>2. \E x : buf'[r] = [buf[r] EXCEPT !.responses = x]
    BY DEF Respond, TypeInv, TypeOK
  <2> QED
    BY <2>1, <2>2
<1>3. CardLocks'
  BY <1>1, <1>2 DEF CardInv, CardLocks
<1>4. CommittedCards'
  BY <1>1 DEF CardInv, CommittedCards, SingleIntroductions, IntroducedIn
<1>5. ASSUME NEW q \in Requests PROVE PendingCards(q)'
  <2>1. buf'[q].card = buf[q].card /\ buf'[q].log = buf[q].log
    BY <1>1, <1>2
  <2> QED
    BY <1>1, <2>1 DEF CardInv, PendingCards, SingleIntroductions, IntroducedIn
<1>6. ASSUME NEW q \in Requests PROVE ReadCard(q)'
  <2>1. CASE q # r
    BY <1>1, <2>1 DEF CardInv, ReadCard, Answer
  <2>2. CASE q = r /\ pc'[r] = "card_write" /\ mem'[r].snap > 0
    <3>1. mem' = [mem EXCEPT ![r] = [mem[r] EXCEPT !.snap =
                     Overlay(buf[r].card[i], card[i])]]
      BY <2>2 DEF Respond, Goto, TypeInv, TypeOK
    <3>2. /\ mem'[r].snap = Overlay(buf[r].card[i], card[i])
          /\ mem'[r].k = mem[r].k
      BY <3>1, HandlerTyped DEF TypeInv, TypeOK, MemType
    <3>3. Answer(r)' = Answer(r)
      BY <3>2 DEF Answer, Respond
    <3> QED
      BY <1>1, <1>2, <2>2, <3>2, <3>3 DEF ReadCard, Overlay
  <2> QED
    BY <2>1, <2>2 DEF ReadCard
<1> QED
  BY <1>3, <1>4, <1>5, <1>6 DEF CardInv

LEMMA CardInvWriteCard ==
    ASSUME TypeInv, CardInv, NEW r \in Requests, WriteCard(r)
    PROVE  CardInv'
<1> DEFINE i == Answer(r).item
           n == mem[r].snap + 1
           log == [id |-> <<r, mem[r].k>>, item |-> i,
                   before |-> IF mem[r].snap = 0 THEN "new" ELSE "seen"]
<1>1. /\ card' = card /\ reviewLog' = reviewLog /\ pc'[r] = "global_row"
      /\ \A q \in Requests : q # r => buf'[q] = buf[q] /\ pc'[q] = pc[q]
                                     /\ mem'[q] = mem[q] /\ req'[q] = req[q]
  BY DEF WriteCard, Goto, tables, TypeInv, TypeOK
<1>2. /\ i \in Items /\ mem[r].snap \in Nat /\ card[i] \in Nat
      /\ buf[r].card \in [Items -> Nat]
  <2>1. i \in Items
    BY AnswerTyped, HandlerTyped DEF WriteCard, ControlOf, Grading, Statements, AnswerType
  <2> QED
    BY <2>1, HandlerTyped DEF MemType, BufType, TypeInv, TypeOK
<1>3. /\ buf'[r].card = [buf[r].card EXCEPT ![i] = n]
      /\ buf'[r].log = buf[r].log \cup {log}
  <2>1. buf'[r] = [buf[r] EXCEPT !.card = [buf[r].card EXCEPT ![i] = n],
                                 !.log = buf[r].log \cup {log}]
    BY DEF WriteCard, TypeInv, TypeOK
  <2>2. \A x, y : /\ [buf[r] EXCEPT !.card = x, !.log = y].card = x
                  /\ [buf[r] EXCEPT !.card = x, !.log = y].log = y
    BY HandlerTyped DEF BufType
  <2> QED
    BY <2>1, <2>2
<1>4. /\ buf'[r].card[i] = n /\ n > 0
      /\ \A j \in Items : j # i => buf'[r].card[j] = buf[r].card[j]
  BY <1>2, <1>3
<1>5. /\ \A q \in Requests : q # r => ~(buf[q].card[i] > 0)
      /\ mem[r].snap = 0 => card[i] = 0 /\ buf[r].card[i] = 0
      /\ mem[r].snap > 0 => card[i] > 0 \/ buf[r].card[i] > 0
  <2>1. \A q \in Requests : q # r /\ buf[q].card[i] > 0
                            /\ (mem[r].snap > 0 \/ card[i] = 0) => q \in Holders(r)
    BY DEF WriteCard, Holders
  <2>2. mem[r].snap = 0 => card[i] = 0 /\ buf[r].card[i] = 0
    BY DEF WriteCard
  <2> QED
    BY <1>2, <2>1, <2>2 DEF WriteCard, CardInv, ReadCard
<1>6. CardLocks'
  <2> SUFFICES ASSUME NEW p \in Requests, NEW q \in Requests, NEW j \in Items,
                      buf'[p].card[j] > 0, buf'[q].card[j] > 0
               PROVE  p = q
    BY DEF CardLocks
  <2>1. CASE j = i
    BY <1>1, <1>5, <2>1
  <2>2. CASE j # i
    BY <1>1, <1>4, <2>2 DEF CardInv, CardLocks
  <2> QED
    BY <2>1, <2>2
<1>7. CommittedCards'
  BY <1>1 DEF CardInv, CommittedCards, SingleIntroductions, IntroducedIn
<1>8. ASSUME NEW q \in Requests, q # r PROVE PendingCards(q)'
  BY <1>1, <1>8 DEF CardInv, PendingCards, SingleIntroductions, IntroducedIn
<1>9. PendingCards(r)'
  <2>1. PendingCards(r) /\ buf[r].log \subseteq LogType
    BY HandlerTyped DEF CardInv, BufType
  <2>2. SingleIntroductions(buf'[r].log)
    <3>1. \A l \in buf[r].log : l.item = i => buf[r].card[i] > 0
      BY <2>1 DEF PendingCards
    <3>2. log.before = "new" => \A l \in buf[r].log : l.item # i
      BY <1>2, <1>5, <3>1
    <3> QED
      BY <1>3, <2>1, <3>2 DEF SingleIntroductions, PendingCards
  <2>3. \A l \in buf'[r].log : buf'[r].card[l.item] > 0
    BY <1>2, <1>3, <1>4, <2>1 DEF PendingCards, LogType
  <2>4. \A l \in buf'[r].log : l.before = "new" => card'[l.item] = 0
    BY <1>1, <1>2, <1>3, <1>5, <2>1 DEF PendingCards
  <2>5. ASSUME NEW j \in Items, buf'[r].card[j] > 0
        PROVE  card'[j] > 0 \/ IntroducedIn(j, buf'[r].log)
    <3>1. IntroducedIn(j, buf[r].log) => IntroducedIn(j, buf'[r].log)
      BY <1>3 DEF IntroducedIn
    <3>2. CASE j # i
      BY <1>1, <1>4, <2>1, <2>5, <3>1, <3>2 DEF PendingCards
    <3>3. CASE j = i /\ mem[r].snap = 0
      <4>1. log \in buf'[r].log /\ log.item = j /\ log.before = "new"
        BY <1>3, <3>3
      <4> QED
        BY <4>1 DEF IntroducedIn
    <3>4. CASE j = i /\ mem[r].snap > 0
      BY <1>1, <1>5, <2>1, <3>1, <3>4 DEF PendingCards
    <3> QED
      BY <1>2, <3>2, <3>3, <3>4
  <2> QED
    BY <2>2, <2>3, <2>4, <2>5 DEF PendingCards
<1>10. ASSUME NEW q \in Requests PROVE ReadCard(q)'
  BY <1>1 DEF CardInv, ReadCard, Answer
<1> QED
  BY <1>6, <1>7, <1>8, <1>9, <1>10 DEF CardInv

LEMMA CardInvCommit ==
    ASSUME TypeInv, CardInv, NEW r \in Requests, Commit(r)
    PROVE  CardInv'
<1>1. /\ pc'[r] = "ok" /\ buf'[r] = NoWrites
      /\ \A q \in Requests : q # r => buf'[q] = buf[q] /\ pc'[q] = pc[q]
                                     /\ mem'[q] = mem[q] /\ req'[q] = req[q]
      /\ reviewLog' = reviewLog \cup buf[r].log
  BY DEF Commit, Goto, TypeInv, TypeOK
<1>2. \A i \in Items : card'[i] = IF buf[r].card[i] > 0 THEN buf[r].card[i] ELSE card[i]
  BY DEF Commit, Overlay
<1>3. NoWrites.log = {} /\ \A i \in Items : NoWrites.card[i] = 0
  BY DEF NoWrites
<1>4. PendingCards(r) /\ CommittedCards /\ CardLocks
  BY DEF CardInv
<1>5. /\ buf[r].log \subseteq LogType /\ reviewLog \subseteq LogType
      /\ \A l \in LogType : l.item \in Items
  BY HandlerTyped DEF BufType, LogType, TypeInv, TypeOK
<1>6. \A i \in Items : card[i] > 0 => card'[i] > 0
  BY <1>2
<1>7. CardLocks'
  BY <1>1, <1>3, <1>4 DEF CardLocks
<1>8. CommittedCards'
  <2>1. SingleIntroductions(reviewLog')
    <3>1. \A l \in buf[r].log, k \in reviewLog :
              l.before = "new" => l.item # k.item
      BY <1>4, <1>5 DEF PendingCards, CommittedCards
    <3> QED
      BY <1>1, <1>4, <3>1 DEF PendingCards, CommittedCards, SingleIntroductions
  <2>2. \A l \in reviewLog' : card'[l.item] > 0
    BY <1>1, <1>2, <1>4, <1>5, <1>6 DEF PendingCards, CommittedCards
  <2>3. \A i \in Items : card'[i] > 0 => IntroducedIn(i, reviewLog')
    BY <1>1, <1>2, <1>4 DEF PendingCards, CommittedCards, IntroducedIn
  <2> QED
    BY <2>1, <2>2, <2>3 DEF CommittedCards
<1>9. ASSUME NEW q \in Requests PROVE PendingCards(q)'
  <2>1. CASE q = r
    BY <1>1, <1>3, <2>1 DEF PendingCards, SingleIntroductions, IntroducedIn
  <2>2. CASE q # r
    <3>1. PendingCards(q) /\ buf'[q] = buf[q]
      BY <1>1, <2>2 DEF CardInv
    <3>2. \A l \in buf[q].log : l.item \in Items /\ buf[q].card[l.item] > 0
      BY <3>1, <1>5, HandlerTyped DEF PendingCards, BufType
    <3>3. \A l \in buf[q].log : l.before = "new" => card'[l.item] = 0
      BY <1>2, <1>4, <2>2, <3>1, <3>2 DEF PendingCards, CardLocks
    <3>4. \A i \in Items :
              buf[q].card[i] > 0 => card'[i] > 0 \/ IntroducedIn(i, buf[q].log)
      BY <1>6, <3>1 DEF PendingCards
    <3> QED
      BY <3>1, <3>2, <3>3, <3>4 DEF PendingCards
  <2> QED
    BY <2>1, <2>2
<1>10. ASSUME NEW q \in Requests PROVE ReadCard(q)'
  <2>1. CASE q = r
    BY <1>1, <2>1 DEF ReadCard
  <2>2. CASE q # r /\ pc[q] = "card_write"
    <3>1. Answer(q)' = Answer(q) /\ Answer(q).item \in Items
      BY <1>1, <2>2, AnswerTyped, HandlerTyped
         DEF Answer, ControlOf, Grading, Statements, AnswerType
    <3> QED
      BY <1>1, <1>6, <2>2, <3>1 DEF CardInv, ReadCard
  <2>3. CASE q # r /\ pc[q] # "card_write"
    BY <1>1, <2>3 DEF ReadCard
  <2> QED
    BY <2>1, <2>2, <2>3
<1> QED
  BY <1>7, <1>8, <1>9, <1>10 DEF CardInv

LEMMA InitCardInv == Init => CardInv
<1> SUFFICES ASSUME Init PROVE CardInv
  OBVIOUS
<1>1. /\ \A r \in Requests : buf[r].log = {} /\ \A i \in Items : buf[r].card[i] = 0
      /\ \A i \in Items : card[i] = 0
      /\ reviewLog = {} /\ \A r \in Requests : pc[r] = "idle"
  BY DEF Init, NoWrites
<1> QED
  BY <1>1 DEF CardInv, CardLocks, CommittedCards, PendingCards, ReadCard,
              SingleIntroductions, IntroducedIn

LEMMA NextCardInv == TypeInv /\ CardInv /\ [Next]_vars => CardInv'
<1> SUFFICES ASSUME TypeInv, CardInv, [Next]_vars PROVE CardInv'
  OBVIOUS
<1>1. ASSUME NEW r \in Requests, Arrive(r) \/ Step(r) \/ Crash(r) PROVE CardInv'
  BY <1>1, StepKinds, CardInvQuiet, CardInvRollback, CardInvRespond,
     CardInvWriteCard, CardInvCommit
<1>2. CASE UNCHANGED <<tables, req, pc, mem, buf>>
  BY <1>2 DEF tables, CardInv, CardLocks, CommittedCards, PendingCards, ReadCard,
              SingleIntroductions, IntroducedIn, Answer
<1>3. ASSUME NEW i \in Editable, NewVersion(i) \/ SoftDelete(i) \/ Retag(i)
      PROVE  CardInv'
  BY <1>2, <1>3, AuthorFrame
<1> QED
  BY <1>1, <1>2, <1>3 DEF Next, vars

\* However many answers to an item race, at most one of them commits a log
\* with state_before = 'new': the primary key of card_states decides, and the
\* loser's transaction is rolled back with its log.
THEOREM IntroducedOnce == Spec => []OneIntroduction
<1>1. CardInv => OneIntroduction
  BY DEF CardInv, CommittedCards, SingleIntroductions, OneIntroduction
<1> QED
  BY <1>1, InitTypeInv, NextTypeInv, InitCardInv, NextCardInv, PTL DEF Spec

-----------------------------------------------------------------------------
(* HistoryInv is inductive. *)

\* Quiet steps of an accepted request leave the number of answers written
\* unchanged: the loop counter moves exactly when an answer is complete.
LEMMA QuietWritten ==
    ASSUME TypeInv, NEW r \in Requests, Quiet(r), ~Arrive(r)
    PROVE  /\ req' = req /\ Active(r) /\ Active(r)' /\ pc[r] # "card_write"
           /\ req[r].op = "answer" =>
                  /\ Written(r)' = Written(r)
                  /\ pc'[r] = "commit" => mem'[r].k = Len(req[r].answers)
<1>. USE HandlerTyped
<1>1. req' = req /\ pc[r] \in Statements \ {"card_write"}
  BY DEF Quiet, Load, LoadItem, GlobalTheta, TopicTheta, InsertTopicTheta,
         GlobalRow, GlobalPoints, GlobalUpdate, TopicPoints, TopicUpdate, Counters,
         MasteryRead, MasteryWrite, Close, Statements
<1>2. CASE Load(r) \/ LoadItem(r) \/ GlobalTheta(r) \/ TopicTheta(r)
           \/ InsertTopicTheta(r)
  <2>1. mem'[r].k = mem[r].k
    BY <1>2, ReadTyped DEF GlobalTheta, InsertTopicTheta
  <2>2. /\ pc[r] \notin Responded
        /\ pc'[r] \in {"item", "close", "global", "respond", "topic",
                       "topic_insert", "commit"}
        /\ req[r].op = "answer" => pc'[r] # "commit"
    BY <1>2 DEF Load, LoadItem, GlobalTheta, TopicTheta, InsertTopicTheta,
                AfterTopic, Goto, Responded, TypeInv, TypeOK
  <2> QED
    BY <1>1, <2>1, <2>2 DEF Written, Responded, Active, Statements
<1>3. CASE GlobalRow(r) \/ GlobalPoints(r) \/ GlobalUpdate(r) \/ TopicPoints(r)
           \/ TopicUpdate(r) \/ MasteryRead(r)
  <2>1. mem'[r].k = mem[r].k
    BY <1>3, ReadTyped DEF GlobalUpdate, TopicUpdate
  <2>2. /\ pc[r] \in Responded
        /\ pc'[r] \in {"global_points", "global_update", "counters",
                       "topic_points", "topic_update", "mastery_write"}
    BY <1>3 DEF GlobalRow, GlobalPoints, GlobalUpdate, TopicPoints, TopicUpdate,
                MasteryRead, Goto, Responded, TypeInv, TypeOK
  <2> QED
    BY <1>1, <2>1, <2>2 DEF Written, Responded, Active, Statements
<1>4. ASSUME NEW m \in MemType, m.k = mem[r].k, NextAnswer(r, m),
             pc[r] \in {"counters", "mastery_write"}
      PROVE  /\ Active(r)' /\ Written(r)' = Written(r)
             /\ pc'[r] = "commit" => mem'[r].k = Len(req[r].answers)
  <2>1. /\ Len(req[r].answers) \in Nat /\ mem[r].k \in Nat
        /\ mem[r].k <= Len(req[r].answers)
    BY <1>4, MenuTyped DEF ControlOf, Active, Grading, Statements, MemType
  <2> DEFINE n == [m EXCEPT !.k = m.k + 1, !.topic = NoTopic, !.row = r,
                            !.snap = 0, !.points = {}]
  <2>2. n.k = m.k + 1
    BY <1>4 DEF MemType
  <2> HIDE DEF n
  <2>3. \/ /\ m.k < Len(req[r].answers) /\ pc'[r] = "item" /\ mem'[r] = n
        \/ /\ ~(m.k < Len(req[r].answers)) /\ pc'[r] = "commit" /\ mem'[r] = m
    BY <1>4 DEF NextAnswer, Goto, TypeInv, TypeOK, n
  <2> QED
    BY <1>4, <2>1, <2>2, <2>3 DEF Written, Responded, Active, Statements
<1>5. CASE Counters(r)
  <2>1. CountedOnce(r) \in MemType /\ CountedOnce(r).k = mem[r].k
    BY CountedTyped
  <2>2. CASE NextAnswer(r, CountedOnce(r))
    BY <1>1, <1>4, <1>5, <2>1, <2>2 DEF Counters, Active
  <2>3. CASE ~NextAnswer(r, CountedOnce(r))
    <3>1. pc'[r] = "mastery_read" /\ mem'[r] = CountedOnce(r)
      BY <1>5, <2>3 DEF Counters, Goto, TypeInv, TypeOK
    <3> QED
      BY <1>1, <1>5, <2>1, <3>1 DEF Counters, Written, Responded, Active, Statements
  <2> QED
    BY <2>2, <2>3
<1>6. CASE MasteryWrite(r)
  BY <1>1, <1>4, <1>6 DEF MasteryWrite, Active
<1>7. CASE Close(r)
  <2>1. pc'[r] = "commit" /\ req[r].op = "finish"
    BY <1>7 DEF Close, Goto, ControlOf, TypeInv, TypeOK
  <2> QED
    BY <1>1, <2>1 DEF Active, Statements
<1> QED
  BY <1>2, <1>3, <1>5, <1>6, <1>7 DEF Quiet

\* A handler nobody touched keeps its history.
LEMMA HistoryOfOthers ==
    ASSUME NEW q \in Requests, PendingHistory(q), buf'[q] = buf[q],
           pc'[q] = pc[q], mem'[q] = mem[q], req'[q] = req[q]
    PROVE  PendingHistory(q)'
BY DEF PendingHistory, Written, Active, Answer

\* AllOrNothing depends on the ledgers and on which requests ended well.
LEMMA KeepAllOrNothing ==
    ASSUME AllOrNothing, responses' = responses, reviewLog' = reviewLog,
           \A q \in Requests : (pc'[q] = "ok") <=> (pc[q] = "ok"),
           \A q \in Requests : pc[q] = "ok" => req'[q] = req[q]
    PROVE  AllOrNothing'
<1> SUFFICES ASSUME NEW q \in Requests PROVE Whole(q)'
  BY DEF AllOrNothing
<1>1. Whole(q)
  BY DEF AllOrNothing
<1>2. Kept(q)' = Kept(q) /\ LoggedBy(q)' = LoggedBy(q)
  BY DEF Kept, LoggedBy
<1>3. /\ (pc'[q] = "ok") <=> (pc[q] = "ok")
      /\ pc[q] = "ok" => req'[q] = req[q]
  OBVIOUS
<1> QED
  BY <1>1, <1>2, <1>3 DEF Whole

LEMMA HistoryInvQuiet ==
    ASSUME TypeInv, HistoryInv, NEW r \in Requests, Quiet(r)
    PROVE  HistoryInv'
<1>1. /\ responses' = responses /\ reviewLog' = reviewLog
      /\ \A q \in Requests :
             q # r => /\ pc'[q] = pc[q] /\ mem'[q] = mem[q] /\ req'[q] = req[q]
      /\ pc'[r] # "card_write"
      /\ \A q \in Requests : /\ buf'[q].responses = buf[q].responses
                             /\ buf'[q].log = buf[q].log
  BY QuietFrame
<1>2. pc[r] # "ok" /\ pc'[r] # "ok"
  <2>1. CASE Arrive(r)
    <3>1. pc[r] = "idle" /\ \E l \in {"global", "topic", "load"} : Goto(r, l)
      BY <2>1 DEF Arrive
    <3> QED
      BY <3>1 DEF Goto, TypeInv, TypeOK
  <2>2. CASE ~Arrive(r)
    BY <2>2, QuietWritten DEF Active, Statements
  <2> QED
    BY <2>1, <2>2
<1>3. AllOrNothing'
  BY <1>1, <1>2, KeepAllOrNothing DEF HistoryInv
<1>4. ASSUME NEW q \in Requests, q # r PROVE PendingHistory(q)'
  BY <1>1, <1>4 DEF HistoryInv, PendingHistory, Written, Active, Answer
<1>5. PendingHistory(r)'
  <2>1. PendingHistory(r)
    BY DEF HistoryInv
  <2>2. CASE Arrive(r)
    <3>0. pc[r] = "idle"
      BY <2>2 DEF Arrive
    <3>1. /\ mem[r].k = 1
          /\ buf[r].responses = {} /\ buf[r].log = {}
      <4>1. mem[r] = NoMem(r)
        BY <3>0, HandlerTyped DEF ControlOf
      <4>2. ~Active(r)
        BY <3>0 DEF Active, Statements
      <4> QED
        BY <2>1, <4>1, <4>2 DEF PendingHistory, NoMem
    <3>2. pc'[r] \in {"global", "topic", "load"}
      BY <2>2 DEF Arrive, Goto, TypeInv, TypeOK
    <3>3. mem'[r].k = 1
      <4>1. \/ mem'[r] = mem[r]
            \/ \E t \in Topics \cup {NoTopic} : mem'[r] = [mem[r] EXCEPT !.topic = t]
        <5>1. PICK m \in Menu :
                 \/ mem' = [mem EXCEPT ![r] = [mem[r] EXCEPT !.topic = m.scope]]
                 \/ mem' = mem
          BY <2>2 DEF Arrive
        <5>2. m.scope \in Topics \cup {NoTopic}
          BY MenuTyped DEF RequestType
        <5> QED
          BY <5>1, <5>2 DEF TypeInv, TypeOK
      <4> QED
        BY <3>1, <4>1, SetTopic, HandlerTyped
    <3>4. Written(r)' = 0
      BY <3>2, <3>3 DEF Written, Responded
    <3>5. buf'[r].responses = {} /\ buf'[r].log = {}
      BY <1>1, <3>1
    <3> QED
      BY <3>2, <3>4, <3>5 DEF PendingHistory
  <2>3. CASE ~Arrive(r)
    <3>1. /\ req' = req /\ Active(r) /\ Active(r)' /\ pc[r] # "card_write"
          /\ req[r].op = "answer" =>
                  /\ Written(r)' = Written(r)
                  /\ pc'[r] = "commit" => mem'[r].k = Len(req[r].answers)
      BY <2>3, QuietWritten
    <3> QED
      BY <1>1, <2>1, <3>1 DEF PendingHistory
  <2> QED
    BY <2>2, <2>3
<1> QED
  BY <1>3, <1>4, <1>5 DEF HistoryInv

\* A rollback ends an accepted request, and ends it well only for the second
\* finish of a session.
LEMMA RollbackKinds ==
    ASSUME TypeInv, NEW r \in Requests, Arrive(r) \/ Step(r) \/ Crash(r),
           NEW l \in Ended, Rollback(r, l), ~Quiet(r), ~Respond(r),
           ~WriteCard(r), ~Commit(r)
    PROVE  pc[r] # "ok" /\ (l = "ok" => req[r].op # "answer")
<1>1. pc'[r] = l
  BY DEF Rollback, Goto, TypeInv, TypeOK
<1>2. CASE NotInProgress(r)
  BY <1>1, <1>2 DEF NotInProgress, Rollback, Goto, TypeInv, TypeOK
<1>3. CASE ItemRejected(r) \/ TwoGlobalThetas(r) \/ DuplicateKey(r)
  BY <1>1, <1>3 DEF ItemRejected, TwoGlobalThetas, DuplicateKey, Rollback, Goto,
                    TypeInv, TypeOK
<1>4. CASE DeadlockAbort(r)
  <2>1. Holders(r) # {}
    BY <1>4 DEF DeadlockAbort, InCycle
  <2>2. pc[r] \in {"topic_insert", "card_write", "global_update", "topic_update",
                  "counters", "close", "mastery_write"}
    BY <2>1 DEF Holders
  <2> QED
    BY <1>1, <1>4, <2>2 DEF DeadlockAbort, Rollback, Goto, TypeInv, TypeOK
<1>5. CASE Crash(r)
  BY <1>1, <1>5 DEF Crash, Active, Statements, Rollback, Goto, TypeInv, TypeOK
<1> QED
  BY <1>2, <1>3, <1>4, <1>5 DEF Quiet, Step

LEMMA HistoryInvRollback ==
    ASSUME TypeInv, HistoryInv, NEW r \in Requests, NEW l \in Ended, Rollback(r, l),
           pc[r] # "ok", l = "ok" => req[r].op # "answer"
    PROVE  HistoryInv'
<1>1. /\ responses' = responses /\ reviewLog' = reviewLog /\ req' = req
      /\ \A q \in Requests : q # r => /\ buf'[q] = buf[q] /\ pc'[q] = pc[q]
                                     /\ mem'[q] = mem[q] /\ req'[q] = req[q]
      /\ pc'[r] = l /\ buf'[r] = NoWrites
  BY DEF Rollback, Goto, tables, TypeInv, TypeOK
<1>2. ASSUME NEW q \in Requests, q # r PROVE PendingHistory(q)'
  BY <1>1, <1>2, HistoryOfOthers DEF HistoryInv
<1>3. PendingHistory(r)'
  BY <1>1 DEF PendingHistory, NoWrites, Active, Statements, Ended
<1>4. AllOrNothing'
  <2>1. l = "ok" => req[r].answers = <<>>
    BY MenuTyped, HandlerTyped
  <2> SUFFICES ASSUME NEW q \in Requests PROVE Whole(q)'
    BY DEF AllOrNothing
  <2>2. /\ Whole(q) /\ Kept(q)' = Kept(q) /\ LoggedBy(q)' = LoggedBy(q)
    BY <1>1 DEF HistoryInv, AllOrNothing, Kept, LoggedBy
  <2>3. CASE q = r
    <3>1. Kept(r) = {} /\ LoggedBy(r) = {}
      BY <2>2, <2>3 DEF Whole
    <3>2. l = "ok" => {r} \X (1 .. Len(req[r].answers)) = {}
      BY <2>1
    <3> QED
      BY <1>1, <2>2, <2>3, <3>1, <3>2 DEF Whole
  <2>4. CASE q # r
    BY <1>1, <2>2, <2>4 DEF Whole
  <2> QED
    BY <2>3, <2>4
<1> QED
  BY <1>2, <1>3, <1>4 DEF HistoryInv

\* Everything a transaction has pending carries its own name.
LEMMA PendingIds ==
    ASSUME TypeInv, NEW r \in Requests, PendingHistory(r)
    PROVE  /\ \A x \in buf[r].responses :
                  /\ x.id[1] = r /\ x.id[2] \in 1 .. Written(r)
                  /\ x.id = <<r, x.id[2]>>
           /\ \A l \in buf[r].log : l.id[1] = r
<1>1. \A x \in buf[r].responses : x.id \in {r} \X (1 .. Written(r))
  BY DEF PendingHistory
<1>2. \A x \in buf[r].responses :
          x.id[1] = r /\ x.id[2] \in 1 .. Written(r) /\ x.id = <<r, x.id[2]>>
  BY <1>1
<1> QED
  BY <1>2 DEF PendingHistory

LEMMA HistoryInvRespond ==
    ASSUME TypeInv, HistoryInv, NEW r \in Requests, Respond(r)
    PROVE  HistoryInv'
<1> DEFINE a == Answer(r)
           k == mem[r].k
           new == [id |-> <<r, k>>, session |-> req[r].session, item |-> a.item,
                   topic |-> mem[r].topic, kind |-> a.kind]
<1>1. /\ responses' = responses /\ reviewLog' = reviewLog /\ req' = req
      /\ \A q \in Requests : q # r => /\ buf'[q] = buf[q] /\ pc'[q] = pc[q]
                                     /\ mem'[q] = mem[q]
      /\ pc[r] = "respond"
      /\ pc'[r] = (IF a.kind = "skip" THEN "counters" ELSE "card_write")
  BY DEF Respond, Goto, tables, TypeInv, TypeOK
<1>2. req[r].op = "answer" /\ Active(r) /\ Active(r)' /\ k \in Nat \ {0}
  BY <1>1, HandlerTyped DEF ControlOf, Grading, Active, Statements, MemType
<1>3. mem'[r].k = k
  <2>1. \/ mem'[r] = mem[r]
        \/ \E n \in Nat : mem'[r] = [mem[r] EXCEPT !.snap = n]
    <3>1. Overlay(buf[r].card[a.item], card[a.item]) \in Nat
      <4>1. a.item \in Items
        BY <1>1, <1>2, AnswerTyped DEF Statements, AnswerType
      <4> QED
        BY <4>1, HandlerTyped DEF Overlay, BufType, TypeInv, TypeOK
    <3> QED
      BY <3>1 DEF Respond, TypeInv, TypeOK
  <2> QED
    BY <2>1, SetSnap, HandlerTyped
<1>4. /\ buf'[r].responses = buf[r].responses \cup {new}
      /\ buf'[r].log = buf[r].log
  <2>1. buf'[r] = [buf[r] EXCEPT !.responses = buf[r].responses \cup {new}]
    BY DEF Respond, TypeInv, TypeOK
  <2>2. \A x : /\ [buf[r] EXCEPT !.responses = x].responses = x
               /\ [buf[r] EXCEPT !.responses = x].log = buf[r].log
    BY HandlerTyped DEF BufType
  <2> QED
    BY <2>1, <2>2
<1>5. AllOrNothing'
  BY <1>1, KeepAllOrNothing DEF HistoryInv
<1>6. ASSUME NEW q \in Requests, q # r PROVE PendingHistory(q)'
  BY <1>1, <1>6, HistoryOfOthers DEF HistoryInv
<1>7. PendingHistory(r)'
  <2>1. PendingHistory(r)
    BY DEF HistoryInv
  <2>2. Written(r) = k - 1 /\ Written(r)' = k
    BY <1>1, <1>3 DEF Written, Responded
  <2>3. /\ new.id = <<r, k>> /\ new.session = req[r].session
        /\ new.item = a.item /\ new.kind = a.kind
    OBVIOUS
  <2> HIDE DEF new
  <2>4. \A x \in buf[r].responses : x.id # new.id
    BY <1>2, <2>1, <2>2, <2>3, PendingIds
  <2>5. {x.id : x \in buf'[r].responses} = {r} \X (1 .. k)
    <3>1. {x.id : x \in buf[r].responses} = {r} \X (1 .. (k - 1))
      BY <1>2, <2>1, <2>2 DEF PendingHistory
    <3>2. 1 .. k = (1 .. (k - 1)) \cup {k}
      BY <1>2
    <3>3. {x.id : x \in buf'[r].responses} =
              {x.id : x \in buf[r].responses} \cup {<<r, k>>}
      BY <1>4, <2>3
    <3> QED
      BY <3>1, <3>2, <3>3
  <2>6. Answer(r)' = a
    BY <1>1, <1>3 DEF Answer
  <2>7. \A x \in buf'[r].responses : x \in buf[r].responses \/ x = new
    BY <1>4
  <2>8. /\ \A x, y \in buf'[r].responses : x.id = y.id => x = y
        /\ \A x \in buf'[r].responses : x.session = req'[r].session
    BY <1>1, <2>1, <2>3, <2>4, <2>7 DEF PendingHistory
  <2>9. \A l \in buf'[r].log :
            \E x \in buf'[r].responses :
                x.id = l.id /\ x.item = l.item /\ x.kind # "skip"
    BY <1>4, <2>1 DEF PendingHistory
  <2>10. \A x \in buf'[r].responses :
            x.kind # "skip" =>
               \/ \E l \in buf'[r].log : l.id = x.id
               \/ pc'[r] = "card_write" /\ x.id[2] = mem'[r].k
    BY <1>1, <1>3, <1>4, <2>1, <2>3, <2>7 DEF PendingHistory
  <2>11. pc'[r] = "card_write" =>
            \E x \in buf'[r].responses :
                /\ x.id = <<r, mem'[r].k>>
                /\ x.item = a.item /\ x.kind # "skip"
    BY <1>1, <1>3, <1>4, <2>3
  <2>12. pc'[r] # "commit"
    BY <1>1
  <2> QED
    BY <1>1, <1>2, <2>2, <2>5, <2>6, <2>8, <2>9, <2>10, <2>11, <2>12
       DEF PendingHistory
<1> QED
  BY <1>5, <1>6, <1>7 DEF HistoryInv

LEMMA HistoryInvWriteCard ==
    ASSUME TypeInv, HistoryInv, NEW r \in Requests, WriteCard(r)
    PROVE  HistoryInv'
<1> DEFINE log == [id |-> <<r, mem[r].k>>, item |-> Answer(r).item,
                   before |-> IF mem[r].snap = 0 THEN "new" ELSE "seen"]
<1>1. /\ responses' = responses /\ reviewLog' = reviewLog /\ req' = req
      /\ \A q \in Requests : q # r => buf'[q] = buf[q] /\ pc'[q] = pc[q]
      /\ mem' = mem
      /\ pc[r] = "card_write" /\ pc'[r] = "global_row"
  BY DEF WriteCard, Goto, tables, TypeInv, TypeOK
<1>2. req[r].op = "answer" /\ Active(r) /\ Active(r)'
  BY <1>1, HandlerTyped DEF ControlOf, Grading, Active, Statements
<1>3. /\ buf'[r].responses = buf[r].responses
      /\ buf'[r].log = buf[r].log \cup {log}
  <2>1. \E c : buf'[r] = [buf[r] EXCEPT !.card = c, !.log = buf[r].log \cup {log}]
    BY DEF WriteCard, TypeInv, TypeOK
  <2>2. \A x, y : /\ [buf[r] EXCEPT !.card = x, !.log = y].responses = buf[r].responses
                  /\ [buf[r] EXCEPT !.card = x, !.log = y].log = y
    BY HandlerTyped DEF BufType
  <2> QED
    BY <2>1, <2>2
<1>4. AllOrNothing'
  BY <1>1, KeepAllOrNothing DEF HistoryInv
<1>5. ASSUME NEW q \in Requests, q # r PROVE PendingHistory(q)'
  BY <1>1, <1>5, HistoryOfOthers DEF HistoryInv
<1>6. PendingHistory(r)'
  <2>1. PendingHistory(r)
    BY DEF HistoryInv
  <2>2. log.id = <<r, mem[r].k>> /\ log.item = Answer(r).item
    OBVIOUS
  <2> HIDE DEF log
  <2>3. Written(r)' = Written(r)
    BY <1>1 DEF Written, Responded
  <2>4. \A l \in buf'[r].log :
            \E x \in buf'[r].responses :
                x.id = l.id /\ x.item = l.item /\ x.kind # "skip"
    BY <1>1, <1>3, <2>1, <2>2 DEF PendingHistory
  <2>5. \A x \in buf'[r].responses :
            x.kind # "skip" => \E l \in buf'[r].log : l.id = x.id
    <3> SUFFICES ASSUME NEW x \in buf[r].responses, x.kind # "skip"
                 PROVE  \E l \in buf'[r].log : l.id = x.id
      BY <1>3
    <3>1. \/ \E l \in buf[r].log : l.id = x.id
          \/ x.id[2] = mem[r].k
      BY <2>1 DEF PendingHistory
    <3>2. x.id = <<r, x.id[2]>>
      BY <2>1, PendingIds
    <3> QED
      BY <1>3, <2>2, <3>1, <3>2
  <2> QED
    BY <1>1, <1>2, <1>3, <2>1, <2>3, <2>4, <2>5 DEF PendingHistory
<1> QED
  BY <1>4, <1>5, <1>6 DEF HistoryInv

\* What a commit appends to the ledgers: exactly one response per answer, and
\* a log for each that is not a skip.
LEMMA CommittedHistory ==
    ASSUME TypeInv, HistoryInv, NEW r \in Requests, Commit(r)
    PROVE  /\ {x.id : x \in buf[r].responses} = {r} \X (1 .. Len(req[r].answers))
           /\ {l.id : l \in buf[r].log} =
                 {x.id : x \in {y \in buf[r].responses : y.kind # "skip"}}
<1>1. PendingHistory(r) /\ pc[r] = "commit" /\ Active(r)
  BY DEF HistoryInv, Commit, Active, Statements
<1>2. CASE req[r].op = "answer"
  <2>1. Written(r) = Len(req[r].answers)
    BY <1>1, <1>2 DEF PendingHistory, Written, Responded
  <2>2. {x.id : x \in buf[r].responses} = {r} \X (1 .. Len(req[r].answers))
    BY <1>1, <1>2, <2>1 DEF PendingHistory
  <2>3. ASSUME NEW l \in buf[r].log
        PROVE  l.id \in {x.id : x \in {y \in buf[r].responses : y.kind # "skip"}}
    BY <1>1 DEF PendingHistory
  <2>4. ASSUME NEW x \in buf[r].responses, x.kind # "skip"
        PROVE  x.id \in {l.id : l \in buf[r].log}
    BY <1>1, <2>4 DEF PendingHistory
  <2> QED
    BY <2>2, <2>3, <2>4
<1>3. CASE req[r].op # "answer"
  <2>1. req[r].answers = <<>>
    BY <1>3, MenuTyped, HandlerTyped
  <2>2. buf[r].responses = {} /\ buf[r].log = {}
    BY <1>1, <1>3 DEF PendingHistory
  <2>3. {r} \X (1 .. Len(req[r].answers)) = {}
    BY <2>1
  <2> QED
    BY <2>2, <2>3
<1> QED
  BY <1>2, <1>3

LEMMA HistoryInvCommit ==
    ASSUME TypeInv, HistoryInv, NEW r \in Requests, Commit(r)
    PROVE  HistoryInv'
<1>1. /\ responses' = responses \cup buf[r].responses
      /\ reviewLog' = reviewLog \cup buf[r].log /\ req' = req
      /\ \A q \in Requests : q # r => /\ buf'[q] = buf[q] /\ pc'[q] = pc[q]
                                     /\ mem'[q] = mem[q]
      /\ pc[r] = "commit" /\ pc'[r] = "ok" /\ buf'[r] = NoWrites
  BY DEF Commit, Goto, TypeInv, TypeOK
<1>2. /\ \A x \in buf[r].responses : x.id[1] = r
      /\ \A l \in buf[r].log : l.id[1] = r
  BY PendingIds DEF HistoryInv
<1>3. ASSUME NEW q \in Requests, q # r PROVE PendingHistory(q)'
  BY <1>1, <1>3, HistoryOfOthers DEF HistoryInv
<1>4. PendingHistory(r)'
  BY <1>1 DEF PendingHistory, NoWrites, Active, Statements
<1>5. ASSUME NEW q \in Requests PROVE Whole(q)'
  <2>1. Whole(q)
    BY DEF HistoryInv, AllOrNothing
  <2>2. CASE q = r
    <3>1. Kept(r) = {} /\ LoggedBy(r) = {}
      BY <1>1, <2>1, <2>2 DEF Whole
    <3>2. Kept(r)' = buf[r].responses /\ LoggedBy(r)' = buf[r].log
      BY <1>1, <1>2, <3>1 DEF Kept, LoggedBy
    <3> QED
      BY <1>1, <2>2, <3>2, CommittedHistory DEF Whole
  <2>3. CASE q # r
    <3>1. Kept(q)' = Kept(q) /\ LoggedBy(q)' = LoggedBy(q)
      BY <1>1, <1>2, <2>3 DEF Kept, LoggedBy
    <3> QED
      BY <1>1, <2>1, <2>3, <3>1 DEF Whole
  <2> QED
    BY <2>2, <2>3
<1> QED
  BY <1>3, <1>4, <1>5 DEF HistoryInv, AllOrNothing

LEMMA InitHistoryInv == Init => HistoryInv
<1> SUFFICES ASSUME Init PROVE HistoryInv
  OBVIOUS
<1>1. /\ responses = {} /\ reviewLog = {}
      /\ \A r \in Requests : /\ pc[r] = "idle"
                              /\ buf[r].responses = {} /\ buf[r].log = {}
  BY DEF Init, NoWrites
<1>2. AllOrNothing
  BY <1>1 DEF AllOrNothing, Whole, Kept, LoggedBy
<1> QED
  BY <1>1, <1>2 DEF HistoryInv, PendingHistory, Active, Statements

LEMMA NextHistoryInv == TypeInv /\ HistoryInv /\ [Next]_vars => HistoryInv'
<1> SUFFICES ASSUME TypeInv, HistoryInv, [Next]_vars PROVE HistoryInv'
  OBVIOUS
<1>1. ASSUME NEW r \in Requests, Arrive(r) \/ Step(r) \/ Crash(r)
      PROVE  HistoryInv'
  <2>1. CASE Quiet(r) \/ Respond(r) \/ WriteCard(r) \/ Commit(r)
    BY <2>1, HistoryInvQuiet, HistoryInvRespond, HistoryInvWriteCard,
       HistoryInvCommit
  <2>2. CASE \E l \in Ended : Rollback(r, l)
    BY <1>1, <2>1, <2>2, HistoryInvRollback, RollbackKinds
  <2> QED
    BY <1>1, <2>1, <2>2, StepKinds
<1>2. CASE UNCHANGED <<tables, req, pc, mem, buf>>
  <2>1. AllOrNothing'
    BY <1>2, KeepAllOrNothing DEF HistoryInv, tables
  <2>2. ASSUME NEW q \in Requests PROVE PendingHistory(q)'
    BY <1>2, HistoryOfOthers DEF HistoryInv
  <2> QED
    BY <2>1, <2>2 DEF HistoryInv
<1>3. ASSUME NEW i \in Editable, NewVersion(i) \/ SoftDelete(i) \/ Retag(i)
      PROVE  HistoryInv'
  BY <1>2, <1>3, AuthorFrame
<1> QED
  BY <1>1, <1>2, <1>3 DEF Next, vars

\* A batch is all or nothing, whoever else runs, crashes or deadlocks: a
\* request that ended well left one response per answer and one log per graded
\* answer, and any other request left nothing in the ledgers.
THEOREM BatchAtomic == Spec => []AllOrNothing
<1>1. HistoryInv => AllOrNothing
  BY DEF HistoryInv
<1> QED
  BY <1>1, InitTypeInv, NextTypeInv, InitHistoryInv, NextHistoryInv, PTL DEF Spec

-----------------------------------------------------------------------------
(* SessionInv is inductive. *)

\* Steps that leave the sessions alone keep SessionInv, as long as a handler
\* passes its status check only on an opened session.
LEMMA SessionInvStay ==
    ASSUME SessionInv, session' = session, req' = req,
           \A q \in Requests : Active(q)' => Active(q),
           \A q \in Requests :
               Active(q)' /\ pc[q] = "load" /\ pc'[q] # "load" =>
                   session[req[q].session].status # "none"
    PROVE  SessionInv'
<1>1. FreshStarts'
  BY DEF SessionInv, FreshStarts
<1>2. ASSUME NEW q \in Requests PROVE SessionOf(q)'
  BY DEF SessionInv, SessionOf
<1> QED
  BY <1>1, <1>2 DEF SessionInv

LEMMA SessionInvArrive ==
    ASSUME TypeInv, SessionInv, NEW r \in Requests, Arrive(r)
    PROVE  SessionInv'
<1>1. PICK m \in Menu :
         /\ MayArrive(m)
         /\ req' = [req EXCEPT ![r] = m]
         /\ m.op # "start" => pc' = [pc EXCEPT ![r] = "load"]
  BY DEF Arrive, Goto
<1>2. /\ session' = session /\ req'[r] = m
      /\ m.op # "start" => pc'[r] = "load"
      /\ \A q \in Requests : q # r => pc'[q] = pc[q] /\ req'[q] = req[q]
  BY <1>1 DEF Arrive, Goto, tables, TypeInv, TypeOK
<1>3. m.op = "start" =>
          /\ session[m.session].status = "none"
          /\ \A q \in Requests :
                 ~(Active(q) /\ req[q].op = "start" /\ req[q].session = m.session)
  BY <1>1 DEF MayArrive
<1>4. FreshStarts'
  BY <1>2, <1>3 DEF SessionInv, FreshStarts, Active
<1>5. ASSUME NEW q \in Requests PROVE SessionOf(q)'
  BY <1>2, <1>3 DEF SessionInv, SessionOf, Active
<1> QED
  BY <1>4, <1>5 DEF SessionInv

\* What a commit makes of the status of its session.
LEMMA WrittenStatus ==
    ASSUME TypeInv, NEW r \in Requests
    PROVE  /\ req[r].op = "start" => WrittenSession(r).status = "in_progress"
           /\ req[r].op = "answer" =>
                  WrittenSession(r).status = session[req[r].session].status
           /\ req[r].op = "finish" =>
                  WrittenSession(r).status \in
                      {"completed", session[req[r].session].status}
<1> DEFINE s == session[req[r].session]
<1>1. s \in SessionType
  BY HandlerTyped
<1> HIDE DEF s
<1>2. \A x, y, z :
          /\ [s EXCEPT !.status = "completed", !.net = x].status = "completed"
          /\ [s EXCEPT !.delivered = x, !.correct = y, !.skipped = z].status = s.status
  BY <1>1 DEF SessionType
<1>3. WrittenSession(r) =
          IF req[r].op = "start"
          THEN [status |-> "in_progress", delivered |-> 0, correct |-> 0,
                skipped |-> 0, net |-> 0]
          ELSE IF ~buf[r].session THEN s
          ELSE IF req[r].op = "finish"
          THEN [s EXCEPT !.status = "completed", !.net = Net(mem[r])]
          ELSE [s EXCEPT !.delivered = mem[r].delivered,
                         !.correct = mem[r].correct, !.skipped = mem[r].skipped]
  BY DEF WrittenSession, s
<1>4. CASE req[r].op = "start"
  BY <1>3, <1>4
<1>5. CASE req[r].op # "start" /\ ~buf[r].session
  BY <1>3, <1>5 DEF s
<1>6. CASE req[r].op = "finish" /\ buf[r].session
  BY <1>2, <1>3, <1>6
<1>7. CASE req[r].op \notin {"start", "finish"} /\ buf[r].session
  BY <1>2, <1>3, <1>7 DEF s
<1> QED
  BY <1>4, <1>5, <1>6, <1>7

LEMMA CommitFrame ==
    ASSUME TypeInv, NEW r \in Requests, Commit(r)
    PROVE  /\ pc[r] = "commit" /\ Active(r) /\ ~Active(r)' /\ req' = req
           /\ session'[req[r].session] = WrittenSession(r)
           /\ \A s \in Sessions :
                  s # req[r].session => session'[s] = session[s]
           /\ \A q \in Requests : q # r => pc'[q] = pc[q]
           /\ \A q \in Requests :
                  /\ req[q].session \in Sessions
                  /\ req[q].op \in {"start", "answer", "finish"}
<1>1. /\ pc[r] = "commit" /\ pc'[r] = "ok" /\ req' = req
      /\ \A q \in Requests : q # r => pc'[q] = pc[q]
  BY DEF Commit, Goto, TypeInv, TypeOK
<1>2. \A q \in Requests : /\ req[q].session \in Sessions
                          /\ req[q].op \in {"start", "answer", "finish"}
  BY HandlerTyped DEF RequestType
<1>3. session' = [session EXCEPT ![req[r].session] = WrittenSession(r)]
  BY DEF Commit
<1> QED
  BY <1>1, <1>2, <1>3 DEF Active, Statements, TypeInv, TypeOK

LEMMA SessionInvCommit ==
    ASSUME TypeInv, SessionInv, NEW r \in Requests, Commit(r)
    PROVE  SessionInv'
<1>1. /\ SessionOf(r) /\ FreshStarts /\ \A q \in Requests : SessionOf(q)
  BY DEF SessionInv
<1>2. FreshStarts'
  BY <1>1, CommitFrame DEF FreshStarts, Active
<1>3. ASSUME NEW q \in Requests PROVE SessionOf(q)'
  <2>1. CASE q = r
    BY <2>1, CommitFrame DEF SessionOf
  <2>2. CASE q # r /\ req[q].session # req[r].session
    BY <1>1, <2>2, CommitFrame DEF SessionOf, Active
  <2>3. CASE q # r /\ req[q].session = req[r].session
    <3>1. Active(q) /\ req[q].op = "start" => FALSE
      BY <1>1, <2>3, CommitFrame DEF SessionOf, FreshStarts
    <3>2. WrittenSession(r).status # "none"
      BY <1>1, CommitFrame, WrittenStatus DEF SessionOf
    <3> QED
      BY <2>3, <3>1, <3>2, CommitFrame DEF SessionOf, Active
  <2> QED
    BY <2>1, <2>2, <2>3
<1> QED
  BY <1>2, <1>3 DEF SessionInv

LEMMA InitSessionInv == Init => SessionInv
BY DEF Init, SessionInv, FreshStarts, SessionOf, Active, Statements

LEMMA NextSessionInv == TypeInv /\ SessionInv /\ [Next]_vars => SessionInv'
<1> SUFFICES ASSUME TypeInv, SessionInv, [Next]_vars PROVE SessionInv'
  OBVIOUS
<1>1. ASSUME NEW r \in Requests, Quiet(r), ~Arrive(r) PROVE SessionInv'
  <2>1. session' = session /\ \A q \in Requests : q # r => pc'[q] = pc[q]
    BY <1>1, QuietFrame
  <2>2. req' = req /\ Active(r)
    BY <1>1, QuietWritten
  <2>3. pc[r] = "load" => session[req[r].session].status = "in_progress"
    BY <1>1 DEF Quiet, Load, LoadItem, GlobalTheta, TopicTheta, InsertTopicTheta,
                GlobalRow, GlobalPoints, GlobalUpdate, TopicPoints, TopicUpdate,
                Counters, MasteryRead, MasteryWrite, Close
  <2> QED
    BY <2>1, <2>2, <2>3, SessionInvStay DEF Active
<1>2. ASSUME NEW r \in Requests, Respond(r) \/ WriteCard(r) PROVE SessionInv'
  <2>1. /\ session' = session /\ req' = req /\ pc[r] \in {"respond", "card_write"}
        /\ \A q \in Requests : q # r => pc'[q] = pc[q]
    BY <1>2 DEF Respond, WriteCard, Goto, tables, TypeInv, TypeOK
  <2> QED
    BY <2>1, SessionInvStay DEF Active, Statements
<1>3. ASSUME NEW r \in Requests, NEW l \in Ended, Rollback(r, l) PROVE SessionInv'
  <2>1. /\ session' = session /\ req' = req /\ pc'[r] = l
        /\ \A q \in Requests : q # r => pc'[q] = pc[q]
    BY <1>3 DEF Rollback, Goto, tables, TypeInv, TypeOK
  <2> QED
    BY <2>1, SessionInvStay DEF Active, Statements, Ended
<1>4. ASSUME NEW r \in Requests, Arrive(r) \/ Step(r) \/ Crash(r)
      PROVE  SessionInv'
  BY <1>1, <1>2, <1>3, <1>4, StepKinds, SessionInvArrive, SessionInvCommit
<1>5. CASE UNCHANGED <<tables, req, pc, mem, buf>>
  BY <1>5, SessionInvStay DEF tables, Active
<1>6. ASSUME NEW i \in Editable, NewVersion(i) \/ SoftDelete(i) \/ Retag(i)
      PROVE  SessionInv'
  BY <1>5, <1>6, AuthorFrame
<1> QED
  BY <1>4, <1>5, <1>6 DEF Next, vars

-----------------------------------------------------------------------------
(* The refinement of PracticeLedger. *)

LEMMA LedgerStutter ==
    ASSUME UNCHANGED <<session, responses, reviewLog>>
    PROVE  [Ledger!Next]_(Ledger!ledger)
BY DEF Ledger!ledger

\* A commit maps to the step of PracticeLedger that its request promises.
LEMMA StartOpens ==
    ASSUME TypeInv, HistoryInv, SessionInv, NEW r \in Requests, Commit(r),
           req[r].op = "start", NEW t \in Sessions, t = req[r].session
    PROVE  Ledger!Open(t)
<1>1. /\ session[req[r].session].status = "none"
      /\ session'[req[r].session].status = "in_progress"
  BY CommitFrame, WrittenStatus DEF SessionInv, SessionOf
<1>2. responses' = responses /\ reviewLog' = reviewLog
  BY CommitFrame DEF HistoryInv, PendingHistory, Commit
<1>3. [s \in Sessions |-> session'[s].status] =
          [[s \in Sessions |-> session[s].status]
              EXCEPT ![req[r].session] = "in_progress"]
  BY <1>1, CommitFrame
<1> QED
  BY <1>1, <1>2, <1>3, CommitFrame DEF Ledger!Open

LEMMA FinishCloses ==
    ASSUME TypeInv, HistoryInv, SessionInv, NEW r \in Requests, Commit(r),
           req[r].op = "finish"
    PROVE  [Ledger!Next]_(Ledger!ledger)
<1>1. responses' = responses /\ reviewLog' = reviewLog
  BY CommitFrame DEF HistoryInv, PendingHistory, Commit
<1>2. session[req[r].session].status # "none" /\ req[r].session \in Sessions
  BY CommitFrame DEF SessionInv, SessionOf
<1>3. CASE WrittenSession(r).status = "completed"
  <2>0. session'[req[r].session].status = "completed"
    BY <1>3, CommitFrame
  <2>1. [s \in Sessions |-> session'[s].status] =
            [[s \in Sessions |-> session[s].status]
                EXCEPT ![req[r].session] = "completed"]
    BY <2>0, CommitFrame
  <2>2. PICK t \in Sessions : t = req[r].session
    BY <1>2
  <2>3. Ledger!Close(t)
    BY <1>1, <1>2, <2>1, <2>2, CommitFrame DEF Ledger!Close
  <2> QED
    BY <2>3 DEF Ledger!Next
<1>4. CASE WrittenSession(r).status = session[req[r].session].status
  <2>1. [s \in Sessions |-> session'[s].status] =
            [s \in Sessions |-> session[s].status]
    BY <1>4, CommitFrame
  <2> QED
    BY <1>1, <2>1 DEF Ledger!ledger
<1> QED
  BY <1>3, <1>4, WrittenStatus

LEMMA AnswerRecords ==
    ASSUME TypeInv, CardInv, HistoryInv, SessionInv, NEW r \in Requests, Commit(r),
           req[r].op = "answer", NEW t \in Sessions, t = req[r].session
    PROVE  Ledger!Record(r, t)
<1>1. /\ responses' = responses \cup buf[r].responses
      /\ reviewLog' = reviewLog \cup buf[r].log
  BY DEF Commit
<1>2. PendingHistory(r) /\ PendingCards(r) /\ CommittedCards
  BY DEF HistoryInv, CardInv
<1>3. /\ \A x \in responses : x.id[1] # r
      /\ \A l \in reviewLog : l.id[1] # r
  BY CommitFrame DEF HistoryInv, AllOrNothing, Whole, Kept, LoggedBy
<1>4. /\ \A x \in buf[r].responses : x.id[1] = r
      /\ \A l \in buf[r].log : l.id[1] = r
  BY <1>2, PendingIds
<1>5. /\ responses' \ responses = buf[r].responses
      /\ reviewLog' \ reviewLog = buf[r].log
  BY <1>1, <1>3, <1>4
<1>6. session[req[r].session].status # "none"
  BY CommitFrame DEF SessionInv, SessionOf
<1>7. [s \in Sessions |-> session'[s].status] = [s \in Sessions |-> session[s].status]
  BY CommitFrame, WrittenStatus
<1>8. \A x \in buf[r].responses : x.session = req[r].session
  BY <1>2 DEF PendingHistory
<1>9. \A x, y \in buf[r].responses : x.id = y.id => x = y
  BY <1>2 DEF PendingHistory
<1>10. \A l \in buf[r].log :
           \E x \in buf[r].responses : x.id = l.id /\ x.item = l.item /\ x.kind # "skip"
  BY <1>2 DEF PendingHistory
<1>11. \A x \in buf[r].responses : x.kind # "skip" => \E l \in buf[r].log : l.id = x.id
  BY <1>2, CommitFrame DEF PendingHistory
<1>12. \A l \in buf[r].log, k \in reviewLog : l.before = "new" => k.item # l.item
  BY <1>2 DEF PendingCards, CommittedCards
<1>13. \A l \in buf[r].log : l.before # "new" =>
           \E k \in reviewLog' : k.item = l.item /\ k.before = "new"
  <2>1. \A l \in buf[r].log : l.item \in Items
    BY HandlerTyped DEF BufType, LogType
  <2> QED
    BY <1>1, <1>2, <2>1 DEF PendingCards, CommittedCards, IntroducedIn
<1>14. \A l, k \in buf[r].log :
           l.before = "new" /\ k.before = "new" /\ l.item = k.item => l = k
  BY <1>2 DEF PendingCards, SingleIntroductions
<1>15. req[r].session \in Sessions
  BY CommitFrame
<1>16. \A s \in Sessions : [q \in Sessions |-> session[q].status][s] = session[s].status
  OBVIOUS
<1>17. responses \subseteq responses' /\ reviewLog \subseteq reviewLog'
  BY <1>1
<1> QED
  BY <1>3, <1>4, <1>5, <1>6, <1>7, <1>8, <1>9, <1>10, <1>11, <1>12, <1>13, <1>14,
     <1>15, <1>16, <1>17
     DEF Ledger!Record, Ledger!Appended, Ledger!Logged

\* Every step is one step of the ledgers or leaves them alone.
LEMMA StepRefines ==
    TypeInv /\ CardInv /\ HistoryInv /\ SessionInv /\ [Next]_vars
        => [Ledger!Next]_(Ledger!ledger)
<1> SUFFICES ASSUME TypeInv, CardInv, HistoryInv, SessionInv, [Next]_vars
             PROVE  [Ledger!Next]_(Ledger!ledger)
  OBVIOUS
<1>1. ASSUME NEW r \in Requests, Commit(r) PROVE [Ledger!Next]_(Ledger!ledger)
  <2>1. /\ req[r].op \in {"start", "answer", "finish"}
        /\ \E t \in Sessions : t = req[r].session
    BY <1>1, CommitFrame
  <2>2. CASE req[r].op = "start"
    BY <1>1, <2>1, <2>2, StartOpens DEF Ledger!Next
  <2>3. CASE req[r].op = "answer"
    BY <1>1, <2>1, <2>3, AnswerRecords DEF Ledger!Next
  <2>4. CASE req[r].op = "finish"
    BY <1>1, <2>4, FinishCloses
  <2> QED
    BY <2>1, <2>2, <2>3, <2>4
<1>2. ASSUME NEW r \in Requests, Quiet(r) \/ Respond(r) \/ WriteCard(r)
      PROVE  UNCHANGED <<session, responses, reviewLog>>
  <2>1. CASE Quiet(r)
    BY <2>1, QuietFrame
  <2>2. CASE Respond(r) \/ WriteCard(r)
    BY <2>2 DEF Respond, WriteCard, tables
  <2> QED
    BY <1>2, <2>1, <2>2
<1>3. ASSUME NEW r \in Requests, NEW l, Rollback(r, l)
      PROVE  UNCHANGED <<session, responses, reviewLog>>
  BY <1>3 DEF Rollback, tables
<1>4. ASSUME NEW r \in Requests, Arrive(r) \/ Step(r) \/ Crash(r)
      PROVE  [Ledger!Next]_(Ledger!ledger)
  BY <1>1, <1>2, <1>3, <1>4, StepKinds, LedgerStutter
<1>5. ASSUME NEW i \in Editable, NewVersion(i) \/ SoftDelete(i) \/ Retag(i)
      PROVE  UNCHANGED <<session, responses, reviewLog>>
  BY <1>5, AuthorFrame DEF tables
<1>6. CASE UNCHANGED vars
  BY <1>6, LedgerStutter DEF vars, tables
<1> QED
  BY <1>4, <1>5, <1>6, LedgerStutter DEF Next

LEMMA InitRefines == Init => Ledger!Init
<1> SUFFICES ASSUME Init PROVE Ledger!Init
  OBVIOUS
<1>1. [s \in Sessions |-> session[s].status] = [s \in Sessions |-> "none"]
  BY DEF Init
<1> QED
  BY <1>1 DEF Init, Ledger!Init

\* The detailed write path implements PracticeLedger: whatever the requests do
\* to each other, the ledgers only grow, by whole requests, and a completed
\* session never reopens.
THEOREM LedgerRefined == Spec => LedgerSpec
<1>1. Spec => [](TypeInv /\ CardInv /\ HistoryInv /\ SessionInv)
  BY InitTypeInv, NextTypeInv, InitCardInv, NextCardInv, InitHistoryInv,
     NextHistoryInv, InitSessionInv, NextSessionInv, PTL DEF Spec
<1> QED
  BY <1>1, InitRefines, StepRefines, PTL DEF Spec, LedgerSpec, Ledger!Spec
=============================================================================
