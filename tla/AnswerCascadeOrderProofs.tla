----------------------- MODULE AnswerCascadeOrderProofs -----------------------
(***************************************************************************)
(* Theorems about AnswerCascade that rest on an order: the order in which  *)
(* a request locks rows, which keeps the topic rollup current and single   *)
(* answers out of wait cycles, and the order in which a client that waits  *)
(* sends its requests, which keeps the rollups exact.                      *)
(***************************************************************************)
EXTENDS AnswerCascadeRollupProofs

-----------------------------------------------------------------------------
(* Topic rollups.  Whoever has read or written a topic's rollup row holds    *)
(* the topic's ability row, which two transactions never hold at once.       *)

OnTopic(set, t) == {x \in set : x.kind # "skip" /\ x.topic = t}

HoldsTopic(r, t) == \E w \in buf[r].theta : w.scope = t

MasteredUpTo(r) == IF pc[r] = "commit" THEN mem[r].k ELSE mem[r].k - 1

\* The answers of its batch that a request has added to the rollup of t.
MasteredAnswers(r, t) ==
    {x \in OnTopic(buf[r].responses, t) : x.id[2] <= MasteredUpTo(r)}

PendingRollups(r) ==
    \A t \in Topics :
        /\ buf[r].mastery[t] > 0 =>
               /\ HoldsTopic(r, t)
               /\ buf[r].mastery[t] =
                      mastery[t] + Cardinality(MasteredAnswers(r, t))
        /\ buf[r].mastery[t] = 0 => MasteredAnswers(r, t) = {}

\* The rollup row as _update_mastery read it is the row it writes over.
ReadRollup(r) ==
    /\ pc[r] \in {"mastery_read", "mastery_write"} => Answer(r).kind # "skip"
    /\ \A t \in Topics :
           t = mem[r].topic =>
               /\ /\ pc[r] \in {"counters", "mastery_read", "mastery_write"}
                  /\ Answer(r).kind # "skip"
                  => HoldsTopic(r, t)
               /\ pc[r] = "mastery_write" =>
                      mem[r].snap = mastery[t] + Cardinality(MasteredAnswers(r, t))

\* A response says the topic its handler works on.
CurrentTopic(r) ==
    pc[r] \in Responded \ {"commit"} =>
        \A x \in buf[r].responses : x.id[2] = mem[r].k => x.topic = mem[r].topic

MasteryInv ==
    /\ MasteryCurrent
    /\ \A r \in Requests : PendingRollups(r) /\ ReadRollup(r) /\ CurrentTopic(r)


\* Steps that give a request another place in its batch, or none.
LEMMA PlaceStays ==
    ASSUME TypeInv, NEW r \in Requests, Quiet(r) \/ Respond(r) \/ WriteCard(r),
           Active(r), req[r].op = "answer", ~Counters(r), ~MasteryWrite(r)
    PROVE  /\ mem'[r].k = mem[r].k /\ pc[r] # "commit" /\ pc'[r] # "commit"
           /\ MasteredUpTo(r)' = MasteredUpTo(r)
<1>1. ~Close(r) /\ ~Arrive(r) /\ req[r].op # "start"
  BY HandlerTyped DEF Close, Arrive, ControlOf, Active, Statements
<1>2. GlobalTheta(r) => pc'[r] # "commit"
  BY <1>1 DEF GlobalTheta, Goto, TypeInv, TypeOK
<1>3. TopicTheta(r) \/ InsertTopicTheta(r) => pc'[r] # "commit"
  BY <1>1 DEF TopicTheta, InsertTopicTheta, AfterTopic, Goto, TypeInv, TypeOK
<1>4. pc[r] # "commit" /\ pc'[r] # "commit"
  BY <1>1, <1>2, <1>3, ControlFlow DEF Quiet
<1>5. mem'[r].k = mem[r].k
  BY MemFrame
<1> QED
  BY <1>4, <1>5 DEF MasteredUpTo

\* The ids of what an accepted answer request has pending.
LEMMA PendingPlaces ==
    ASSUME TypeInv, HistoryInv, NEW r \in Requests
    PROVE  \A x \in buf[r].responses :
               x.id[2] \in Nat /\ x.id[2] <= mem[r].k /\ x.id = <<r, x.id[2]>>
<1>1. PendingHistory(r) /\ mem[r].k \in Nat
  BY HandlerTyped DEF HistoryInv, MemType
<1>2. Written(r) \in {mem[r].k, mem[r].k - 1}
  BY DEF Written
<1>3. \A x \in buf[r].responses : x.id[2] \in 1 .. Written(r) /\ x.id = <<r, x.id[2]>>
  BY <1>1, PendingIds
<1> QED
  BY <1>1, <1>2, <1>3

\* The response of the current answer is there from Respond on.
LEMMA CurrentResponse ==
    ASSUME TypeInv, HistoryInv, NEW r \in Requests, PendingKinds(r),
           CurrentTopic(r), pc[r] \in Responded \ {"commit"}
    PROVE  \E x \in buf[r].responses :
               /\ x.id[2] = mem[r].k /\ x.topic = mem[r].topic
               /\ x.kind = Answer(r).kind
               /\ \A y \in buf[r].responses : y.id[2] = mem[r].k => y = x
<1>1. /\ Active(r) /\ req[r].op = "answer" /\ mem[r].k \in Nat \ {0}
      /\ Written(r) = mem[r].k /\ PendingHistory(r)
  BY HandlerTyped
     DEF ControlOf, Grading, Responded, Active, Statements, MemType, Written,
         HistoryInv
<1>2. {x.id : x \in buf[r].responses} = {r} \X (1 .. mem[r].k)
  BY <1>1 DEF PendingHistory
<1>3. mem[r].k \in 1 .. mem[r].k
  BY <1>1
<1>4. <<r, mem[r].k>> \in {x.id : x \in buf[r].responses}
  BY <1>2, <1>3
<1>5. PICK x \in buf[r].responses : x.id = <<r, mem[r].k>>
  BY <1>4
<1>6. x.id[2] = mem[r].k
  BY <1>5
<1>7. x.topic = mem[r].topic /\ x.kind = Answer(r).kind
  BY <1>6 DEF CurrentTopic, PendingKinds, Answer
<1>8. \A y \in buf[r].responses : y.id[2] = mem[r].k => y = x
  BY <1>1, <1>5, PendingPlaces DEF PendingHistory
<1> QED
  BY <1>6, <1>7, <1>8

LEMMA MasteredStay ==
    ASSUME TypeInv, HistoryInv, NEW r \in Requests, PendingKinds(r),
           CurrentTopic(r), Quiet(r) \/ Respond(r) \/ WriteCard(r),
           ~MasteryWrite(r), NEW t \in Topics
    PROVE  MasteredAnswers(r, t)' = MasteredAnswers(r, t)
<1>1. CASE ~(Active(r) /\ req[r].op = "answer")
  <2>1. ~Respond(r)
    BY <1>1, RespondEffect
  <2>2. buf[r].responses = {} /\ buf'[r].responses = {}
    BY <1>1, <2>1, BufFrame, NothingPending
  <2> QED
    BY <2>2 DEF MasteredAnswers, OnTopic
<1>2. CASE Active(r) /\ req[r].op = "answer" /\ ~Counters(r)
  <2>1. /\ mem'[r].k = mem[r].k /\ pc[r] # "commit" /\ pc'[r] # "commit"
        /\ MasteredUpTo(r)' = MasteredUpTo(r)
    BY <1>2, PlaceStays
  <2>2. CASE Respond(r)
    <3>1. PICK x : /\ x.id = <<r, mem[r].k>>
                   /\ buf'[r].responses = buf[r].responses \cup {x}
      BY <2>2, RespondEffect
    <3>2. x.id[2] = mem[r].k /\ mem[r].k \in Nat
      BY <3>1, HandlerTyped DEF MemType
    <3>3. ~(x.id[2] <= MasteredUpTo(r))
      BY <2>1, <3>2 DEF MasteredUpTo
    <3> QED
      BY <2>1, <3>1, <3>3 DEF MasteredAnswers, OnTopic
  <2>3. CASE ~Respond(r)
    <3>1. buf'[r].responses = buf[r].responses
      BY <2>3, BufFrame
    <3> QED
      BY <2>1, <3>1 DEF MasteredAnswers, OnTopic
  <2> QED
    BY <2>2, <2>3
<1>3. CASE Counters(r)
  <2>1. pc[r] = "counters" /\ buf'[r].responses = buf[r].responses
    BY <1>3, ControlFlow, BufFrame DEF Respond, Counters
  <2>2. mem[r].k \in Nat /\ MasteredUpTo(r) = mem[r].k - 1
    BY <2>1, HandlerTyped DEF MasteredUpTo, MemType
  <2>3. CASE pc'[r] = "mastery_read"
    <3>1. mem'[r].k = mem[r].k
      BY <1>3, <2>3, CountersEffect
    <3> QED
      BY <2>1, <2>2, <2>3, <3>1 DEF MasteredAnswers, OnTopic, MasteredUpTo
  <2>4. CASE pc'[r] # "mastery_read"
    <3>1. /\ mem[r].topic = NoTopic \/ Answer(r).kind = "skip"
          /\ \/ pc'[r] = "item" /\ mem'[r].k = mem[r].k + 1
             \/ pc'[r] = "commit" /\ mem'[r].k = mem[r].k
      BY <1>3, <2>4, CountersEffect
    <3>2. MasteredUpTo(r)' = mem[r].k
      BY <2>2, <3>1 DEF MasteredUpTo
    <3>3. PICK x \in buf[r].responses :
               /\ x.id[2] = mem[r].k /\ x.topic = mem[r].topic
               /\ x.kind = Answer(r).kind
               /\ \A y \in buf[r].responses : y.id[2] = mem[r].k => y = x
      BY <2>1, CurrentResponse DEF Responded
    <3>4. x \notin OnTopic(buf[r].responses, t)
      BY <3>1, <3>3, NoTopicAssumption DEF OnTopic
    <3>5. \A y \in OnTopic(buf[r].responses, t) :
              y.id[2] <= mem[r].k <=> y.id[2] <= mem[r].k - 1
      <4> TAKE y \in OnTopic(buf[r].responses, t)
      <4>1. y \in buf[r].responses /\ y # x
        BY <3>4 DEF OnTopic
      <4>2. y.id[2] \in Nat /\ y.id[2] # mem[r].k
        BY <3>3, <4>1, PendingPlaces
      <4> QED
        BY <2>2, <4>2
    <3> QED
      BY <2>1, <2>2, <3>2, <3>5 DEF MasteredAnswers, OnTopic
  <2> QED
    BY <2>3, <2>4
<1> QED
  BY <1>1, <1>2, <1>3

LEMMA MasteredAdds ==
    ASSUME TypeInv, HistoryInv, NEW r \in Requests, PendingKinds(r),
           CurrentTopic(r), MasteryWrite(r), Answer(r).kind # "skip"
    PROVE  /\ \E x : /\ x \notin MasteredAnswers(r, mem[r].topic)
                     /\ \A t \in Topics : t = mem[r].topic =>
                            MasteredAnswers(r, t)' = MasteredAnswers(r, t) \cup {x}
           /\ \A t \in Topics : t # mem[r].topic =>
                  MasteredAnswers(r, t)' = MasteredAnswers(r, t)
<1>1. /\ pc[r] = "mastery_write" /\ mem[r].k \in Nat
      /\ buf'[r].responses = buf[r].responses
  BY ControlFlow, HandlerTyped, BufFrame DEF MemType, Quiet, Respond, MasteryWrite
<1>2. MasteredUpTo(r) = mem[r].k - 1 /\ MasteredUpTo(r)' = mem[r].k
  <2>1. \/ pc'[r] = "item" /\ mem'[r].k = mem[r].k + 1
        \/ pc'[r] = "commit" /\ mem'[r].k = mem[r].k
    BY MasteryWriteEffect
  <2> QED
    BY <1>1, <2>1 DEF MasteredUpTo
<1>3. PICK x \in buf[r].responses :
           /\ x.id[2] = mem[r].k /\ x.topic = mem[r].topic
           /\ x.kind = Answer(r).kind
           /\ \A y \in buf[r].responses : y.id[2] = mem[r].k => y = x
  BY <1>1, CurrentResponse DEF Responded
<1>4. \A y \in buf[r].responses :
          y.id[2] <= mem[r].k <=> y.id[2] <= mem[r].k - 1 \/ y = x
  <2> TAKE y \in buf[r].responses
  <2>1. y.id[2] \in Nat /\ (y.id[2] = mem[r].k <=> y = x)
    BY <1>3, PendingPlaces
  <2> QED
    BY <1>1, <2>1
<1>5. x \notin MasteredAnswers(r, mem[r].topic)
  BY <1>1, <1>2, <1>3 DEF MasteredAnswers, OnTopic
<1>6. ASSUME NEW t \in Topics, t = mem[r].topic
      PROVE  MasteredAnswers(r, t)' = MasteredAnswers(r, t) \cup {x}
  <2>1. x \in OnTopic(buf[r].responses, t)
    BY <1>3, <1>6 DEF OnTopic
  <2> QED
    BY <1>1, <1>2, <1>3, <1>4, <2>1 DEF MasteredAnswers, OnTopic
<1>7. ASSUME NEW t \in Topics, t # mem[r].topic
      PROVE  MasteredAnswers(r, t)' = MasteredAnswers(r, t)
  <2>1. x \notin OnTopic(buf[r].responses, t)
    BY <1>3, <1>7 DEF OnTopic
  <2> QED
    BY <1>1, <1>2, <1>3, <1>4, <2>1 DEF MasteredAnswers, OnTopic
<1> QED
  BY <1>5, <1>6, <1>7


LEMMA HoldsStay ==
    ASSUME TypeInv, NEW r \in Requests, Quiet(r) \/ Respond(r) \/ WriteCard(r),
           NEW t, HoldsTopic(r, t)
    PROVE  HoldsTopic(r, t)'
<1>1. buf'[r].theta = buf[r].theta \/ \E x : PutTheta(r, x)
  <2>1. CASE GlobalTheta(r) \/ InsertTopicTheta(r) \/ GlobalUpdate(r) \/ TopicUpdate(r)
    BY <2>1 DEF GlobalTheta, InsertTopicTheta, GlobalUpdate, TopicUpdate
  <2> QED
    BY <2>1, BufFrame
<1>2. ASSUME NEW x, PutTheta(r, x) PROVE HoldsTopic(r, t)'
  <2>1. buf'[r].theta = {w \in buf[r].theta : ~SameRow(w, x)} \cup {x}
    BY <1>2, PutThetaEffect
  <2> QED
    BY <2>1 DEF HoldsTopic, SameRow
<1> QED
  BY <1>1, <1>2 DEF HoldsTopic

\* The lock on a topic is taken before its rollup is read: the row that
\* _recompute_theta updates is the topic's ability.
LEMMA TopicHeld ==
    ASSUME TypeInv, NEW r \in Requests, TopicUpdate(r), NEW t, t = mem[r].topic
    PROVE  HoldsTopic(r, t)'
<1> DEFINE x == [by |-> mem[r].row, scope |-> mem[r].topic, used |-> mem[r].points]
<1>1. PutTheta(r, x) /\ x.scope = t
  BY DEF TopicUpdate
<1> HIDE DEF x
<1>2. x \in buf'[r].theta
  BY <1>1, PutThetaEffect
<1> QED
  BY <1>1, <1>2 DEF HoldsTopic

LEMMA AnswerStays ==
    ASSUME TypeInv, NEW r \in Requests, Quiet(r) \/ Respond(r) \/ WriteCard(r),
           ~Arrive(r), ~MasteryWrite(r), Counters(r) => pc'[r] = "mastery_read"
    PROVE  Answer(r)' = Answer(r) /\ mem'[r].k = mem[r].k
<1>1. mem'[r].k = mem[r].k
  BY MemFrame, CountersEffect
<1> QED
  BY <1>1, TablesStay DEF Answer

LEMMA CurrentTopicNext ==
    ASSUME TypeInv, HistoryInv, NEW r \in Requests, CurrentTopic(r),
           Quiet(r) \/ Respond(r) \/ WriteCard(r)
    PROVE  CurrentTopic(r)'
<1>1. CASE Respond(r)
  <2>1. PICK x : /\ x.id = <<r, mem[r].k>> /\ x.topic = mem[r].topic
                 /\ buf'[r].responses = buf[r].responses \cup {x}
    BY <1>1, RespondEffect
  <2>2. mem'[r].topic = mem[r].topic /\ mem'[r].k = mem[r].k /\ mem[r].k \in Nat
    BY <1>1, ControlFlow, MemFrame, HandlerTyped
       DEF Respond, Arrive, LoadItem, Counters, MasteryWrite, MemType
  <2>3. PendingHistory(r) /\ Written(r) = mem[r].k - 1
    BY <1>1, ControlFlow DEF HistoryInv, Written, Responded
  <2>4. \A y \in buf[r].responses : y.id[2] \in 1 .. mem[r].k - 1
    BY <2>3, PendingIds
  <2>5. \A y \in buf[r].responses : y.id[2] # mem[r].k
    BY <2>2, <2>4
  <2> QED
    BY <2>1, <2>2, <2>5 DEF CurrentTopic
<1>2. CASE ~Respond(r) /\ pc'[r] \in Responded \ {"commit"}
  <2>1. /\ pc[r] \in Responded \ {"commit"} /\ ~Arrive(r) /\ ~LoadItem(r)
        /\ ~MasteryWrite(r) /\ (Counters(r) => pc'[r] = "mastery_read")
    BY <1>2, ControlFlow DEF Quiet, Responded
  <2>2. mem'[r].k = mem[r].k /\ mem'[r].topic = mem[r].topic
    BY <2>1, MemFrame, CountersEffect
  <2>3. buf'[r].responses = buf[r].responses
    BY <1>2, BufFrame
  <2> QED
    BY <2>1, <2>2, <2>3 DEF CurrentTopic
<1>3. CASE pc'[r] \notin Responded \ {"commit"}
  BY <1>3 DEF CurrentTopic
<1> QED
  BY <1>1, <1>2, <1>3

LEMMA MasteredFinite ==
    ASSUME NEW r, IsFiniteSet(buf[r].responses), NEW t
    PROVE  /\ IsFiniteSet(MasteredAnswers(r, t))
           /\ Cardinality(MasteredAnswers(r, t)) \in Nat
<1>1. MasteredAnswers(r, t) \subseteq buf[r].responses
  BY DEF MasteredAnswers, OnTopic
<1> QED
  BY <1>1, CardGrows

LEMMA MasteryReadEffect ==
    ASSUME TypeInv, NEW r \in Requests, MasteryRead(r)
    PROVE  /\ mem'[r].snap = IF buf[r].mastery[mem[r].topic] > 0
                             THEN buf[r].mastery[mem[r].topic]
                             ELSE mastery[mem[r].topic]
           /\ mem'[r].topic = mem[r].topic /\ mem[r].topic \in Topics
<1>1. mem[r] \in MemType
  BY HandlerTyped
<1>2. mem' = [mem EXCEPT ![r] = [mem[r] EXCEPT !.snap =
                 Overlay(buf[r].mastery[mem[r].topic], mastery[mem[r].topic])]]
  BY DEF MasteryRead
<1>3. mem'[r] = [mem[r] EXCEPT !.snap =
                    Overlay(buf[r].mastery[mem[r].topic], mastery[mem[r].topic])]
  BY <1>2 DEF TypeInv, TypeOK
<1>4. \A x : /\ [mem[r] EXCEPT !.snap = x].snap = x
             /\ [mem[r] EXCEPT !.snap = x].topic = mem[r].topic
  BY <1>1 DEF MemType
<1>5. mem[r].topic \in Topics
  BY ControlFlow, HandlerTyped DEF ControlOf
<1> QED
  BY <1>3, <1>4, <1>5 DEF Overlay

LEMMA ReadRollupNext ==
    ASSUME TypeInv, HistoryInv, CountsInv, MasteryInv, NEW r \in Requests,
           Quiet(r) \/ Respond(r) \/ WriteCard(r)
    PROVE  ReadRollup(r)'
<1>1. /\ ReadRollup(r) /\ PendingRollups(r) /\ CurrentTopic(r)
      /\ IsFiniteSet(buf[r].responses) /\ PendingKinds(r)
  BY DEF MasteryInv, CountsInv, PendingCounts
<1>2. mastery' = mastery
  BY TablesStay DEF tables
<1>3. CASE pc'[r] = "counters"
  <2>1. Respond(r) \/ GlobalUpdate(r) \/ TopicUpdate(r)
    BY <1>3, ControlFlow DEF Quiet
  <2>2. Answer(r)' = Answer(r) /\ mem'[r].topic = mem[r].topic
    BY <2>1, ControlFlow, AnswerStays, MemFrame
       DEF Arrive, LoadItem, Counters, MasteryWrite, Respond, GlobalUpdate, TopicUpdate
  <2>3. Respond(r) => Answer(r).kind = "skip"
    BY <1>3, ControlFlow
  <2>4. GlobalUpdate(r) => mem[r].topic \notin Topics
    BY <1>3, ControlFlow, NoTopicAssumption
  <2>5. TopicUpdate(r) => \A t \in Topics : t = mem[r].topic => HoldsTopic(r, t)'
    BY TopicHeld
  <2> QED
    BY <1>3, <2>1, <2>2, <2>3, <2>4, <2>5 DEF ReadRollup
<1>4. CASE pc'[r] = "mastery_read"
  <2>1. Counters(r)
    BY <1>4, ControlFlow DEF Quiet
  <2>2. /\ pc[r] = "counters" /\ Answer(r)' = Answer(r)
        /\ Answer(r).kind # "skip" /\ mem'[r].topic = mem[r].topic
    BY <1>4, <2>1, ControlFlow, AnswerStays, CountersEffect
       DEF Arrive, MasteryWrite, Counters
  <2>3. \A t \in Topics : t = mem[r].topic => HoldsTopic(r, t)'
    BY <1>1, <2>2, HoldsStay DEF ReadRollup
  <2> QED
    BY <1>4, <2>2, <2>3 DEF ReadRollup
<1>5. CASE pc'[r] = "mastery_write"
  <2>1. MasteryRead(r)
    BY <1>5, ControlFlow DEF Quiet
  <2>2. /\ pc[r] = "mastery_read" /\ Answer(r)' = Answer(r)
        /\ Answer(r).kind # "skip" /\ mem'[r].topic = mem[r].topic
    BY <1>1, <2>1, ControlFlow, AnswerStays, MasteryReadEffect
       DEF Arrive, MasteryWrite, Counters, MasteryRead, ReadRollup
  <2>3. \A t \in Topics : t = mem[r].topic => HoldsTopic(r, t)'
    BY <1>1, <2>2, HoldsStay DEF ReadRollup
  <2>4. ASSUME NEW t \in Topics, t = mem[r].topic
        PROVE  mem'[r].snap = mastery[t] + Cardinality(MasteredAnswers(r, t))
    <3>1. mem'[r].snap = IF buf[r].mastery[t] > 0
                         THEN buf[r].mastery[t] ELSE mastery[t]
      BY <2>1, <2>4, MasteryReadEffect
    <3>2. buf[r].mastery[t] \in Nat /\ mastery[t] \in Nat
      BY HandlerTyped DEF BufType, TypeInv, TypeOK
    <3>3. Cardinality({}) = 0
      BY FS_EmptySet
    <3>4. CASE buf[r].mastery[t] > 0
      BY <1>1, <3>1, <3>4 DEF PendingRollups
    <3>5. CASE buf[r].mastery[t] = 0
      <4>1. MasteredAnswers(r, t) = {}
        BY <1>1, <3>5 DEF PendingRollups
      <4> QED
        BY <3>1, <3>2, <3>3, <3>5, <4>1
    <3> QED
      BY <3>2, <3>4, <3>5
  <2>5. \A t \in Topics : MasteredAnswers(r, t)' = MasteredAnswers(r, t)
    BY <1>1, <2>1, <2>2, ControlFlow, MasteredStay
  <2> QED
    BY <1>2, <1>5, <2>2, <2>3, <2>4, <2>5 DEF ReadRollup
<1>6. CASE pc'[r] \notin {"counters", "mastery_read", "mastery_write"}
  BY <1>6 DEF ReadRollup
<1> QED
  BY <1>3, <1>4, <1>5, <1>6


LEMMA PendingRollupsNext ==
    ASSUME TypeInv, HistoryInv, CountsInv, MasteryInv, NEW r \in Requests,
           Quiet(r) \/ Respond(r) \/ WriteCard(r)
    PROVE  PendingRollups(r)'
<1>1. /\ ReadRollup(r) /\ PendingRollups(r) /\ CurrentTopic(r)
      /\ IsFiniteSet(buf[r].responses) /\ PendingKinds(r)
  BY DEF MasteryInv, CountsInv, PendingCounts
<1>2. mastery' = mastery
  BY TablesStay DEF tables
<1>3. \A t \in Topics : HoldsTopic(r, t) => HoldsTopic(r, t)'
  BY HoldsStay
<1>4. CASE ~MasteryWrite(r)
  <2>1. \A t \in Topics : MasteredAnswers(r, t)' = MasteredAnswers(r, t)
    BY <1>1, <1>4, MasteredStay
  <2>2. buf'[r].mastery = buf[r].mastery
    BY <1>4, BufFrame
  <2> QED
    BY <1>1, <1>2, <1>3, <2>1, <2>2 DEF PendingRollups
<1>5. CASE MasteryWrite(r)
  <2>1. /\ pc[r] = "mastery_write" /\ Answer(r).kind # "skip"
        /\ mem[r].topic \in Topics /\ mem[r].snap \in Nat
    BY <1>1, <1>5, ControlFlow, HandlerTyped DEF ReadRollup, ControlOf, MemType
  <2>2. PICK u \in Topics : u = mem[r].topic
    BY <2>1
  <2>3. /\ HoldsTopic(r, u)
        /\ mem[r].snap = mastery[u] + Cardinality(MasteredAnswers(r, u))
    BY <1>1, <2>1, <2>2 DEF ReadRollup
  <2>4. /\ buf'[r].mastery = [buf[r].mastery EXCEPT ![u] = mem[r].snap + 1]
        /\ buf[r].mastery \in [Topics -> Nat] /\ mastery \in [Topics -> Nat]
    BY <1>5, <2>2, MasteryWriteEffect, HandlerTyped DEF BufType, TypeInv, TypeOK
  <2>5. PICK x : /\ x \notin MasteredAnswers(r, u)
                 /\ MasteredAnswers(r, u)' = MasteredAnswers(r, u) \cup {x}
    BY <1>1, <1>5, <2>1, <2>2, MasteredAdds
  <2>6. Cardinality(MasteredAnswers(r, u)') = Cardinality(MasteredAnswers(r, u)) + 1
    BY <1>1, <2>5, MasteredFinite, CardAdds
  <2>7. Cardinality(MasteredAnswers(r, u)) \in Nat
    BY <1>1, MasteredFinite
  <2>8. /\ buf'[r].mastery[u] = mem[r].snap + 1
        /\ buf'[r].mastery[u] = mastery[u] + Cardinality(MasteredAnswers(r, u)')
    BY <2>3, <2>4, <2>6, <2>7
  <2>9. \A t \in Topics : t # u => /\ MasteredAnswers(r, t)' = MasteredAnswers(r, t)
                                   /\ buf'[r].mastery[t] = buf[r].mastery[t]
    BY <1>1, <1>5, <2>1, <2>2, <2>4, MasteredAdds
  <2> SUFFICES ASSUME NEW t \in Topics
               PROVE  /\ buf'[r].mastery[t] > 0 =>
                             /\ HoldsTopic(r, t)'
                             /\ buf'[r].mastery[t] =
                                    mastery[t] + Cardinality(MasteredAnswers(r, t)')
                      /\ buf'[r].mastery[t] = 0 => MasteredAnswers(r, t)' = {}
    BY <1>2 DEF PendingRollups
  <2>10. CASE t = u
    BY <1>3, <2>1, <2>3, <2>8, <2>10
  <2>11. CASE t # u
    BY <1>1, <1>3, <2>9, <2>11 DEF PendingRollups
  <2> QED
    BY <2>10, <2>11
<1> QED
  BY <1>4, <1>5

\* What a handler knows of the rollups stays true as long as the rollups it
\* knows of do not move.
LEMMA RollupsOfOthers ==
    ASSUME NEW q \in Requests, PendingRollups(q), ReadRollup(q), CurrentTopic(q),
           pc'[q] = pc[q], mem'[q] = mem[q], buf'[q] = buf[q], req'[q] = req[q],
           \A t \in Topics : HoldsTopic(q, t) => mastery'[t] = mastery[t]
    PROVE  PendingRollups(q)' /\ ReadRollup(q)' /\ CurrentTopic(q)'
<1>1. Answer(q)' = Answer(q)
  BY DEF Answer
<1>2. \A t \in Topics : /\ HoldsTopic(q, t)' <=> HoldsTopic(q, t)
                        /\ MasteredAnswers(q, t)' = MasteredAnswers(q, t)
  BY DEF HoldsTopic, MasteredAnswers, OnTopic, MasteredUpTo
<1>3. PendingRollups(q)'
  BY <1>2 DEF PendingRollups
<1>4. CurrentTopic(q)'
  BY DEF CurrentTopic
<1>5. ReadRollup(q)'
  <2>1. pc[q] = "mastery_write" => Answer(q).kind # "skip"
    BY DEF ReadRollup
  <2>2. \A t \in Topics : t = mem[q].topic /\ pc[q] = "mastery_write" =>
            HoldsTopic(q, t)
    BY <2>1 DEF ReadRollup
  <2>3. \A t \in Topics : t = mem[q].topic /\ pc[q] = "mastery_write" =>
            mem[q].snap = mastery'[t] + Cardinality(MasteredAnswers(q, t)')
    BY <1>2, <2>2 DEF ReadRollup
  <2> QED
    BY <1>1, <1>2, <2>3 DEF ReadRollup
<1> QED
  BY <1>3, <1>4, <1>5

LEMMA FreshRollups ==
    ASSUME TypeInv, NEW r \in Requests, buf'[r] = NoWrites,
           pc'[r] \notin Responded
    PROVE  PendingRollups(r)' /\ ReadRollup(r)' /\ CurrentTopic(r)'
<1>1. buf'[r].responses = {} /\ \A t \in Topics : buf'[r].mastery[t] = 0
  BY FreshRows
<1>2. \A t \in Topics : MasteredAnswers(r, t)' = {}
  BY <1>1 DEF MasteredAnswers, OnTopic
<1> QED
  BY <1>1, <1>2 DEF PendingRollups, ReadRollup, CurrentTopic, Responded

LEMMA MasteryCommit ==
    ASSUME TypeInv, HistoryInv, CountsInv, RowsInv, MasteryInv,
           NEW r \in Requests, Commit(r)
    PROVE  MasteryInv'
<1>1. /\ pc[r] = "commit" /\ pc'[r] = "ok" /\ buf'[r] = NoWrites /\ req' = req
      /\ responses' = responses \cup buf[r].responses
      /\ \A t \in Topics : mastery'[t] = IF buf[r].mastery[t] > 0
                                         THEN buf[r].mastery[t] ELSE mastery[t]
      /\ \A q \in Requests : q # r => /\ pc'[q] = pc[q] /\ mem'[q] = mem[q]
                                      /\ buf'[q] = buf[q]
  BY CommitEffect
<1>2. PendingRollups(r) /\ MasteryCurrent /\ IsFiniteSet(responses)
      /\ IsFiniteSet(buf[r].responses)
  BY DEF MasteryInv, CountsInv, PendingCounts
<1>3. \A t \in Topics : MasteredAnswers(r, t) = OnTopic(buf[r].responses, t)
  <2>1. MasteredUpTo(r) = mem[r].k
    BY <1>1 DEF MasteredUpTo
  <2>2. \A x \in buf[r].responses : x.id[2] <= mem[r].k
    BY PendingPlaces
  <2> QED
    BY <2>1, <2>2 DEF MasteredAnswers, OnTopic
<1>4. ASSUME NEW t \in Topics
      PROVE  mastery'[t] = Cardinality(OnTopic(responses', t))
  <2>1. OnTopic(responses', t) = OnTopic(responses, t) \cup OnTopic(buf[r].responses, t)
    BY <1>1 DEF OnTopic
  <2>2. OnTopic(responses, t) \cap OnTopic(buf[r].responses, t) = {}
    <3>1. \A x \in buf[r].responses : x \notin responses
      <4>1. Kept(r) = {}
        BY <1>1 DEF HistoryInv, AllOrNothing, Whole
      <4>2. \A x \in buf[r].responses : x.id[1] = r
        BY PendingIds DEF HistoryInv
      <4> QED
        BY <4>1, <4>2 DEF Kept
    <3> QED
      BY <3>1 DEF OnTopic
  <2>3. IsFiniteSet(OnTopic(responses, t)) /\ IsFiniteSet(OnTopic(buf[r].responses, t))
    <3>1. /\ OnTopic(responses, t) \subseteq responses
          /\ OnTopic(buf[r].responses, t) \subseteq buf[r].responses
      BY DEF OnTopic
    <3> QED
      BY <1>2, <3>1, CardGrows
  <2>4. /\ Cardinality(OnTopic(responses, t)) \in Nat
        /\ Cardinality(OnTopic(buf[r].responses, t)) \in Nat
        /\ mastery[t] \in Nat /\ buf[r].mastery[t] \in Nat
    BY <2>3, FS_CardinalityType, HandlerTyped DEF TypeInv, TypeOK, BufType
  <2>5. mastery[t] = Cardinality(OnTopic(responses, t))
    BY <1>2 DEF MasteryCurrent, Graded, OnTopic
  <2>6. CASE buf[r].mastery[t] > 0
    <3>1. Cardinality(OnTopic(responses', t)) =
              Cardinality(OnTopic(responses, t))
              + Cardinality(OnTopic(buf[r].responses, t))
      <4> DEFINE C == OnTopic(responses, t)
                 P == OnTopic(buf[r].responses, t)
      <4>1. Cardinality(C \cup P) =
                Cardinality(C) + Cardinality(P) - Cardinality(C \cap P)
        BY <2>3, FS_Union
      <4>2. Cardinality(C \cap P) = 0
        BY <2>2, FS_EmptySet
      <4> HIDE DEF C, P
      <4> QED
        BY <2>1, <2>4, <4>1, <4>2 DEF C, P
    <3>2. buf[r].mastery[t] =
              mastery[t] + Cardinality(OnTopic(buf[r].responses, t))
      BY <1>2, <1>3, <2>6 DEF PendingRollups
    <3> QED
      BY <1>1, <2>5, <2>6, <3>1, <3>2
  <2>7. CASE buf[r].mastery[t] = 0
    <3>1. OnTopic(buf[r].responses, t) = {}
      BY <1>2, <1>3, <2>7 DEF PendingRollups
    <3> QED
      BY <1>1, <2>1, <2>5, <2>7, <3>1
  <2> QED
    BY <2>4, <2>6, <2>7
<1>5. MasteryCurrent'
  <2>1. \A t \in Topics : OnTopic(responses, t)' = {x \in Graded' : x.topic = t}
    BY DEF OnTopic, Graded
  <2> QED
    BY <1>4, <2>1 DEF MasteryCurrent, OnTopic
<1>6. ASSUME NEW q \in Requests, q # r, NEW t \in Topics, HoldsTopic(q, t)
      PROVE  mastery'[t] = mastery[t]
  <2>1. ~HoldsTopic(r, t)
    BY <1>6, NoTopicAssumption DEF RowsInv, TopicLocks, HoldsTopic
  <2>2. ~(buf[r].mastery[t] > 0)
    BY <1>2, <2>1 DEF PendingRollups
  <2> QED
    BY <1>1, <2>2
<1>7. ASSUME NEW q \in Requests
      PROVE  PendingRollups(q)' /\ ReadRollup(q)' /\ CurrentTopic(q)'
  <2>1. CASE q = r
    BY <1>1, <2>1, FreshRollups DEF Responded
  <2>2. CASE q # r
    BY <1>1, <1>6, <2>2, RollupsOfOthers DEF MasteryInv
  <2> QED
    BY <2>1, <2>2
<1> QED
  BY <1>5, <1>7 DEF MasteryInv

LEMMA MasteryRollback ==
    ASSUME TypeInv, MasteryInv, NEW r \in Requests, NEW l \in Ended, Rollback(r, l)
    PROVE  MasteryInv'
<1>1. /\ UNCHANGED <<tables, req>> /\ pc'[r] = l /\ buf'[r] = NoWrites
      /\ \A q \in Requests : q # r => /\ pc'[q] = pc[q] /\ mem'[q] = mem[q]
                                      /\ buf'[q] = buf[q]
  BY RollbackEffect
<1>2. MasteryCurrent'
  BY <1>1 DEF MasteryInv, MasteryCurrent, Graded, tables
<1>3. ASSUME NEW q \in Requests
      PROVE  PendingRollups(q)' /\ ReadRollup(q)' /\ CurrentTopic(q)'
  <2>1. CASE q = r
    BY <1>1, <2>1, FreshRollups DEF Responded, Ended
  <2>2. CASE q # r
    BY <1>1, <2>2, RollupsOfOthers DEF MasteryInv, tables
  <2> QED
    BY <2>1, <2>2
<1> QED
  BY <1>2, <1>3 DEF MasteryInv

LEMMA MasteryQuiet ==
    ASSUME TypeInv, HistoryInv, CountsInv, MasteryInv, NEW r \in Requests,
           Arrive(r) \/ Step(r) \/ Crash(r), Quiet(r) \/ Respond(r) \/ WriteCard(r)
    PROVE  MasteryInv'
<1>1. mastery' = mastery /\ responses' = responses
  BY TablesStay DEF tables
<1>2. MasteryCurrent'
  BY <1>1 DEF MasteryInv, MasteryCurrent, Graded
<1>3. ASSUME NEW q \in Requests
      PROVE  PendingRollups(q)' /\ ReadRollup(q)' /\ CurrentTopic(q)'
  <2>1. CASE q = r
    BY <2>1, PendingRollupsNext, ReadRollupNext, CurrentTopicNext DEF MasteryInv
  <2>2. CASE q # r
    BY <1>1, <2>2, OthersStay, RollupsOfOthers DEF MasteryInv
  <2> QED
    BY <2>1, <2>2
<1> QED
  BY <1>2, <1>3 DEF MasteryInv

LEMMA InitMasteryInv == Init => MasteryInv
<1> SUFFICES ASSUME Init PROVE MasteryInv
  OBVIOUS
<1>1. /\ responses = {} /\ \A t \in Topics : mastery[t] = 0
      /\ \A r \in Requests : /\ pc[r] = "idle" /\ buf[r].responses = {}
                             /\ \A t \in Topics : buf[r].mastery[t] = 0
  BY FreshRows DEF Init
<1>2. Cardinality({}) = 0
  BY FS_EmptySet
<1>3. \A t : {x \in Graded : x.topic = t} = {}
  BY <1>1 DEF Graded
<1>4. MasteryCurrent
  BY <1>1, <1>2, <1>3 DEF MasteryCurrent
<1>5. \A r \in Requests, t \in Topics : MasteredAnswers(r, t) = {}
  BY <1>1 DEF MasteredAnswers, OnTopic
<1> QED
  BY <1>1, <1>4, <1>5 DEF MasteryInv, PendingRollups, ReadRollup, CurrentTopic,
                          Responded

LEMMA NextMasteryInv ==
    TypeInv /\ HistoryInv /\ CountsInv /\ RowsInv /\ MasteryInv /\ [Next]_vars
        => MasteryInv'
<1> SUFFICES ASSUME TypeInv, HistoryInv, CountsInv, RowsInv, MasteryInv,
                    [Next]_vars
             PROVE  MasteryInv'
  OBVIOUS
<1>1. ASSUME NEW r \in Requests, Arrive(r) \/ Step(r) \/ Crash(r)
      PROVE  MasteryInv'
  BY <1>1, StepKinds, MasteryQuiet, MasteryCommit, MasteryRollback
<1>2. CASE UNCHANGED <<tables, req, pc, mem, buf>>
  <2>1. MasteryCurrent'
    BY <1>2 DEF tables, MasteryInv, MasteryCurrent, Graded
  <2>2. \A q \in Requests :
            PendingRollups(q)' /\ ReadRollup(q)' /\ CurrentTopic(q)'
    BY <1>2, RollupsOfOthers DEF tables, MasteryInv
  <2> QED
    BY <2>1, <2>2 DEF MasteryInv
<1>3. ASSUME NEW i \in Editable, NewVersion(i) \/ SoftDelete(i) \/ Retag(i)
      PROVE  MasteryInv'
  BY <1>2, <1>3, AuthorFrame
<1> QED
  BY <1>1, <1>2, <1>3 DEF Next, vars

\* The topic rollup counts every committed graded answer of its topic, however
\* many requests answer it at once: _update_mastery writes over the row it
\* read, because it read it under the lock on the topic's ability.
THEOREM RollupsCurrent == Spec => []MasteryCurrent
<1>1. MasteryInv => MasteryCurrent
  BY DEF MasteryInv
<1> QED
  BY <1>1, InitTypeInv, NextTypeInv, InitHistoryInv, NextHistoryInv,
     InitCountsInv, NextCountsInv, InitRowsInv, NextRowsInv, InitMasteryInv,
     NextMasteryInv, PTL DEF Spec


-----------------------------------------------------------------------------
(* Wait cycles.  A request with one answer takes its row locks in the order  *)
(* topic insert, card, global ability, topic ability, session, rollup, so    *)
(* whoever it waits for is further on in that order.                         *)

AfterUpdates == {"counters", "mastery_read", "mastery_write", "commit"}

AfterGlobal == {"topic_points", "topic_update"} \cup AfterUpdates

AfterCard == {"global_row", "global_points", "global_update"} \cup AfterGlobal

AfterInsert == {"respond", "card_write"} \cup AfterCard

AfterSession == {"mastery_read", "mastery_write", "commit"}

\* What a request holds says how far it is.  A row it did not insert itself
\* is locked only by the UPDATE of an ability.
HeldInOrder(r) ==
    /\ \A i \in Items : buf[r].card[i] > 0 => pc[r] \in AfterCard
    /\ buf[r].session => pc[r] \in AfterSession
    /\ \A t \in Topics : buf[r].mastery[t] > 0 => pc[r] = "commit"
    /\ \A w \in buf[r].theta :
           /\ w.scope = NoTopic => w.by = r \/ pc[r] \in AfterGlobal
           /\ w.scope # NoTopic => /\ pc[r] \in AfterInsert
                                   /\ w.by = r \/ pc[r] \in AfterUpdates

OrderInv ==
    \A r \in Requests :
        /\ pc[r] = "idle" => buf[r] = NoWrites
        /\ Len(req[r].answers) <= 1 => HeldInOrder(r)

LEMMA FreshHeld ==
    ASSUME NEW r \in Requests, buf[r] = NoWrites
    PROVE  HeldInOrder(r)
BY FreshRows DEF HeldInOrder

\* Without a second answer a handler never goes back.
LEMMA MovesForward ==
    ASSUME TypeInv, NEW r \in Requests, Quiet(r) \/ Respond(r) \/ WriteCard(r),
           ~Arrive(r), Len(req[r].answers) <= 1
    PROVE  /\ Counters(r) => pc'[r] \in AfterSession
           /\ MasteryWrite(r) => pc'[r] = "commit"
           /\ pc[r] \in AfterUpdates => pc'[r] \in AfterUpdates
           /\ pc[r] \in AfterGlobal => pc'[r] \in AfterGlobal
           /\ pc[r] \in AfterCard => pc'[r] \in AfterCard
           /\ pc[r] \in AfterInsert => pc'[r] \in AfterInsert
           /\ pc[r] \in AfterSession => pc'[r] \in AfterSession
<1>1. mem[r].k \in Nat \ {0} /\ Len(req[r].answers) \in Nat
  BY HandlerTyped, MenuTyped DEF MemType, ControlOf, RequestType
<1>2. ~(mem[r].k < Len(req[r].answers))
  BY <1>1
<1>3. Counters(r) => pc'[r] \in {"mastery_read", "commit"}
  BY <1>2, CountersEffect
<1>4. MasteryWrite(r) => pc'[r] = "commit"
  BY <1>2, MasteryWriteEffect
<1> QED
  BY <1>3, <1>4, ControlFlow
     DEF Quiet, AfterUpdates, AfterGlobal, AfterCard, AfterInsert, AfterSession

\* Which ability rows a step writes, and where it leaves the handler.
LEMMA RowsWritten ==
    ASSUME TypeInv, NEW r \in Requests, Quiet(r) \/ Respond(r) \/ WriteCard(r)
    PROVE  \A w \in buf'[r].theta :
               \/ w \in buf[r].theta
               \/ w.scope = NoTopic /\ (w.by = r \/ pc'[r] \in AfterGlobal)
               \/ /\ w.scope # NoTopic /\ pc'[r] \in AfterInsert
                  /\ w.by = r \/ pc'[r] \in AfterUpdates
<1>1. \A x : PutTheta(r, x) =>
          \A w \in buf'[r].theta : w \in buf[r].theta \/ w = x
  BY PutThetaEffect
<1>2. CASE GlobalTheta(r)
  <2> DEFINE x == [by |-> r, scope |-> NoTopic, used |-> {}]
  <2>1. x.by = r /\ x.scope = NoTopic
    OBVIOUS
  <2>2. buf' = buf \/ PutTheta(r, x)
    BY <1>2 DEF GlobalTheta
  <2> HIDE DEF x
  <2> QED
    BY <1>1, <2>1, <2>2
<1>3. CASE InsertTopicTheta(r)
  <2> DEFINE x == [by |-> r, scope |-> mem[r].topic, used |-> {}]
  <2>1. x.by = r /\ x.scope = mem[r].topic
    OBVIOUS
  <2>2. PutTheta(r, x)
    BY <1>3 DEF InsertTopicTheta
  <2>3. mem[r].topic # NoTopic
    BY <1>3, ControlFlow, HandlerTyped, NoTopicAssumption DEF ControlOf
  <2>4. pc'[r] \in AfterInsert
    BY <1>3, ControlFlow DEF AfterInsert, AfterCard, AfterGlobal, AfterUpdates
  <2> HIDE DEF x
  <2> QED
    BY <1>1, <2>1, <2>2, <2>3, <2>4
<1>4. CASE GlobalUpdate(r)
  <2> DEFINE x == [by |-> mem[r].row, scope |-> NoTopic, used |-> mem[r].points]
  <2>1. x.scope = NoTopic
    OBVIOUS
  <2>2. PutTheta(r, x)
    BY <1>4 DEF GlobalUpdate
  <2>3. pc'[r] \in AfterGlobal
    BY <1>4, ControlFlow DEF AfterGlobal, AfterUpdates
  <2> HIDE DEF x
  <2> QED
    BY <1>1, <2>1, <2>2, <2>3
<1>5. CASE TopicUpdate(r)
  <2> DEFINE x == [by |-> mem[r].row, scope |-> mem[r].topic,
                   used |-> mem[r].points]
  <2>1. x.scope = mem[r].topic
    OBVIOUS
  <2>2. PutTheta(r, x)
    BY <1>5 DEF TopicUpdate
  <2>3. mem[r].topic # NoTopic
    BY <1>5, ControlFlow, HandlerTyped, NoTopicAssumption DEF ControlOf
  <2>4. pc'[r] \in AfterUpdates /\ pc'[r] \in AfterInsert
    BY <1>5, ControlFlow DEF AfterInsert, AfterCard, AfterGlobal, AfterUpdates
  <2> HIDE DEF x
  <2> QED
    BY <1>1, <2>1, <2>2, <2>3, <2>4
<1> QED
  BY <1>2, <1>3, <1>4, <1>5, BufFrame

LEMMA HeldNext ==
    ASSUME TypeInv, OrderInv, NEW r \in Requests,
           Quiet(r) \/ Respond(r) \/ WriteCard(r), Len(req'[r].answers) <= 1
    PROVE  HeldInOrder(r)'
<1>1. CASE Arrive(r)
  <2>1. buf'[r] = NoWrites
    BY <1>1 DEF Arrive, OrderInv
  <2> QED
    BY <2>1, FreshRows DEF HeldInOrder
<1>2. CASE ~Arrive(r)
  <2>1. req' = req
    BY <1>2, TablesStay
  <2>2. HeldInOrder(r)
    BY <2>1 DEF OrderInv
  <2>3. \A i \in Items : buf'[r].card[i] > 0 => pc'[r] \in AfterCard
    <3>1. WriteCard(r) => pc'[r] \in AfterCard
      BY ControlFlow DEF AfterCard
    <3>2. ~WriteCard(r) => buf'[r].card = buf[r].card
      BY BufFrame
    <3>3. pc[r] \in AfterCard => pc'[r] \in AfterCard
      BY <1>2, <2>1, MovesForward
    <3> QED
      BY <2>2, <3>1, <3>2, <3>3 DEF HeldInOrder
  <2>4. buf'[r].session => pc'[r] \in AfterSession
    <3>1. Counters(r) \/ Close(r) => pc'[r] \in AfterSession
      BY <1>2, <2>1, MovesForward, ControlFlow DEF AfterSession
    <3>2. ~(Counters(r) \/ Close(r)) => buf'[r].session = buf[r].session
      BY BufFrame
    <3>3. pc[r] \in AfterSession => pc'[r] \in AfterSession
      BY <1>2, <2>1, MovesForward
    <3> QED
      BY <2>2, <3>1, <3>2, <3>3 DEF HeldInOrder
  <2>5. \A t \in Topics : buf'[r].mastery[t] > 0 => pc'[r] = "commit"
    <3>1. MasteryWrite(r) => pc'[r] = "commit"
      BY <1>2, <2>1, MovesForward
    <3>2. ~MasteryWrite(r) => buf'[r].mastery = buf[r].mastery
      BY BufFrame
    <3>3. pc[r] # "commit"
      BY <1>2, ControlFlow DEF Quiet
    <3> QED
      BY <2>2, <3>1, <3>2, <3>3 DEF HeldInOrder
  <2>6. ASSUME NEW w \in buf'[r].theta
        PROVE  /\ w.scope = NoTopic => w.by = r \/ pc'[r] \in AfterGlobal
               /\ w.scope # NoTopic => /\ pc'[r] \in AfterInsert
                                       /\ w.by = r \/ pc'[r] \in AfterUpdates
    <3>1. CASE w \in buf[r].theta
      BY <1>2, <2>1, <2>2, <3>1, MovesForward DEF HeldInOrder
    <3> QED
      BY <3>1, RowsWritten
  <2> QED
    BY <2>3, <2>4, <2>5, <2>6 DEF HeldInOrder
<1> QED
  BY <1>1, <1>2

LEMMA InitOrderInv == Init => OrderInv
BY FreshHeld DEF Init, OrderInv

LEMMA NextOrderInv == TypeInv /\ OrderInv /\ [Next]_vars => OrderInv'
<1> SUFFICES ASSUME TypeInv, OrderInv, [Next]_vars PROVE OrderInv'
  OBVIOUS
<1>1. ASSUME NEW r \in Requests, Arrive(r) \/ Step(r) \/ Crash(r)
      PROVE  OrderInv'
  <2> SUFFICES ASSUME NEW q \in Requests
               PROVE  /\ pc'[q] = "idle" => buf'[q] = NoWrites
                      /\ Len(req'[q].answers) <= 1 => HeldInOrder(q)'
    BY DEF OrderInv
  <2>1. CASE q # r
    <3>1. pc'[q] = pc[q] /\ buf'[q] = buf[q] /\ req'[q] = req[q]
      BY <1>1, <2>1, OthersStay
    <3> QED
      BY <3>1 DEF OrderInv, HeldInOrder
  <2>2. CASE q = r /\ (Quiet(r) \/ Respond(r) \/ WriteCard(r))
    <3>1. pc'[r] # "idle"
      BY <2>2, ControlFlow DEF Quiet
    <3> QED
      BY <2>2, <3>1, HeldNext
  <2>3. CASE q = r /\ buf'[r] = NoWrites
    BY <2>3, FreshRows DEF HeldInOrder
  <2> QED
    BY <1>1, <2>1, <2>2, <2>3, StepKinds, CommitEffect, RollbackEffect
<1>2. CASE UNCHANGED <<tables, req, pc, mem, buf>>
  BY <1>2 DEF OrderInv, HeldInOrder, NoWrites
<1>3. ASSUME NEW i \in Editable, NewVersion(i) \/ SoftDelete(i) \/ Retag(i)
      PROVE  OrderInv'
  BY <1>2, <1>3, AuthorFrame
<1> QED
  BY <1>1, <1>2, <1>3 DEF Next, vars

Waiting ==
    {"topic_insert", "card_write", "global_update", "topic_update", "counters",
     "close", "mastery_write"}

\* Whoever a request waits for, if it waits itself, waits for a later lock.
LEMMA HolderAhead ==
    ASSUME TypeInv, RowsInv, NEW r \in Requests, NEW q \in Holders(r),
           HeldInOrder(q), pc[q] \in Waiting
    PROVE  /\ pc[r] # "mastery_write"
           /\ pc[r] \in {"counters", "close"} => pc[q] = "mastery_write"
           /\ pc[r] = "topic_update" => pc[q] \in {"counters", "mastery_write"}
           /\ pc[r] = "global_update" =>
                  pc[q] \in {"topic_update", "counters", "mastery_write"}
           /\ pc[r] = "card_write" =>
                  pc[q] \in {"global_update", "topic_update", "counters",
                             "mastery_write"}
           /\ pc[r] = "topic_insert" =>
                  pc[q] \in {"card_write", "global_update", "topic_update",
                             "counters", "mastery_write"}
<1>1. q \in Requests /\ q # r /\ pc[q] # "ok" /\ ControlOf(r)
  BY HandlerTyped DEF Holders, Waiting
<1>2. pc[r] # "mastery_write"
  <2> SUFFICES ASSUME pc[r] = "mastery_write" PROVE FALSE
    OBVIOUS
  <2>1. mem[r].topic \in Topics /\ buf[q].mastery[mem[r].topic] > 0
    BY <1>1 DEF Holders, ControlOf
  <2> QED
    BY <2>1 DEF HeldInOrder, Waiting
<1>3. pc[r] \in {"counters", "close"} => pc[q] = "mastery_write"
  BY DEF Holders, HeldInOrder, AfterSession, Waiting
<1>4. pc[r] = "topic_update" => pc[q] \in {"counters", "mastery_write"}
  <2> SUFFICES ASSUME pc[r] = "topic_update"
               PROVE  pc[q] \in {"counters", "mastery_write"}
    OBVIOUS
  <2>1. PICK w \in buf[q].theta : w.scope = mem[r].topic
    BY DEF Holders
  <2>2. w.scope # NoTopic
    BY <1>1, <2>1, NoTopicAssumption DEF ControlOf
  <2>3. PICK x \in theta \cup buf[r].theta : x.scope = mem[r].topic
    BY DEF RowsInv, ReadRows
  <2>4. x \in theta
    BY <1>1, <2>1, <2>2, <2>3 DEF RowsInv, TopicLocks
  <2>5. w.by = x.by /\ pc[x.by] = "ok"
    BY <1>1, <2>1, <2>2, <2>3, <2>4 DEF RowsInv, PendingRows, RowOwners
  <2>6. pc[q] \in AfterUpdates
    BY <1>1, <2>1, <2>2, <2>5 DEF HeldInOrder
  <2> QED
    BY <2>6 DEF AfterUpdates, Waiting
<1>5. pc[r] = "global_update" =>
          pc[q] \in {"topic_update", "counters", "mastery_write"}
  <2> SUFFICES ASSUME pc[r] = "global_update"
               PROVE  pc[q] \in {"topic_update", "counters", "mastery_write"}
    OBVIOUS
  <2>1. PICK w \in buf[q].theta : w.by = mem[r].row /\ w.scope = NoTopic
    BY DEF Holders
  <2>2. mem[r].row = r \/ pc[mem[r].row] = "ok"
    BY DEF RowsInv, ReadRows
  <2>3. pc[q] \in AfterGlobal
    BY <1>1, <2>1, <2>2 DEF HeldInOrder
  <2> QED
    BY <2>3 DEF AfterGlobal, AfterUpdates, Waiting
<1>6. pc[r] = "card_write" =>
          pc[q] \in {"global_update", "topic_update", "counters", "mastery_write"}
  <2> SUFFICES ASSUME pc[r] = "card_write"
               PROVE  pc[q] \in {"global_update", "topic_update", "counters",
                                 "mastery_write"}
    OBVIOUS
  <2>1. Answer(r).item \in Items
    BY <1>1, AnswerTyped DEF ControlOf, Grading, Statements, AnswerType
  <2>2. buf[q].card[Answer(r).item] > 0
    BY DEF Holders
  <2>3. pc[q] \in AfterCard
    BY <2>1, <2>2 DEF HeldInOrder
  <2> QED
    BY <2>3 DEF AfterCard, AfterGlobal, AfterUpdates, Waiting
<1>7. pc[r] = "topic_insert" =>
          pc[q] \in {"card_write", "global_update", "topic_update", "counters",
                     "mastery_write"}
  <2> SUFFICES ASSUME pc[r] = "topic_insert"
               PROVE  pc[q] \in {"card_write", "global_update", "topic_update",
                                 "counters", "mastery_write"}
    OBVIOUS
  <2>1. PICK w \in buf[q].theta : w.scope = mem[r].topic
    BY DEF Holders
  <2>2. w.scope # NoTopic
    BY <1>1, <2>1, NoTopicAssumption DEF ControlOf
  <2>3. pc[q] \in AfterInsert
    BY <2>1, <2>2 DEF HeldInOrder
  <2> QED
    BY <2>3 DEF AfterInsert, AfterCard, AfterGlobal, AfterUpdates, Waiting
<1> QED
  BY <1>2, <1>3, <1>4, <1>5, <1>6, <1>7

\* Requests of one answer each cannot deadlock: in a wait cycle somebody has
\* more than one answer to grade.  The request of a cycle that is furthest on
\* in the order of the locks would wait for one that is further on.
THEOREM CyclesOnlyInBatches == Spec => []CyclesNeedBatch
<1>1. TypeInv /\ RowsInv /\ OrderInv => CyclesNeedBatch
  <2> SUFFICES ASSUME TypeInv, RowsInv, OrderInv, NEW p \in Requests, InCycle(p),
                      \A r \in Requests : Active(r) => ~(Len(req[r].answers) > 1)
               PROVE  FALSE
    BY DEF CyclesNeedBatch
  <2>1. PICK S \in SUBSET Requests : /\ p \in S
                                     /\ \A r \in S : Holders(r) \cap S # {}
    BY DEF InCycle
  <2>2. ASSUME NEW r \in S
        PROVE  pc[r] \in Waiting /\ HeldInOrder(r)
    <3>1. pc[r] \in Waiting
      BY <2>1, <2>2 DEF Holders, Waiting
    <3>2. Active(r) /\ Len(req[r].answers) \in Nat
      BY <3>1, HandlerTyped, MenuTyped
         DEF Active, Waiting, Statements, ControlOf, RequestType
    <3>3. Len(req[r].answers) <= 1
      BY <3>2
    <3> QED
      BY <3>1, <3>3 DEF OrderInv
  <2>3. ASSUME NEW r \in S
        PROVE  \E q \in S : q \in Holders(r)
    BY <2>1
  <2>4. \A r \in S : pc[r] # "mastery_write"
    BY <2>2, <2>3, HolderAhead
  <2>5. \A r \in S : pc[r] \notin {"counters", "close"}
    BY <2>2, <2>3, <2>4, HolderAhead
  <2>6. \A r \in S : pc[r] # "topic_update"
    BY <2>2, <2>3, <2>4, <2>5, HolderAhead
  <2>7. \A r \in S : pc[r] # "global_update"
    BY <2>2, <2>3, <2>4, <2>5, <2>6, HolderAhead
  <2>8. \A r \in S : pc[r] # "card_write"
    BY <2>2, <2>3, <2>4, <2>5, <2>6, <2>7, HolderAhead
  <2>9. \A r \in S : pc[r] # "topic_insert"
    BY <2>2, <2>3, <2>4, <2>5, <2>6, <2>7, <2>8, HolderAhead
  <2> QED
    BY <2>1, <2>2, <2>4, <2>5, <2>6, <2>7, <2>8, <2>9 DEF Waiting
<1> QED
  BY <1>1, InitTypeInv, NextTypeInv, InitRowsInv, NextRowsInv, InitOrderInv,
     NextOrderInv, PTL DEF Spec


-----------------------------------------------------------------------------
(* Sessions whose requests do not overlap.  Lost updates are what keeps      *)
(* CountersBacked from being an equality; where every client waits for a     *)
(* session's reply before it sends that session's next request, nothing is   *)
(* lost, however much other sessions do at the same time.                    *)

\* The counters c count exactly these responses.
Exactly(c, set) ==
    /\ c.delivered = Cardinality(set)
    /\ c.correct = Cardinality(Correct(set))
    /\ c.skipped = Cardinality(Skipped(set))

Apart ==
    \A r, q \in Requests :
        Active(r) /\ Active(q) /\ req[r].session = req[q].session => r = q

StoredExact(s) ==
    /\ Exactly(session[s], ResponsesOf(s))
    /\ session[s].status = "none" =>
           /\ session[s].delivered = 0 /\ session[s].correct = 0
           /\ session[s].skipped = 0
    /\ session[s].status = "completed" => session[s].net = Net(session[s])

\* Past its status check a request knows all that its session has, and keeps
\* it open until it ends.
PendingExact(r) ==
    Active(r) /\ pc[r] # "load" /\ req[r].op # "start" =>
        /\ \A s \in Sessions :
               s = req[r].session =>
                   /\ session[s].status = "in_progress"
                   /\ Exactly(mem[r], SeenResponses(r, s))
        /\ pc[r] \in AfterSession => buf[r].session

ExactInv ==
    /\ Apart
    /\ \A s \in Sessions : StoredExact(s)
    /\ \A r \in Requests : PendingExact(r)

LEMMA ExactlyMore ==
    ASSUME NEW c, NEW d, NEW S, IsFiniteSet(S), Exactly(c, S),
           NEW x, x \notin S, d.delivered = c.delivered + 1,
           d.correct = c.correct + (IF x.kind = "correct" THEN 1 ELSE 0),
           d.skipped = c.skipped + (IF x.kind = "skip" THEN 1 ELSE 0)
    PROVE  Exactly(d, S \cup {x})
<1>1. /\ Correct(S) \subseteq S /\ Skipped(S) \subseteq S
      /\ x \notin Correct(S) /\ x \notin Skipped(S)
  BY DEF Correct, Skipped
<1>2. IsFiniteSet(Correct(S)) /\ IsFiniteSet(Skipped(S))
  BY <1>1, CardGrows
<1>3. /\ Cardinality(S \cup {x}) = Cardinality(S) + 1
      /\ Cardinality(Correct(S) \cup {x}) = Cardinality(Correct(S)) + 1
      /\ Cardinality(Skipped(S) \cup {x}) = Cardinality(Skipped(S)) + 1
      /\ Cardinality(S) \in Nat /\ Cardinality(Correct(S)) \in Nat
      /\ Cardinality(Skipped(S)) \in Nat
  BY <1>1, <1>2, CardAdds
<1>4. /\ Correct(S \cup {x}) = IF x.kind = "correct"
                               THEN Correct(S) \cup {x} ELSE Correct(S)
      /\ Skipped(S \cup {x}) = IF x.kind = "skip"
                               THEN Skipped(S) \cup {x} ELSE Skipped(S)
  BY DEF Correct, Skipped
<1> QED
  BY <1>3, <1>4 DEF Exactly

\* A request becomes active by arriving.
LEMMA Arrivals ==
    ASSUME TypeInv, [Next]_vars, NEW q \in Requests, Active(q)'
    PROVE  Arrive(q) \/ (Active(q) /\ req'[q] = req[q])
<1>1. ASSUME NEW r \in Requests, Arrive(r) \/ Step(r) \/ Crash(r)
      PROVE  Arrive(q) \/ (Active(q) /\ req'[q] = req[q])
  <2>1. CASE q # r
    BY <1>1, <2>1, OthersStay DEF Active
  <2>2. CASE q = r /\ Quiet(r)
    BY <2>2, QuietWritten
  <2>3. CASE q = r /\ (Respond(r) \/ WriteCard(r))
    BY <2>3, RespondEffect, WriteCardEffect, TablesStay DEF Respond, WriteCard
  <2>4. CASE q = r /\ (Commit(r) \/ \E l \in Ended : Rollback(r, l))
    BY <2>4, CommitEffect, RollbackEffect
  <2> QED
    BY <1>1, <2>1, <2>2, <2>3, <2>4, StepKinds
<1>2. CASE UNCHANGED <<tables, req, pc, mem, buf>>
  BY <1>2 DEF Active
<1>3. ASSUME NEW i \in Editable, NewVersion(i) \/ SoftDelete(i) \/ Retag(i)
      PROVE  Arrive(q) \/ (Active(q) /\ req'[q] = req[q])
  BY <1>2, <1>3, AuthorFrame
<1> QED
  BY <1>1, <1>2, <1>3 DEF Next, vars

LEMMA ApartNext ==
    ASSUME Exclusive \in {"session", "all"}, TypeInv, Apart, [Next]_vars
    PROVE  Apart'
<1>1. ASSUME NEW r \in Requests, Arrive(r) PROVE Apart'
  <2>1. PICK m \in Menu : MayArrive(m) /\ req' = [req EXCEPT ![r] = m]
    BY <1>1 DEF Arrive
  <2>2. /\ req'[r] = m
        /\ \A q \in Requests : q # r => req'[q] = req[q] /\ pc'[q] = pc[q]
    BY <1>1, <2>1, OthersStay DEF TypeInv, TypeOK
  <2>3. \A q \in Requests : Active(q) => req[q].session # m.session
    BY <2>1 DEF MayArrive, Conflicting
  <2> QED
    BY <2>2, <2>3 DEF Apart, Active
<1>2. CASE \A r \in Requests : ~Arrive(r)
  BY <1>2, Arrivals DEF Apart
<1> QED
  BY <1>1, <1>2


\* The rest of ExactInv concerns one request and one session at a time.
LEMMA PendingExactStay ==
    ASSUME NEW q \in Requests, PendingExact(q), pc'[q] = pc[q], mem'[q] = mem[q],
           buf'[q] = buf[q], req'[q] = req[q],
           Active(q) => \A s \in Sessions : s = req[q].session =>
               session'[s] = session[s] /\ ResponsesOf(s)' = ResponsesOf(s)
    PROVE  PendingExact(q)'
<1>1. \A s \in Sessions : Active(q) /\ s = req[q].session =>
          SeenResponses(q, s)' = SeenResponses(q, s)
  BY DEF SeenResponses, CountedAnswers, CountedUpTo
<1>2. Active(q)' <=> Active(q)
  BY DEF Active
<1>3. \A s \in Sessions : Active(q) /\ s = req[q].session
          /\ Exactly(mem[q], SeenResponses(q, s))
              => Exactly(mem'[q], SeenResponses(q, s)')
  BY <1>1
<1>4. \A s \in Sessions :
          Exactly(mem'[q], SeenResponses(q, s)') <=>
              Exactly(mem[q], SeenResponses(q, s))'
  BY DEF Exactly, Correct, Skipped
<1> QED
  BY <1>2, <1>3, <1>4 DEF PendingExact

LEMMA StoredExactStay ==
    ASSUME NEW s \in Sessions, StoredExact(s), session'[s] = session[s],
           ResponsesOf(s)' = ResponsesOf(s)
    PROVE  StoredExact(s)'
<1>1. Exactly(session[s], ResponsesOf(s))'
  BY DEF StoredExact, Exactly, Correct, Skipped
<1>2. Net(session[s])' = Net(session[s])
  BY DEF Net
<1> QED
  BY <1>1, <1>2 DEF StoredExact

\* Load reads all there is; later steps count what they add.
LEMMA PendingExactNext ==
    ASSUME TypeInv, TypeInv', HistoryInv, HistoryInv', CountsInv, ExactInv,
           NEW r \in Requests, Quiet(r) \/ Respond(r) \/ WriteCard(r)
    PROVE  PendingExact(r)'
<1>1. /\ PendingExact(r) /\ PendingKinds(r)
      /\ IsFiniteSet(buf[r].responses) /\ IsFiniteSet(responses)
  BY DEF ExactInv, CountsInv, PendingCounts
<1>2. session' = session /\ responses' = responses
  BY TablesStay DEF tables
<1>3. \A s : ResponsesOf(s)' = ResponsesOf(s)
  BY <1>2 DEF ResponsesOf
<1>4. CASE Arrive(r)
  <2>1. pc'[r] = "load" \/ req'[r].op = "start"
    <3>1. PICK m \in Menu :
               /\ req' = [req EXCEPT ![r] = m]
               /\ m.op # "start" => Goto(r, "load")
      BY <1>4 DEF Arrive
    <3> QED
      BY <3>1 DEF Goto, TypeInv, TypeOK
  <2> QED
    BY <2>1 DEF PendingExact
<1>5. CASE Load(r)
  <2>1. /\ pc[r] = "load" /\ pc'[r] \notin AfterSession
        /\ req' = req /\ buf'[r].responses = buf[r].responses
    BY <1>5, ControlFlow, TablesStay, BufFrame
       DEF AfterSession, Arrive, Respond, Load
  <2>2. buf[r].responses = {}
    <3>1. Written(r) = 0
      BY <2>1, HandlerTyped, FreshRows DEF Written, Responded, ControlOf
    <3>2. Active(r) /\ req[r].op = "answer" =>
              {x.id : x \in buf[r].responses} = {r} \X (1 .. Written(r))
      BY DEF HistoryInv, PendingHistory
    <3>3. {r} \X (1 .. 0) = {}
      OBVIOUS
    <3>4. Active(r) /\ req[r].op = "answer" => {x.id : x \in buf[r].responses} = {}
      BY <3>1, <3>2, <3>3
    <3> QED
      BY <3>4, NothingPending
  <2>3. \A s : SeenResponses(r, s)' = ResponsesOf(s)
    BY <1>3, <2>1, <2>2 DEF SeenResponses, CountedAnswers
  <2>4. ASSUME NEW s \in Sessions, s = req[r].session
        PROVE  /\ session[s].status = "in_progress"
               /\ Exactly(mem[r], SeenResponses(r, s))'
    <3>1. Exactly(session[s], ResponsesOf(s))
      BY DEF ExactInv, StoredExact
    <3>2. /\ mem'[r].delivered = session[s].delivered
          /\ mem'[r].correct = session[s].correct
          /\ mem'[r].skipped = session[s].skipped
          /\ session[s].status = "in_progress"
      BY <1>5, <2>4, LoadEffect
    <3> QED
      BY <2>3, <3>1, <3>2 DEF Exactly, Correct, Skipped
  <2> QED
    BY <1>2, <2>1, <2>4 DEF PendingExact
<1>6. CASE ~Arrive(r) /\ ~Load(r) /\ req[r].op # "start"
  <2>1. req' = req /\ Active(r) /\ pc[r] # "load"
    BY <1>6, TablesStay, ControlFlow DEF Quiet, Active, Statements
  <2>2. pc'[r] \in AfterSession => buf'[r].session
    <3>1. CASE Counters(r) \/ Close(r)
      <4>1. buf'[r] = [buf[r] EXCEPT !.session = TRUE]
        BY <3>1 DEF Counters, Close, TypeInv, TypeOK
      <4>2. buf[r] \in BufType
        BY HandlerTyped
      <4> QED
        BY <4>1, <4>2 DEF BufType
    <3>2. CASE ~(Counters(r) \/ Close(r))
      <4>1. buf'[r].session = buf[r].session
        BY <3>2, BufFrame
      <4>2. GlobalTheta(r) \/ TopicTheta(r) \/ InsertTopicTheta(r) =>
                pc'[r] # "commit"
        BY <1>6 DEF GlobalTheta, TopicTheta, InsertTopicTheta, AfterTopic, Goto,
                    TypeInv, TypeOK
      <4>3. pc'[r] \in AfterSession => pc[r] \in AfterSession
        BY <1>6, <3>2, <4>2, ControlFlow DEF Quiet, AfterSession
      <4> QED
        BY <1>1, <1>6, <2>1, <4>1, <4>3 DEF PendingExact
    <3> QED
      BY <3>1, <3>2
  <2>3. ASSUME NEW s \in Sessions, s = req[r].session
        PROVE  Exactly(mem[r], SeenResponses(r, s))'
    <3>1. Exactly(mem[r], SeenResponses(r, s))
      BY <1>1, <1>6, <2>1, <2>3 DEF PendingExact
    <3>2. CASE ~Counters(r)
      <4>1. CountedAnswers(r)' = CountedAnswers(r)
        BY <3>2, CountedStay
      <4>2. SeenResponses(r, s)' = SeenResponses(r, s)
        BY <1>3, <4>1 DEF SeenResponses
      <4>3. /\ mem'[r].delivered = mem[r].delivered
            /\ mem'[r].correct = mem[r].correct
            /\ mem'[r].skipped = mem[r].skipped
        BY <1>6, <3>2, MemFrame
      <4> QED
        BY <3>1, <4>2, <4>3 DEF Exactly, Correct, Skipped
    <3>3. CASE Counters(r)
      <4>1. PICK x \in buf[r].responses :
               /\ x \notin responses /\ x.kind = Answer(r).kind
               /\ x \notin CountedAnswers(r)
               /\ CountedAnswers(r)' = CountedAnswers(r) \cup {x}
        BY <1>1, <3>3, CountedAdds
      <4>2. /\ x \notin SeenResponses(r, s)
            /\ SeenResponses(r, s)' = SeenResponses(r, s) \cup {x}
        BY <1>3, <4>1 DEF SeenResponses, ResponsesOf
      <4>3. IsFiniteSet(SeenResponses(r, s))
        BY <1>1, SeenFinite
      <4>4. /\ mem'[r].delivered = mem[r].delivered + 1
            /\ mem'[r].correct =
                   mem[r].correct + (IF x.kind = "correct" THEN 1 ELSE 0)
            /\ mem'[r].skipped =
                   mem[r].skipped + (IF x.kind = "skip" THEN 1 ELSE 0)
        BY <3>3, <4>1, CountersEffect
      <4>5. Exactly(mem'[r], SeenResponses(r, s) \cup {x})
        BY <3>1, <4>2, <4>3, <4>4, ExactlyMore
      <4> QED
        BY <4>2, <4>5 DEF Exactly, Correct, Skipped
    <3> QED
      BY <3>2, <3>3
  <2>4. \A s \in Sessions : s = req[r].session => session[s].status = "in_progress"
    BY <1>1, <1>6, <2>1 DEF PendingExact
  <2> QED
    BY <1>2, <2>1, <2>2, <2>3, <2>4 DEF PendingExact
<1>7. CASE ~Arrive(r) /\ ~Load(r) /\ req[r].op = "start"
  <2>1. req' = req
    BY <1>7, TablesStay
  <2> QED
    BY <1>7, <2>1 DEF PendingExact
<1> QED
  BY <1>4, <1>5, <1>6, <1>7


\* A finish stores the score of the counters it read.
LEMMA WrittenNet ==
    ASSUME TypeInv, NEW r \in Requests, req[r].op = "finish", buf[r].session
    PROVE  /\ WrittenSession(r).net = Net(mem[r])
           /\ WrittenSession(r).status = "completed"
<1> DEFINE s == session[req[r].session]
<1>1. WrittenSession(r) = [s EXCEPT !.status = "completed", !.net = Net(mem[r])]
  BY DEF WrittenSession
<1>2. s \in SessionType
  BY HandlerTyped
<1> HIDE DEF s
<1>3. \A x, y : /\ [s EXCEPT !.status = x, !.net = y].net = y
                /\ [s EXCEPT !.status = x, !.net = y].status = x
  BY <1>2 DEF SessionType
<1> QED
  BY <1>1, <1>3

LEMMA StoredExactCommit ==
    ASSUME TypeInv, HistoryInv, CountsInv, SessionInv, ExactInv,
           NEW r \in Requests, Commit(r), NEW s \in Sessions
    PROVE  StoredExact(s)'
<1>1. /\ PendingHistory(r) /\ PendingExact(r) /\ StoredExact(s) /\ SessionOf(r)
      /\ IsFiniteSet(responses)
  BY DEF HistoryInv, ExactInv, SessionInv, CountsInv
<1>2. /\ pc[r] = "commit" /\ Active(r) /\ req' = req
      /\ session'[req[r].session] = WrittenSession(r)
      /\ s # req[r].session => session'[s] = session[s]
      /\ responses' = responses \cup buf[r].responses
      /\ req[r].op \in {"start", "answer", "finish"}
  BY CommitFrame, CommitEffect
<1>3. CASE s # req[r].session
  <2>1. ResponsesOf(s)' = ResponsesOf(s)
    BY <1>1, <1>2, <1>3 DEF ResponsesOf, PendingHistory
  <2> QED
    BY <1>1, <1>2, <1>3, <2>1, StoredExactStay
<1>4. CASE s = req[r].session /\ req[r].op = "start"
  <2>1. ResponsesOf(s)' = ResponsesOf(s)
    BY <1>2, <1>4, NothingPending DEF ResponsesOf
  <2>2. session[s].status = "none"
    BY <1>1, <1>2, <1>4 DEF SessionOf
  <2>3. /\ 0 = Cardinality(ResponsesOf(s)) /\ 0 = Cardinality(Correct(ResponsesOf(s)))
        /\ 0 = Cardinality(Skipped(ResponsesOf(s)))
    BY <1>1, <2>2 DEF StoredExact, Exactly
  <2>4. /\ session'[s].delivered = 0 /\ session'[s].correct = 0
        /\ session'[s].skipped = 0 /\ session'[s].status = "in_progress"
    BY <1>2, <1>4, WrittenCounts, WrittenStatus
  <2>5. Exactly(session[s], ResponsesOf(s))'
    BY <2>1, <2>3, <2>4 DEF Exactly, Correct, Skipped
  <2> QED
    BY <2>4, <2>5 DEF StoredExact
<1>5. CASE s = req[r].session /\ req[r].op = "answer"
  <2>1. /\ session[s].status = "in_progress" /\ buf[r].session
        /\ Exactly(mem[r], SeenResponses(r, s))
    BY <1>1, <1>2, <1>5 DEF PendingExact, AfterSession
  <2>2. CountedAnswers(r) = buf[r].responses
    BY <1>2, PendingPlaces DEF CountedAnswers, CountedUpTo
  <2>3. ResponsesOf(s)' = SeenResponses(r, s)
    BY <1>1, <1>2, <1>5, <2>2 DEF ResponsesOf, SeenResponses, PendingHistory
  <2>4. /\ session'[s].delivered = mem[r].delivered
        /\ session'[s].correct = mem[r].correct
        /\ session'[s].skipped = mem[r].skipped
        /\ session'[s].status = "in_progress"
    BY <1>2, <1>5, <2>1, WrittenCounts, WrittenStatus
  <2>5. Exactly(session[s], ResponsesOf(s))'
    BY <2>1, <2>3, <2>4 DEF Exactly, Correct, Skipped
  <2> QED
    BY <2>4, <2>5 DEF StoredExact
<1>6. CASE s = req[r].session /\ req[r].op = "finish"
  <2>1. buf[r].session /\ Exactly(mem[r], SeenResponses(r, s))
    BY <1>1, <1>2, <1>6 DEF PendingExact, AfterSession
  <2>2. buf[r].responses = {} /\ CountedAnswers(r) = {}
    BY <1>6, NothingPending
  <2>3. ResponsesOf(s)' = ResponsesOf(s) /\ SeenResponses(r, s) = ResponsesOf(s)
    BY <1>2, <2>2 DEF ResponsesOf, SeenResponses
  <2>4. Exactly(session[s], ResponsesOf(s))
    BY <1>1 DEF StoredExact
  <2>5. /\ session'[s].delivered = session[s].delivered
        /\ session'[s].correct = session[s].correct
        /\ session'[s].skipped = session[s].skipped
        /\ session'[s].net = Net(mem[r]) /\ session'[s].status = "completed"
    BY <1>2, <1>6, <2>1, WrittenCounts, WrittenNet
  <2>6. Exactly(session[s], ResponsesOf(s))'
    BY <2>3, <2>4, <2>5 DEF Exactly, Correct, Skipped
  <2>7. /\ session'[s].delivered = mem[r].delivered
        /\ session'[s].correct = mem[r].correct
        /\ session'[s].skipped = mem[r].skipped
    BY <2>1, <2>3, <2>4, <2>5 DEF Exactly
  <2>8. Net(session[s])' = Net(mem[r])
    BY <2>7 DEF Net
  <2> QED
    BY <2>5, <2>6, <2>8 DEF StoredExact
<1> QED
  BY <1>2, <1>3, <1>4, <1>5, <1>6

LEMMA InitExactInv == Init => ExactInv
<1> SUFFICES ASSUME Init PROVE ExactInv
  OBVIOUS
<1>1. /\ responses = {}
      /\ \A s \in Sessions : /\ session[s].delivered = 0
                              /\ session[s].correct = 0 /\ session[s].skipped = 0
                              /\ session[s].status = "none"
      /\ \A r \in Requests : ~Active(r)
  BY DEF Init, Active, Statements
<1>2. Cardinality({}) = 0
  BY FS_EmptySet
<1>3. \A s : ResponsesOf(s) = {} /\ Correct({}) = {} /\ Skipped({}) = {}
  BY <1>1 DEF ResponsesOf, Correct, Skipped
<1>4. \A s \in Sessions : StoredExact(s)
  BY <1>1, <1>2, <1>3 DEF StoredExact, Exactly
<1> QED
  BY <1>1, <1>4 DEF ExactInv, Apart, PendingExact

LEMMA NextExactInv ==
    ASSUME Exclusive \in {"session", "all"}
    PROVE  TypeInv /\ TypeInv' /\ HistoryInv /\ HistoryInv' /\ CountsInv
           /\ SessionInv /\ ExactInv /\ [Next]_vars => ExactInv'
<1> SUFFICES ASSUME TypeInv, TypeInv', HistoryInv, HistoryInv', CountsInv,
                    SessionInv, ExactInv, [Next]_vars
             PROVE  ExactInv'
  OBVIOUS
<1>1. Apart'
  BY ApartNext DEF ExactInv
<1>2. ASSUME session' = session, responses' = responses
      PROVE  \A s \in Sessions : /\ StoredExact(s)'
                                 /\ session'[s] = session[s]
                                 /\ ResponsesOf(s)' = ResponsesOf(s)
  <2>1. \A s \in Sessions : ResponsesOf(s)' = ResponsesOf(s)
    BY <1>2 DEF ResponsesOf
  <2> QED
    BY <1>2, <2>1, StoredExactStay DEF ExactInv
<1>3. ASSUME NEW r \in Requests, Arrive(r) \/ Step(r) \/ Crash(r)
      PROVE  /\ \A s \in Sessions : StoredExact(s)'
             /\ \A q \in Requests : PendingExact(q)'
  <2>1. CASE Quiet(r) \/ Respond(r) \/ WriteCard(r)
    <3>1. session' = session /\ responses' = responses
      BY <2>1, TablesStay DEF tables
    <3>2. ASSUME NEW q \in Requests PROVE PendingExact(q)'
      <4>1. CASE q = r
        BY <2>1, <4>1, PendingExactNext
      <4>2. CASE q # r
        BY <1>2, <1>3, <3>1, <4>2, OthersStay, PendingExactStay DEF ExactInv
      <4> QED
        BY <4>1, <4>2
    <3> QED
      BY <1>2, <3>1, <3>2
  <2>2. CASE Commit(r)
    <3>1. ASSUME NEW q \in Requests, q # r PROVE PendingExact(q)'
      <4>1. PendingExact(q) /\ Active(r) /\ PendingHistory(r)
        BY <2>2, CommitFrame DEF ExactInv, HistoryInv
      <4>2. ASSUME Active(q), NEW s \in Sessions, s = req[q].session
            PROVE  session'[s] = session[s] /\ ResponsesOf(s)' = ResponsesOf(s)
        <5>1. s # req[r].session
          BY <3>1, <4>1, <4>2 DEF ExactInv, Apart
        <5> QED
          BY <2>2, <4>1, <5>1, CommitFrame, CommitEffect
             DEF ResponsesOf, PendingHistory
      <4> QED
        BY <1>3, <3>1, <4>1, <4>2, OthersStay, PendingExactStay
    <3>2. PendingExact(r)'
      BY <2>2, CommitEffect DEF PendingExact
    <3> QED
      BY <2>2, <3>1, <3>2, StoredExactCommit
  <2>3. ASSUME NEW l \in Ended, Rollback(r, l)
        PROVE  /\ \A s \in Sessions : StoredExact(s)'
               /\ \A q \in Requests : PendingExact(q)'
    <3>1. session' = session /\ responses' = responses
      BY <2>3, RollbackEffect DEF tables
    <3>2. ASSUME NEW q \in Requests PROVE PendingExact(q)'
      <4>1. CASE q = r
        BY <2>3, <4>1, RollbackEffect DEF PendingExact
      <4>2. CASE q # r
        BY <1>2, <1>3, <3>1, <4>2, OthersStay, PendingExactStay DEF ExactInv
      <4> QED
        BY <4>1, <4>2
    <3> QED
      BY <1>2, <3>1, <3>2
  <2> QED
    BY <1>3, <2>1, <2>2, <2>3, StepKinds
<1>4. CASE UNCHANGED <<tables, req, pc, mem, buf>>
  <2>1. session' = session /\ responses' = responses
    BY <1>4 DEF tables
  <2>2. \A q \in Requests : PendingExact(q)'
    BY <1>2, <1>4, <2>1, PendingExactStay DEF ExactInv
  <2> QED
    BY <1>1, <1>2, <2>1, <2>2 DEF ExactInv
<1>5. ASSUME NEW i \in Editable, NewVersion(i) \/ SoftDelete(i) \/ Retag(i)
      PROVE  ExactInv'
  BY <1>4, <1>5, AuthorFrame
<1> QED
  BY <1>1, <1>3, <1>4, <1>5 DEF Next, vars, ExactInv

\* Where every client waits for the reply to a session's request before it
\* sends the next one of that session, the counters of a session are its
\* responses, not one less, and the score finish_session stored is theirs,
\* with any number of sessions of the learner at work.
THEOREM SessionsExact ==
    ASSUME Exclusive \in {"session", "all"}
    PROVE  Spec => []SessionExact
<1>1. ExactInv => SessionExact
  BY DEF ExactInv, StoredExact, Exactly, SessionExact
<1>2. TypeInv /\ TypeInv' /\ HistoryInv /\ HistoryInv' /\ CountsInv
      /\ SessionInv /\ ExactInv /\ [Next]_vars => ExactInv'
  BY NextExactInv
<1> QED
  BY <1>1, <1>2, InitTypeInv, NextTypeInv, InitHistoryInv, NextHistoryInv,
     InitCountsInv, NextCountsInv, InitSessionInv, NextSessionInv, InitExactInv,
     PTL DEF Spec

-----------------------------------------------------------------------------
(* Clients that send one request at a time.  With nobody else at work a      *)
(* transaction reads what it will replace, so cards and abilities are exact, *)
(* too: after each commit, and in between as far as the answer has come.     *)

Alone == \A r, q \in Requests : Active(r) /\ Active(q) => r = q

\* The card of an item as r sees it counts the logs r sees.
CardExact(r) ==
    Active(r) => \A i \in Items :
        /\ Overlay(buf[r].card[i], card[i]) = Cardinality(SeenLogs(r, i))
        /\ pc[r] = "card_write" /\ i = Answer(r).item =>
               mem[r].snap = Cardinality(SeenLogs(r, i))

CardsExactInv ==
    /\ Alone
    /\ \A i \in Items : card[i] = Cardinality(LogsOf(i))
    /\ \A r \in Requests : CardExact(r)

\* A response says the topic its item has, as long as no author moves one.
Linked == (Grading \ {"item"}) \cup {"global", "topic", "topic_insert"}

TopicsFixed ==
    /\ \A y \in responses : y.topic = topicOf[y.item]
    /\ \A r \in Requests :
           /\ \A y \in buf[r].responses : y.topic = topicOf[y.item]
           /\ pc[r] \in Linked /\ req[r].op = "answer" =>
                  mem[r].topic = topicOf[Answer(r).item]

\* The graded answers of set that an ability of scope t is computed from.
GradedIn(set, t) ==
    {y.id : y \in {z \in set : z.kind # "skip" /\ (t # NoTopic => z.topic = t)}}

HasRow(rows, t) == \E x \in rows : x.scope = t

OnePerScope(rows) == \A x, y \in rows : x.scope = y.scope => x = y

Covered(set, rows) ==
    \A y \in set : y.kind # "skip" => HasRow(rows, NoTopic) /\ HasRow(rows, y.topic)

\* The statements at which the current answer is not in the ability of t yet.
Ahead(t) ==
    {"card_write", "global_row", "global_points", "global_update"}
        \cup (IF t = NoTopic THEN {} ELSE {"topic_points", "topic_update"})

AllSeen(r) == responses \cup buf[r].responses

Absorbed(r, t) ==
    {z \in AllSeen(r) : ~(pc[r] \in Ahead(t) /\ z.id = <<r, mem[r].k>>)}

\* The scope whose row a handler has read to write it.
RowScope(r) == IF pc[r] = "topic_update" THEN mem[r].topic ELSE NoTopic

ThetaExact(r) ==
    Active(r) =>
        /\ OnePerScope(SeenThetas(r))
        /\ \A x \in SeenThetas(r) : x.used = GradedIn(Absorbed(r, x.scope), x.scope)
        /\ Covered(AllSeen(r), SeenThetas(r))
        /\ pc[r] \in Linked \ {"global"} /\ req[r].op = "answer" =>
               HasRow(SeenThetas(r), NoTopic)
        /\ pc[r] \in Grading \ {"item"} => HasRow(SeenThetas(r), mem[r].topic)
        /\ pc[r] \in {"global_points", "global_update", "topic_update"} =>
               \E x \in SeenThetas(r) : x.scope = RowScope(r) /\ x.by = mem[r].row
        /\ pc[r] \in {"global_update", "topic_update"} =>
               mem[r].points = GradedIn(AllSeen(r), RowScope(r))

ThetasExactInv ==
    /\ Alone /\ TopicsFixed
    /\ OnePerScope(theta) /\ Covered(responses, theta)
    /\ \A x \in theta : x.used = GradedIn(responses, x.scope)
    /\ \A r \in Requests : ThetaExact(r)

LEMMA AloneNext ==
    ASSUME Exclusive = "all", TypeInv, Alone, [Next]_vars
    PROVE  Alone'
<1>1. ASSUME NEW r \in Requests, Arrive(r) PROVE \A q \in Requests : ~Active(q)
  <2>1. PICK m \in Menu : MayArrive(m)
    BY <1>1 DEF Arrive
  <2> QED
    BY <2>1 DEF MayArrive, Conflicting
<1>2. ASSUME NEW r \in Requests, NEW q \in Requests, Arrive(r), Arrive(q)
      PROVE  r = q
  <2>1. CASE r # q
    BY <1>2, <2>1, OthersStay, ControlFlow
  <2> QED
    BY <2>1
<1> QED
  BY <1>1, <1>2, Arrivals DEF Alone

-----------------------------------------------------------------------------
(* Cards of a client that waits. *)

LEMMA CardExactStay ==
    ASSUME NEW q \in Requests, CardExact(q), card' = card, reviewLog' = reviewLog,
           buf'[q].card = buf[q].card, buf'[q].log = buf[q].log,
           Active(q)' => Active(q),
           pc'[q] = "card_write" =>
               pc[q] = "card_write" /\ mem'[q] = mem[q] /\ req'[q] = req[q]
    PROVE  CardExact(q)'
<1>1. \A i : SeenLogs(q, i)' = SeenLogs(q, i)
  BY DEF SeenLogs, LogsOf, PendingLogs
<1>2. pc'[q] = "card_write" => Answer(q)' = Answer(q)
  BY DEF Answer
<1> QED
  BY <1>1, <1>2 DEF CardExact, Overlay

LEMMA CardExactArrive ==
    ASSUME TypeInv, OrderInv, CardsExactInv, NEW r \in Requests, Arrive(r)
    PROVE  CardExact(r)'
<1>1. /\ card' = card /\ reviewLog' = reviewLog /\ pc'[r] # "card_write"
      /\ pc[r] = "idle" /\ buf' = buf
  BY TablesStay, ControlFlow DEF Quiet, Arrive, tables
<1>2. buf'[r].log = {} /\ \A i \in Items : buf'[r].card[i] = 0
  BY <1>1, FreshRows DEF OrderInv
<1>3. \A i \in Items : SeenLogs(r, i)' = LogsOf(i)
  BY <1>1, <1>2 DEF SeenLogs, LogsOf, PendingLogs
<1> QED
  BY <1>1, <1>2, <1>3 DEF CardExact, Overlay, CardsExactInv

LEMMA CardExactRespond ==
    ASSUME TypeInv, CardsExactInv, NEW r \in Requests, Respond(r)
    PROVE  CardExact(r)'
<1>1. /\ card' = card /\ reviewLog' = reviewLog
      /\ buf'[r].card = buf[r].card /\ buf'[r].log = buf[r].log
  BY TablesStay, BufFrame DEF tables, WriteCard, Respond
<1>2. \A i : SeenLogs(r, i)' = SeenLogs(r, i)
  BY <1>1 DEF SeenLogs, LogsOf, PendingLogs
<1>3. /\ Active(r) /\ Answer(r)' = Answer(r)
      /\ pc'[r] = "card_write" =>
             mem'[r].snap = Overlay(buf[r].card[Answer(r).item],
                                    card[Answer(r).item])
  BY RespondEffect, ControlFlow
<1>4. \A i \in Items : Overlay(buf[r].card[i], card[i]) = Cardinality(SeenLogs(r, i))
  BY <1>3 DEF CardsExactInv, CardExact
<1> QED
  BY <1>1, <1>2, <1>3, <1>4 DEF CardExact, Overlay

LEMMA CardExactWrite ==
    ASSUME TypeInv, HistoryInv, RepsInv, CardsExactInv, NEW r \in Requests,
           WriteCard(r)
    PROVE  CardExact(r)'
<1>1. PICK i \in Items : i = Answer(r).item
  BY WriteCardEffect
<1>2. /\ reviewLog' = reviewLog /\ card' = card /\ Active(r)
      /\ pc[r] = "card_write" /\ pc'[r] = "global_row"
  BY TablesStay, ControlFlow, WriteCardEffect DEF tables
<1>3. PICK l \in LogType : /\ l.id = <<r, mem[r].k>> /\ l.item = i
                           /\ buf'[r].log = buf[r].log \cup {l}
  BY <1>1, WriteCardEffect
<1>4. buf'[r].card = [buf[r].card EXCEPT ![i] = mem[r].snap + 1]
  BY <1>1, WriteCardEffect
<1>5. /\ mem[r].snap = Cardinality(SeenLogs(r, i)) /\ PendingReps(r)
      /\ buf[r].card \in [Items -> Nat] /\ IsFiniteSet(reviewLog)
  BY <1>1, <1>2, HandlerTyped DEF CardsExactInv, CardExact, BufType, RepsInv
<1>6. l \notin SeenLogs(r, i)
  <2>1. l \notin buf[r].log
    BY <1>2, <1>3, <1>5 DEF PendingReps
  <2>2. \A x \in reviewLog : x.id[1] # r
    BY <1>2 DEF HistoryInv, AllOrNothing, Whole, LoggedBy
  <2> QED
    BY <1>3, <2>1, <2>2 DEF SeenLogs, LogsOf, PendingLogs
<1>7. /\ SeenLogs(r, i)' = SeenLogs(r, i) \cup {l}
      /\ \A j : j # i => SeenLogs(r, j)' = SeenLogs(r, j)
  BY <1>2, <1>3 DEF SeenLogs, LogsOf, PendingLogs
<1>8. /\ Cardinality(SeenLogs(r, i)') = Cardinality(SeenLogs(r, i)) + 1
      /\ Cardinality(SeenLogs(r, i)) \in Nat
  <2>1. IsFiniteSet(SeenLogs(r, i))
    BY <1>5, LogsFinite DEF PendingReps
  <2> QED
    BY <1>6, <1>7, <2>1, CardAdds
<1>9. ASSUME NEW j \in Items
      PROVE  Overlay(buf'[r].card[j], card'[j]) = Cardinality(SeenLogs(r, j)')
  <2>1. CASE j = i
    <3>1. buf'[r].card[j] = Cardinality(SeenLogs(r, i)) + 1
      BY <1>4, <1>5, <2>1
    <3> QED
      BY <1>8, <2>1, <3>1 DEF Overlay
  <2>2. CASE j # i
    <3>1. buf'[r].card[j] = buf[r].card[j]
      BY <1>4, <1>5, <2>2
    <3> QED
      BY <1>2, <1>7, <2>2, <3>1 DEF CardsExactInv, CardExact
  <2> QED
    BY <2>1, <2>2
<1>10. \A j \in Items : Overlay(buf[r].card[j], card[j])' =
                           Overlay(buf'[r].card[j], card'[j])
  BY DEF Overlay
<1> QED
  BY <1>2, <1>9, <1>10 DEF CardExact

LEMMA InitCardsExactInv == Init => CardsExactInv
<1> SUFFICES ASSUME Init PROVE CardsExactInv
  OBVIOUS
<1>1. /\ reviewLog = {} /\ \A i \in Items : card[i] = 0
      /\ \A r \in Requests : ~Active(r)
  BY DEF Init, Active, Statements
<1>2. \A i \in Items : card[i] = Cardinality(LogsOf(i))
  BY <1>1, FS_EmptySet DEF LogsOf
<1> QED
  BY <1>1, <1>2 DEF CardsExactInv, CardExact, Alone

LEMMA NextCardsExactInv ==
    ASSUME Exclusive = "all"
    PROVE  TypeInv /\ HistoryInv /\ RepsInv /\ OrderInv /\ CardsExactInv
           /\ [Next]_vars => CardsExactInv'
<1> SUFFICES ASSUME TypeInv, HistoryInv, RepsInv, OrderInv, CardsExactInv,
                    [Next]_vars
             PROVE  CardsExactInv'
  OBVIOUS
<1>1. Alone'
  BY AloneNext DEF CardsExactInv
<1>2. ASSUME card' = card, reviewLog' = reviewLog
      PROVE  \A i \in Items : card'[i] = Cardinality(LogsOf(i)')
  BY <1>2 DEF CardsExactInv, LogsOf
<1>3. ASSUME NEW r \in Requests, Arrive(r) \/ Step(r) \/ Crash(r)
      PROVE  /\ \A i \in Items : card'[i] = Cardinality(LogsOf(i)')
             /\ \A q \in Requests : CardExact(q)'
  <2>1. CASE Quiet(r) \/ Respond(r) \/ WriteCard(r)
    <3>1. card' = card /\ reviewLog' = reviewLog
      BY <2>1, TablesStay DEF tables
    <3>2. ASSUME NEW q \in Requests, q # r PROVE CardExact(q)'
      BY <1>3, <3>1, <3>2, OthersStay, CardExactStay DEF CardsExactInv, Active
    <3>3. CardExact(r)'
      <4>1. CASE Quiet(r) /\ ~Arrive(r)
        BY <3>1, <4>1, QuietWritten, QuietFrame, CardExactStay DEF CardsExactInv
      <4> QED
        BY <2>1, <4>1, CardExactArrive, CardExactRespond, CardExactWrite
    <3> QED
      BY <1>2, <3>1, <3>2, <3>3
  <2>2. CASE Commit(r)
    <3>1. \A q \in Requests : ~Active(q)'
      BY <2>2, CommitEffect DEF CardsExactInv, Alone, Active
    <3>2. ASSUME NEW i \in Items PROVE card'[i] = Cardinality(LogsOf(i)')
      <4>1. LogsOf(i)' = SeenLogs(r, i)
        BY <2>2, CommitEffect DEF LogsOf, SeenLogs, PendingLogs
      <4>2. card'[i] = Overlay(buf[r].card[i], card[i])
        BY <2>2, CommitEffect DEF Overlay
      <4> QED
        BY <2>2, <4>1, <4>2, CommitEffect DEF CardsExactInv, CardExact
    <3> QED
      BY <3>1, <3>2 DEF CardExact
  <2>3. ASSUME NEW l \in Ended, Rollback(r, l)
        PROVE  /\ \A i \in Items : card'[i] = Cardinality(LogsOf(i)')
               /\ \A q \in Requests : CardExact(q)'
    <3>1. card' = card /\ reviewLog' = reviewLog /\ ~Active(r)'
      BY <2>3, RollbackEffect DEF tables
    <3>2. ASSUME NEW q \in Requests, q # r PROVE CardExact(q)'
      BY <1>3, <3>1, <3>2, OthersStay, CardExactStay DEF CardsExactInv, Active
    <3> QED
      BY <1>2, <3>1, <3>2 DEF CardExact
  <2> QED
    BY <1>3, <2>1, <2>2, <2>3, StepKinds
<1>4. CASE UNCHANGED <<tables, req, pc, mem, buf>>
  <2>1. card' = card /\ reviewLog' = reviewLog
    BY <1>4 DEF tables
  <2>2. \A q \in Requests : CardExact(q)'
    BY <1>4, <2>1, CardExactStay DEF CardsExactInv, Active
  <2> QED
    BY <1>1, <1>2, <2>1, <2>2 DEF CardsExactInv
<1>5. ASSUME NEW i \in Editable, NewVersion(i) \/ SoftDelete(i) \/ Retag(i)
      PROVE  CardsExactInv'
  BY <1>4, <1>5, AuthorFrame
<1> QED
  BY <1>1, <1>3, <1>4, <1>5 DEF Next, vars, CardsExactInv

-----------------------------------------------------------------------------
(* Abilities of a client that waits. *)

\* Where the handler is says how far the current answer has come.
LEMMA TopicsFixedMoved ==
    ASSUME TypeInv, TopicsFixed, NEW r \in Requests,
           Arrive(r) \/ Step(r) \/ Crash(r), Quiet(r) \/ Respond(r) \/ WriteCard(r)
    PROVE  TopicsFixed'
<1>1. /\ topicOf' = topicOf /\ responses' = responses
      /\ ~Arrive(r) => req' = req
  BY TablesStay DEF tables, bank
<1>2. \A q \in Requests : q # r => /\ pc'[q] = pc[q] /\ mem'[q] = mem[q]
                                   /\ req'[q] = req[q] /\ buf'[q] = buf[q]
  BY OthersStay
<1>3. \A y \in buf'[r].responses : y.topic = topicOf[y.item]
  <2>1. CASE Respond(r)
    <3>1. /\ pc[r] = "respond" /\ req[r].op = "answer"
          /\ buf'[r].responses = buf[r].responses \cup
                {[id |-> <<r, mem[r].k>>, session |-> req[r].session,
                  item |-> Answer(r).item, topic |-> mem[r].topic,
                  kind |-> Answer(r).kind]}
      BY <2>1, RespondEffect, ControlFlow
    <3>2. mem[r].topic = topicOf[Answer(r).item]
      BY <3>1 DEF TopicsFixed, Linked, Grading
    <3> QED
      BY <3>1, <3>2 DEF TopicsFixed
  <2>2. CASE ~Respond(r)
    BY <2>2, BufFrame DEF TopicsFixed
  <2> QED
    BY <2>1, <2>2
<1>4. ASSUME pc'[r] \in Linked, req'[r].op = "answer"
      PROVE  mem'[r].topic = topicOf[Answer(r)'.item]
  <2>1. ~Arrive(r)
    <3>1. ASSUME Arrive(r) PROVE pc'[r] = "load"
      BY <1>4, <3>1 DEF Arrive, Goto, TypeInv, TypeOK
    <3> QED
      BY <1>4, <3>1 DEF Linked, Grading
  <2>2. /\ ~MasteryWrite(r) /\ (Counters(r) => pc'[r] = "mastery_read")
        /\ ~Load(r) /\ ~Close(r)
    BY <1>4, ControlFlow DEF Linked, Grading
  <2>3. Answer(r)' = Answer(r) /\ req[r].op = "answer"
    BY <1>1, <1>4, <2>1, <2>2, AnswerStays
  <2>4. CASE LoadItem(r)
    <3>1. mem'[r] = [mem[r] EXCEPT !.topic = topicOf[Answer(r).item]]
      BY <2>4 DEF LoadItem, TypeInv, TypeOK
    <3>2. mem'[r].topic = topicOf[Answer(r).item]
      BY <3>1, HandlerTyped DEF MemType
    <3> QED
      BY <2>3, <3>2
  <2>5. CASE ~LoadItem(r)
    <3>1. mem'[r].topic = mem[r].topic
      BY <2>1, <2>2, <2>5, MemFrame, CountersEffect
    <3>2. pc[r] \in Linked
      BY <2>1, <2>2, <2>5, ControlFlow DEF Quiet, Linked, Grading
    <3> QED
      BY <2>3, <3>1, <3>2 DEF TopicsFixed
  <2> QED
    BY <2>4, <2>5
<1>5. ASSUME NEW q \in Requests
      PROVE  /\ \A y \in buf'[q].responses : y.topic = topicOf'[y.item]
             /\ pc'[q] \in Linked /\ req'[q].op = "answer" =>
                    mem'[q].topic = topicOf'[Answer(q)'.item]
  <2>1. CASE q = r
    BY <1>1, <1>3, <1>4, <2>1
  <2>2. CASE q # r
    <3>1. Answer(q)' = Answer(q)
      BY <1>2, <2>2 DEF Answer
    <3> QED
      BY <1>1, <1>2, <2>2, <3>1 DEF TopicsFixed
  <2> QED
    BY <2>1, <2>2
<1> QED
  BY <1>1, <1>5 DEF TopicsFixed

LEMMA ThetaExactStay ==
    ASSUME NEW q \in Requests, ThetaExact(q), theta' = theta,
           responses' = responses, pc'[q] = pc[q], mem'[q] = mem[q],
           req'[q] = req[q], buf'[q] = buf[q]
    PROVE  ThetaExact(q)'
<1>1. SeenThetas(q)' = SeenThetas(q) /\ AllSeen(q)' = AllSeen(q)
  BY DEF SeenThetas, AllSeen
<1>2. \A t : Absorbed(q, t)' = Absorbed(q, t)
  BY <1>1 DEF Absorbed, Ahead
<1>3. RowScope(q)' = RowScope(q) /\ (Active(q)' <=> Active(q))
  BY DEF RowScope, Active
<1> QED
  BY <1>1, <1>2, <1>3 DEF ThetaExact

\* The current answer is not in the ledger yet, and its response is of the
\* handler's topic.
LEMMA CurrentOnly ==
    ASSUME TypeInv, HistoryInv, MasteryInv, NEW r \in Requests, Active(r),
           NEW z \in AllSeen(r), z.id = <<r, mem[r].k>>
    PROVE  /\ z \in buf[r].responses
           /\ pc[r] \in Responded \ {"commit"} => z.topic = mem[r].topic
<1>1. z \in buf[r].responses
  <2>1. pc[r] # "ok"
    BY DEF Active, Statements
  <2>2. \A x \in responses : x.id[1] # r
    BY <2>1 DEF HistoryInv, AllOrNothing, Whole, Kept
  <2>3. z.id[1] = r
    OBVIOUS
  <2> QED
    BY <2>2, <2>3 DEF AllSeen
<1>2. z.id[2] = mem[r].k
  OBVIOUS
<1> QED
  BY <1>1, <1>2 DEF MasteryInv, CurrentTopic

\* An ability of another topic has nothing to wait for.
LEMMA OtherScope ==
    ASSUME TypeInv, HistoryInv, MasteryInv, NEW r \in Requests, Active(r),
           pc[r] \in Responded \ {"commit"}, NEW t, t # NoTopic,
           t # mem[r].topic
    PROVE  GradedIn(Absorbed(r, t), t) = GradedIn(AllSeen(r), t)
<1>1. \A z \in AllSeen(r) : z.id = <<r, mem[r].k>> => z.topic # t
  BY CurrentOnly
<1> QED
  BY <1>1 DEF GradedIn, Absorbed

LEMMA PointsExact ==
    ASSUME TopicsFixed, NEW r \in Requests, NEW t
    PROVE  Points(r, t) = GradedIn(AllSeen(r), t)
<1>1. \A y \in AllSeen(r) : y.topic = topicOf[y.item]
  BY DEF TopicsFixed, AllSeen
<1> QED
  BY <1>1 DEF Points, GradedIn, AllSeen

\* Where the current answer stands does not change.
LEMMA AbsorbedStay ==
    ASSUME NEW r, NEW t, AllSeen(r)' = AllSeen(r),
           pc'[r] \in Ahead(t) <=> pc[r] \in Ahead(t),
           pc'[r] \in Ahead(t) => mem'[r].k = mem[r].k
    PROVE  Absorbed(r, t)' = Absorbed(r, t)
<1>1. Ahead(t)' = Ahead(t)
  BY DEF Ahead
<1> QED
  BY <1>1 DEF Absorbed

LEMMA NotAhead ==
    ASSUME NEW r, NEW t, pc[r] \notin Ahead(t)
    PROVE  Absorbed(r, t) = AllSeen(r)
BY DEF Absorbed

\* Steps that write neither an ability nor a response.
Reading(r) ==
    \/ Load(r) \/ LoadItem(r) \/ TopicTheta(r) \/ WriteCard(r) \/ GlobalRow(r)
    \/ GlobalPoints(r) \/ TopicPoints(r) \/ Counters(r) \/ MasteryRead(r)
    \/ MasteryWrite(r) \/ Close(r) \/ (GlobalTheta(r) /\ buf' = buf)

LEMMA ReadingStays ==
    ASSUME TypeInv, NEW r \in Requests, Reading(r)
    PROVE  /\ SeenThetas(r)' = SeenThetas(r) /\ AllSeen(r)' = AllSeen(r)
           /\ \A t : Absorbed(r, t)' = Absorbed(r, t)
           /\ req' = req /\ Active(r)
<1>1. Quiet(r) \/ WriteCard(r)
  BY DEF Reading, Quiet
<1>2. /\ ~Respond(r) /\ ~Arrive(r) /\ ~InsertTopicTheta(r) /\ ~GlobalUpdate(r)
      /\ ~TopicUpdate(r)
  BY ControlFlow DEF Reading
<1>3. theta' = theta /\ responses' = responses /\ req' = req
  BY <1>1, <1>2, TablesStay DEF tables
<1>4. buf'[r].theta = buf[r].theta /\ buf'[r].responses = buf[r].responses
  <2>1. CASE GlobalTheta(r) /\ buf' = buf
    BY <2>1
  <2>2. CASE ~GlobalTheta(r)
    BY <1>1, <1>2, <2>2, BufFrame
  <2>3. GlobalTheta(r) => buf' = buf
    BY ControlFlow DEF Reading
  <2> QED
    BY <2>1, <2>2, <2>3
<1>5. SeenThetas(r)' = SeenThetas(r) /\ AllSeen(r)' = AllSeen(r)
  BY <1>3, <1>4 DEF SeenThetas, AllSeen
<1>6. ASSUME NEW t PROVE Absorbed(r, t)' = Absorbed(r, t)
  <2>1. CASE WriteCard(r) \/ GlobalRow(r) \/ GlobalPoints(r) \/ TopicPoints(r)
    <3>1. mem'[r].k = mem[r].k
      BY <1>1, <2>1, ControlFlow, MemFrame
    <3>2. pc'[r] \in Ahead(t) <=> pc[r] \in Ahead(t)
      BY <2>1, ControlFlow DEF Ahead
    <3> QED
      BY <1>5, <3>1, <3>2, AbsorbedStay
  <2>2. CASE ~(WriteCard(r) \/ GlobalRow(r) \/ GlobalPoints(r) \/ TopicPoints(r))
    <3>1. pc'[r] \notin Ahead(t) /\ pc[r] \notin Ahead(t)
      BY <2>2, ControlFlow DEF Ahead, Reading
    <3> QED
      BY <1>5, <3>1, AbsorbedStay
  <2> QED
    BY <2>1, <2>2
<1>7. Active(r)
  BY ControlFlow DEF Reading, Active, Statements
<1> QED
  BY <1>3, <1>5, <1>6, <1>7

LEMMA PointsFacts ==
    ASSUME TypeInv, NEW r \in Requests
    PROVE  /\ GlobalRow(r) => \E x \in SeenThetas(r) :
                  x.scope = NoTopic /\ mem'[r].row = x.by
           /\ GlobalPoints(r) => /\ mem'[r].points = Points(r, NoTopic)
                                 /\ mem'[r].row = mem[r].row
           /\ TopicPoints(r) => \E x \in SeenThetas(r) :
                  /\ x.scope = mem[r].topic /\ mem'[r].row = x.by
                  /\ mem'[r].points = Points(r, mem[r].topic)
                  /\ mem'[r].topic = mem[r].topic
<1>1. mem[r] \in MemType
  BY HandlerTyped
<1>2. ASSUME GlobalRow(r)
      PROVE  \E x \in SeenThetas(r) : x.scope = NoTopic /\ mem'[r].row = x.by
  <2>1. PICK x \in ThetaRows(r, NoTopic) :
            mem' = [mem EXCEPT ![r] = [mem[r] EXCEPT !.row = x.by]]
    BY <1>2 DEF GlobalRow
  <2>2. mem'[r] = [mem[r] EXCEPT !.row = x.by]
    BY <2>1 DEF TypeInv, TypeOK
  <2>3. mem'[r].row = x.by
    BY <1>1, <2>2 DEF MemType
  <2> QED
    BY <2>1, <2>3 DEF ThetaRows
<1>3. ASSUME GlobalPoints(r)
      PROVE  mem'[r].points = Points(r, NoTopic) /\ mem'[r].row = mem[r].row
  <2>1. mem'[r] = [mem[r] EXCEPT !.points = Points(r, NoTopic)]
    BY <1>3 DEF GlobalPoints, TypeInv, TypeOK
  <2> QED
    BY <1>1, <2>1 DEF MemType
<1>4. ASSUME TopicPoints(r)
      PROVE  \E x \in SeenThetas(r) :
                 /\ x.scope = mem[r].topic /\ mem'[r].row = x.by
                 /\ mem'[r].points = Points(r, mem[r].topic)
                 /\ mem'[r].topic = mem[r].topic
  <2>1. PICK x \in ThetaRows(r, mem[r].topic) :
            mem' = [mem EXCEPT ![r] = [mem[r] EXCEPT !.row = x.by,
                                       !.points = Points(r, mem[r].topic)]]
    BY <1>4 DEF TopicPoints
  <2>2. mem'[r] = [mem[r] EXCEPT !.row = x.by, !.points = Points(r, mem[r].topic)]
    BY <2>1 DEF TypeInv, TypeOK
  <2>3. /\ mem'[r].row = x.by /\ mem'[r].topic = mem[r].topic
        /\ mem'[r].points = Points(r, mem[r].topic)
    BY <1>1, <2>2 DEF MemType
  <2> QED
    BY <2>1, <2>3 DEF ThetaRows
<1> QED
  BY <1>2, <1>3, <1>4

LEMMA ThetaExactReading ==
    ASSUME TypeInv, TopicsFixed, NEW r \in Requests, ThetaExact(r), Reading(r)
    PROVE  ThetaExact(r)'
<1>1. /\ SeenThetas(r)' = SeenThetas(r) /\ AllSeen(r)' = AllSeen(r)
      /\ \A t : Absorbed(r, t)' = Absorbed(r, t)
      /\ req' = req /\ Active(r)
  BY ReadingStays
<1>2. Quiet(r) \/ WriteCard(r)
  BY DEF Reading, Quiet
<1>3. /\ OnePerScope(SeenThetas(r))
      /\ \A x \in SeenThetas(r) : x.used = GradedIn(Absorbed(r, x.scope), x.scope)
      /\ Covered(AllSeen(r), SeenThetas(r))
  BY <1>1 DEF ThetaExact
<1>4. ASSUME pc'[r] \in Linked \ {"global"}, req'[r].op = "answer"
      PROVE  HasRow(SeenThetas(r), NoTopic)
  <2>1. CASE GlobalTheta(r)
    <3>1. buf' = buf
      BY <2>1, ControlFlow DEF Reading
    <3>2. CASE ThetaRows(r, NoTopic) # {}
      BY <3>2 DEF ThetaRows, HasRow
    <3>3. CASE ThetaRows(r, NoTopic) = {}
      <4> DEFINE x == [by |-> r, scope |-> NoTopic, used |-> {}]
      <4>1. PutTheta(r, x) /\ x.scope = NoTopic
        BY <2>1, <3>3 DEF GlobalTheta
      <4> HIDE DEF x
      <4>2. x \in buf[r].theta
        BY <3>1, <4>1, PutThetaEffect
      <4> QED
        BY <4>1, <4>2 DEF SeenThetas, HasRow
    <3> QED
      BY <3>2, <3>3
  <2>2. CASE ~GlobalTheta(r)
    <3>1. pc[r] \in Linked \ {"global"}
      BY <1>4, <2>2, ControlFlow DEF Reading, Linked, Grading
    <3> QED
      BY <1>1, <1>4, <3>1 DEF ThetaExact
  <2> QED
    BY <2>1, <2>2
<1>5. ASSUME pc'[r] \in Grading \ {"item"}
      PROVE  HasRow(SeenThetas(r), mem'[r].topic)
  <2>1. CASE GlobalTheta(r)
    <3>1. mem' = mem /\ mem[r].topic = NoTopic
      BY <1>5, <2>1 DEF GlobalTheta, Goto, Grading, TypeInv, TypeOK
    <3>2. pc'[r] \in Linked \ {"global"} /\ req'[r].op = "answer"
      <4>1. req[r].op # "start"
        BY <1>5, <2>1 DEF GlobalTheta, Goto, Grading, TypeInv, TypeOK
      <4>2. req[r].op = "answer"
        BY <2>1, <4>1, ControlFlow, HandlerTyped DEF ControlOf
      <4> QED
        BY <1>1, <1>5, <4>2 DEF Linked, Grading
    <3> QED
      BY <1>4, <3>1, <3>2
  <2>2. CASE TopicTheta(r)
    <3>1. mem' = mem /\ ThetaRows(r, mem[r].topic) # {}
      BY <1>5, <2>2 DEF TopicTheta, Goto, Grading, TypeInv, TypeOK
    <3> QED
      BY <3>1 DEF ThetaRows, HasRow
  <2>3. CASE ~GlobalTheta(r) /\ ~TopicTheta(r)
    <3>1. /\ pc[r] \in Grading \ {"item"} /\ ~LoadItem(r) /\ ~Arrive(r)
          /\ ~MasteryWrite(r) /\ (Counters(r) => pc'[r] = "mastery_read")
      BY <1>5, <2>3, ControlFlow DEF Reading, Grading
    <3>2. mem'[r].topic = mem[r].topic
      BY <1>2, <3>1, MemFrame, CountersEffect
    <3> QED
      BY <1>1, <3>1, <3>2 DEF ThetaExact
  <2> QED
    BY <2>1, <2>2, <2>3
<1>6. ASSUME pc'[r] \in {"global_points", "global_update", "topic_update"}
      PROVE  \E x \in SeenThetas(r) :
                 x.scope = RowScope(r)' /\ x.by = mem'[r].row
  <2>1. CASE GlobalRow(r)
    BY <2>1, PointsFacts, ControlFlow DEF RowScope
  <2>2. CASE GlobalPoints(r)
    <3>1. \E x \in SeenThetas(r) : x.scope = NoTopic /\ x.by = mem[r].row
      BY <1>1, <2>2, ControlFlow DEF ThetaExact, RowScope
    <3> QED
      BY <2>2, <3>1, PointsFacts, ControlFlow DEF RowScope
  <2>3. CASE TopicPoints(r)
    BY <2>3, PointsFacts, ControlFlow DEF RowScope
  <2> QED
    BY <1>6, <2>1, <2>2, <2>3, ControlFlow DEF Reading
<1>7. ASSUME pc'[r] \in {"global_update", "topic_update"}
      PROVE  mem'[r].points = GradedIn(AllSeen(r), RowScope(r)')
  <2>1. CASE GlobalPoints(r)
    BY <2>1, PointsFacts, PointsExact, ControlFlow DEF RowScope
  <2>2. CASE TopicPoints(r)
    BY <2>2, PointsFacts, PointsExact, ControlFlow DEF RowScope
  <2> QED
    BY <1>7, <2>1, <2>2, ControlFlow DEF Reading
<1> QED
  BY <1>1, <1>3, <1>4, <1>5, <1>6, <1>7 DEF ThetaExact

\* Writing x over the version of its row that r sees, or beside the others.
LEMMA PutSeen ==
    ASSUME TypeInv, NEW r \in Requests, NEW x, PutTheta(r, x), theta' = theta,
           \A w \in SeenThetas(r) : w.scope = x.scope => w.by = x.by
    PROVE  SeenThetas(r)' = {w \in SeenThetas(r) : w.scope # x.scope} \cup {x}
<1>1. buf'[r].theta = {w \in buf[r].theta : ~SameRow(w, x)} \cup {x}
  BY PutThetaEffect
<1>2. ASSUME NEW w, w \in SeenThetas(r), w.scope # x.scope
      PROVE  w \in SeenThetas(r)'
  BY <1>1, <1>2 DEF SeenThetas, SameRow
<1>3. x \in SeenThetas(r)'
  BY <1>1 DEF SeenThetas
<1>4. ASSUME NEW w, w \in SeenThetas(r)', w # x
      PROVE  w \in SeenThetas(r) /\ w.scope # x.scope
  <2>1. CASE w \in buf'[r].theta
    <3>1. w \in buf[r].theta /\ ~SameRow(w, x)
      BY <1>1, <1>4, <2>1
    <3> QED
      BY <3>1 DEF SeenThetas, SameRow
  <2>2. CASE w \notin buf'[r].theta
    <3>1. w \in theta /\ \A v \in buf'[r].theta : ~SameRow(w, v)
      BY <1>4, <2>2 DEF SeenThetas
    <3>2. ~SameRow(w, x)
      BY <1>1, <3>1
    <3>3. \A v \in buf[r].theta : ~SameRow(w, v)
      BY <1>1, <3>1, <3>2 DEF SameRow
    <3>4. w \in SeenThetas(r)
      BY <3>1, <3>3 DEF SeenThetas
    <3> QED
      BY <3>2, <3>4 DEF SameRow
  <2> QED
    BY <2>1, <2>2
<1> QED
  BY <1>2, <1>3, <1>4

\* A first ability row has nothing to be computed from.
LEMMA InsertSeen ==
    ASSUME TypeInv, NEW r \in Requests, ThetaExact(r), Active(r), NEW t,
           PutTheta(r, [by |-> r, scope |-> t, used |-> {}]), theta' = theta,
           AllSeen(r)' = AllSeen(r), \A w \in SeenThetas(r) : w.scope # t,
           \A s : Absorbed(r, s) = AllSeen(r) /\ Absorbed(r, s)' = AllSeen(r)
    PROVE  /\ OnePerScope(SeenThetas(r)')
           /\ \A x \in SeenThetas(r)' :
                  x.used = GradedIn(Absorbed(r, x.scope)', x.scope)
           /\ Covered(AllSeen(r)', SeenThetas(r)')
           /\ HasRow(SeenThetas(r)', t)
           /\ \A s : HasRow(SeenThetas(r), s) => HasRow(SeenThetas(r)', s)
<1> DEFINE x == [by |-> r, scope |-> t, used |-> {}]
<1>1. x.scope = t /\ x.used = {} /\ PutTheta(r, x)
  OBVIOUS
<1> HIDE DEF x
<1>2. SeenThetas(r)' = {w \in SeenThetas(r) : w.scope # t} \cup {x}
  BY <1>1, PutSeen
<1>3. SeenThetas(r)' = SeenThetas(r) \cup {x}
  BY <1>2
<1>4. /\ OnePerScope(SeenThetas(r)) /\ Covered(AllSeen(r), SeenThetas(r))
      /\ \A w \in SeenThetas(r) : w.used = GradedIn(AllSeen(r), w.scope)
  BY DEF ThetaExact
<1>5. ~HasRow(SeenThetas(r), t)
  BY DEF HasRow
<1>6. GradedIn(AllSeen(r), t) = {}
  BY <1>4, <1>5 DEF GradedIn, Covered
<1>7. OnePerScope(SeenThetas(r)')
  BY <1>1, <1>3, <1>4 DEF OnePerScope
<1>8. \A s : HasRow(SeenThetas(r), s) => HasRow(SeenThetas(r)', s)
  BY <1>3 DEF HasRow
<1>9. Covered(AllSeen(r)', SeenThetas(r)')
  BY <1>4, <1>8 DEF Covered
<1>10. \A w \in SeenThetas(r)' :
          w.used = GradedIn(Absorbed(r, w.scope)', w.scope)
  BY <1>1, <1>3, <1>4, <1>6
<1>11. HasRow(SeenThetas(r)', t)
  BY <1>1, <1>3 DEF HasRow
<1> QED
  BY <1>7, <1>8, <1>9, <1>10, <1>11

LEMMA ThetaExactInsert ==
    ASSUME TypeInv, RowsInv, NEW r \in Requests, ThetaExact(r),
           InsertTopicTheta(r) \/ (GlobalTheta(r) /\ buf' # buf)
    PROVE  ThetaExact(r)'
<1>1. theta' = theta /\ responses' = responses /\ req' = req /\ mem' = mem
  BY DEF InsertTopicTheta, GlobalTheta, tables
<1>2. buf'[r].responses = buf[r].responses
  BY BufFrame, ControlFlow DEF Quiet
<1>3. AllSeen(r)' = AllSeen(r)
  BY <1>1, <1>2 DEF AllSeen
<1>4. /\ pc[r] \in {"global", "topic_insert"} /\ Active(r)
      /\ pc'[r] \in {"commit", "respond", "topic"}
      /\ pc'[r] = "respond" => req[r].op = "answer"
      /\ pc[r] = "topic_insert" => pc'[r] # "topic"
  <2>1. /\ pc[r] \in {"global", "topic_insert"}
        /\ pc'[r] \in {"commit", "respond", "topic"}
        /\ pc[r] = "topic_insert" => pc'[r] # "topic"
    BY ControlFlow
  <2>2. pc'[r] = "respond" => req[r].op # "start"
    BY DEF InsertTopicTheta, GlobalTheta, AfterTopic, Goto, TypeInv, TypeOK
  <2> QED
    BY <2>1, <2>2, HandlerTyped DEF ControlOf, Active, Statements
<1>5. \A s : Absorbed(r, s) = AllSeen(r) /\ Absorbed(r, s)' = AllSeen(r)
  BY <1>3, <1>4 DEF Absorbed, Ahead
<1>6. CASE InsertTopicTheta(r)
  <2>1. /\ PutTheta(r, [by |-> r, scope |-> mem[r].topic, used |-> {}])
        /\ pc[r] = "topic_insert" /\ \A w \in theta : w.scope # mem[r].topic
    BY <1>6 DEF InsertTopicTheta
  <2>2. \A w \in SeenThetas(r) : w.scope # mem[r].topic
    BY <2>1 DEF RowsInv, ReadRows, SeenThetas
  <2>3. /\ OnePerScope(SeenThetas(r)')
        /\ \A x \in SeenThetas(r)' :
               x.used = GradedIn(Absorbed(r, x.scope)', x.scope)
        /\ Covered(AllSeen(r)', SeenThetas(r)')
        /\ HasRow(SeenThetas(r)', mem[r].topic)
        /\ \A s : HasRow(SeenThetas(r), s) => HasRow(SeenThetas(r)', s)
    BY <1>1, <1>3, <1>4, <1>5, <2>1, <2>2, InsertSeen
  <2>4. req[r].op = "answer" => HasRow(SeenThetas(r), NoTopic)
    BY <1>4, <2>1 DEF ThetaExact, Linked, Grading
  <2> QED
    BY <1>1, <1>4, <2>1, <2>3, <2>4 DEF ThetaExact, Linked, Grading
<1>7. CASE GlobalTheta(r) /\ buf' # buf
  <2>1. /\ PutTheta(r, [by |-> r, scope |-> NoTopic, used |-> {}])
        /\ ThetaRows(r, NoTopic) = {} /\ pc[r] = "global"
        /\ pc'[r] = "respond" => mem[r].topic = NoTopic
    BY <1>7 DEF GlobalTheta, Goto, TypeInv, TypeOK
  <2>2. \A w \in SeenThetas(r) : w.scope # NoTopic
    BY <2>1 DEF ThetaRows
  <2>3. /\ OnePerScope(SeenThetas(r)')
        /\ \A x \in SeenThetas(r)' :
               x.used = GradedIn(Absorbed(r, x.scope)', x.scope)
        /\ Covered(AllSeen(r)', SeenThetas(r)')
        /\ HasRow(SeenThetas(r)', NoTopic)
    BY <1>1, <1>3, <1>4, <1>5, <2>1, <2>2, InsertSeen
  <2> QED
    BY <1>1, <1>4, <2>1, <2>3 DEF ThetaExact, Linked, Grading
<1> QED
  BY <1>6, <1>7

\* Recomputing an ability: the row of its scope now stands for all of them.
LEMMA UpdateSeen ==
    ASSUME TypeInv, NEW r \in Requests, ThetaExact(r), Active(r), NEW x,
           PutTheta(r, x), theta' = theta, AllSeen(r)' = AllSeen(r),
           x.used = GradedIn(AllSeen(r), x.scope),
           \E y \in SeenThetas(r) : y.scope = x.scope /\ y.by = x.by,
           Absorbed(r, x.scope)' = AllSeen(r),
           \A s : s # x.scope => GradedIn(Absorbed(r, s)', s) =
                                 GradedIn(Absorbed(r, s), s)
    PROVE  /\ OnePerScope(SeenThetas(r)')
           /\ \A w \in SeenThetas(r)' :
                  w.used = GradedIn(Absorbed(r, w.scope)', w.scope)
           /\ Covered(AllSeen(r)', SeenThetas(r)')
           /\ \A s : HasRow(SeenThetas(r), s) => HasRow(SeenThetas(r)', s)
<1>1. /\ OnePerScope(SeenThetas(r)) /\ Covered(AllSeen(r), SeenThetas(r))
      /\ \A w \in SeenThetas(r) : w.used = GradedIn(Absorbed(r, w.scope), w.scope)
  BY DEF ThetaExact
<1>2. \A w \in SeenThetas(r) : w.scope = x.scope => w.by = x.by
  BY <1>1 DEF OnePerScope
<1>3. SeenThetas(r)' = {w \in SeenThetas(r) : w.scope # x.scope} \cup {x}
  BY <1>2, PutSeen
<1>4. OnePerScope(SeenThetas(r)')
  BY <1>1, <1>3 DEF OnePerScope
<1>5. \A s : HasRow(SeenThetas(r), s) => HasRow(SeenThetas(r)', s)
  BY <1>3 DEF HasRow
<1>6. Covered(AllSeen(r)', SeenThetas(r)')
  BY <1>1, <1>5 DEF Covered
<1>7. \A w \in SeenThetas(r)' :
          w.used = GradedIn(Absorbed(r, w.scope)', w.scope)
  BY <1>1, <1>3
<1> QED
  BY <1>4, <1>5, <1>6, <1>7

LEMMA ThetaExactUpdate ==
    ASSUME TypeInv, HistoryInv, MasteryInv, NEW r \in Requests, ThetaExact(r),
           GlobalUpdate(r) \/ TopicUpdate(r)
    PROVE  ThetaExact(r)'
<1>1. theta' = theta /\ responses' = responses /\ req' = req /\ mem' = mem
  BY DEF GlobalUpdate, TopicUpdate, tables
<1>2. buf'[r].responses = buf[r].responses
  BY BufFrame, ControlFlow DEF Quiet
<1>3. AllSeen(r)' = AllSeen(r)
  BY <1>1, <1>2 DEF AllSeen
<1>4. /\ GlobalUpdate(r) => /\ pc[r] = "global_update"
                            /\ pc'[r] = IF mem[r].topic = NoTopic
                                        THEN "counters" ELSE "topic_points"
      /\ TopicUpdate(r) => /\ pc[r] = "topic_update" /\ pc'[r] = "counters"
                           /\ mem[r].topic # NoTopic
  BY ControlFlow, HandlerTyped, NoTopicAssumption DEF ControlOf
<1>5. /\ Active(r) /\ pc[r] \in Responded \ {"commit"} /\ req[r].op = "answer"
      /\ pc[r] \in Linked \ {"global"} /\ pc[r] \in Grading \ {"item"}
  BY <1>4, HandlerTyped
     DEF Active, Statements, Responded, ControlOf, Linked, Grading
<1>6. PICK x : /\ PutTheta(r, x)
               /\ x = [by |-> mem[r].row, scope |-> RowScope(r),
                       used |-> mem[r].points]
  BY <1>4 DEF GlobalUpdate, TopicUpdate, RowScope
<1>7. /\ x.scope = RowScope(r) /\ x.by = mem[r].row
      /\ x.used = GradedIn(AllSeen(r), RowScope(r))
  BY <1>4, <1>5, <1>6 DEF ThetaExact
<1>8. \E y \in SeenThetas(r) : y.scope = x.scope /\ y.by = x.by
  BY <1>4, <1>5, <1>7 DEF ThetaExact
<1>9. Absorbed(r, x.scope)' = AllSeen(r)
  <2>1. pc'[r] \notin Ahead(x.scope)
    BY <1>4, <1>7 DEF Ahead, RowScope
  <2> QED
    BY <1>3, <2>1 DEF Absorbed, Ahead
<1>10. ASSUME NEW s, s # x.scope
       PROVE  GradedIn(Absorbed(r, s)', s) = GradedIn(Absorbed(r, s), s)
  <2>1. CASE GlobalUpdate(r) /\ mem[r].topic # NoTopic
    <3>1. pc[r] \in Ahead(s) /\ pc'[r] \in Ahead(s)
      BY <1>4, <1>7, <1>10, <2>1 DEF Ahead, RowScope
    <3> QED
      BY <1>1, <1>3, <3>1, AbsorbedStay
  <2>2. CASE (GlobalUpdate(r) /\ mem[r].topic = NoTopic) \/ TopicUpdate(r)
    <3>1. pc'[r] = "counters"
      BY <1>4, <2>2
    <3>2. Absorbed(r, s)' = AllSeen(r)
      BY <1>3, <3>1 DEF Absorbed, Ahead
    <3>3. CASE s = NoTopic
      <4>1. pc[r] = "topic_update"
        BY <1>4, <1>7, <1>10, <2>2, <3>3 DEF RowScope
      <4> QED
        BY <3>2, <3>3, <4>1, NotAhead DEF Ahead
    <3>4. CASE s # NoTopic
      <4>1. s # mem[r].topic
        BY <1>4, <1>7, <1>10, <2>2, <3>4 DEF RowScope
      <4> QED
        BY <1>5, <3>2, <3>4, <4>1, OtherScope
    <3> QED
      BY <3>3, <3>4
  <2> QED
    BY <2>1, <2>2
<1>11. /\ OnePerScope(SeenThetas(r)')
       /\ \A w \in SeenThetas(r)' :
              w.used = GradedIn(Absorbed(r, w.scope)', w.scope)
       /\ Covered(AllSeen(r)', SeenThetas(r)')
       /\ \A s : HasRow(SeenThetas(r), s) => HasRow(SeenThetas(r)', s)
  BY <1>1, <1>3, <1>5, <1>6, <1>7, <1>8, <1>9, <1>10, UpdateSeen
<1>12. HasRow(SeenThetas(r), NoTopic) /\ HasRow(SeenThetas(r), mem[r].topic)
  BY <1>5 DEF ThetaExact
<1>13. pc'[r] \in {"counters", "topic_points"}
  BY <1>4
<1> QED
  BY <1>1, <1>11, <1>12, <1>13 DEF ThetaExact

LEMMA ThetaExactRespond ==
    ASSUME TypeInv, HistoryInv, MasteryInv, NEW r \in Requests, ThetaExact(r),
           Respond(r)
    PROVE  ThetaExact(r)'
<1>1. theta' = theta /\ responses' = responses /\ req' = req
  BY DEF Respond, tables
<1>2. buf'[r].theta = buf[r].theta
  BY BufFrame, ControlFlow
<1>3. SeenThetas(r)' = SeenThetas(r)
  BY <1>1, <1>2 DEF SeenThetas
<1>4. /\ pc[r] = "respond" /\ Active(r) /\ req[r].op = "answer"
      /\ pc'[r] = IF Answer(r).kind = "skip" THEN "counters" ELSE "card_write"
      /\ mem'[r].k = mem[r].k /\ mem'[r].topic = mem[r].topic
  BY ControlFlow, RespondEffect, MemFrame
<1>5. PICK y : /\ y.id = <<r, mem[r].k>> /\ y.topic = mem[r].topic
               /\ y.kind = Answer(r).kind
               /\ buf'[r].responses = buf[r].responses \cup {y}
  BY RespondEffect
<1>6. AllSeen(r)' = AllSeen(r) \cup {y}
  BY <1>1, <1>5 DEF AllSeen
<1>7. \A z \in AllSeen(r) : z.id # <<r, mem[r].k>>
  <2> SUFFICES ASSUME NEW z \in AllSeen(r), z.id = <<r, mem[r].k>> PROVE FALSE
    OBVIOUS
  <2>1. z \in buf[r].responses
    BY <1>4, CurrentOnly
  <2>2. PendingHistory(r) /\ Written(r) = mem[r].k - 1 /\ mem[r].k \in Nat
    BY <1>4, HandlerTyped DEF HistoryInv, Written, Responded, MemType
  <2>3. z.id[2] \in 1 .. mem[r].k - 1
    BY <2>1, <2>2, PendingIds
  <2> QED
    BY <2>2, <2>3
<1>8. /\ OnePerScope(SeenThetas(r)) /\ Covered(AllSeen(r), SeenThetas(r))
      /\ \A x \in SeenThetas(r) : x.used = GradedIn(AllSeen(r), x.scope)
      /\ HasRow(SeenThetas(r), NoTopic) /\ HasRow(SeenThetas(r), mem[r].topic)
  BY <1>4, NotAhead DEF ThetaExact, Linked, Grading, Ahead
<1>9. Covered(AllSeen(r)', SeenThetas(r)')
  BY <1>3, <1>5, <1>6, <1>8 DEF Covered
<1>10. ASSUME NEW s
       PROVE  GradedIn(Absorbed(r, s)', s) = GradedIn(AllSeen(r), s)
  <2>1. CASE Answer(r).kind = "skip"
    <3>1. Absorbed(r, s)' = AllSeen(r) \cup {y}
      BY <1>4, <1>6, <2>1 DEF Absorbed, Ahead
    <3> QED
      BY <1>5, <2>1, <3>1 DEF GradedIn
  <2>2. CASE Answer(r).kind # "skip"
    <3>1. Absorbed(r, s)' = AllSeen(r)
      BY <1>4, <1>5, <1>6, <1>7, <2>2 DEF Absorbed, Ahead
    <3> QED
      BY <3>1
  <2> QED
    BY <2>1, <2>2
<1>11. pc'[r] \in {"counters", "card_write"}
  BY <1>4
<1> QED
  BY <1>1, <1>3, <1>4, <1>8, <1>9, <1>10, <1>11 DEF ThetaExact

LEMMA ThetaExactArrive ==
    ASSUME TypeInv, OrderInv, ThetasExactInv, NEW r \in Requests, Arrive(r)
    PROVE  ThetaExact(r)'
<1>1. /\ theta' = theta /\ responses' = responses /\ buf' = buf
      /\ pc[r] = "idle" /\ pc'[r] \in {"global", "topic", "load"}
      /\ pc'[r] = "topic" => req'[r].op = "start"
  BY ControlFlow DEF Arrive, Goto, tables, TypeInv, TypeOK
<1>2. buf'[r].theta = {} /\ buf'[r].responses = {}
  BY <1>1, FreshRows DEF OrderInv
<1>3. SeenThetas(r)' = theta /\ AllSeen(r)' = responses
  BY <1>1, <1>2 DEF SeenThetas, AllSeen
<1>4. \A s : Absorbed(r, s)' = responses
  BY <1>1, <1>3 DEF Absorbed, Ahead
<1> QED
  BY <1>1, <1>3, <1>4 DEF ThetaExact, ThetasExactInv, Linked, Grading

LEMMA ThetaExactCommit ==
    ASSUME TypeInv, ThetasExactInv, NEW r \in Requests, Commit(r)
    PROVE  ThetasExactInv'
<1>1. /\ UNCHANGED <<bank, req>>
      /\ pc[r] = "commit" /\ pc'[r] = "ok" /\ Active(r) /\ ~Active(r)'
      /\ buf'[r].responses = {}
      /\ \A q \in Requests : q # r => /\ pc'[q] = pc[q] /\ mem'[q] = mem[q]
                                     /\ buf'[q] = buf[q]
      /\ responses' = AllSeen(r) /\ theta' = SeenThetas(r)
  BY CommitEffect, FreshRows DEF AllSeen
<1>2. \A q \in Requests : ~Active(q)'
  BY <1>1 DEF ThetasExactInv, Alone, Active
<1>3. TopicsFixed'
  <2>1. topicOf' = topicOf /\ req' = req
    BY <1>1 DEF bank
  <2>2. \A y \in responses' : y.topic = topicOf[y.item]
    BY <1>1 DEF ThetasExactInv, TopicsFixed, AllSeen
  <2>3. ASSUME NEW q \in Requests
        PROVE  /\ \A y \in buf'[q].responses : y.topic = topicOf'[y.item]
               /\ pc'[q] \in Linked /\ req'[q].op = "answer" =>
                      mem'[q].topic = topicOf'[Answer(q)'.item]
    <3>1. CASE q = r
      BY <1>1, <3>1 DEF Linked, Grading
    <3>2. CASE q # r
      <4>1. Answer(q)' = Answer(q)
        BY <1>1, <2>1, <3>2 DEF Answer
      <4> QED
        BY <1>1, <2>1, <3>2, <4>1 DEF ThetasExactInv, TopicsFixed
    <3> QED
      BY <3>1, <3>2
  <2> QED
    BY <2>1, <2>2, <2>3 DEF TopicsFixed
<1>4. /\ OnePerScope(SeenThetas(r)) /\ Covered(AllSeen(r), SeenThetas(r))
      /\ \A x \in SeenThetas(r) : x.used = GradedIn(AllSeen(r), x.scope)
  BY <1>1, NotAhead DEF ThetasExactInv, ThetaExact, Ahead
<1> QED
  BY <1>1, <1>2, <1>3, <1>4 DEF ThetasExactInv, Alone, ThetaExact

LEMMA InitThetasExactInv == Init => ThetasExactInv
<1> SUFFICES ASSUME Init PROVE ThetasExactInv
  OBVIOUS
<1>1. /\ theta = {} /\ responses = {}
      /\ \A r \in Requests : /\ pc[r] = "idle" /\ ~Active(r)
                             /\ buf[r].responses = {}
  BY FreshRows DEF Init, Active, Statements
<1> QED
  BY <1>1 DEF ThetasExactInv, Alone, TopicsFixed, OnePerScope, Covered, ThetaExact,
              Linked, Grading

LEMMA NextThetasExactInv ==
    ASSUME Exclusive = "all", Links = {}
    PROVE  TypeInv /\ HistoryInv /\ RowsInv /\ MasteryInv /\ OrderInv
           /\ ThetasExactInv /\ [Next]_vars => ThetasExactInv'
<1> SUFFICES ASSUME TypeInv, HistoryInv, RowsInv, MasteryInv, OrderInv,
                    ThetasExactInv, [Next]_vars
             PROVE  ThetasExactInv'
  OBVIOUS
<1>1. Alone' /\ TopicsFixed
  BY AloneNext DEF ThetasExactInv
<1>2. ASSUME theta' = theta, responses' = responses
      PROVE  /\ OnePerScope(theta') /\ Covered(responses', theta')
             /\ \A x \in theta' : x.used = GradedIn(responses', x.scope)
  BY <1>2 DEF ThetasExactInv
<1>3. ASSUME NEW r \in Requests, Arrive(r) \/ Step(r) \/ Crash(r)
      PROVE  ThetasExactInv'
  <2>1. ASSUME theta' = theta, responses' = responses, NEW q \in Requests, q # r
        PROVE  ThetaExact(q)'
    BY <1>3, <2>1, OthersStay, ThetaExactStay DEF ThetasExactInv
  <2>2. CASE Quiet(r) \/ Respond(r) \/ WriteCard(r)
    <3>1. theta' = theta /\ responses' = responses
      BY <2>2, TablesStay DEF tables
    <3>2. TopicsFixed'
      BY <1>1, <1>3, <2>2, TopicsFixedMoved
    <3>3. ThetaExact(r)'
      <4>1. CASE Reading(r)
        BY <1>1, <4>1, ThetaExactReading DEF ThetasExactInv
      <4>2. CASE InsertTopicTheta(r) \/ (GlobalTheta(r) /\ buf' # buf)
        BY <4>2, ThetaExactInsert DEF ThetasExactInv
      <4>3. CASE GlobalUpdate(r) \/ TopicUpdate(r)
        BY <4>3, ThetaExactUpdate DEF ThetasExactInv
      <4>4. CASE Respond(r)
        BY <4>4, ThetaExactRespond DEF ThetasExactInv
      <4>5. CASE Arrive(r)
        BY <4>5, ThetaExactArrive
      <4> QED
        BY <2>2, <4>1, <4>2, <4>3, <4>4, <4>5 DEF Quiet, Reading
    <3>4. \A q \in Requests : ThetaExact(q)'
      BY <2>1, <3>1, <3>3
    <3> QED
      BY <1>1, <1>2, <3>1, <3>2, <3>4 DEF ThetasExactInv
  <2>3. CASE Commit(r)
    BY <2>3, ThetaExactCommit
  <2>4. ASSUME NEW l \in Ended, Rollback(r, l) PROVE ThetasExactInv'
    <3>1. /\ UNCHANGED <<tables, bank, req>> /\ pc'[r] = l /\ ~Active(r)'
          /\ buf'[r].responses = {}
          /\ \A q \in Requests : q # r => /\ pc'[q] = pc[q] /\ mem'[q] = mem[q]
                                         /\ buf'[q] = buf[q]
      BY <2>4, RollbackEffect, FreshRows
    <3>2. theta' = theta /\ responses' = responses /\ topicOf' = topicOf
      BY <3>1 DEF tables, bank
    <3>3. TopicsFixed'
      <4>1. \A q \in Requests : q # r => Answer(q)' = Answer(q)
        BY <3>1 DEF Answer
      <4> QED
        BY <1>1, <2>4, <3>1, <3>2, <4>1 DEF TopicsFixed, Linked, Grading, Ended
    <3>4. \A q \in Requests : ThetaExact(q)'
      BY <2>1, <3>1, <3>2 DEF ThetaExact
    <3> QED
      BY <1>1, <1>2, <3>2, <3>3, <3>4 DEF ThetasExactInv
  <2> QED
    BY <1>3, <2>2, <2>3, <2>4, StepKinds
<1>4. ASSUME UNCHANGED <<tables, req, pc, mem, buf>>, topicOf' = topicOf
      PROVE  ThetasExactInv'
  <2>1. theta' = theta /\ responses' = responses
    BY <1>4 DEF tables
  <2>2. \A q \in Requests : ThetaExact(q)'
    BY <1>4, <2>1, ThetaExactStay DEF ThetasExactInv
  <2>3. \A q \in Requests : Answer(q)' = Answer(q)
    BY <1>4 DEF Answer
  <2>4. TopicsFixed'
    BY <1>1, <1>4, <2>1, <2>3 DEF TopicsFixed
  <2> QED
    BY <1>1, <1>2, <2>1, <2>2, <2>4 DEF ThetasExactInv
<1>5. ASSUME NEW i \in Editable, NewVersion(i) \/ SoftDelete(i) \/ Retag(i)
      PROVE  ThetasExactInv'
  <2>1. topicOf' = topicOf
    BY <1>5 DEF NewVersion, SoftDelete, SetItemState, Retag
  <2> QED
    BY <1>4, <1>5, <2>1, AuthorFrame
<1> QED
  BY <1>3, <1>4, <1>5 DEF Next, vars, bank

\* A learner whose requests never overlap, while no author moves an item to
\* another topic (an ability is computed by today's links): between requests
\* each card's reps are the number of its reviews and each ability was computed
\* from exactly the graded answers of its scope, whatever was rejected, crashed
\* or was rolled back.
THEOREM RollupsExactAlone ==
    ASSUME Exclusive = "all", Links = {}
    PROVE  Spec => []RollupsExact
<1>1. CardsExactInv /\ ThetasExactInv => RollupsExact
  BY DEF CardsExactInv, ThetasExactInv, RollupsExact, ThetaComplete, GradedIn, Graded
<1>2. TypeInv /\ HistoryInv /\ RepsInv /\ OrderInv /\ CardsExactInv
      /\ [Next]_vars => CardsExactInv'
  BY NextCardsExactInv
<1>3. TypeInv /\ HistoryInv /\ RowsInv /\ MasteryInv /\ OrderInv
      /\ ThetasExactInv /\ [Next]_vars => ThetasExactInv'
  BY NextThetasExactInv
<1> QED
  BY <1>1, <1>2, <1>3, InitTypeInv, NextTypeInv, InitHistoryInv, NextHistoryInv,
     InitRepsInv, NextRepsInv, InitCountsInv, NextCountsInv, InitRowsInv, NextRowsInv,
     InitMasteryInv, NextMasteryInv, InitOrderInv, NextOrderInv,
     InitCardsExactInv, InitThetasExactInv, PTL DEF Spec
=============================================================================
