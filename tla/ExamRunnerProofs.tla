--------------------------- MODULE ExamRunnerProofs ---------------------------
(***************************************************************************)
(* Theorems about ExamRunner, for all papers, options and bounds.          *)
(***************************************************************************)
EXTENDS ExamRunner, FiniteSetTheorems, NaturalsInduction, TLAPS

LEMMA NoVerdicts == DOMAIN <<>> = {}
<1>1. <<>> \in Seq({}) /\ Len(<<>>) = 0
  OBVIOUS
<1>2. DOMAIN <<>> = 1 .. 0
  BY <1>1
<1> QED
  BY <1>2

\* Verdicts are added for exactly the rows of the reply.
LEMMA GradedDomain ==
  ASSUME NEW base, NEW rows
  PROVE  DOMAIN Graded(base, rows) = DOMAIN base \cup {r.item : r \in rows}
  BY DEF Graded

-----------------------------------------------------------------------------
(* What each request may carry, whichever order they are served in. *)

Ops == {"start", "paper", "answer", "bulk", "finish"}

Grades(c) == c.op \in {"answer", "bulk"}

\* Nothing of session s is graded, nor on the way to be.
Untouched(s) ==
    /\ \A c \in calls : Grades(c) => c.session # s
    /\ \A r \in responses : r.session # s

\* No batch of session s is written, nor on the way.
NoBatch(s) ==
    /\ \A c \in calls : c.op = "bulk" => c.session # s
    /\ \A r \in responses : r.via = "bulk" => r.session # s

Paper == Seq([item : Items, version : Nat \ {0}])

Counters == [Kinds -> Nat]

\* The rows of R, in session s and of kind k.
Num(R, s, k) == Cardinality({r \in R : r.session = s /\ r.kind = k})

\* A report counts no more than there is; and all of it, with the score that
\* goes with it, when the session was served one request at a time.
ReportTrue(s, report) ==
    /\ report \in [count : Counters, scored : Counters]
    /\ \A k \in Kinds :
          /\ report.count[k] <= Num(responses, s, k)
          /\ s \notin raced =>
                /\ report.count[k] = Num(responses, s, k)
                /\ report.scored[k] = report.count[k]

\* What a reply brings, by the time it arrives.
ReplyGood(c) ==
    /\ c.op = "start" =>
          c.reply.session \in DOMAIN sessions /\ Untouched(c.reply.session)
    /\ c.op = "paper" => c.reply.items \in Paper
    /\ Grades(c) =>
          /\ c.reply.rows \subseteq responses
          /\ \A r \in c.reply.rows : r.via = c.op /\ r.session = c.session
          /\ {r.item : r \in c.reply.rows} = DOMAIN c.body
    /\ c.op = "finish" =>
          /\ sessions[c.session].status = "completed"
          /\ ReportTrue(c.session, c.reply.report)

CallFieldNames ==
    {"n", "op", "session", "scope", "body", "kept", "live", "pending", "loaded",
     "seen", "served", "ok", "reply"}

\* A request that is answered still has somebody to hear it.
CallGood(c) ==
    /\ DOMAIN c = CallFieldNames
    /\ c.op \in Ops
    /\ {c.live, c.pending, c.loaded, c.served, c.ok} \subseteq BOOLEAN
    /\ c.pending => c.live
    /\ c.served => c.pending
    /\ c.seen \in Counters
    /\ c.loaded => ~c.served /\ c.op \in {"answer", "bulk", "finish"}
    /\ c.n \in Nat /\ c.n <= clicks
    /\ c.session \in 0 .. Len(sessions)
    /\ c.op # "start" => c.session # 0
    /\ c.op = "start" => c.scope \in Scopes
    /\ Grades(c) => DOMAIN c.body \subseteq Items /\ IsFiniteSet(DOMAIN c.body)
    /\ c.served /\ c.ok => ReplyGood(c)

SessionType ==
    [status : {"in_progress", "completed"}, scope : Scopes, count : Counters,
     scored : Counters]

\* The counters of a session never run ahead of its rows.  They are its rows, and
\* the score is of them, while requests of the session do not overlap.
CountedIn(s) ==
    \A k \in Kinds :
       /\ sessions[s].count[k] <= Num(responses, s, k)
       /\ s \notin raced =>
             /\ sessions[s].count[k] = Num(responses, s, k)
             /\ sessions[s].status = "completed" =>
                   sessions[s].scored[k] = sessions[s].count[k]

\* What a request read of its session is then what the session still has.
LoadedOK(c) ==
    /\ \A k \in Kinds :
          /\ c.seen[k] <= Num(responses, c.session, k)
          /\ c.session \notin raced => c.seen[k] = sessions[c.session].count[k]
    /\ c.session \notin raced => sessions[c.session].status # "completed"

CountInv ==
    /\ raced \subseteq DOMAIN sessions
    /\ \E n \in Nat : {r.id : r \in responses} = 1 .. n
    /\ \A s \in DOMAIN sessions : CountedIn(s)
    /\ \A c \in calls : c.loaded => LoadedOK(c)
    /\ \A c, d \in calls :
          c.loaded /\ d.loaded /\ c.session = d.session /\ c.session \notin raced
             => c = d

TableInv ==
    /\ sessions \in Seq(SessionType)
    /\ sessionId \in 0 .. Len(sessions)
    /\ responses \subseteq RowType /\ IsFiniteSet(responses)
    /\ \A r \in responses : r.session \in DOMAIN sessions
    /\ IsFiniteSet(calls) /\ clicks \in Nat
    /\ Started <= MaxSessions
    /\ \A c \in calls : CallGood(c)
    /\ CountInv

\* The start and the submission of an exam are one chain of requests: of those
\* the page waits for there is one at a time, and the phase tells which.
ChainInv ==
    /\ \A c \in Waiting : c.op = "start" => phase = "setup"
    /\ \A c \in Waiting : c.op \in {"paper", "bulk", "finish"} =>
          phase = "loading" /\ c.session = sessionId
    /\ \A c, d \in Waiting : c.op # "answer" /\ d.op # "answer" => c = d
    /\ phase = "loading" => ChainFailed \/ \E c \in Waiting : c.op # "answer"

\* A session is handed in once.
BatchInv ==
    /\ OneBatch
    /\ \A c, d \in calls :
          c.op = "bulk" /\ d.op = "bulk" /\ c.session = d.session => c = d
    /\ \A c \in calls : c.op = "bulk" /\ ~c.served =>
          \A r \in responses : r.via = "bulk" => r.session # c.session
    /\ \A c \in Waiting : c.op = "paper" => Untouched(sessionId)
    /\ phase \in {"ready", "exam"} => NoBatch(sessionId)

\* What is graded in the session shown is of the paper shown.
OnPaper ==
    /\ \A c \in calls : Grades(c) /\ c.session = sessionId =>
          DOMAIN c.body \subseteq PaperItems
    /\ \A r \in responses : r.session = sessionId => r.item \in PaperItems

\* The ref has every verdict the state has.  The state has those of the ref too,
\* until the batch's reply puts the verdicts of the hand-in back.
RefInv ==
    /\ DOMAIN results \subseteq submittedIds /\ submittedIds \subseteq Items
    /\ phase \notin {"loading", "results"} => submittedIds \subseteq DOMAIN results

\* Verdicts are rows of the server, of the session shown or sent one by one.
RowsShown(v) ==
    /\ DOMAIN v \subseteq Items
    /\ \A i \in DOMAIN v :
          /\ v[i] \in responses /\ v[i].item = i
          /\ v[i].via = "answer" \/ v[i].session = sessionId

VerdictInv ==
    /\ RefInv /\ RowsShown(results)
    /\ \A c \in Waiting :
          c.op = "bulk" => RowsShown(c.kept) /\ DOMAIN c.kept \subseteq submittedIds

\* The hand-in covers the paper, and the report is true.
ReportInv ==
    /\ \A c \in Waiting :
          c.op = "bulk" => PaperItems \subseteq DOMAIN c.body \cup DOMAIN c.kept
    /\ \A c \in Waiting : c.op = "finish" => PaperItems \subseteq DOMAIN results
    /\ summary.report \in [count : Counters, scored : Counters]
    /\ phase = "results" =>
          /\ summary.there /\ PaperItems \subseteq DOMAIN results
          /\ sessionId # 0 /\ sessions[sessionId].status = "completed"
          /\ ReportTrue(sessionId, summary.report)

ScreenInv ==
    /\ phase \in {"setup", "loading", "ready", "exam", "results"}
    /\ phase = "setup" => sessionId = 0 /\ items = <<>>
    /\ phase # "setup" => sessionId # 0
    /\ items \in Paper
    /\ feedback \in BOOLEAN /\ showReview \in BOOLEAN
    /\ answers \in [Items -> Marks]
    /\ flagged \subseteq PaperItems \cap Flaggable
    /\ current \in 1 .. (Len(items) + 1) /\ (items # <<>> => current \in DOMAIN items)
    /\ failed \subseteq {"start", "paper", "bulk", "finish"}

BankInv ==
    /\ faults \in Nat /\ edits \in Nat /\ edits <= MaxTrouble
    /\ version \in [Items -> 0 .. edits + 1]

ExamInv ==
    /\ TableInv /\ ChainInv /\ BatchInv /\ OnPaper /\ VerdictInv /\ ReportInv
    /\ ScreenInv /\ BankInv


-----------------------------------------------------------------------------
(* Finite sets of values of a function, and least numbers. *)

LEMMA Images ==
  ASSUME NEW f, IsFiniteSet(DOMAIN f)
  PROVE  /\ IsFiniteSet({f[x] : x \in DOMAIN f})
         /\ Cardinality({f[x] : x \in DOMAIN f}) <= Cardinality(DOMAIN f)
<1> DEFINE T == {f[x] : x \in DOMAIN f}
           g == [x \in DOMAIN f |-> f[x]]
<1>1. g \in Surjection(DOMAIN f, T)
  BY DEF Surjection
<1> QED
  BY <1>1, FS_Surjection

LEMMA Least ==
  ASSUME NEW T, T \subseteq Nat, T # {}
  PROVE  \E n \in T : \A m \in T : n <= m
<1> DEFINE Below == {p \in Nat \X Nat : p[1] < p[2]}
<1>1. IsWellFoundedOn(Below, Nat)
  BY NatLessThanWellFounded DEF OpToRel
<1>2. ASSUME NEW x \in Nat, NEW y \in Nat, y < x
      PROVE  <<y, x>> \in Below
  BY <1>2
<1> HIDE DEF Below
<1>3. PICK x \in T : \A y \in T : ~ (<<y, x>> \in Below)
  BY <1>1, WFMin
<1>4. \A y \in T : ~ (y < x)
  BY <1>2, <1>3
<1> QED
  BY <1>4

-----------------------------------------------------------------------------
(* Counting rows. *)

LEMMA NumGrows ==
  ASSUME NEW S, IsFiniteSet(S), NEW R, R \subseteq S, NEW s, NEW k
  PROVE  Num(R, s, k) \in Nat /\ Num(S, s, k) \in Nat /\ Num(R, s, k) <= Num(S, s, k)
<1> DEFINE A == {r \in R : r.session = s /\ r.kind = k}
           B == {r \in S : r.session = s /\ r.kind = k}
<1>1. A \subseteq B /\ B \subseteq S
  OBVIOUS
<1> HIDE DEF A, B
<1>2. IsFiniteSet(B)
  BY <1>1, FS_Subset
<1>3. IsFiniteSet(A) /\ Cardinality(A) <= Cardinality(B)
  BY <1>1, <1>2, FS_Subset
<1>4. Cardinality(A) \in Nat /\ Cardinality(B) \in Nat
  BY <1>2, <1>3, FS_CardinalityType
<1> QED
  BY <1>3, <1>4 DEF Num, A, B

LEMMA NumSame ==
  ASSUME NEW R, NEW S, R \subseteq S, NEW s, \A r \in S \ R : r.session # s, NEW k
  PROVE  Num(S, s, k) = Num(R, s, k)
<1>1. {r \in S : r.session = s /\ r.kind = k} = {r \in R : r.session = s /\ r.kind = k}
  OBVIOUS
<1> QED
  BY <1>1 DEF Num

LEMMA TallyNat ==
  ASSUME NEW A, IsFiniteSet(A)
  PROVE  Tally(A) \in Counters
<1>1. ASSUME NEW k \in Kinds
      PROVE  Cardinality({r \in A : r.kind = k}) \in Nat
  BY FS_Subset, FS_CardinalityType
<1> QED
  BY <1>1 DEF Tally, Counters

LEMMA NumAdds ==
  ASSUME NEW R, IsFiniteSet(R), NEW A, IsFiniteSet(A), R \cap A = {},
         NEW s, \A r \in A : r.session = s, NEW k \in Kinds
  PROVE  Num(R \cup A, s, k) = Num(R, s, k) + Tally(A)[k]
<1> DEFINE B == {r \in R : r.session = s /\ r.kind = k}
           C == {r \in A : r.kind = k}
<1>1. {r \in R \cup A : r.session = s /\ r.kind = k} = B \cup C
  OBVIOUS
<1>2. B \cap C = {} /\ IsFiniteSet(B) /\ IsFiniteSet(C)
  BY FS_Subset
<1>3. Tally(A)[k] = Cardinality(C)
  BY DEF Tally
<1> HIDE DEF B, C
<1>4. B \cap C = {} => Cardinality(B \cap C) = 0
  BY FS_EmptySet
<1>5. Cardinality(B \cup C) = Cardinality(B) + Cardinality(C) - Cardinality(B \cap C)
  BY <1>2, FS_Union
<1>6. Cardinality(B) \in Nat /\ Cardinality(C) \in Nat
  BY <1>2, FS_CardinalityType
<1>7. Num(R, s, k) = Cardinality(B)
  BY DEF Num, B
<1>8. Num(R \cup A, s, k) = Cardinality(B \cup C)
  BY <1>1 DEF Num
<1> QED
  BY <1>2, <1>3, <1>4, <1>5, <1>6, <1>7, <1>8

\* The report's way of counting is this one.
LEMMA TallyIsNum ==
  ASSUME NEW s, NEW k \in Kinds
  PROVE  Tally(RowsOf(s))[k] = Num(responses, s, k)
<1>1. {r \in RowsOf(s) : r.kind = k} = {r \in responses : r.session = s /\ r.kind = k}
  BY DEF RowsOf
<1> QED
  BY <1>1 DEF Tally, Num

-----------------------------------------------------------------------------
(* A paper is drawn question by question. *)

\* f is the sequence of papers drawn from the first m questions of s.
Draws(f, s, m) ==
    f = [n \in 0 .. m |->
            IF n = 0 THEN <<>>
            ELSE IF Live(s[n])
            THEN Append(f[n - 1], [item |-> s[n], version |-> version[s[n]]])
            ELSE f[n - 1]]

LEMMA DrawsOne ==
  ASSUME NEW s, NEW m \in Nat, NEW f, Draws(f, s, m)
  PROVE  \E g : Draws(g, s, m + 1)
<1> DEFINE last == IF Live(s[m + 1])
                   THEN Append(f[m], [item |-> s[m + 1], version |-> version[s[m + 1]]])
                   ELSE f[m]
           g == [n \in 0 .. m + 1 |-> IF n = m + 1 THEN last ELSE f[n]]
<1>1. DOMAIN f = 0 .. m
  BY DEF Draws
<1>2. ASSUME NEW n \in 0 .. m + 1
      PROVE  g[n] = IF n = 0 THEN <<>>
                    ELSE IF Live(s[n])
                    THEN Append(g[n - 1], [item |-> s[n], version |-> version[s[n]]])
                    ELSE g[n - 1]
  <2>1. CASE n = 0
    <3>1. f[0] = <<>>
      BY DEF Draws
    <3>2. g[0] = f[0]
      OBVIOUS
    <3> QED
      BY <2>1, <3>1, <3>2
  <2>2. CASE n = m + 1
    <3>1. g[n] = last /\ g[n - 1] = f[m] /\ n # 0
      BY <2>2
    <3> QED
      BY <3>1, <2>2
  <2>3. CASE n \in 1 .. m
    <3>1. g[n] = f[n] /\ g[n - 1] = f[n - 1] /\ n # 0
      BY <2>3
    <3>2. f[n] = IF Live(s[n])
                 THEN Append(f[n - 1], [item |-> s[n], version |-> version[s[n]]])
                 ELSE f[n - 1]
      <4>1. n \in 0 .. m /\ n # 0
        BY <2>3
      <4>2. \A k \in 0 .. m :
               f[k] = IF k = 0 THEN <<>>
                      ELSE IF Live(s[k])
                      THEN Append(f[k - 1],
                                  [item |-> s[k], version |-> version[s[k]]])
                      ELSE f[k - 1]
        BY DEF Draws
      <4> QED
        BY <4>1, <4>2
    <3> HIDE DEF g
    <3> QED
      BY <3>1, <3>2
  <2> QED
    BY <2>1, <2>2, <2>3
<1>3. DOMAIN g = 0 .. m + 1
  OBVIOUS
<1>4. g = [n \in 0 .. m + 1 |-> g[n]]
  OBVIOUS
<1> HIDE DEF g
<1>5. Draws(g, s, m + 1)
  BY <1>2, <1>3, <1>4 DEF Draws
<1> QED
  BY <1>5

LEMMA DrawsAll ==
  ASSUME NEW s, NEW m \in Nat
  PROVE  \E f : Draws(f, s, m)
<1> DEFINE T == {n \in Nat : ~ \E f : Draws(f, s, n)}
<1>1. SUFFICES T = {}
  BY <1>1
<1>2. SUFFICES ASSUME T # {} PROVE FALSE
  BY <1>2
<1>3. PICK n \in T : \A k \in T : n <= k
  BY <1>2, Least
<1>4. CASE n = 0
  <2> DEFINE f == [k \in 0 .. 0 |-> <<>>]
  <2>1. Draws(f, s, 0)
    BY DEF Draws
  <2> QED
    BY <1>4, <2>1
<1>5. CASE n # 0
  <2>1. n - 1 \in Nat /\ n - 1 \notin T
    BY <1>3, <1>5
  <2>2. PICK f : Draws(f, s, n - 1)
    BY <2>1
  <2>3. (n - 1) + 1 = n
    BY <1>5
  <2>4. \E g : Draws(g, s, n)
    BY <2>1, <2>2, <2>3, DrawsOne
  <2> QED
    BY <2>4
<1> QED
  BY <1>4, <1>5

\* What is drawn is a paper, of live items in the versions they have.
LEMMA DrawIsPaper ==
  ASSUME NEW s \in Seq(Items), version \in [Items -> Nat]
  PROVE  Draw(s) \in Paper
<1> DEFINE g == CHOOSE f : Draws(f, s, Len(s))
<1>1. Len(s) \in Nat
  OBVIOUS
<1>2. Draws(g, s, Len(s))
  BY <1>1, DrawsAll
<1>3. Draw(s) = g[Len(s)]
  BY DEF Draw, Draws
<1> HIDE DEF g
<1> DEFINE T == {n \in 0 .. Len(s) : g[n] \notin Paper}
<1>4. SUFFICES T = {}
  BY <1>1, <1>3, <1>4
<1>5. SUFFICES ASSUME T # {} PROVE FALSE
  BY <1>5
<1>6. PICK n \in T : \A k \in T : n <= k
  <2>1. T \subseteq Nat
    BY <1>1
  <2> HIDE DEF T
  <2> QED
    BY <1>5, <2>1, Least
<1>9. n \in 0 .. Len(s) /\ g[n] \notin Paper
  BY <1>6
<1>7. CASE n = 0
  <2>1. g[0] = <<>>
    BY <1>1, <1>2 DEF Draws
  <2> QED
    BY <1>7, <2>1, <1>9 DEF Paper
<1>8. CASE n # 0
  <2>1. n - 1 \in 0 .. Len(s) /\ n \in 1 .. Len(s) /\ n - 1 \notin T
    BY <1>6, <1>8
  <2>2. g[n - 1] \in Paper
    BY <2>1
  <2>3. s[n] \in Items
    BY <2>1
  <2>4. g[n] = IF Live(s[n])
               THEN Append(g[n - 1], [item |-> s[n], version |-> version[s[n]]])
               ELSE g[n - 1]
    BY <2>1, <1>2, <1>8 DEF Draws
  <2>5. CASE Live(s[n])
    <3>1. version[s[n]] \in Nat \ {0}
      BY <2>3, <2>5 DEF Live
    <3>2. [item |-> s[n], version |-> version[s[n]]]
             \in [item : Items, version : Nat \ {0}]
      BY <2>3, <3>1
    <3>3. Append(g[n - 1], [item |-> s[n], version |-> version[s[n]]]) \in Paper
      BY <2>2, <3>2 DEF Paper
    <3> QED
      BY <2>4, <2>5, <3>3, <1>9
  <2> QED
    BY <2>2, <2>4, <2>5, <1>9
<1> QED
  BY <1>7, <1>8


-----------------------------------------------------------------------------
(* What a step makes of the requests. *)

\* d is what a step has made of c: the same request, no more watched than before.
Kin(c, d) ==
    /\ DOMAIN d = CallFieldNames
    /\ d.n = c.n /\ d.op = c.op /\ d.session = c.session /\ d.scope = c.scope
    /\ d.body = c.body /\ d.kept = c.kept
    /\ {d.live, d.pending, d.loaded, d.served, d.ok} \subseteq BOOLEAN
    /\ d.live => c.live
    /\ d.pending => c.pending
    /\ c.served => d = c
    /\ d.served => d.pending
    /\ d.pending => d.live
    /\ d.seen \in Counters
    /\ d.loaded => ~d.served /\ d.op \in {"answer", "bulk", "finish"}
    /\ d.loaded /\ c.loaded => d.seen = c.seen

\* f is what a step makes of the requests it keeps; N holds the one it sends.
Effect(f, N) ==
    /\ DOMAIN f \subseteq calls /\ calls' = {f[c] : c \in DOMAIN f} \cup N
    /\ \A c \in DOMAIN f : Kin(c, f[c])
    /\ N = {} \/ \E d : N = {d}
    /\ \A d \in N : d.live /\ d.pending /\ ~d.served /\ ~d.loaded
    /\ clicks' \in Nat /\ clicks <= clicks'
    /\ N # {} => UNCHANGED server

\* What it makes of the tables: sessions are added, counted or completed, and
\* rows come from one request, which is answered or dropped, of a session that
\* is not completed, but for one that two requests were served in at once.
Tables(f) ==
    /\ sessions' \in Seq(SessionType) /\ Len(sessions) <= Len(sessions')
    /\ \A s \in DOMAIN sessions :
          sessions[s].status = "completed" => sessions'[s].status = "completed"
    /\ responses \subseteq responses' /\ responses' \subseteq RowType
    /\ IsFiniteSet(responses') /\ raced \subseteq raced'
    /\ \A r, q \in responses' \ responses : r.item = q.item => r = q
    /\ \A r \in responses' \ responses :
          \E c \in calls :
             /\ Grades(c) /\ ~c.served /\ (c \in DOMAIN f => f[c].served)
             /\ r.via = c.op /\ r.session = c.session /\ r.item \in DOMAIN c.body
             /\ c.session \notin raced => sessions[c.session].status # "completed"

LEMMA SelfKin ==
  ASSUME NEW c, CallGood(c)
  PROVE  Kin(c, c)
BY DEF CallGood, Kin

LEMMA UnwatchedKin ==
  ASSUME NEW c, CallGood(c), ~c.served
  PROVE  /\ Kin(c, [c EXCEPT !.pending = FALSE])
         /\ Kin(c, [c EXCEPT !.live = FALSE, !.pending = FALSE])
BY DEF CallGood, Kin, CallFieldNames

\* Requests kept as they are, but for those dropped.
LEMMA Identity ==
  ASSUME \A c \in calls : CallGood(c), NEW K, K \subseteq calls
  PROVE  LET f == [c \in K |-> c]
         IN  /\ DOMAIN f \subseteq calls /\ {f[c] : c \in DOMAIN f} = K
             /\ \A c \in DOMAIN f : Kin(c, f[c]) /\ f[c] = c
BY SelfKin

LEMMA ServerStays ==
  ASSUME TableInv, UNCHANGED server, NEW f
  PROVE  Tables(f)
<1>1. Len(sessions) \in Nat
  BY DEF TableInv
<1> QED
  BY <1>1 DEF TableInv, server, Tables

\* A request is loaded only by the server: otherwise what was read is what is held.
LEMMA CountsStay ==
  ASSUME TableInv, NEW f, NEW N, Effect(f, N), UNCHANGED server,
         \A c \in DOMAIN f : f[c].loaded => c.loaded
  PROVE  CountInv'
<1>1. sessions' = sessions /\ responses' = responses /\ raced' = raced
  BY DEF server
<1>2. ASSUME NEW d \in calls', d.loaded
      PROVE  \E c \in DOMAIN f : /\ c \in calls /\ c.loaded /\ d = f[c]
                                 /\ d.seen = c.seen /\ d.session = c.session
  BY <1>2 DEF Effect, Kin
<1>3. ASSUME NEW d \in calls', d.loaded
      PROVE  LoadedOK(d)'
  <2>1. PICK c \in calls : c.loaded /\ d.seen = c.seen /\ d.session = c.session
    BY <1>2, <1>3
  <2>2. LoadedOK(c)
    BY <2>1 DEF TableInv, CountInv
  <2> QED
    BY <1>1, <2>1, <2>2 DEF LoadedOK
<1>4. ASSUME NEW d \in calls', NEW e \in calls', d.loaded, e.loaded,
             d.session = e.session, d.session \notin raced
      PROVE  d = e
  <2>1. PICK c \in calls : c.loaded /\ d = f[c] /\ d.session = c.session
    BY <1>2, <1>4
  <2>2. PICK b \in calls : b.loaded /\ e = f[b] /\ e.session = b.session
    BY <1>2, <1>4
  <2>3. c = b
    BY <1>4, <2>1, <2>2 DEF TableInv, CountInv
  <2> QED
    BY <2>1, <2>2, <2>3
<1>5. \A s \in DOMAIN sessions' : CountedIn(s)'
  BY <1>1 DEF TableInv, CountInv, CountedIn
<1> QED
  BY <1>1, <1>3, <1>4, <1>5 DEF TableInv, CountInv

\* The rows of one request differ in the question.
LEMMA RowsEffect ==
  ASSUME NEW c, IsFiniteSet(DOMAIN c.body)
  PROVE  /\ IsFiniteSet(Rows(c))
         /\ \A r, q \in Rows(c) : r.item = q.item => r = q
         /\ \A r \in Rows(c) : /\ r.via = c.op /\ r.session = c.session
                               /\ r.item \in DOMAIN c.body
                               /\ r.id = Cardinality({q.id : q \in responses}) + 1
         /\ {r.item : r \in Rows(c)} = DOMAIN c.body
<1>0. PICK m : m = Cardinality({r.id : r \in responses}) + 1
  OBVIOUS
<1> DEFINE row == [i \in DOMAIN c.body |->
                      [id |-> m, via |-> c.op, session |-> c.session, item |-> i,
                       kind |-> Kind(i, c.body[i].mark)]]
<1>1. Rows(c) = {row[i] : i \in DOMAIN row} /\ DOMAIN row = DOMAIN c.body
  BY <1>0 DEF Rows
<1>2. \A i \in DOMAIN c.body :
         /\ row[i].item = i /\ row[i].via = c.op /\ row[i].session = c.session
         /\ row[i].id = m
  OBVIOUS
<1> HIDE DEF row
<1>3. IsFiniteSet(Rows(c))
  BY <1>1, Images
<1>4. \A r \in Rows(c) : r.item \in DOMAIN c.body /\ r = row[r.item]
  BY <1>1, <1>2
<1>5. \A r \in Rows(c) : /\ r.via = c.op /\ r.session = c.session
                        /\ r.id = m
  BY <1>2, <1>4
<1>6. \A r, q \in Rows(c) : r.item = q.item => r = q
  BY <1>4
<1>7. {r.item : r \in Rows(c)} = DOMAIN c.body
  BY <1>1, <1>2, <1>4
<1> HIDE DEF row
<1> QED
  BY <1>0, <1>3, <1>4, <1>5, <1>6, <1>7

LEMMA RowsTyped ==
  ASSUME TableInv, NEW c \in calls, Grades(c)
  PROVE  Rows(c) \subseteq RowType
<1>1. /\ c.op \in {"answer", "bulk"} /\ DOMAIN c.body \subseteq Items
      /\ c.session \in 1 .. Len(sessions) /\ Len(sessions) \in Nat
  BY DEF TableInv, CallGood, Grades
<1>2. Cardinality({r.id : r \in responses}) \in Nat
  <2> DEFINE g == [r \in responses |-> r.id]
  <2>1. {g[r] : r \in DOMAIN g} = {r.id : r \in responses} /\ DOMAIN g = responses
    OBVIOUS
  <2> HIDE DEF g
  <2>2. IsFiniteSet({r.id : r \in responses})
    BY <2>1, Images DEF TableInv
  <2> QED
    BY <2>2, FS_CardinalityType
<1>3. c.session \in 1 .. MaxSessions
  <2>1. Started = Len(sessions) + Cardinality({d \in calls : d.op = "start" /\ ~d.served})
    BY DEF Started
  <2>2. Cardinality({d \in calls : d.op = "start" /\ ~d.served}) \in Nat
    BY FS_Subset, FS_CardinalityType DEF TableInv
  <2>3. MaxSessions \in Nat
    BY ExamAssumption
  <2> QED
    BY <1>1, <2>1, <2>2, <2>3 DEF TableInv
<1>4. \A m : \A i \in Items : Kind(i, m) \in Kinds
  BY DEF Kind, Kinds
<1> QED
  BY <1>1, <1>2, <1>3, <1>4 DEF Rows, RowType


LEMMA Reflexive == \A n \in Nat : n <= n
OBVIOUS

LEMMA SendEffect ==
  ASSUME TableInv, NEW done, NEW op, NEW s, NEW scope, NEW body,
         Send(done, op, s, scope, body), UNCHANGED server
  PROVE  LET f == [c \in calls \ done |-> c]
         IN  Effect(f, {Call(op, s, scope, body)}) /\ Tables(f)
<1> DEFINE f == [c \in calls \ done |-> c]
           d == Call(op, s, scope, body)
<1>1. /\ DOMAIN f \subseteq calls /\ {f[c] : c \in DOMAIN f} = calls \ done
      /\ \A c \in DOMAIN f : Kin(c, f[c])
  BY Identity DEF TableInv
<1>2. calls' = {f[c] : c \in DOMAIN f} \cup {d}
  BY <1>1 DEF Send
<1>3. d.live /\ d.pending /\ ~d.served /\ ~d.loaded
  BY DEF Call
<1>4. clicks' \in Nat /\ clicks <= clicks'
  BY DEF Send, TableInv
<1>5. Tables(f)
  BY ServerStays
<1> HIDE DEF f, d
<1>6. Effect(f, {d})
  BY <1>1, <1>2, <1>3, <1>4 DEF Effect
<1> QED
  BY <1>5, <1>6 DEF f, d

LEMMA DropEffect ==
  ASSUME TableInv, NEW done, calls' = calls \ done, clicks' = clicks,
         UNCHANGED server
  PROVE  LET f == [c \in calls \ done |-> c]
         IN  Effect(f, {}) /\ Tables(f)
<1> DEFINE f == [c \in calls \ done |-> c]
<1>1. /\ DOMAIN f \subseteq calls /\ {f[c] : c \in DOMAIN f} = calls \ done
      /\ \A c \in DOMAIN f : Kin(c, f[c])
  BY Identity DEF TableInv
<1>2. calls' = {f[c] : c \in DOMAIN f} \cup {}
  BY <1>1
<1>3. clicks' \in Nat /\ clicks <= clicks'
  BY DEF TableInv
<1>4. Tables(f)
  BY ServerStays
<1> HIDE DEF f
<1>5. Effect(f, {})
  BY <1>1, <1>2, <1>3 DEF Effect
<1> QED
  BY <1>4, <1>5 DEF f

\* The page watches none, or one less, of them.
LEMMA GivenUpEffect ==
  ASSUME TableInv, NEW c \in calls, clicks' = clicks, UNCHANGED server,
         calls' = (calls \ {c})
                    \cup {d \in {[c EXCEPT !.pending = FALSE]} : ~c.served}
  PROVE  LET f == [d \in IF c.served THEN calls \ {c} ELSE calls |->
                      IF d = c THEN [c EXCEPT !.pending = FALSE] ELSE d]
         IN  Effect(f, {}) /\ Tables(f)
<1> DEFINE f == [d \in IF c.served THEN calls \ {c} ELSE calls |->
                    IF d = c THEN [c EXCEPT !.pending = FALSE] ELSE d]
<1>1. CallGood(c) /\ \A d \in calls : CallGood(d)
  BY DEF TableInv
<1>2. \A d \in DOMAIN f : d \in calls /\ Kin(d, f[d])
  BY <1>1, SelfKin, UnwatchedKin
<1>3. calls' = {f[d] : d \in DOMAIN f}
  <2>1. CASE c.served
    <3>1. calls' = calls \ {c} /\ DOMAIN f = calls \ {c}
      BY <2>1
    <3>2. \A d \in DOMAIN f : f[d] = d
      BY <3>1
    <3> HIDE DEF f
    <3> QED
      BY <3>1, <3>2
  <2>2. CASE ~c.served
    <3> DEFINE e == [c EXCEPT !.pending = FALSE]
    <3>1. calls' = (calls \ {c}) \cup {e}
      BY <2>2
    <3>2. DOMAIN f = calls /\ f[c] = e
      BY <2>2
    <3>3. \A d \in calls : d # c => f[d] = d
      BY <2>2
    <3> HIDE DEF f, e
    <3> QED
      BY <3>1, <3>2, <3>3
  <2> QED
    BY <2>1, <2>2, <1>1
<1>4. Tables(f)
  BY ServerStays
<1>0. clicks \in Nat
  BY Zenon DEF TableInv
<1>6. clicks' \in Nat /\ clicks <= clicks'
  BY Zenon, <1>0, Reflexive
<1> HIDE DEF f
<1>7. calls' = {f[d] : d \in DOMAIN f} \cup {}
  BY <1>3
<1>5. Effect(f, {})
  BY <1>2, <1>6, <1>7 DEF Effect
<1> QED
  BY <1>4, <1>5 DEF f

LEMMA LeaveEffect ==
  ASSUME TableInv, clicks' = clicks, UNCHANGED server,
         calls' = {[c EXCEPT !.live = FALSE, !.pending = FALSE] :
                      c \in {d \in calls : ~d.served}}
  PROVE  LET f == [c \in {d \in calls : ~d.served} |->
                      [c EXCEPT !.live = FALSE, !.pending = FALSE]]
         IN  Effect(f, {}) /\ Tables(f)
<1> DEFINE f == [c \in {d \in calls : ~d.served} |->
                    [c EXCEPT !.live = FALSE, !.pending = FALSE]]
<1>1. \A d \in calls : CallGood(d)
  BY DEF TableInv
<1>2. \A d \in DOMAIN f : d \in calls /\ Kin(d, f[d])
  BY <1>1, UnwatchedKin
<1>3. calls' = {f[d] : d \in DOMAIN f}
  OBVIOUS
<1>4. Tables(f)
  BY ServerStays
<1>0. clicks \in Nat
  BY Zenon DEF TableInv
<1>6. clicks' \in Nat /\ clicks <= clicks'
  BY Zenon, <1>0, Reflexive
<1> HIDE DEF f
<1>7. calls' = {f[d] : d \in DOMAIN f} \cup {}
  BY <1>3
<1>5. Effect(f, {})
  BY <1>2, <1>6, <1>7 DEF Effect
<1> QED
  BY <1>4, <1>5 DEF f

\* What becomes of a request that is served.
ServedAs(c, ok, reply) ==
    [d \in IF c.pending THEN calls ELSE calls \ {c} |->
        IF d = c THEN [c EXCEPT !.loaded = FALSE, !.seen = Zero, !.served = TRUE,
                                !.ok = ok, !.reply = reply]
        ELSE d]

\* A request the page no longer watches is then gone.
SaidTo(c, ok, reply) ==
    [c EXCEPT !.loaded = FALSE, !.seen = Zero, !.served = TRUE, !.ok = ok,
              !.reply = reply]

LEMMA AnsweredEffect ==
  ASSUME TableInv, NEW c \in calls, ~c.served, NEW ok \in BOOLEAN, NEW reply,
         Answered(c, ok, reply), clicks' = clicks
  PROVE  LET f == ServedAs(c, ok, reply)
         IN  /\ Effect(f, {})
             /\ c \in DOMAIN f =>
                   /\ f[c].served /\ f[c].ok = ok /\ f[c].reply = reply
                   /\ ~f[c].loaded
             /\ \A d \in DOMAIN f : d # c => f[d] = d
             /\ \A d \in Waiting : d \in DOMAIN f /\ f[d] \in Waiting'
<1> DEFINE f == ServedAs(c, ok, reply)
<1>1. CallGood(c) /\ \A d \in calls : CallGood(d)
  BY DEF TableInv
<1>2. /\ DOMAIN f = (IF c.pending THEN calls ELSE calls \ {c})
      /\ \A d \in DOMAIN f : f[d] = IF d = c THEN SaidTo(c, ok, reply) ELSE d
  BY DEF ServedAs, SaidTo
<1>3. c \in DOMAIN f => /\ Kin(c, f[c]) /\ f[c].served /\ f[c].ok = ok
                        /\ f[c].reply = reply /\ ~f[c].loaded
  <2> SUFFICES ASSUME c \in DOMAIN f
               PROVE  /\ Kin(c, f[c]) /\ f[c].served /\ f[c].ok = ok
                      /\ f[c].reply = reply /\ ~f[c].loaded
    OBVIOUS
  <2>1. f[c] = SaidTo(c, ok, reply)
    BY <1>2
  <2>2. c.pending
    BY <1>2
  <2>3. PICK e : e = f[c]
    OBVIOUS
  <2> HIDE DEF f
  <2>4. /\ Kin(c, e) /\ e.served = TRUE /\ e.ok = ok /\ e.reply = reply
        /\ e.loaded = FALSE
    <3>1. Zero \in Counters
      BY DEF Zero, Counters
    <3>2. CallGood(c) /\ e = SaidTo(c, ok, reply)
      BY <1>1, <2>1, <2>3
    <3> QED
      BY <2>2, <3>1, <3>2 DEF CallGood, Kin, CallFieldNames, SaidTo
  <2> QED
    BY <2>3, <2>4
<1>4. \A d \in DOMAIN f : d \in calls /\ Kin(d, f[d])
  BY <1>1, <1>2, <1>3, SelfKin
<1>5. calls' = {f[d] : d \in DOMAIN f}
  <2> HIDE DEF f
  <2>1. CASE c.pending
    <3>1. calls' = (calls \ {c}) \cup {f[c]}
      BY <2>1, <1>2 DEF Answered, SaidTo
    <3> QED
      BY <2>1, <1>2, <3>1
  <2>2. CASE ~c.pending
    <3>1. calls' = calls \ {c}
      BY <2>2 DEF Answered
    <3> QED
      BY <2>2, <1>2, <3>1
  <2> QED
    BY <2>1, <2>2, <1>1 DEF CallGood
<1> HIDE DEF f
<1>6. Effect(f, {})
  BY <1>4, <1>5 DEF Effect, TableInv
<1>7. ASSUME NEW d \in Waiting
      PROVE  d \in DOMAIN f /\ f[d] \in Waiting'
  <2>1. d \in calls /\ d.live /\ d.pending
    BY DEF Waiting
  <2>2. d \in DOMAIN f
    BY <1>2, <2>1
  <2>3. f[d].live /\ f[d].pending
    BY <1>2, <1>3, <2>1, <2>2 DEF Kin
  <2> QED
    BY <1>5, <2>2, <2>3 DEF Waiting
<1> QED
  BY <1>2, <1>3, <1>6, <1>7 DEF f


-----------------------------------------------------------------------------
(* What holds of the requests and the rows after such a step. *)

LEMMA EffectKin ==
  ASSUME NEW f, NEW N, Effect(f, N), NEW d \in calls'
  PROVE  d \in N \/ \E c \in DOMAIN f : c \in calls /\ d = f[c] /\ Kin(c, d)
BY DEF Effect

LEMMA UntouchedStays ==
  ASSUME NEW f, NEW N, Effect(f, N), Tables(f), NEW s, Untouched(s),
         \A d \in N : Grades(d) => d.session # s
  PROVE  Untouched(s)'
<1>1. ASSUME NEW d \in calls', Grades(d)
      PROVE  d.session # s
  <2>1. CASE d \in N
    BY <2>1, <1>1
  <2>2. ASSUME NEW c \in calls, Kin(c, d)
        PROVE  d.session # s
    BY <2>2, <1>1 DEF Kin, Grades, Untouched
  <2> QED
    BY <2>1, <2>2, EffectKin
<1>2. ASSUME NEW r \in responses'
      PROVE  r.session # s
  <2>1. CASE r \in responses
    BY <2>1 DEF Untouched
  <2>2. CASE r \notin responses
    <3>1. PICK c \in calls : Grades(c) /\ r.session = c.session
      <4>1. r \in responses' \ responses
        BY <2>2
      <4>2. \E c \in calls :
               /\ Grades(c) /\ ~c.served /\ (c \in DOMAIN f => f[c].served)
               /\ r.via = c.op /\ r.session = c.session /\ r.item \in DOMAIN c.body
        BY <4>1 DEF Tables
      <4> QED
        BY <4>2
    <3> QED
      BY <3>1 DEF Untouched
  <2> QED
    BY <2>1, <2>2
<1> QED
  BY <1>1, <1>2 DEF Untouched, Grades

LEMMA NoBatchStays ==
  ASSUME NEW f, NEW N, Effect(f, N), Tables(f), NEW s, NoBatch(s),
         \A d \in N : d.op = "bulk" => d.session # s
  PROVE  NoBatch(s)'
<1>1. ASSUME NEW d \in calls', d.op = "bulk"
      PROVE  d.session # s
  <2>1. CASE d \in N
    BY <2>1, <1>1
  <2>2. ASSUME NEW c \in calls, Kin(c, d)
        PROVE  d.session # s
    BY <2>2, <1>1 DEF Kin, NoBatch
  <2> QED
    BY <2>1, <2>2, EffectKin
<1>2. ASSUME NEW r \in responses', r.via = "bulk"
      PROVE  r.session # s
  BY <1>2 DEF Tables, NoBatch
<1> QED
  BY <1>1, <1>2 DEF NoBatch

\* A reply that is there stays what it is.
LEMMA ReportStaysTrue ==
  ASSUME TableInv, NEW f, Tables(f), NEW s \in DOMAIN sessions, NEW report,
         sessions[s].status = "completed", ReportTrue(s, report)
  PROVE  ReportTrue(s, report)' /\ sessions'[s].status = "completed"
<1>1. responses \subseteq responses' /\ IsFiniteSet(responses') /\ raced \subseteq raced'
      /\ sessions'[s].status = "completed"
  BY DEF Tables
<1>2. ASSUME NEW k \in Kinds
      PROVE  /\ report.count[k] <= Num(responses', s, k)
             /\ s \notin raced' =>
                   /\ report.count[k] = Num(responses', s, k)
                   /\ report.scored[k] = report.count[k]
  <2>1. /\ Num(responses, s, k) \in Nat /\ Num(responses', s, k) \in Nat
        /\ Num(responses, s, k) <= Num(responses', s, k)
    BY <1>1, NumGrows
  <2>2. report.count[k] \in Nat
    BY DEF ReportTrue, Counters
  <2>3. report.count[k] <= Num(responses', s, k)
    BY <2>1, <2>2 DEF ReportTrue
  <2>4. ASSUME s \notin raced'
        PROVE  Num(responses', s, k) = Num(responses, s, k)
    <3>1. \A r \in responses' \ responses : r.session # s
      BY <1>1, <2>4 DEF Tables
    <3> QED
      BY <1>1, <3>1, NumSame
  <2> QED
    BY <1>1, <2>3, <2>4 DEF ReportTrue
<1> QED
  BY <1>1, <1>2 DEF ReportTrue

LEMMA ReplyStays ==
  ASSUME TableInv, NEW f, NEW N, Effect(f, N), Tables(f),
         NEW c \in calls, c.served, c.ok,
         c.op = "start" => \A d \in N : Grades(d) => d.session # c.reply.session
  PROVE  ReplyGood(c)'
<1>1. CallGood(c) /\ ReplyGood(c)
  BY DEF TableInv, CallGood
<1>2. /\ DOMAIN sessions = 1 .. Len(sessions) /\ DOMAIN sessions' = 1 .. Len(sessions')
      /\ Len(sessions) \in Nat /\ Len(sessions') \in Nat
      /\ Len(sessions) <= Len(sessions')
  BY DEF TableInv, Tables
<1>3. CASE c.op = "start"
  <2>1. c.reply.session \in DOMAIN sessions'
    BY <1>1, <1>2, <1>3 DEF ReplyGood
  <2>2. ASSUME NEW s, s = c.reply.session
        PROVE  Untouched(s)'
    BY <2>2, <1>1, <1>3, UntouchedStays DEF ReplyGood
  <2>3. Untouched(c.reply.session)'
    BY <2>2 DEF Untouched
  <2> QED
    BY <1>3, <2>1, <2>3 DEF ReplyGood, Grades
<1>4. CASE c.op = "paper"
  BY <1>4, <1>1 DEF ReplyGood, Grades
<1>5. CASE Grades(c)
  BY <1>5, <1>1 DEF ReplyGood, Grades, Tables
<1>6. CASE c.op = "finish"
  <2>1. c.session \in DOMAIN sessions
    BY <1>1, <1>2, <1>6 DEF CallGood
  <2>2. sessions[c.session].status = "completed"
    BY <1>1, <1>6 DEF ReplyGood
  <2>3. ReportTrue(c.session, c.reply.report)
    BY <1>1, <1>6 DEF ReplyGood
  <2>4. PICK s, report : s = c.session /\ report = c.reply.report
    OBVIOUS
  <2>5. ReportTrue(s, report)' /\ sessions'[s].status = "completed"
    BY <2>1, <2>2, <2>3, <2>4, ReportStaysTrue
  <2> QED
    BY <1>6, <2>4, <2>5 DEF ReplyGood, ReportTrue, Grades
<1> QED
  BY <1>1, <1>3, <1>4, <1>5, <1>6 DEF CallGood, Ops, Grades

LEMMA CallsStayGood ==
  ASSUME TableInv, NEW f, NEW N, Effect(f, N), Tables(f),
         \A c \in calls : c.served /\ c.ok /\ c.op = "start" =>
            \A d \in N : Grades(d) => d.session # c.reply.session,
         \A d \in N : CallGood(d)',
         \A c \in DOMAIN f : ~c.served /\ f[c].served /\ f[c].ok => ReplyGood(f[c])'
  PROVE  (\A d \in calls' : CallGood(d)') /\ IsFiniteSet(calls')
<1>1. ASSUME NEW d \in calls'
      PROVE  CallGood(d)'
  <2>1. CASE d \in N
    BY <2>1
  <2>2. ASSUME NEW c \in DOMAIN f, c \in calls, d = f[c], Kin(c, d)
        PROVE  CallGood(d)'
    <3>1. CallGood(c)
      BY <2>2 DEF TableInv
    <3>2. d.served /\ d.ok => ReplyGood(d)'
      <4>1. CASE c.served
        <5>1. d = c
          BY <4>1, <2>2 DEF Kin
        <5> QED
          BY <5>1, <4>1, <2>2, ReplyStays
      <4>2. CASE ~c.served
        BY <4>2, <2>2
      <4> QED
        BY <4>1, <4>2
    <3>3. c.session \in 0 .. Len(sessions')
      <4>1. Len(sessions) \in Nat /\ Len(sessions') \in Nat
            /\ Len(sessions) <= Len(sessions') /\ c.session \in 0 .. Len(sessions)
        BY <3>1 DEF TableInv, Tables, CallGood
      <4> QED
        BY <4>1
    <3>4. c.n \in Nat /\ c.n <= clicks'
      <4>1. clicks \in Nat /\ clicks' \in Nat /\ clicks <= clicks' /\ c.n \in Nat
            /\ c.n <= clicks
        BY <3>1 DEF TableInv, Effect, CallGood
      <4> QED
        BY <4>1
    <3>5. /\ c.op \in Ops /\ (c.op # "start" => c.session # 0)
          /\ (c.op = "start" => c.scope \in Scopes)
          /\ (Grades(c) => DOMAIN c.body \subseteq Items /\ IsFiniteSet(DOMAIN c.body))
      BY <3>1 DEF CallGood
    <3> QED
      BY <2>2, <3>2, <3>3, <3>4, <3>5 DEF CallGood, Kin, Grades
  <2> QED
    BY <2>1, <2>2, EffectKin
<1>2. IsFiniteSet({f[c] : c \in DOMAIN f})
  <2>1. IsFiniteSet(DOMAIN f)
    BY FS_Subset DEF TableInv, Effect
  <2> QED
    BY <2>1, Images
<1>3. IsFiniteSet(calls')
  <2>1. calls' = {f[c] : c \in DOMAIN f} \cup N /\ (N = {} \/ \E d : N = {d})
    BY DEF Effect
  <2>2. IsFiniteSet(N)
    BY <2>1, FS_EmptySet, FS_Singleton
  <2> QED
    BY <1>2, <2>1, <2>2, FS_Union
<1> QED
  BY <1>1, <1>3

\* The start requests on their way to the server.
StartsUnserved == {c \in calls : c.op = "start" /\ ~c.served}

LEMMA StartsCounted ==
  ASSUME TableInv
  PROVE  /\ IsFiniteSet(StartsUnserved) /\ Cardinality(StartsUnserved) \in Nat
         /\ Started = Len(sessions) + Cardinality(StartsUnserved)
         /\ Len(sessions) \in Nat /\ Started \in Nat
<1>1. IsFiniteSet(StartsUnserved)
  BY FS_Subset DEF TableInv, StartsUnserved
<1>2. Cardinality(StartsUnserved) \in Nat
  BY <1>1, FS_CardinalityType
<1>3. Len(sessions) \in Nat
  BY DEF TableInv
<1>4. Started = Len(sessions) + Cardinality(StartsUnserved)
  BY DEF Started, StartsUnserved
<1> QED
  BY <1>1, <1>2, <1>3, <1>4

LEMMA StartsStay ==
  ASSUME TableInv, NEW f, NEW N, Effect(f, N), \A d \in N : d.op # "start"
  PROVE  /\ IsFiniteSet(StartsUnserved')
         /\ Cardinality(StartsUnserved') <= Cardinality(StartsUnserved)
         /\ Cardinality(StartsUnserved') \in Nat
         /\ \A c \in StartsUnserved :
               c \notin DOMAIN f \/ f[c].served =>
                  Cardinality(StartsUnserved') <= Cardinality(StartsUnserved) - 1
<1> DEFINE K == {c \in DOMAIN f : c \in StartsUnserved /\ ~f[c].served}
           g == [c \in K |-> f[c]]
<1>1. StartsUnserved' = {g[c] : c \in DOMAIN g}
  <2>1. ASSUME NEW d \in StartsUnserved'
        PROVE  d \in {g[c] : c \in DOMAIN g}
    <3>1. d \in calls' /\ d.op = "start" /\ ~d.served
      BY DEF StartsUnserved
    <3>2. PICK c \in DOMAIN f : c \in calls /\ d = f[c] /\ Kin(c, d)
      BY <3>1, EffectKin
    <3>3. c.op = "start" /\ ~c.served
      BY <3>1, <3>2 DEF Kin
    <3>4. c \in K
      BY <3>1, <3>2, <3>3 DEF StartsUnserved
    <3> QED
      BY <3>2, <3>4
  <2>2. ASSUME NEW c \in K
        PROVE  g[c] \in StartsUnserved'
    <3>1. f[c] \in calls' /\ Kin(c, f[c])
      BY DEF Effect
    <3> QED
      BY <3>1 DEF Kin, StartsUnserved
  <2> QED
    BY <2>1, <2>2
<1>2. K \subseteq StartsUnserved /\ DOMAIN g = K
  OBVIOUS
<1>3. IsFiniteSet(K) /\ Cardinality(K) <= Cardinality(StartsUnserved)
  BY <1>2, StartsCounted, FS_Subset
<1> HIDE DEF g
<1>4. IsFiniteSet(StartsUnserved') /\ Cardinality(StartsUnserved') <= Cardinality(K)
  BY <1>1, <1>2, <1>3, Images
<1>5. /\ Cardinality(StartsUnserved') \in Nat /\ Cardinality(K) \in Nat
      /\ Cardinality(StartsUnserved) \in Nat
  BY <1>3, <1>4, StartsCounted, FS_CardinalityType
<1>6. ASSUME NEW c \in StartsUnserved, c \notin DOMAIN f \/ f[c].served
      PROVE  Cardinality(StartsUnserved') <= Cardinality(StartsUnserved) - 1
  <2>1. K \subseteq StartsUnserved \ {c}
    BY <1>6
  <2> HIDE DEF K
  <2>2. /\ IsFiniteSet(StartsUnserved \ {c})
        /\ Cardinality(StartsUnserved \ {c}) = Cardinality(StartsUnserved) - 1
    BY StartsCounted, FS_RemoveElement
  <2>3. Cardinality(K) <= Cardinality(StartsUnserved \ {c})
    BY <2>1, <2>2, FS_Subset
  <2> QED
    BY <1>4, <1>5, <2>2, <2>3
<1> HIDE DEF K
<1> QED
  BY <1>3, <1>4, <1>5, <1>6


-----------------------------------------------------------------------------
(* What serving a request does. *)

\* The requests after a step that is an effect, the reply it brings included.
Served(f) ==
    /\ Effect(f, {}) /\ Tables(f)
    /\ \A d \in DOMAIN f : ~d.served /\ f[d].served /\ f[d].ok => ReplyGood(f[d])'
    /\ Started' <= Started /\ CountInv'
    /\ \A d \in Waiting : d \in DOMAIN f /\ f[d] \in Waiting'

LEMMA Updating ==
  ASSUME NEW s \in Seq(SessionType), NEW k \in DOMAIN s, NEW e \in SessionType,
         NEW t, t = [s EXCEPT ![k] = e]
  PROVE  /\ t \in Seq(SessionType) /\ Len(t) = Len(s) /\ DOMAIN t = DOMAIN s
         /\ t[k] = e /\ \A j \in DOMAIN s : j # k => t[j] = s[j]
<1>1. DOMAIN t = 1 .. Len(s) /\ DOMAIN s = 1 .. Len(s) /\ Len(s) \in Nat
  OBVIOUS
<1>2. \A j \in 1 .. Len(s) : t[j] \in SessionType
  BY <1>1
<1>3. t \in [1 .. Len(s) -> SessionType]
  BY <1>1, <1>2
<1>4. t \in Seq(SessionType) /\ Len(t) = Len(s)
  BY <1>1, <1>3
<1> QED
  BY <1>1, <1>4

\* The counters, when a request is answered and what is counted is the same.
LEMMA AnsweredCounts ==
  ASSUME TableInv, NEW c \in calls, NEW f, Effect(f, {}), UNCHANGED server,
         c \in DOMAIN f => ~f[c].loaded, \A d \in DOMAIN f : d # c => f[d] = d
  PROVE  CountInv'
<1>1. \A d \in DOMAIN f : f[d].loaded => d.loaded
  OBVIOUS
<1> QED
  BY <1>1, CountsStay

LEMMA StartedLess ==
  ASSUME TableInv, NEW f, Effect(f, {}), Tables(f), Len(sessions') = Len(sessions)
  PROVE  Started' <= Started
<1>1. /\ Cardinality(StartsUnserved') <= Cardinality(StartsUnserved)
      /\ Cardinality(StartsUnserved') \in Nat
  BY StartsStay
<1>2. Started' = Len(sessions') + Cardinality(StartsUnserved')
  BY DEF Started, StartsUnserved
<1> QED
  BY <1>1, <1>2, StartsCounted

LEMMA StartEffect ==
  ASSUME TableInv, NEW c \in calls, ~c.served, clicks' = clicks, ServeStart(c)
  PROVE  \E f : Served(f)
<1> DEFINE reply == [NoReply EXCEPT !.session = Len(sessions) + 1]
           new == [status |-> "in_progress", scope |-> c.scope, count |-> Zero,
                   scored |-> Zero]
<1>1. /\ c.op = "start" /\ c.scope \in Scopes /\ Len(sessions) \in Nat
      /\ sessions' = Append(sessions, new) /\ responses' = responses
      /\ raced' = raced
      /\ sessions \in Seq(SessionType)
  BY DEF ServeStart, TableInv, CallGood
<1>2. reply.session = Len(sessions) + 1
  BY DEF NoReply
<1>3. Answered(c, TRUE, reply)
  BY DEF ServeStart
<1>4. new \in SessionType /\ new.count = Zero /\ new.status = "in_progress"
  BY <1>1 DEF SessionType, Counters, Zero
<1> HIDE DEF reply, new
<1>0. PICK f : f = ServedAs(c, TRUE, reply)
  OBVIOUS
<1>5. /\ Effect(f, {})
      /\ c \in DOMAIN f => /\ f[c].served /\ f[c].ok = TRUE /\ f[c].reply = reply
                           /\ ~f[c].loaded
      /\ \A d \in DOMAIN f : d # c => f[d] = d
      /\ \A d \in Waiting : d \in DOMAIN f /\ f[d] \in Waiting'
  BY <1>0, <1>3, AnsweredEffect
<1>7. /\ sessions' \in Seq(SessionType) /\ Len(sessions') = Len(sessions) + 1
      /\ \A s \in DOMAIN sessions : sessions'[s] = sessions[s]
      /\ sessions'[Len(sessions) + 1] = new
      /\ DOMAIN sessions' = DOMAIN sessions \cup {Len(sessions) + 1}
  BY <1>1, <1>4
<1>8. Tables(f)
  BY <1>1, <1>7 DEF Tables, TableInv
<1>9. PICK s : s = Len(sessions) + 1
  OBVIOUS
<1>10. Untouched(s)'
  <2>1. \A d \in calls : d.session \in 0 .. Len(sessions)
    BY DEF TableInv, CallGood
  <2>2. \A r \in responses : r.session \in 1 .. Len(sessions)
    BY DEF TableInv
  <2>3. Untouched(s)
    BY <2>1, <2>2, <1>1, <1>9 DEF Untouched
  <2> QED
    BY <2>3, <1>5, <1>8, UntouchedStays
<1>11. ASSUME NEW d \in DOMAIN f, ~d.served, f[d].served
       PROVE  ReplyGood(f[d])'
  <2>1. d = c
    BY <1>5, <1>11
  <2>2. f[d].reply.session = s /\ f[d].op = "start"
    BY <2>1, <1>1, <1>2, <1>5, <1>9 DEF Effect, Kin
  <2>3. s \in DOMAIN sessions'
    BY <1>1, <1>7, <1>9
  <2> QED
    BY <2>2, <2>3, <1>10 DEF ReplyGood, Grades, Untouched
<1>12. Started' <= Started
  <2>1. c \in StartsUnserved
    BY <1>1 DEF StartsUnserved
  <2>2. c \notin DOMAIN f \/ f[c].served
    BY <1>5
  <2>3. /\ Cardinality(StartsUnserved') <= Cardinality(StartsUnserved) - 1
        /\ Cardinality(StartsUnserved') \in Nat
    BY <2>1, <2>2, <1>5, StartsStay
  <2>4. Started' = Len(sessions') + Cardinality(StartsUnserved')
    BY DEF Started, StartsUnserved
  <2> QED
    BY <2>3, <2>4, <1>7, StartsCounted
<1>13. CountInv'
  <2>1. ASSUME NEW k \in Kinds
        PROVE  Num(responses, s, k) = 0
    <3>1. {r \in responses : r.session = s /\ r.kind = k} = {}
      BY <1>1, <1>9 DEF TableInv
    <3> QED
      BY <3>1, FS_EmptySet DEF Num
  <2>2. CountedIn(s)'
    <3>1. \A k \in Kinds : new.count[k] = 0
      BY <1>4 DEF Zero
    <3>2. sessions'[s] = new
      BY <1>7, <1>9
    <3> QED
      BY <1>1, <1>4, <2>1, <3>1, <3>2 DEF CountedIn
  <2>3. ASSUME NEW j \in DOMAIN sessions
        PROVE  CountedIn(j)'
    BY <1>1, <1>7 DEF TableInv, CountInv, CountedIn
  <2>4. ASSUME NEW d \in calls', d.loaded
        PROVE  d \in calls
    BY <1>5, <2>4 DEF Effect
  <2>5. ASSUME NEW d \in calls', d.loaded
        PROVE  LoadedOK(d)'
    <3>1. LoadedOK(d) /\ d \in calls
      BY <2>4, <2>5 DEF TableInv, CountInv
    <3>2. d.session \in DOMAIN sessions
      <4>1. d.session \in 0 .. Len(sessions) /\ d.session # 0
        BY <3>1, <2>5 DEF TableInv, CallGood
      <4> QED
        BY <4>1, <1>1
    <3> QED
      BY <1>1, <1>7, <3>1, <3>2 DEF LoadedOK
  <2>6. raced' \subseteq DOMAIN sessions'
    BY <1>1, <1>7 DEF TableInv, CountInv
  <2>7. \A j \in DOMAIN sessions' : CountedIn(j)'
    BY <1>7, <1>9, <2>2, <2>3 DEF CountedIn
  <2>8. \E n \in Nat : {r.id : r \in responses'} = 1 .. n
    BY <1>1 DEF TableInv, CountInv
  <2>9. \A d, e \in calls' :
           d.loaded /\ e.loaded /\ d.session = e.session /\ d.session \notin raced'
              => d = e
    BY <1>1, <2>4 DEF TableInv, CountInv
  <2> QED
    BY <2>5, <2>6, <2>7, <2>8, <2>9 DEF CountInv
<1> QED
  BY <1>5, <1>8, <1>11, <1>12, <1>13 DEF Served

LEMMA PaperEffect ==
  ASSUME TableInv, BankInv, NEW c \in calls, ~c.served, clicks' = clicks, ServePaper(c)
  PROVE  \E f : Served(f)
<1> DEFINE ok == Open(c.session)
           reply == [NoReply EXCEPT !.items = Draw(sessions[c.session].scope)]
<1>1. /\ c.op = "paper" /\ c.session \in DOMAIN sessions /\ UNCHANGED server
      /\ sessions[c.session].scope \in Scopes
  <2>1. c.op = "paper" /\ UNCHANGED server
    BY DEF ServePaper
  <2>2. c.session \in 0 .. Len(sessions) /\ c.session # 0
    BY <2>1 DEF TableInv, CallGood
  <2>3. sessions \in Seq(SessionType) /\ c.session \in 1 .. Len(sessions)
    BY <2>2 DEF TableInv
  <2>4. sessions[c.session] \in SessionType
    BY <2>3
  <2> QED
    BY <2>1, <2>3, <2>4 DEF SessionType
<1>2. reply.items = Draw(sessions[c.session].scope)
  BY DEF NoReply
<1>3. reply.items \in Paper
  <2>1. version \in [Items -> Nat]
    BY DEF BankInv
  <2>2. sessions[c.session].scope \in Seq(Items)
    BY <1>1, ExamAssumption
  <2> QED
    BY <1>2, <2>1, <2>2, DrawIsPaper
<1>4. Answered(c, ok, reply) /\ ok \in BOOLEAN
  BY DEF ServePaper, Open
<1> HIDE DEF reply, ok
<1>0. PICK f : f = ServedAs(c, ok, reply)
  OBVIOUS
<1>5. /\ Effect(f, {})
      /\ c \in DOMAIN f => /\ f[c].served /\ f[c].ok = ok /\ f[c].reply = reply
                           /\ ~f[c].loaded
      /\ \A d \in DOMAIN f : d # c => f[d] = d
      /\ \A d \in Waiting : d \in DOMAIN f /\ f[d] \in Waiting'
  BY <1>0, <1>4, AnsweredEffect
<1>6. Tables(f)
  BY <1>1, ServerStays
<1>7. ASSUME NEW d \in DOMAIN f, ~d.served, f[d].served
      PROVE  ReplyGood(f[d])'
  <2>1. d = c
    BY <1>5, <1>7
  <2>2. f[d].reply.items \in Paper /\ f[d].op = "paper"
    BY <2>1, <1>1, <1>3, <1>5 DEF Effect, Kin
  <2> QED
    BY <2>2 DEF ReplyGood, Grades
<1>8. Started' <= Started
  BY <1>1, <1>5, <1>6, StartedLess DEF server
<1>9. CountInv'
  BY <1>1, <1>5, AnsweredCounts
<1> QED
  BY <1>5, <1>6, <1>7, <1>8, <1>9 DEF Served


LEMMA SessionOf ==
  ASSUME TableInv, NEW c \in calls, c.op # "start"
  PROVE  /\ c.session \in DOMAIN sessions /\ sessions[c.session] \in SessionType
         /\ sessions \in Seq(SessionType) /\ DOMAIN sessions = 1 .. Len(sessions)
         /\ Len(sessions) \in Nat
<1>1. /\ sessions \in Seq(SessionType)
      /\ c.session \in 0 .. Len(sessions) /\ c.session # 0
  BY DEF TableInv, CallGood
<1>2. c.session \in 1 .. Len(sessions)
  BY <1>1
<1> QED
  BY <1>1, <1>2

\* A request whose session is loaded.
LEMMA LoadEffect ==
  ASSUME TableInv, NEW c \in calls, ~c.served, clicks' = clicks, Load(c), ~c.loaded,
         c.op \in {"answer", "bulk", "finish"}, Open(c.session)
  PROVE  \E f : Served(f)
<1> DEFINE e == [c EXCEPT !.loaded = TRUE, !.seen = sessions[c.session].count]
<1>1. PICK f : f = [d \in calls |-> IF d = c THEN e ELSE d]
  OBVIOUS
<1>2. /\ sessions' = sessions /\ responses' = responses
      /\ calls' = (calls \ {c}) \cup {e}
  BY DEF Load
<1>3. c.session \in DOMAIN sessions /\ sessions[c.session].count \in Counters
  BY SessionOf DEF SessionType
<1>4. /\ Kin(c, e) /\ e.loaded = TRUE /\ e.seen = sessions[c.session].count
      /\ e.session = c.session /\ e.served = FALSE /\ e.live = c.live
      /\ e.pending = c.pending
  <2>1. CallGood(c)
    BY DEF TableInv
  <2> QED
    BY <1>3, <2>1 DEF CallGood, Kin, CallFieldNames
<1> HIDE DEF e
<1>5. DOMAIN f = calls /\ f[c] = e /\ \A d \in calls : d # c => f[d] = d
  BY <1>1
<1>6. Effect(f, {})
  <2>1. \A d \in DOMAIN f : Kin(d, f[d])
    BY <1>4, <1>5, SelfKin DEF TableInv
  <2>2. calls' = {f[d] : d \in DOMAIN f}
    BY <1>2, <1>5
  <2> QED
    BY <1>5, <2>1, <2>2 DEF Effect, TableInv
<1>7. raced' = raced \cup {d.session : d \in {b \in calls : b.loaded
                                                 /\ b.session = c.session}}
  BY DEF Load
<1>8. raced \subseteq raced' /\ raced' \subseteq raced \cup {c.session}
      /\ \A d \in calls : d.loaded /\ d.session = c.session => c.session \in raced'
  BY <1>7
<1>9. Tables(f)
  <2>1. Len(sessions) \in Nat
    BY SessionOf
  <2> QED
    BY <1>2, <1>8, <2>1 DEF Tables, TableInv
<1>10. \A d \in DOMAIN f : ~d.served => ~f[d].served
  BY <1>4, <1>5
<1>11. Started' <= Started
  BY <1>2, <1>6, <1>9, StartedLess
<1>12. CountInv'
  <2>1. CountInv
    BY DEF TableInv
  <2>2. ASSUME NEW d \in calls', d.loaded, d # e
        PROVE  d \in calls /\ d # c
    BY <1>2, <2>2
  <2>3. ASSUME NEW d \in calls', d.loaded
        PROVE  LoadedOK(d)'
    <3>1. CASE d = e
      <4>1. CountedIn(c.session)
        BY <1>3, <2>1 DEF CountInv
      <4>2. sessions[c.session].status # "completed"
        BY DEF Open
      <4> QED
        BY <1>2, <1>4, <3>1, <4>1, <4>2 DEF LoadedOK, CountedIn
    <3>2. CASE d # e
      <4>1. LoadedOK(d)
        BY <2>1, <2>2, <2>3, <3>2 DEF CountInv
      <4> QED
        BY <1>2, <1>8, <4>1 DEF LoadedOK
    <3> QED
      BY <3>1, <3>2
  <2>4. ASSUME NEW d \in calls', NEW b \in calls', d.loaded, b.loaded,
               d.session = b.session, d.session \notin raced'
        PROVE  d = b
    <3>1. CASE d # e /\ b # e
      BY <1>8, <2>1, <2>2, <2>4, <3>1 DEF CountInv
    <3>2. CASE d = e /\ b # e
      BY <1>4, <1>8, <2>2, <2>4, <3>2
    <3>3. CASE d # e /\ b = e
      BY <1>4, <1>8, <2>2, <2>4, <3>3
    <3> QED
      BY <3>1, <3>2, <3>3
  <2>5. \A s \in DOMAIN sessions : CountedIn(s)'
    BY <1>2, <1>8, <2>1 DEF CountInv, CountedIn
  <2>6. raced' \subseteq DOMAIN sessions'
    BY <1>2, <1>3, <1>8, <2>1 DEF CountInv
  <2> QED
    BY <1>2, <2>1, <2>3, <2>4, <2>5, <2>6 DEF CountInv
<1>13. ASSUME NEW d \in Waiting
       PROVE  d \in DOMAIN f /\ f[d] \in Waiting'
  <2>1. d \in calls /\ f[d] \in calls'
    BY <1>2, <1>5 DEF Waiting
  <2> QED
    BY <2>1, <1>4, <1>5 DEF Waiting
<1> QED
  BY <1>6, <1>9, <1>10, <1>11, <1>12, <1>13 DEF Served

\* A request that is refused, or whose session was finished before.
LEMMA NothingEffect ==
  ASSUME TableInv, NEW c \in calls, ~c.served, clicks' = clicks, UNCHANGED server,
         NEW ok \in BOOLEAN, NEW reply, Answered(c, ok, reply),
         ok => \A e : e.op = c.op /\ e.session = c.session /\ e.reply = reply
                         => ReplyGood(e)'
  PROVE  \E f : Served(f)
<1>1. PICK f : f = ServedAs(c, ok, reply)
  OBVIOUS
<1>2. /\ Effect(f, {})
      /\ c \in DOMAIN f => /\ f[c].served /\ f[c].ok = ok /\ f[c].reply = reply
                           /\ ~f[c].loaded
      /\ \A d \in DOMAIN f : d # c => f[d] = d
      /\ \A d \in Waiting : d \in DOMAIN f /\ f[d] \in Waiting'
  BY <1>1, AnsweredEffect
<1>3. Tables(f)
  BY ServerStays
<1>4. ASSUME NEW d \in DOMAIN f, ~d.served, f[d].served, f[d].ok
      PROVE  ReplyGood(f[d])'
  <2>1. d = c
    BY <1>2, <1>4
  <2>2. f[d].op = c.op /\ f[d].session = c.session
    BY <2>1, <1>2 DEF Effect, Kin
  <2> QED
    BY <1>2, <1>4, <2>1, <2>2
<1>5. Started' <= Started
  BY <1>2, <1>3, StartedLess DEF server
<1>6. CountInv'
  BY <1>2, AnsweredCounts
<1> QED
  BY <1>2, <1>3, <1>4, <1>5, <1>6 DEF Served

LEMMA RefusedEffect ==
  ASSUME TableInv, NEW c \in calls, ~c.served, clicks' = clicks, UNCHANGED server,
         Answered(c, FALSE, NoReply)
  PROVE  \E f : Served(f)
<1>1. PICK ok \in BOOLEAN : ok = FALSE
  OBVIOUS
<1>2. Answered(c, ok, NoReply)
  BY <1>1
<1> QED
  BY <1>1, <1>2, NothingEffect

LEMMA FinishedEffect ==
  ASSUME TableInv, NEW c \in calls, ~c.served, clicks' = clicks, LoadFinish(c),
         ~Open(c.session)
  PROVE  \E f : Served(f)
<1> DEFINE report == Report(c.session, sessions[c.session].scored)
           reply == [NoReply EXCEPT !.report = report]
<1>1. c.op = "finish" /\ Answered(c, TRUE, reply) /\ UNCHANGED server
  BY DEF LoadFinish
<1>2. reply.report = report
  BY DEF NoReply
<1>3. /\ sessions[c.session].status = "completed" /\ CountedIn(c.session)
      /\ sessions[c.session].count \in Counters
      /\ sessions[c.session].scored \in Counters
  BY <1>1, SessionOf DEF SessionType, Open, TableInv, CountInv
<1>4. ReportTrue(c.session, report)
  BY <1>3 DEF ReportTrue, Report, CountedIn
<1>5. PICK s, rp : s = c.session /\ rp = report
  OBVIOUS
<1>6. ReportTrue(s, rp)' /\ sessions'[s].status = "completed"
  BY <1>1, <1>3, <1>4, <1>5 DEF ReportTrue, server
<1> HIDE DEF reply, report
<1>7. ASSUME NEW e, e.op = c.op, e.session = c.session, e.reply = reply
      PROVE  ReplyGood(e)'
  BY <1>1, <1>2, <1>5, <1>6, <1>7 DEF ReplyGood, Grades, ReportTrue
<1>8. PICK ok \in BOOLEAN : ok = TRUE
  OBVIOUS
<1>9. Answered(c, ok, reply)
  BY <1>1, <1>8
<1> QED
  BY <1>1, <1>7, <1>9, NothingEffect

LEMMA GradeEffect ==
  ASSUME TableInv, NEW c \in calls, ~c.served, clicks' = clicks, CommitAnswers(c)
  PROVE  \E f : Served(f)
<1> DEFINE reply == [NoReply EXCEPT !.rows = Rows(c)]
           e == [sessions[c.session] EXCEPT !.count = Counted(c)]
<1>1. /\ Grades(c) /\ c.op \in {"answer", "bulk"} /\ c.loaded /\ CallGood(c)
      /\ Answered(c, TRUE, reply) /\ responses' = responses \cup Rows(c)
      /\ raced' = raced /\ sessions' = [sessions EXCEPT ![c.session] = e]
  BY DEF CommitAnswers, Grades, TableInv
<1>2. reply.rows = Rows(c)
  BY DEF NoReply
<1> HIDE DEF reply
<1>3. PICK f : f = ServedAs(c, TRUE, reply)
  OBVIOUS
<1>4. /\ Effect(f, {})
      /\ c \in DOMAIN f => /\ f[c].served /\ f[c].ok = TRUE /\ f[c].reply = reply
                           /\ ~f[c].loaded
      /\ \A d \in DOMAIN f : d # c => f[d] = d
      /\ \A d \in Waiting : d \in DOMAIN f /\ f[d] \in Waiting'
  BY <1>1, <1>3, AnsweredEffect
<1>5. /\ IsFiniteSet(Rows(c))
      /\ \A r, q \in Rows(c) : r.item = q.item => r = q
      /\ \A r \in Rows(c) : /\ r.via = c.op /\ r.session = c.session
                            /\ r.item \in DOMAIN c.body
                            /\ r.id = Cardinality({q.id : q \in responses}) + 1
      /\ {r.item : r \in Rows(c)} = DOMAIN c.body
  BY <1>1, RowsEffect DEF CallGood
<1>6. Rows(c) \subseteq RowType
  BY <1>1, RowsTyped
<1>7. PICK n \in Nat : {r.id : r \in responses} = 1 .. n
  BY DEF TableInv, CountInv
<1>8. \A r \in Rows(c) : r.id = n + 1
  <2>1. Cardinality(1 .. n) = n
    BY FS_Interval
  <2> QED
    BY <1>5, <1>7, <2>1
<1>9. responses \cap Rows(c) = {}
  <2>1. \A r \in responses : r.id \in 1 .. n
    BY <1>7
  <2> QED
    BY <1>8, <2>1
<1>10. Tally(Rows(c)) \in Counters /\ Counted(c) \in Counters /\ c.seen \in Counters
  <2>1. Tally(Rows(c)) \in Counters
    BY <1>5, TallyNat
  <2>2. c.seen \in Counters
    BY <1>1 DEF CallGood
  <2> QED
    BY <2>1, <2>2 DEF Counted, Counters
<1>11. /\ c.session \in DOMAIN sessions /\ sessions[c.session] \in SessionType
       /\ sessions \in Seq(SessionType) /\ Len(sessions) \in Nat
  BY <1>1, SessionOf
<1>12. /\ e \in SessionType /\ e.count = Counted(c)
       /\ e.status = sessions[c.session].status
       /\ e.scored = sessions[c.session].scored
  BY <1>10, <1>11 DEF SessionType
<1> HIDE DEF e
<1>13. /\ sessions' \in Seq(SessionType) /\ Len(sessions') = Len(sessions)
       /\ DOMAIN sessions' = DOMAIN sessions /\ sessions'[c.session] = e
       /\ \A j \in DOMAIN sessions : j # c.session => sessions'[j] = sessions[j]
  BY <1>1, <1>11, <1>12, Updating
<1>14. LoadedOK(c)
  BY <1>1 DEF TableInv, CountInv
<1>15. IsFiniteSet(responses') /\ responses' \subseteq RowType
  BY <1>1, <1>5, <1>6, FS_Union DEF TableInv
<1>16. Tables(f)
  <2>1. \A s \in DOMAIN sessions :
           sessions[s].status = "completed" => sessions'[s].status = "completed"
    BY <1>12, <1>13
  <2>2. \A r \in responses' \ responses :
           /\ r.via = c.op /\ r.session = c.session /\ r.item \in DOMAIN c.body
           /\ r \in Rows(c)
    BY <1>1, <1>5
  <2>3. c.session \notin raced => sessions[c.session].status # "completed"
    BY <1>14 DEF LoadedOK
  <2>4. \A r, q \in responses' \ responses : r.item = q.item => r = q
    BY <2>2, <1>5
  <2>5. Len(sessions) <= Len(sessions') /\ responses \subseteq responses'
        /\ raced \subseteq raced'
    BY <1>1, <1>11, <1>13
  <2>6. c \in DOMAIN f => f[c].served
    BY <1>4
  <2> QED
    BY <1>1, <1>13, <1>15, <2>1, <2>2, <2>3, <2>4, <2>5, <2>6 DEF Tables
<1>17. ASSUME NEW d \in DOMAIN f, ~d.served, f[d].served
       PROVE  ReplyGood(f[d])'
  <2>1. d = c
    BY <1>4, <1>17
  <2>2. /\ f[d].reply.rows = Rows(c) /\ f[d].op = c.op /\ f[d].session = c.session
        /\ f[d].body = c.body
    BY <2>1, <1>2, <1>4 DEF Effect, Kin
  <2>3. Rows(c) \subseteq responses'
    BY <1>1
  <2> QED
    BY <2>2, <2>3, <1>1, <1>5 DEF ReplyGood, Grades
<1>18. Started' <= Started
  BY <1>4, <1>13, <1>16, StartedLess
<1>19. CountInv'
  <2>1. CountInv
    BY DEF TableInv
  <2>2. ASSUME NEW k \in Kinds
        PROVE  /\ Num(responses', c.session, k)
                     = Num(responses, c.session, k) + Tally(Rows(c))[k]
               /\ e.count[k] = c.seen[k] + Tally(Rows(c))[k]
               /\ Num(responses, c.session, k) \in Nat /\ c.seen[k] \in Nat
               /\ Tally(Rows(c))[k] \in Nat
    <3>1. Num(responses \cup Rows(c), c.session, k)
             = Num(responses, c.session, k) + Tally(Rows(c))[k]
      <4>1. PICK A : A = Rows(c)
        OBVIOUS
      <4>2. IsFiniteSet(A) /\ responses \cap A = {}
        BY <1>5, <1>9, <4>1
      <4>3. \A r \in A : r.session = c.session
        BY <1>5, <4>1
      <4>4. IsFiniteSet(responses)
        BY DEF TableInv
      <4>5. Num(responses \cup A, c.session, k)
               = Num(responses, c.session, k) + Tally(A)[k]
        BY <4>2, <4>3, <4>4, NumAdds
      <4> QED
        BY <4>1, <4>5
    <3>2. Num(responses, c.session, k) \in Nat
      BY NumGrows DEF TableInv
    <3> QED
      BY <1>1, <1>10, <1>12, <3>1, <3>2 DEF Counted, Counters
  <2>3. ASSUME NEW s \in DOMAIN sessions, s # c.session, NEW k \in Kinds
        PROVE  Num(responses', s, k) = Num(responses, s, k)
    <3>1. /\ responses \subseteq responses'
          /\ \A r \in responses' \ responses : r.session # s
      BY <1>1, <1>5, <2>3
    <3> QED
      BY <3>1, NumSame
  <2>4. ASSUME NEW s \in DOMAIN sessions
        PROVE  CountedIn(s)'
    <3>1. CASE s = c.session
      <4>1. ASSUME NEW k \in Kinds
            PROVE  /\ e.count[k] <= Num(responses', s, k)
                   /\ s \notin raced =>
                         /\ e.count[k] = Num(responses', s, k)
                         /\ e.status # "completed"
        <5>1. c.seen[k] <= Num(responses, s, k)
          BY <1>14, <3>1 DEF LoadedOK
        <5>2. s \notin raced => /\ c.seen[k] = Num(responses, s, k)
                                /\ e.status # "completed"
          BY <1>12, <1>14, <2>1, <2>4, <3>1 DEF LoadedOK, CountInv, CountedIn
        <5> QED
          BY <2>2, <3>1, <5>1, <5>2
      <4> QED
        BY <1>1, <1>13, <3>1, <4>1 DEF CountedIn
    <3>2. CASE s # c.session
      <4>1. sessions'[s] = sessions[s] /\ raced' = raced
        BY <1>1, <1>13, <3>2
      <4>2. \A k \in Kinds : Num(responses', s, k) = Num(responses, s, k)
        BY <2>3, <3>2
      <4>3. CountedIn(s)
        BY <2>1 DEF CountInv
      <4> QED
        BY <4>1, <4>2, <4>3 DEF CountedIn
    <3> QED
      BY <3>1, <3>2
  <2>5. ASSUME NEW d \in calls', d.loaded
        PROVE  d \in calls /\ d # c
    BY <1>4, <2>5 DEF Effect
  <2>6. ASSUME NEW d \in calls', d.loaded
        PROVE  LoadedOK(d)'
    <3>1. d \in calls /\ d # c /\ LoadedOK(d)
      BY <2>1, <2>5, <2>6 DEF CountInv
    <3>2. d.session \in DOMAIN sessions
      BY <2>6, <3>1, SessionOf DEF TableInv, CallGood
    <3>3. CASE d.session = c.session
      <4>1. d.session \in raced
        BY <1>1, <2>1, <2>6, <3>1, <3>3 DEF CountInv
      <4>2. ASSUME NEW k \in Kinds
            PROVE  d.seen[k] <= Num(responses', d.session, k)
        <5>1. d.seen[k] <= Num(responses, d.session, k) /\ d.seen[k] \in Nat
          BY <3>1 DEF LoadedOK, TableInv, CallGood, Counters
        <5> QED
          BY <2>2, <3>3, <5>1
      <4> QED
        BY <1>1, <4>1, <4>2 DEF LoadedOK
    <3>4. CASE d.session # c.session
      BY <1>1, <1>13, <2>3, <3>1, <3>2, <3>4 DEF LoadedOK
    <3> QED
      BY <3>3, <3>4
  <2>7. \E m \in Nat : {r.id : r \in responses'} = 1 .. m
    <3>1. CASE Rows(c) = {}
      BY <1>1, <1>7, <3>1
    <3>2. CASE Rows(c) # {}
      <4>1. {r.id : r \in responses'} = {r.id : r \in responses} \cup {n + 1}
        BY <1>1, <1>8, <3>2
      <4>2. {r.id : r \in responses'} = 1 .. n + 1
        BY <1>7, <4>1
      <4> QED
        BY <4>2
    <3> QED
      BY <3>1, <3>2
  <2>8. \A d, b \in calls' :
           d.loaded /\ b.loaded /\ d.session = b.session /\ d.session \notin raced'
              => d = b
    BY <1>1, <2>1, <2>5 DEF CountInv
  <2>9. raced' \subseteq DOMAIN sessions'
    BY <1>1, <1>13, <2>1 DEF CountInv
  <2>10. \A s \in DOMAIN sessions' : CountedIn(s)'
    BY <1>13, <2>4
  <2> QED
    BY <2>6, <2>7, <2>8, <2>9, <2>10 DEF CountInv
<1> QED
  BY <1>4, <1>16, <1>17, <1>18, <1>19 DEF Served

LEMMA FinishEffect ==
  ASSUME TableInv, NEW c \in calls, ~c.served, clicks' = clicks, CommitFinish(c)
  PROVE  \E f : Served(f)
<1> DEFINE report == Report(c.session, c.seen)
           reply == [NoReply EXCEPT !.report = report]
           e == [sessions[c.session] EXCEPT !.status = "completed", !.scored = c.seen]
<1>1. /\ c.op = "finish" /\ c.loaded /\ Answered(c, TRUE, reply) /\ CallGood(c)
      /\ responses' = responses /\ raced' = raced
  BY DEF CommitFinish, TableInv
<1>2. sessions' = [sessions EXCEPT ![c.session] = e]
  BY SessionOf DEF CommitFinish
<1>3. /\ c.session \in DOMAIN sessions /\ sessions[c.session] \in SessionType
      /\ sessions \in Seq(SessionType) /\ Len(sessions) \in Nat
  BY <1>1, SessionOf
<1>4. /\ e \in SessionType /\ e.status = "completed" /\ e.scored = c.seen
      /\ e.count = sessions[c.session].count
  BY <1>1, <1>3 DEF SessionType, CallGood
<1>5. reply.report = report
  BY DEF NoReply
<1>6. /\ report \in [count : Counters, scored : Counters]
      /\ report.count = sessions[c.session].count /\ report.scored = c.seen
  BY <1>1, <1>3 DEF Report, SessionType, CallGood
<1> HIDE DEF reply, report, e
<1>7. PICK f : f = ServedAs(c, TRUE, reply)
  OBVIOUS
<1>8. /\ Effect(f, {})
      /\ c \in DOMAIN f => /\ f[c].served /\ f[c].ok = TRUE /\ f[c].reply = reply
                           /\ ~f[c].loaded
      /\ \A d \in DOMAIN f : d # c => f[d] = d
      /\ \A d \in Waiting : d \in DOMAIN f /\ f[d] \in Waiting'
  BY <1>1, <1>7, AnsweredEffect
<1>9. /\ sessions' \in Seq(SessionType) /\ Len(sessions') = Len(sessions)
      /\ DOMAIN sessions' = DOMAIN sessions /\ sessions'[c.session] = e
      /\ \A j \in DOMAIN sessions : j # c.session => sessions'[j] = sessions[j]
  BY <1>2, <1>3, <1>4, Updating
<1>10. LoadedOK(c) /\ CountedIn(c.session) /\ CountInv
  BY <1>1, <1>3 DEF TableInv, CountInv
<1>11. Tables(f)
  <2>1. \A s \in DOMAIN sessions :
           sessions[s].status = "completed" => sessions'[s].status = "completed"
    BY <1>4, <1>9
  <2> QED
    BY <1>1, <1>3, <1>9, <2>1 DEF Tables, TableInv
<1>12. ASSUME NEW k \in Kinds
       PROVE  /\ e.count[k] <= Num(responses, c.session, k)
              /\ c.session \notin raced =>
                    /\ e.count[k] = Num(responses, c.session, k)
                    /\ e.scored[k] = e.count[k]
  BY <1>4, <1>10 DEF LoadedOK, CountedIn
<1>13. ASSUME NEW d \in DOMAIN f, ~d.served, f[d].served
       PROVE  ReplyGood(f[d])'
  <2>1. d = c
    BY <1>8, <1>13
  <2>2. f[d].reply.report = report /\ f[d].op = "finish" /\ f[d].session = c.session
    BY <2>1, <1>1, <1>5, <1>8 DEF Effect, Kin
  <2>3. PICK s : s = c.session
    OBVIOUS
  <2>4. sessions'[s].status = "completed"
    BY <1>4, <1>9, <2>3
  <2>5. \A k \in Kinds :
           /\ report.count[k] <= Num(responses, s, k)
           /\ s \notin raced => /\ report.count[k] = Num(responses, s, k)
                                /\ report.scored[k] = report.count[k]
    BY <1>4, <1>6, <1>12, <2>3
  <2>6. PICK rp : rp = report
    OBVIOUS
  <2>7. ReportTrue(s, rp)'
    BY <1>1, <1>6, <2>5, <2>6 DEF ReportTrue
  <2> QED
    BY <2>2, <2>3, <2>4, <2>6, <2>7 DEF ReplyGood, Grades, ReportTrue
<1>14. Started' <= Started
  BY <1>8, <1>9, <1>11, StartedLess
<1>15. CountInv'
  <2>1. ASSUME NEW s \in DOMAIN sessions
        PROVE  CountedIn(s)'
    <3>1. CASE s = c.session
      BY <1>1, <1>9, <1>12, <3>1 DEF CountedIn
    <3>2. CASE s # c.session
      BY <1>1, <1>9, <1>10, <3>2 DEF CountInv, CountedIn
    <3> QED
      BY <3>1, <3>2
  <2>2. ASSUME NEW d \in calls', d.loaded
        PROVE  d \in calls /\ d # c
    BY <1>8, <2>2 DEF Effect
  <2>3. ASSUME NEW d \in calls', d.loaded
        PROVE  LoadedOK(d)'
    <3>1. d \in calls /\ d # c /\ LoadedOK(d)
      BY <1>10, <2>2, <2>3 DEF CountInv
    <3>2. d.session \in DOMAIN sessions
      BY <2>3, <3>1, SessionOf DEF TableInv, CallGood
    <3>3. CASE d.session = c.session
      <4>1. d.session \in raced
        BY <1>1, <1>10, <2>3, <3>1, <3>3 DEF CountInv
      <4> QED
        BY <1>1, <3>1, <4>1 DEF LoadedOK
    <3>4. CASE d.session # c.session
      BY <1>1, <1>9, <3>1, <3>2, <3>4 DEF LoadedOK
    <3> QED
      BY <3>3, <3>4
  <2>4. \A d, b \in calls' :
           d.loaded /\ b.loaded /\ d.session = b.session /\ d.session \notin raced'
              => d = b
    BY <1>1, <1>10, <2>2 DEF CountInv
  <2>5. raced' \subseteq DOMAIN sessions'
    BY <1>1, <1>9, <1>10 DEF CountInv
  <2>6. \E m \in Nat : {r.id : r \in responses'} = 1 .. m
    BY <1>1, <1>10 DEF CountInv
  <2>7. \A s \in DOMAIN sessions' : CountedIn(s)'
    BY <1>9, <2>1
  <2> QED
    BY <2>3, <2>4, <2>5, <2>6, <2>7 DEF CountInv
<1> QED
  BY <1>8, <1>11, <1>13, <1>14, <1>15 DEF Served

LEMMA ServeEffect ==
  ASSUME TableInv, BankInv, NEW c \in calls, Serve(c)
  PROVE  \E f : Served(f)
<1>1. ~c.served /\ clicks' = clicks
  BY DEF Serve
<1>2. CASE LoadAnswers(c) /\ Open(c.session) /\ Gradable(c.body)
  <2>1. Load(c) /\ c.op \in {"answer", "bulk"} /\ ~c.loaded
    BY <1>2 DEF LoadAnswers
  <2> QED
    BY <1>1, <1>2, <2>1, LoadEffect
<1>3. CASE LoadAnswers(c) /\ ~(Open(c.session) /\ Gradable(c.body))
  BY <1>1, <1>3, RefusedEffect DEF LoadAnswers
<1>4. CASE LoadFinish(c) /\ Open(c.session)
  <2>1. Load(c) /\ c.op = "finish" /\ ~c.loaded
    BY <1>4 DEF LoadFinish
  <2> QED
    BY <1>1, <1>4, <2>1, LoadEffect
<1>5. CASE LoadFinish(c) /\ ~Open(c.session)
  BY <1>1, <1>5, FinishedEffect
<1> QED
  BY <1>1, <1>2, <1>3, <1>4, <1>5, StartEffect, PaperEffect, GradeEffect, FinishEffect
     DEF Serve


-----------------------------------------------------------------------------
(* The screen, and the bank. *)

LEMMA NothingDrawn ==
  <<>> \in Paper /\ Len(<<>>) = 0 /\ {<<>>[k].item : k \in DOMAIN <<>>} = {}
<1>1. <<>> \in Paper /\ Len(<<>>) = 0
  BY DEF Paper
<1> QED
  BY <1>1, NoVerdicts

LEMMA QuestionOnPaper ==
  ASSUME items \in Paper, NEW k \in DOMAIN items
  PROVE  /\ items[k].item \in Items /\ items[k].item \in PaperItems
         /\ items[k].version \in Nat /\ k \in 1 .. Len(items) /\ Len(items) \in Nat
<1>1. items \in Seq([item : Items, version : Nat \ {0}])
  BY DEF Paper
<1>0. k \in 1 .. Len(items) /\ Len(items) \in Nat
  BY <1>1
<1> DEFINE Question == [item : Items, version : Nat \ {0}]
<1> HIDE DEF Question
<1>3. items \in Seq(Question)
  BY <1>1 DEF Question
<1>4. items[k] \in Question
  BY <1>0, <1>3
<1>2. items[k] \in [item : Items, version : Nat \ {0}]
  BY <1>4 DEF Question
<1> QED
  BY <1>0, <1>2 DEF PaperItems

LEMMA ScreenStays ==
  ASSUME ScreenInv, UNCHANGED <<sessionId, items, flagged>>,
         phase' = phase \/ (phase' # "setup" /\ phase # "setup"
                              /\ phase' \in {"loading", "ready", "exam", "results"}),
         feedback' \in BOOLEAN, showReview' \in BOOLEAN,
         answers' \in [Items -> Marks],
         current' = current \/ current' \in DOMAIN items,
         failed' \subseteq {"start", "paper", "bulk", "finish"}
  PROVE  ScreenInv'
<1>1. items \in Paper /\ DOMAIN items = 1 .. Len(items) /\ Len(items) \in Nat
  BY DEF ScreenInv, Paper
<1>2. /\ current' \in 1 .. (Len(items) + 1)
      /\ items # <<>> => current' \in DOMAIN items
  BY <1>1 DEF ScreenInv
<1>3. PaperItems' = PaperItems
  BY DEF PaperItems
<1> QED
  BY <1>2, <1>3 DEF ScreenInv

LEMMA FreshScreen ==
  ASSUME FreshExam, phase' = "setup", feedback' \in BOOLEAN,
         failed' \subseteq {"start", "paper", "bulk", "finish"}
  PROVE  ScreenInv'
<1>1. answers' \in [Items -> Marks]
  BY DEF FreshExam, Marks
<1>2. items' = <<>> /\ flagged' = {} /\ current' = 1 /\ sessionId' = 0
      /\ showReview' = FALSE
  BY DEF FreshExam
<1>3. current' \in 1 .. (Len(items') + 1)
  BY <1>2, NothingDrawn
<1> QED
  BY <1>1, <1>2, <1>3, NothingDrawn DEF ScreenInv

LEMMA ChooseScreen ==
  ASSUME ScreenInv, NEW k \in DOMAIN items, NEW o \in Options, Choose(k, o)
  PROVE  answers' \in [Items -> Marks] /\ failed' \subseteq failed
<1>1. items[k].item \in Items
  BY QuestionOnPaper DEF ScreenInv
<1>2. answers \in [Items -> Marks] /\ o \in Marks /\ NoOption \in Marks
  BY DEF ScreenInv, Marks
<1>3. CASE feedback
  <2>1. answers' = [answers EXCEPT ![items[k].item] = o]
    BY <1>3 DEF Choose
  <2>2. failed' \subseteq failed
    BY <1>3 DEF Choose, Send
  <2> QED
    BY <1>1, <1>2, <2>1, <2>2
<1>4. CASE ~feedback
  <2>1. answers' = [answers EXCEPT ![items[k].item] = IF @ = o THEN NoOption ELSE o]
    BY <1>4 DEF Choose
  <2>2. failed' \subseteq failed
    BY <1>4 DEF Choose
  <2> QED
    BY <1>1, <1>2, <2>1, <2>2
<1> QED
  BY <1>3, <1>4 DEF ScreenInv

LEMMA ScreenUser ==
  ASSUME ScreenInv, User
  PROVE  ScreenInv'
<1>0. /\ answers \in [Items -> Marks] /\ feedback \in BOOLEAN /\ showReview \in BOOLEAN
      /\ failed \subseteq {"start", "paper", "bulk", "finish"}
  BY DEF ScreenInv
<1>1. CASE ToggleFeedback
  BY <1>0, <1>1, ScreenStays DEF ToggleFeedback, exam
<1>2. CASE \E scope \in Scopes : OnStart(scope)
  <2>1. failed' \subseteq failed /\ UNCHANGED <<phase, feedback, exam>>
    BY <1>2 DEF OnStart, Send
  <2> QED
    BY <1>0, <2>1, ScreenStays DEF exam
<1>3. CASE Turn
  <2>1. current' \in DOMAIN items
    <3>1. DOMAIN items = 1 .. Len(items) /\ Len(items) \in Nat
      BY DEF ScreenInv, Paper
    <3>2. CASE NextEnabled /\ current' = current + 1
      BY <3>1, <3>2 DEF NextEnabled, RunnerShown
    <3>3. CASE PrevEnabled /\ current' = current - 1
      BY <3>1, <3>3 DEF PrevEnabled, RunnerShown
    <3>4. CASE \E k \in DOMAIN items : SheetBubble(k) /\ current' = k
      BY <3>4
    <3> QED
      BY <1>3, <3>2, <3>3, <3>4 DEF Turn
  <2> QED
    BY <1>0, <1>3, <2>1, ScreenStays DEF Turn
<1>4. CASE ToggleFlag
  <2>1. RunnerShown /\ items[current].item \in Flaggable
    BY <1>4 DEF ToggleFlag
  <2>2. items[current].item \in PaperItems
    BY <2>1, QuestionOnPaper DEF RunnerShown, ScreenInv
  <2>3. flagged' \subseteq PaperItems \cap Flaggable
    BY <1>4, <2>1, <2>2 DEF ToggleFlag, ScreenInv
  <2>4. UNCHANGED <<phase, feedback, sessionId, items, answers, current, showReview,
                    failed>>
    BY <1>4 DEF ToggleFlag
  <2>5. PaperItems' = PaperItems
    BY <2>4 DEF PaperItems
  <2> QED
    BY <2>3, <2>4, <2>5 DEF ScreenInv
<1>5. CASE Review
  <2>1. current' = current \/ current' \in DOMAIN items
    BY <1>5 DEF Review
  <2>2. showReview' \in BOOLEAN
    BY <1>5 DEF Review
  <2> QED
    BY <1>0, <1>5, <2>1, <2>2, ScreenStays DEF Review
<1>6. CASE Begin
  BY <1>0, <1>6, ScreenStays DEF Begin, CoverSheetShown, exam
<1>7. CASE OnSubmitExam
  <2>1. phase = "exam" /\ phase' = "loading" /\ showReview' = FALSE
    BY <1>7 DEF OnSubmitExam, SubmitEnabled, ReviewShown, RunnerShown
  <2>2. failed' \subseteq failed
    BY <1>7 DEF OnSubmitExam, Send
  <2>3. UNCHANGED <<feedback, sessionId, items, answers, flagged, current>>
    BY <1>7 DEF OnSubmitExam
  <2> QED
    BY <1>0, <2>1, <2>2, <2>3, ScreenStays
<1>8. CASE Reset
  BY <1>0, <1>8, FreshScreen DEF Reset
<1>9. CASE Leave
  BY <1>9, FreshScreen DEF Leave
<1>10. ASSUME NEW o \in Options, ClickOption(o)
       PROVE  ScreenInv'
  <2>1. current \in DOMAIN items /\ Choose(current, o)
    BY <1>10 DEF ClickOption, RunnerShown
  <2>2. answers' \in [Items -> Marks] /\ failed' \subseteq failed
    BY <2>1, ChooseScreen
  <2>3. UNCHANGED <<phase, feedback, sessionId, items, flagged, current, showReview>>
    BY <1>10 DEF ClickOption
  <2> QED
    BY <1>0, <2>2, <2>3, ScreenStays
<1>11. ASSUME NEW k \in DOMAIN items, PickLocked(k)
       PROVE  ScreenInv'
  BY <1>0, <1>11, ScreenStays DEF PickLocked
<1>12. ASSUME NEW k \in DOMAIN items, NEW o \in Options, PickAt(k, o)
       PROVE  ScreenInv'
  <2>1. Choose(k, o)
    BY <1>12 DEF PickAt
  <2>2. answers' \in [Items -> Marks] /\ failed' \subseteq failed
    BY <2>1, ChooseScreen
  <2>3. UNCHANGED <<phase, feedback, sessionId, items, flagged, showReview>>
        /\ current' = k
    BY <1>12 DEF PickAt
  <2> QED
    BY <1>0, <2>2, <2>3, ScreenStays
<1> QED
  BY <1>1, <1>2, <1>3, <1>4, <1>5, <1>6, <1>7, <1>8, <1>9, <1>10, <1>11, <1>12 DEF User

LEMMA WaitingGood ==
  ASSUME TableInv, NEW c \in calls, c \in Waiting, c.served, c.ok
  PROVE  CallGood(c) /\ ReplyGood(c)
BY DEF TableInv, CallGood

LEMMA ScreenReply ==
  ASSUME ScreenInv, TableInv, ChainInv, NEW c \in calls, Reply(c)
  PROVE  ScreenInv'
<1>0. /\ answers \in [Items -> Marks] /\ feedback \in BOOLEAN /\ showReview \in BOOLEAN
      /\ failed \subseteq {"start", "paper", "bulk", "finish"}
  BY DEF ScreenInv
<1>1. CASE StartReplied(c)
  <2>1. c \in Waiting /\ c.op = "start" /\ c.served /\ c.ok
    BY <1>1 DEF StartReplied, Replied
  <2>2. c.reply.session \in DOMAIN sessions
    BY <2>1, WaitingGood DEF ReplyGood
  <2>3. sessionId' # 0
    <3>1. DOMAIN sessions = 1 .. Len(sessions)
      BY DEF TableInv
    <3> QED
      BY <1>1, <2>2, <3>1 DEF StartReplied
  <2>4. failed' \subseteq failed /\ phase' = "loading"
    BY <1>1 DEF StartReplied, Send
  <2>5. UNCHANGED <<feedback, items, answers, flagged, current, showReview>>
    BY <1>1 DEF StartReplied
  <2>6. PaperItems' = PaperItems
    BY <2>5 DEF PaperItems
  <2> QED
    BY <2>3, <2>4, <2>5, <2>6 DEF ScreenInv
<1>2. CASE PaperReplied(c)
  <2>1. c \in Waiting /\ c.op = "paper" /\ c.served /\ c.ok
    BY <1>2 DEF PaperReplied, Replied
  <2>2. c.reply.items \in Paper
    BY <2>1, WaitingGood DEF ReplyGood
  <2>3. phase = "loading"
    BY <2>1 DEF ChainInv
  <2>4. items' = c.reply.items /\ items' \in Paper
    BY <1>2, <2>2 DEF PaperReplied
  <2>5. /\ DOMAIN items' = 1 .. Len(items') /\ Len(items') \in Nat
        /\ items' # <<>> => Len(items') # 0
    BY <2>4 DEF Paper
  <2>6. current' = 1 /\ flagged' = {} /\ phase' \in {"ready", "exam"}
        /\ UNCHANGED <<sessionId, showReview, feedback, failed>>
    BY <1>2 DEF PaperReplied
  <2>7. answers' \in [Items -> Marks]
    BY <1>2 DEF PaperReplied, Marks
  <2>8. current' \in 1 .. Len(items') + 1 /\ (items' # <<>> => current' \in DOMAIN items')
    BY <2>5, <2>6
  <2> QED
    BY <2>3, <2>4, <2>6, <2>7, <2>8 DEF ScreenInv
<1>3. CASE AnswerReplied(c)
  BY <1>0, <1>3, ScreenStays DEF AnswerReplied
<1>4. CASE BulkReplied(c)
  <2>1. failed' \subseteq failed
    BY <1>4 DEF BulkReplied, Send
  <2> QED
    BY <1>0, <1>4, <2>1, ScreenStays DEF BulkReplied
<1>5. CASE FinishReplied(c)
  <2>1. phase = "loading"
    BY <1>5 DEF FinishReplied, Replied, ChainInv
  <2> QED
    BY <1>0, <1>5, <2>1, ScreenStays DEF FinishReplied
<1>6. CASE CallFails(c)
  <2>1. c.op \in Ops
    BY DEF TableInv, CallGood
  <2>2. failed' \subseteq {"start", "paper", "bulk", "finish"}
    BY <1>0, <1>6, <2>1 DEF CallFails, Ops
  <2> QED
    BY <1>0, <1>6, <2>2, ScreenStays DEF CallFails, exam
<1> QED
  BY <1>1, <1>2, <1>3, <1>4, <1>5, <1>6 DEF Reply

LEMMA ScreenNext ==
  ASSUME ScreenInv, TableInv, ChainInv, Next
  PROVE  ScreenInv'
<1>1. ASSUME UNCHANGED page
      PROVE  ScreenInv'
  <2>1. PaperItems' = PaperItems
    BY <1>1 DEF page, exam, PaperItems
  <2> QED
    BY <1>1, <2>1 DEF page, exam, ScreenInv
<1>2. \A c \in calls : Serve(c) \/ Lost(c) => UNCHANGED page
  BY DEF Serve, Lost
<1>3. \A i \in Items : Edit(i) => UNCHANGED page
  BY DEF Edit
<1> QED
  BY <1>1, <1>2, <1>3, ScreenUser, ScreenReply DEF Next

LEMMA BankNext ==
  ASSUME BankInv, TableInv, Next
  PROVE  BankInv'
<1>1. ASSUME faults' \in Nat, UNCHANGED bank
      PROVE  BankInv'
  BY <1>1 DEF BankInv, bank
<1>2. CASE User
  <2>1. CASE Leave
    <3>1. faults' = faults + 1 /\ UNCHANGED bank
      BY <2>1 DEF Leave
    <3> QED
      BY <1>1, <3>1 DEF BankInv
  <2>2. CASE ~Leave
    <3>1. UNCHANGED <<faults, bank>>
      BY <1>2, <2>2 DEF User, ToggleFeedback, Turn, ToggleFlag, Review, Begin,
                OnSubmitExam, Reset, OnStart, ClickOption, PickLocked, PickAt, wire
    <3> QED
      BY <1>1, <3>1 DEF BankInv
  <2> QED
    BY <2>1, <2>2
<1>3. ASSUME NEW c \in calls, Reply(c)
      PROVE  BankInv'
  <2>1. CASE CallFails(c)
    <3>1. faults' \in Nat /\ UNCHANGED bank
      BY <2>1 DEF CallFails, BankInv
    <3> QED
      BY <1>1, <3>1
  <2>2. CASE ~CallFails(c)
    <3>1. UNCHANGED <<faults, bank>>
      BY <1>3, <2>2 DEF Reply, StartReplied, PaperReplied, AnswerReplied, BulkReplied,
                        FinishReplied
    <3> QED
      BY <1>1, <3>1 DEF BankInv
  <2> QED
    BY <2>1, <2>2
<1>4. ASSUME NEW c \in calls, Serve(c) \/ Lost(c)
      PROVE  BankInv'
  <2>1. UNCHANGED <<faults, bank>>
    BY <1>4 DEF Serve, Lost
  <2> QED
    BY <1>1, <2>1 DEF BankInv
<1>5. ASSUME NEW i \in Items, Edit(i)
      PROVE  BankInv'
  <2>1. edits < MaxTrouble
    <3>1. Trouble < MaxTrouble /\ Started \in Nat /\ faults \in Nat /\ edits \in Nat
          /\ MaxTrouble \in Nat
      BY <1>5, StartsCounted, ExamAssumption DEF Edit, BankInv
    <3> QED
      BY <3>1 DEF Trouble
  <2>2. /\ edits' = edits + 1 /\ UNCHANGED faults
        /\ \/ version' = [version EXCEPT ![i] = @ + 1]
           \/ version' = [version EXCEPT ![i] = 0]
    BY <1>5 DEF Edit, wire
  <2>3. /\ version \in [Items -> 0 .. edits + 1] /\ edits \in Nat /\ faults \in Nat
        /\ MaxTrouble \in Nat
    BY ExamAssumption DEF BankInv
  <2>4. version' \in [Items -> 0 .. edits' + 1]
    BY <2>2, <2>3
  <2> QED
    BY <2>1, <2>2, <2>3, <2>4 DEF BankInv
<1> QED
  BY <1>2, <1>3, <1>4, <1>5 DEF Next


-----------------------------------------------------------------------------
(* What each part of the invariant needs of a step. *)

LEMMA TableStays ==
  ASSUME TableInv, NEW f, NEW N, Effect(f, N), Tables(f), CountInv',
         \A c \in calls : c.served /\ c.ok /\ c.op = "start" =>
            \A d \in N : Grades(d) => d.session # c.reply.session,
         \A d \in N : CallGood(d)',
         \A c \in DOMAIN f : ~c.served /\ f[c].served /\ f[c].ok => ReplyGood(f[c])',
         Started' <= MaxSessions,
         sessionId' \in 0 .. Len(sessions')
  PROVE  TableInv'
<1>1. (\A d \in calls' : CallGood(d)') /\ IsFiniteSet(calls')
  BY CallsStayGood
<1>2. ASSUME NEW r \in responses'
      PROVE  r.session \in DOMAIN sessions'
  <2>1. /\ DOMAIN sessions = 1 .. Len(sessions) /\ DOMAIN sessions' = 1 .. Len(sessions')
        /\ Len(sessions) \in Nat /\ Len(sessions') \in Nat
        /\ Len(sessions) <= Len(sessions')
    BY DEF TableInv, Tables
  <2>2. CASE r \in responses
    BY <2>1, <2>2 DEF TableInv
  <2>3. CASE r \notin responses
    <3>1. PICK c \in calls : Grades(c) /\ r.session = c.session
      BY <2>3 DEF Tables
    <3>2. c.session \in 0 .. Len(sessions) /\ c.session # 0
      BY <3>1 DEF TableInv, CallGood, Grades
    <3> QED
      BY <2>1, <3>1, <3>2
  <2> QED
    BY <2>2, <2>3
<1>3. /\ sessions' \in Seq(SessionType) /\ responses' \subseteq RowType
      /\ IsFiniteSet(responses') /\ clicks' \in Nat
  BY DEF Tables, Effect
<1> QED
  BY <1>1, <1>2, <1>3 DEF TableInv

\* Of the requests watched after a step, the page watched all but the new one.
LEMMA WaitingKin ==
  ASSUME NEW f, NEW N, Effect(f, N), NEW d \in Waiting'
  PROVE  d \in N \/ \E c \in DOMAIN f : c \in Waiting /\ d = f[c] /\ Kin(c, d)
<1>1. d \in calls' /\ d.live /\ d.pending
  BY DEF Waiting
<1>2. CASE d \notin N
  <2>1. PICK c \in DOMAIN f : c \in calls /\ d = f[c] /\ Kin(c, d)
    BY <1>1, <1>2, EffectKin
  <2> QED
    BY <2>1, <1>1 DEF Kin, Waiting
<1> QED
  BY <1>2

BatchRows ==
    /\ OneBatch
    /\ \A c, d \in calls :
          c.op = "bulk" /\ d.op = "bulk" /\ c.session = d.session => c = d
    /\ \A c \in calls : c.op = "bulk" /\ ~c.served =>
          \A r \in responses : r.via = "bulk" => r.session # c.session

LEMMA BatchStays ==
  ASSUME BatchRows, NEW f, NEW N, Effect(f, N), Tables(f),
         \A d \in N : d.op = "bulk" => NoBatch(d.session)
  PROVE  BatchRows'
<1>0. \A r \in responses' \ responses :
         \E c \in calls :
            /\ Grades(c) /\ ~c.served /\ (c \in DOMAIN f => f[c].served)
            /\ r.via = c.op /\ r.session = c.session /\ r.item \in DOMAIN c.body
  BY DEF Tables
<1>1. ASSUME NEW r \in responses', NEW q \in responses', r.via = "bulk", q.via = "bulk",
             r.session = q.session, r.item = q.item
      PROVE  r = q
  <2>1. CASE r \in responses /\ q \in responses
    BY <1>1, <2>1 DEF BatchRows, OneBatch
  <2>2. ASSUME NEW x \in responses' \ responses, NEW y \in responses,
               x.via = "bulk", y.via = "bulk", x.session = y.session
        PROVE  FALSE
    <3>1. PICK c \in calls : c.op = "bulk" /\ ~c.served /\ x.session = c.session
      BY <1>0, <2>2
    <3> QED
      BY <3>1, <2>2 DEF BatchRows
  <2>3. CASE r \notin responses /\ q \notin responses
    BY <1>1, <2>3 DEF Tables
  <2> QED
    BY <1>1, <2>1, <2>2, <2>3
<1>2. ASSUME NEW c \in calls', NEW d \in calls', c.op = "bulk", d.op = "bulk",
             c.session = d.session
      PROVE  c = d
  <2>1. CASE c \in N /\ d \in N
    BY <2>1 DEF Effect
  <2>2. ASSUME NEW x \in N, NEW y \in calls', y \notin N, x.op = "bulk", y.op = "bulk",
               x.session = y.session
        PROVE  FALSE
    <3>1. PICK z \in calls : Kin(z, y)
      BY <2>2, EffectKin
    <3> QED
      BY <3>1, <2>2 DEF Kin, NoBatch
  <2>3. CASE c \notin N /\ d \notin N
    <3>1. PICK x \in DOMAIN f : x \in calls /\ c = f[x] /\ Kin(x, c)
      BY <2>3, EffectKin
    <3>2. PICK y \in DOMAIN f : y \in calls /\ d = f[y] /\ Kin(y, d)
      BY <2>3, EffectKin
    <3>3. x = y
      BY <1>2, <3>1, <3>2 DEF Kin, BatchRows
    <3> QED
      BY <3>1, <3>2, <3>3
  <2> QED
    BY <1>2, <2>1, <2>2, <2>3
<1>3. ASSUME NEW d \in calls', d.op = "bulk", ~d.served,
             NEW r \in responses', r.via = "bulk", r.session = d.session
      PROVE  FALSE
  <2>1. CASE d \in N
    <3>1. responses' = responses
      BY <2>1 DEF Effect, server
    <3> QED
      BY <1>3, <2>1, <3>1 DEF NoBatch
  <2>2. CASE d \notin N
    <3>1. PICK c \in DOMAIN f : c \in calls /\ d = f[c] /\ Kin(c, d)
      BY <2>2, EffectKin
    <3>2. c.op = "bulk" /\ ~c.served /\ c.session = d.session
      BY <3>1, <1>3 DEF Kin
    <3>3. CASE r \in responses
      BY <1>3, <3>1, <3>2, <3>3 DEF BatchRows
    <3>4. CASE r \notin responses
      <4>1. PICK x \in calls : /\ Grades(x) /\ ~x.served
                               /\ (x \in DOMAIN f => f[x].served)
                               /\ r.via = x.op /\ r.session = x.session
        BY <1>0, <3>4
      <4>2. x = c
        BY <1>3, <4>1, <3>1, <3>2 DEF BatchRows
      <4> QED
        BY <4>1, <4>2, <3>1, <1>3
    <3> QED
      BY <3>3, <3>4
  <2> QED
    BY <2>1, <2>2
<1> QED
  BY <1>1, <1>2, <1>3 DEF BatchRows, OneBatch

LEMMA OnPaperStays ==
  ASSUME OnPaper, UNCHANGED <<sessionId, items>>,
         NEW f, NEW N, Effect(f, N), Tables(f),
         \A d \in N : Grades(d) /\ d.session = sessionId =>
                         DOMAIN d.body \subseteq PaperItems
  PROVE  OnPaper'
<1>1. PaperItems' = PaperItems
  BY DEF PaperItems
<1>2. ASSUME NEW d \in calls', Grades(d), d.session = sessionId
      PROVE  DOMAIN d.body \subseteq PaperItems
  <2>1. CASE d \in N
    BY <1>2, <2>1
  <2>2. CASE d \notin N
    <3>1. PICK c \in calls : Kin(c, d)
      BY <2>2, EffectKin
    <3> QED
      BY <3>1, <1>2 DEF Kin, Grades, OnPaper
  <2> QED
    BY <2>1, <2>2
<1>3. ASSUME NEW r \in responses', r.session = sessionId
      PROVE  r.item \in PaperItems
  <2>1. CASE r \in responses
    BY <1>3, <2>1 DEF OnPaper
  <2>2. CASE r \notin responses
    <3>1. PICK c \in calls :
             Grades(c) /\ r.session = c.session /\ r.item \in DOMAIN c.body
      BY <2>2 DEF Tables
    <3> QED
      BY <3>1, <1>3 DEF OnPaper
  <2> QED
    BY <2>1, <2>2
<1> QED
  BY <1>1, <1>2, <1>3 DEF OnPaper, Grades

\* No session is shown, or one of which nothing is graded: the paper may be any.
LEMMA OnPaperFresh ==
  ASSUME Untouched(sessionId)'
  PROVE  OnPaper'
BY DEF Untouched, OnPaper, Grades

LEMMA ClearedUntouched ==
  ASSUME TableInv', sessionId' = 0
  PROVE  Untouched(sessionId)'
<1>1. \A c \in calls' : c.op # "start" => c.session # 0
  BY DEF TableInv, CallGood
<1>2. \A r \in responses' : r.session # 0
  BY DEF TableInv
<1> QED
  BY <1>1, <1>2 DEF Untouched, Grades


LEMMA RowsStayShown ==
  ASSUME NEW v, RowsShown(v), sessionId' = sessionId, responses \subseteq responses'
  PROVE  RowsShown(v)'
BY DEF RowsShown

LEMMA VerdictStays ==
  ASSUME VerdictInv, UNCHANGED <<sessionId, results, submittedIds>>,
         \/ phase' = phase \/ phase' \in {"loading", "results"}
         \/ phase = "ready" /\ phase' = "exam",
         NEW f, NEW N, Effect(f, N), Tables(f),
         \A d \in N : d.op = "bulk" => d.kept = results
  PROVE  VerdictInv'
<1>1. responses \subseteq responses' /\ sessionId' = sessionId
  BY DEF Tables
<1>2. RefInv'
  BY DEF VerdictInv, RefInv
<1>3. PICK v : v = results
  OBVIOUS
<1>4. RowsShown(v) /\ DOMAIN v \subseteq submittedIds'
  BY <1>3 DEF VerdictInv, RefInv
<1>5. RowsShown(v)'
  BY <1>1, <1>4, RowsStayShown
<1>6. RowsShown(results)'
  BY <1>3, <1>5 DEF RowsShown
<1>7. ASSUME NEW d \in Waiting', d.op = "bulk"
      PROVE  RowsShown(d.kept)' /\ DOMAIN d.kept \subseteq submittedIds'
  <2>1. CASE d \in N
    BY <1>3, <1>4, <1>5, <1>7, <2>1 DEF RowsShown
  <2>2. CASE d \notin N
    <3>1. PICK c \in Waiting : Kin(c, d)
      BY <2>2, WaitingKin
    <3>2. PICK w : w = c.kept
      OBVIOUS
    <3>3. d.kept = w /\ RowsShown(w) /\ DOMAIN w \subseteq submittedIds
      BY <1>7, <3>1, <3>2 DEF Kin, VerdictInv
    <3>4. RowsShown(w)'
      BY <1>1, <3>3, RowsStayShown
    <3> QED
      BY <3>3, <3>4 DEF RowsShown
  <2> QED
    BY <2>1, <2>2
<1> QED
  BY <1>2, <1>6, <1>7 DEF VerdictInv, RowsShown

\* No verdict is shown, and none is on its way with a batch.
LEMMA VerdictCleared ==
  ASSUME results' = <<>>, submittedIds' = {}, \A d \in Waiting' : d.op = "answer"
  PROVE  VerdictInv'
BY NoVerdicts DEF VerdictInv, RefInv, RowsShown

\* Verdicts that come with a reply, on top of those in base.
LEMMA VerdictGraded ==
  ASSUME VerdictInv, TableInv, NEW c \in calls, c.served, c.ok, Grades(c),
         c.op = "bulk" => c.session = sessionId,
         submittedIds' = submittedIds \cup {r.item : r \in c.reply.rows},
         NEW base, RowsShown(base), DOMAIN base \subseteq submittedIds,
         phase \notin {"loading", "results"} => submittedIds \subseteq DOMAIN base,
         results' = Graded(base, c.reply.rows), UNCHANGED <<sessionId, phase>>,
         \A d \in Waiting' : d.op = "bulk" => d \in Waiting,
         NEW f, Tables(f)
  PROVE  /\ VerdictInv'
         /\ DOMAIN results' = DOMAIN base \cup DOMAIN c.body
<1>1. /\ c.reply.rows \subseteq responses
      /\ \A r \in c.reply.rows : r.via = c.op /\ r.session = c.session
      /\ {r.item : r \in c.reply.rows} = DOMAIN c.body
      /\ DOMAIN c.body \subseteq Items
  BY DEF TableInv, CallGood, ReplyGood
<1>2. DOMAIN results' = DOMAIN base \cup {r.item : r \in c.reply.rows}
  BY GradedDomain
<1>3. ASSUME NEW i \in DOMAIN results'
      PROVE  /\ results'[i] \in responses' /\ results'[i].item = i
             /\ results'[i].via = "answer" \/ results'[i].session = sessionId'
  <2>1. results'[i] = IF \E r \in c.reply.rows : r.item = i
                      THEN CHOOSE r \in c.reply.rows : r.item = i
                      ELSE base[i]
    BY GradedDomain DEF Graded
  <2>2. CASE \E r \in c.reply.rows : r.item = i
    <3>1. results'[i] \in c.reply.rows /\ results'[i].item = i
      BY <2>1, <2>2
    <3> QED
      BY <3>1, <1>1 DEF Grades, Tables
  <2>3. CASE ~ \E r \in c.reply.rows : r.item = i
    <3>1. i \in DOMAIN base /\ results'[i] = base[i]
      BY <2>1, <2>3, <1>2
    <3> QED
      BY <3>1 DEF RowsShown, Tables
  <2> QED
    BY <2>2, <2>3
<1>4. DOMAIN results' \subseteq Items
  BY <1>1, <1>2 DEF RowsShown
<1>5. RowsShown(results)'
  BY <1>3, <1>4 DEF RowsShown
<1>6. RefInv'
  BY <1>1, <1>2 DEF VerdictInv, RefInv
<1>7. ASSUME NEW d \in Waiting', d.op = "bulk"
      PROVE  RowsShown(d.kept)' /\ DOMAIN d.kept \subseteq submittedIds'
  <2>1. PICK w : w = d.kept
    OBVIOUS
  <2>2. RowsShown(w) /\ DOMAIN w \subseteq submittedIds
    BY <1>7, <2>1 DEF VerdictInv
  <2>3. RowsShown(w)'
    BY <2>2, RowsStayShown DEF Tables
  <2> QED
    BY <2>1, <2>2, <2>3 DEF RowsShown
<1> QED
  BY <1>1, <1>2, <1>5, <1>6, <1>7 DEF VerdictInv, RowsShown

\* What the report relies on, when neither the paper nor the page changes.
LEMMA ReportStays ==
  ASSUME ReportInv, TableInv, ScreenInv, NEW f, NEW N, Effect(f, N), Tables(f),
         UNCHANGED <<sessionId, items, summary>>,
         PaperItems \subseteq DOMAIN results => PaperItems \subseteq DOMAIN results',
         phase' = "results" => phase = "results",
         \A d \in N : d.op = "bulk" =>
            PaperItems \subseteq DOMAIN d.body \cup DOMAIN d.kept,
         \A d \in N : d.op = "finish" => PaperItems \subseteq DOMAIN results'
  PROVE  ReportInv'
<1>1. PaperItems' = PaperItems
  BY DEF PaperItems
<1>2. ASSUME NEW d \in Waiting'
      PROVE  /\ d.op = "bulk" => PaperItems \subseteq DOMAIN d.body \cup DOMAIN d.kept
             /\ d.op = "finish" => PaperItems \subseteq DOMAIN results'
  <2>1. CASE d \in N
    BY <2>1
  <2>2. CASE d \notin N
    <3>1. PICK c \in Waiting : Kin(c, d)
      BY <2>2, WaitingKin
    <3> QED
      BY <3>1 DEF Kin, ReportInv
  <2> QED
    BY <2>1, <2>2
<1>3. ASSUME phase' = "results"
      PROVE  /\ summary.there /\ PaperItems \subseteq DOMAIN results'
             /\ sessionId # 0 /\ sessions'[sessionId].status = "completed"
             /\ ReportTrue(sessionId, summary.report)'
  <2>1. /\ phase = "results" /\ summary.there /\ PaperItems \subseteq DOMAIN results
        /\ sessionId # 0 /\ sessions[sessionId].status = "completed"
        /\ ReportTrue(sessionId, summary.report)
    BY <1>3 DEF ReportInv
  <2>2. sessionId \in DOMAIN sessions
    BY <2>1 DEF TableInv
  <2>3. PICK s, report : s = sessionId /\ report = summary.report
    OBVIOUS
  <2>4. ReportTrue(s, report)' /\ sessions'[s].status = "completed"
    BY <2>1, <2>2, <2>3, ReportStaysTrue
  <2> QED
    BY <2>1, <2>3, <2>4 DEF ReportTrue
<1> QED
  BY <1>1, <1>2, <1>3 DEF ReportInv, ReportTrue


-----------------------------------------------------------------------------
(* The steps that send nothing and leave the exam as it is. *)

CoreInv ==
    TableInv /\ ChainInv /\ BatchInv /\ OnPaper /\ VerdictInv /\ ReportInv

LEMMA SessionShown ==
  ASSUME TableInv, NEW f, Tables(f), sessionId' = sessionId
  PROVE  sessionId' \in 0 .. Len(sessions')
<1>1. /\ Len(sessions) \in Nat /\ Len(sessions') \in Nat
      /\ Len(sessions) <= Len(sessions') /\ sessionId \in 0 .. Len(sessions)
  BY DEF TableInv, Tables
<1> QED
  BY <1>1

\* One at a time stays one at a time when none is sent.
LEMMA OneChain ==
  ASSUME ChainInv, NEW f, Effect(f, {}), NEW c \in Waiting', NEW d \in Waiting',
         c.op # "answer", d.op # "answer"
  PROVE  c = d
<1>1. PICK x \in DOMAIN f : x \in Waiting /\ c = f[x] /\ Kin(x, c)
  BY WaitingKin
<1>2. PICK y \in DOMAIN f : y \in Waiting /\ d = f[y] /\ Kin(y, d)
  BY WaitingKin
<1>3. x.op # "answer" /\ y.op # "answer"
  BY <1>1, <1>2 DEF Kin
<1>4. x = y
  BY <1>1, <1>2, <1>3 DEF ChainInv
<1> QED
  BY <1>1, <1>2, <1>4

\* What a request whose answer is awaited says of the page.
LEMMA WaitingTells ==
  ASSUME ChainInv, TableInv, NEW c \in Waiting, c.op # "answer"
  PROVE  /\ c.op = "start" => phase = "setup"
         /\ c.op # "start" => phase = "loading" /\ c.session = sessionId
BY DEF ChainInv, TableInv, CallGood, Ops, Waiting

LEMMA StartedBound ==
  ASSUME TableInv, NEW f, Effect(f, {}), Tables(f), Started' <= Started
  PROVE  Started' <= MaxSessions
<1>1. Started <= MaxSessions /\ Started \in Nat /\ MaxSessions \in Nat
  BY StartsCounted, ExamAssumption DEF TableInv
<1>2. Cardinality(StartsUnserved') \in Nat /\ Len(sessions') \in Nat
  BY StartsStay DEF Tables
<1>3. Started' = Len(sessions') + Cardinality(StartsUnserved')
  BY DEF Started, StartsUnserved
<1>4. Started' \in Nat
  BY <1>2, <1>3
<1> QED
  BY <1>1, <1>4

LEMMA QuietCore ==
  ASSUME ExamInv, NEW f, Effect(f, {}), Tables(f), CountInv',
         \A c \in DOMAIN f : ~c.served /\ f[c].served /\ f[c].ok => ReplyGood(f[c])',
         Started' <= Started,
         UNCHANGED <<sessionId, items>>,
         phase' = phase \/ (phase = "ready" /\ phase' = "exam"),
         phase = "loading" => ChainFailed' \/ \E d \in Waiting' : d.op # "answer"
  PROVE  TableInv' /\ ChainInv' /\ BatchInv' /\ OnPaper'
<1>0. TableInv /\ ChainInv /\ BatchInv /\ ScreenInv /\ BatchRows
  BY DEF ExamInv, BatchInv, BatchRows
<1>1. TableInv'
  <2>1. Started' <= MaxSessions
    BY <1>0, StartedBound
  <2> QED
    BY <1>0, <2>1, SessionShown, TableStays
<1>2. ChainInv'
  <2>1. ASSUME NEW d \in Waiting'
        PROVE  /\ d.op = "start" => phase' = "setup"
               /\ d.op \in {"paper", "bulk", "finish"} =>
                     phase' = "loading" /\ d.session = sessionId'
    <3>1. PICK c \in Waiting : Kin(c, d)
      BY WaitingKin
    <3> QED
      BY <3>1, <1>0 DEF Kin, ChainInv
  <2>2. \A c, d \in Waiting' : c.op # "answer" /\ d.op # "answer" => c = d
    BY <1>0, OneChain
  <2> QED
    BY <2>1, <2>2 DEF ChainInv
<1>3. BatchInv'
  <2>1. BatchRows'
    BY <1>0, BatchStays
  <2>2. ASSUME NEW d \in Waiting', d.op = "paper"
        PROVE  Untouched(sessionId)'
    <3>1. PICK c \in Waiting : Kin(c, d)
      BY WaitingKin
    <3>2. Untouched(sessionId)
      BY <1>0, <2>2, <3>1 DEF Kin, BatchInv
    <3>3. PICK s : s = sessionId
      OBVIOUS
    <3>4. Untouched(s)'
      BY <3>2, <3>3, UntouchedStays
    <3> QED
      BY <3>3, <3>4 DEF Untouched
  <2>3. ASSUME phase' \in {"ready", "exam"}
        PROVE  NoBatch(sessionId)'
    <3>1. NoBatch(sessionId)
      BY <1>0, <2>3 DEF BatchInv
    <3>2. PICK s : s = sessionId
      OBVIOUS
    <3>3. NoBatch(s)'
      BY <3>1, <3>2, NoBatchStays
    <3> QED
      BY <3>2, <3>3 DEF NoBatch
  <2> QED
    BY <2>1, <2>2, <2>3 DEF BatchInv, BatchRows
<1>4. OnPaper'
  BY OnPaperStays DEF ExamInv
<1> QED
  BY <1>1, <1>2, <1>3, <1>4

LEMMA QuietStep ==
  ASSUME ExamInv, NEW f, Effect(f, {}), Tables(f), CountInv',
         \A c \in DOMAIN f : ~c.served /\ f[c].served /\ f[c].ok => ReplyGood(f[c])',
         Started' <= Started,
         UNCHANGED <<sessionId, items, results, submittedIds, summary>>,
         phase' = phase \/ (phase = "ready" /\ phase' = "exam"),
         phase = "loading" => ChainFailed' \/ \E d \in Waiting' : d.op # "answer"
  PROVE  CoreInv'
<1>1. TableInv' /\ ChainInv' /\ BatchInv' /\ OnPaper'
  BY QuietCore
<1>2. VerdictInv'
  BY VerdictStays DEF ExamInv
<1>3. ReportInv'
  BY ReportStays DEF ExamInv
<1> QED
  BY <1>1, <1>2, <1>3 DEF CoreInv

LEMMA StillStep ==
  ASSUME ExamInv, UNCHANGED <<calls, clicks, server>>, UNCHANGED failed,
         UNCHANGED <<sessionId, items, results, submittedIds, summary>>,
         phase' = phase \/ (phase = "ready" /\ phase' = "exam")
  PROVE  CoreInv'
<1>1. TableInv /\ ChainInv
  BY DEF ExamInv
<1>2. PICK f : f = [c \in calls \ {} |-> c]
  OBVIOUS
<1>3. Effect(f, {}) /\ Tables(f)
  BY <1>1, <1>2, DropEffect
<1>4. \A c \in DOMAIN f : f[c] = c
  BY <1>2
<1>5. Started' <= Started
  <2>1. Started' = Started
    BY DEF Started, server
  <2> QED
    BY <1>1, <2>1, StartsCounted
<1>6. phase = "loading" => ChainFailed' \/ \E d \in Waiting' : d.op # "answer"
  BY <1>1 DEF ChainInv, ChainFailed, Waiting
<1>7. CountInv'
  BY <1>1, <1>3, <1>4, CountsStay
<1> QED
  BY <1>3, <1>4, <1>5, <1>6, <1>7, QuietStep

LEMMA CoreServe ==
  ASSUME ExamInv, NEW c \in calls, Serve(c)
  PROVE  CoreInv'
<1>1. UNCHANGED page
  BY DEF Serve
<1>2. PICK f : Served(f)
  BY ServeEffect DEF ExamInv
<1>3. phase = "loading" => ChainFailed' \/ \E d \in Waiting' : d.op # "answer"
  <2>1. SUFFICES ASSUME phase = "loading", ~ChainFailed
                 PROVE  \E d \in Waiting' : d.op # "answer"
    BY <1>1 DEF ChainFailed, page
  <2>2. PICK d \in Waiting : d.op # "answer"
    BY <2>1 DEF ExamInv, ChainInv
  <2>3. f[d] \in Waiting' /\ d \in DOMAIN f
    BY <1>2 DEF Served
  <2>4. f[d].op = d.op
    BY <1>2, <2>3 DEF Served, Effect, Kin
  <2> QED
    BY <2>2, <2>3, <2>4
<1> QED
  BY <1>1, <1>2, <1>3, QuietStep DEF page, exam, Served

LEMMA CoreLost ==
  ASSUME ExamInv, NEW c \in calls, Lost(c)
  PROVE  CoreInv'
<1>1. UNCHANGED page /\ UNCHANGED server /\ clicks' = clicks /\ calls' = calls \ {c}
      /\ ~c.pending
  BY DEF Lost
<1>2. PICK f : f = [d \in calls \ {c} |-> d]
  OBVIOUS
<1>3. Effect(f, {}) /\ Tables(f)
  BY <1>1, <1>2, DropEffect DEF ExamInv
<1>4. \A d \in DOMAIN f : f[d] = d
  BY <1>2
<1>5. Started' <= Started
  BY <1>1, <1>3, StartedLess DEF ExamInv, server
<1>6. Waiting' = Waiting
  BY <1>1 DEF Waiting
<1>7. phase = "loading" => ChainFailed' \/ \E d \in Waiting' : d.op # "answer"
  BY <1>1, <1>6 DEF ExamInv, ChainInv, ChainFailed, page
<1>8. CountInv'
  BY <1>1, <1>3, <1>4, CountsStay DEF ExamInv
<1> QED
  BY <1>1, <1>3, <1>4, <1>5, <1>7, <1>8, QuietStep DEF page, exam

LEMMA CoreFails ==
  ASSUME ExamInv, NEW c \in calls, CallFails(c)
  PROVE  CoreInv'
<1>1. /\ UNCHANGED <<phase, exam, server>> /\ clicks' = clicks /\ c \in Waiting
      /\ calls' = (calls \ {c})
                    \cup {d \in {[c EXCEPT !.pending = FALSE]} : ~c.served}
  BY DEF CallFails
<1>2. PICK f : f = [d \in IF c.served THEN calls \ {c} ELSE calls |->
                       IF d = c THEN [c EXCEPT !.pending = FALSE] ELSE d]
  OBVIOUS
<1>3. Effect(f, {}) /\ Tables(f)
  BY <1>1, <1>2, GivenUpEffect DEF ExamInv
<1>4. ASSUME NEW d \in DOMAIN f
      PROVE  f[d].served = d.served /\ f[d].loaded = d.loaded
  <2>1. CASE d = c
    <3>1. f[d] = [c EXCEPT !.pending = FALSE]
      BY <1>2, <2>1
    <3>2. CallGood(c)
      BY DEF ExamInv, TableInv
    <3> QED
      BY <2>1, <3>1, <3>2 DEF CallGood, CallFieldNames
  <2>2. CASE d # c
    BY <1>2, <1>4, <2>2
  <2> QED
    BY <2>1, <2>2
<1>7. CountInv'
  BY <1>1, <1>3, <1>4, CountsStay DEF ExamInv
<1>5. Started' <= Started
  BY <1>1, <1>3, StartedLess DEF ExamInv, server
<1>6. phase = "loading" => ChainFailed' \/ \E d \in Waiting' : d.op # "answer"
  <2>1. SUFFICES ASSUME phase = "loading"
                 PROVE  ChainFailed' \/ \E d \in Waiting' : d.op # "answer"
    OBVIOUS
  <2>2. CASE c.op = "answer"
    <3>1. failed' = failed
      BY <2>2 DEF CallFails
    <3>2. CASE ChainFailed
      BY <3>1, <3>2 DEF ChainFailed
    <3>3. CASE ~ChainFailed
      <4>1. PICK d \in Waiting : d.op # "answer"
        BY <2>1, <3>3 DEF ExamInv, ChainInv
      <4>2. d # c /\ d \in calls
        BY <2>2, <4>1 DEF Waiting
      <4>3. d \in calls'
        BY <1>1, <4>2
      <4>4. d \in Waiting'
        BY <4>1, <4>3 DEF Waiting
      <4> QED
        BY <4>1, <4>4
    <3> QED
      BY <3>2, <3>3
  <2>3. CASE c.op # "answer"
    <3>1. c.op \in {"paper", "bulk", "finish"}
      BY <1>1, <2>1, <2>3 DEF ExamInv, TableInv, CallGood, Ops, ChainInv
    <3>2. c.op \in failed'
      BY <2>3 DEF CallFails
    <3> QED
      BY <3>1, <3>2 DEF ChainFailed
  <2> QED
    BY <2>2, <2>3
<1> QED
  BY <1>1, <1>3, <1>4, <1>5, <1>6, <1>7, QuietStep DEF exam


-----------------------------------------------------------------------------
(* The steps that send a request. *)

\* d is the request sent, done the one whose reply is heard.
Sent(done, f, d, op, s, body) ==
    /\ Effect(f, {d}) /\ Tables(f)
    /\ DOMAIN f = calls \ done /\ \A c \in calls \ done : f[c] = c
    /\ d.op = op /\ d.session = s /\ d.body = body /\ d \in Waiting'
    /\ op = "bulk" => d.kept = results

LEMMA SendStarts ==
  ASSUME TableInv, NEW done, NEW op, NEW s, NEW scope, NEW body,
         Send(done, op, s, scope, body), UNCHANGED server,
         op = "start" => Started < MaxSessions
  PROVE  Started' <= MaxSessions
<1>0. PICK d : d = Call(op, s, scope, body)
  OBVIOUS
<1>1. calls' = (calls \ done) \cup {d} /\ d.op = op
  BY <1>0 DEF Send, Call
<1>2. StartsUnserved' \subseteq StartsUnserved \cup {d}
  BY <1>1 DEF StartsUnserved
<1>3. op # "start" => StartsUnserved' \subseteq StartsUnserved
  BY <1>1 DEF StartsUnserved
<1>4. /\ IsFiniteSet(StartsUnserved \cup {d})
      /\ Cardinality(StartsUnserved \cup {d}) <= Cardinality(StartsUnserved) + 1
  <2>1. IsFiniteSet(StartsUnserved) /\ Cardinality(StartsUnserved) \in Nat
    BY StartsCounted
  <2>2. /\ IsFiniteSet(StartsUnserved \cup {d})
        /\ Cardinality(StartsUnserved \cup {d}) =
              IF d \in StartsUnserved THEN Cardinality(StartsUnserved)
              ELSE Cardinality(StartsUnserved) + 1
    BY <2>1, FS_AddElement
  <2> QED
    BY <2>1, <2>2
<1>5. /\ Cardinality(StartsUnserved') <= Cardinality(StartsUnserved \cup {d})
      /\ Cardinality(StartsUnserved') \in Nat
  BY <1>2, <1>4, FS_Subset, FS_CardinalityType
<1>6. op # "start" => Cardinality(StartsUnserved') <= Cardinality(StartsUnserved)
  BY <1>3, StartsCounted, FS_Subset
<1>7. Started' = Len(sessions) + Cardinality(StartsUnserved')
  BY DEF Started, StartsUnserved, server
<1>8. Cardinality(StartsUnserved \cup {d}) \in Nat
  BY <1>4, FS_CardinalityType
<1>9. Started <= MaxSessions /\ MaxSessions \in Nat
  BY ExamAssumption DEF TableInv
<1> QED
  BY <1>4, <1>5, <1>6, <1>7, <1>8, <1>9, StartsCounted

LEMMA SendStep ==
  ASSUME ExamInv, NEW done, NEW op \in Ops, NEW s \in 0 .. Len(sessions), NEW scope,
         NEW body,
         Send(done, op, s, scope, body), UNCHANGED server,
         op # "start" => s # 0,
         op = "start" => scope \in Scopes /\ Started < MaxSessions,
         op \in {"answer", "bulk"} =>
            /\ DOMAIN body \subseteq Items /\ IsFiniteSet(DOMAIN body)
            /\ \A c \in Waiting : c.op # "start",
         op = "bulk" => NoBatch(s),
         sessionId' \in 0 .. Len(sessions)
  PROVE  \E f, d : Sent(done, f, d, op, s, body) /\ TableInv' /\ BatchRows'
<1>1. PICK d : d = Call(op, s, scope, body)
  OBVIOUS
<1>2. PICK f : f = [c \in calls \ done |-> c]
  OBVIOUS
<1>3. Effect(f, {d}) /\ Tables(f)
  BY <1>1, <1>2, SendEffect DEF ExamInv
<1>4. /\ DOMAIN d = CallFieldNames
      /\ d.n = (IF op = "answer" THEN clicks + 1 ELSE 0)
      /\ d.op = op /\ d.session = s /\ d.scope = scope /\ d.body = body
      /\ d.live = TRUE /\ d.pending = TRUE /\ d.served = FALSE /\ d.ok = FALSE
      /\ d.loaded = FALSE /\ d.seen = Zero /\ (op = "bulk" => d.kept = results)
  BY <1>1 DEF Call, CallFieldNames
<1>5. d \in calls' /\ clicks' = (IF op = "answer" THEN clicks + 1 ELSE clicks)
  BY <1>1 DEF Send
<1>6. CallGood(d)'
  <2>1. clicks \in Nat /\ sessions' = sessions
    BY DEF ExamInv, TableInv, server
  <2>2. d.n \in Nat /\ d.n <= clicks'
    BY <1>4, <1>5, <2>1
  <2>3. d.seen \in Counters
    BY <1>4 DEF Zero, Counters
  <2> QED
    BY <1>4, <2>1, <2>2, <2>3 DEF CallGood, Grades
<1>7. \A c \in calls : c.served /\ c.ok /\ c.op = "start" =>
         (Grades(d) => d.session # c.reply.session)
  <2>1. \A c \in calls : c.served => c \in Waiting
    BY DEF ExamInv, TableInv, CallGood, Waiting
  <2> QED
    BY <1>4, <2>1 DEF Grades
<1>8. \A c \in DOMAIN f : f[c] = c
  BY <1>2
<1>9. Started' <= MaxSessions
  BY SendStarts DEF ExamInv
<1>10. sessionId' \in 0 .. Len(sessions')
  BY DEF server
<1>14. CountInv'
  BY <1>3, <1>8, CountsStay DEF ExamInv
<1>11. TableInv'
  BY <1>3, <1>6, <1>7, <1>8, <1>9, <1>10, <1>14, TableStays DEF ExamInv
<1>12. BatchRows'
  BY <1>3, <1>4, BatchStays DEF ExamInv, BatchInv, BatchRows
<1>13. d \in Waiting'
  BY <1>4, <1>5 DEF Waiting
<1> QED
  BY <1>2, <1>3, <1>4, <1>8, <1>11, <1>12, <1>13 DEF Sent

\* The rest, when the exam stays the one it is.
LEMMA SentSame ==
  ASSUME ExamInv, NEW done, NEW f, NEW d, NEW op \in Ops, NEW s, NEW body,
         Sent(done, f, d, op, s, body), UNCHANGED <<sessionId, items, summary>>,
         op \in {"answer", "bulk"} /\ s = sessionId => DOMAIN body \subseteq PaperItems,
         PaperItems \subseteq DOMAIN results => PaperItems \subseteq DOMAIN results',
         phase' = "results" => phase = "results",
         op = "bulk" => PaperItems \subseteq DOMAIN body \cup DOMAIN results,
         op = "finish" => PaperItems \subseteq DOMAIN results'
  PROVE  OnPaper' /\ ReportInv'
<1>1. /\ Effect(f, {d}) /\ Tables(f) /\ d.op = op /\ d.session = s /\ d.body = body
      /\ op = "bulk" => d.kept = results
  BY DEF Sent
<1>2. OnPaper'
  BY <1>1, OnPaperStays DEF ExamInv, Grades
<1>3. ReportInv'
  BY <1>1, ReportStays DEF ExamInv
<1> QED
  BY <1>2, <1>3


\* When all that is watched of the start and the submission is what is sent.
LEMMA OnlyNew ==
  ASSUME NEW f, NEW N, Effect(f, N),
         \A c \in DOMAIN f : c \in Waiting => c.op = "answer"
  PROVE  \A d \in Waiting' : d \in N \/ d.op = "answer"
<1> TAKE d \in Waiting'
<1>1. ASSUME NEW c \in DOMAIN f, c \in Waiting, Kin(c, d)
      PROVE  d.op = "answer"
  BY <1>1 DEF Kin
<1> QED
  BY <1>1, WaitingKin

LEMMA NoChain ==
  ASSUME \A d \in Waiting' : d.op = "answer", phase' # "loading"
  PROVE  ChainInv'
BY DEF ChainInv

LEMMA NewChain ==
  ASSUME NEW d \in Waiting', \A c \in Waiting' : c = d \/ c.op = "answer",
         d.op = "start" => phase' = "setup",
         d.op \in {"paper", "bulk", "finish"} =>
            phase' = "loading" /\ d.session = sessionId',
         d.op # "answer"
  PROVE  ChainInv'
BY DEF ChainInv

LEMMA NoPaperDue ==
  ASSUME BatchRows', \A d \in Waiting' : d.op # "paper",
         phase' \in {"ready", "exam"} => NoBatch(sessionId)'
  PROVE  BatchInv'
BY DEF BatchInv, BatchRows

\* In the exam no part of the chain is under way, nor in the report.
LEMMA NoneInExam ==
  ASSUME ExamInv, phase \notin {"setup", "loading"}, NEW c \in Waiting
  PROVE  c.op = "answer"
BY WaitingTells DEF ExamInv

LEMMA NoneWhenIdle ==
  ASSUME ExamInv, phase = "setup", ~Busy, NEW c \in Waiting
  PROVE  c.op = "answer"
<1>1. c.op # "start"
  BY DEF Busy
<1> QED
  BY <1>1, WaitingTells DEF ExamInv

LEMMA CoreStart ==
  ASSUME ExamInv, NEW scope \in Scopes, OnStart(scope)
  PROVE  CoreInv'
<1>1. /\ phase = "setup" /\ ~Busy /\ Started < MaxSessions
      /\ UNCHANGED <<phase, exam, server>> /\ Send({}, "start", 0, scope, <<>>)
  BY DEF OnStart, StartEnabled
<1>2. /\ sessionId' \in 0 .. Len(sessions) /\ 0 \in 0 .. Len(sessions)
      /\ UNCHANGED <<sessionId, items, summary, submittedIds, results>>
  BY <1>1 DEF ExamInv, TableInv, exam
<1>3. PICK f, d : Sent({}, f, d, "start", 0, <<>>) /\ TableInv' /\ BatchRows'
  BY <1>1, <1>2, SendStep DEF Ops
<1>4. \A c \in Waiting' : c = d \/ c.op = "answer"
  BY <1>1, <1>3, OnlyNew, NoneWhenIdle DEF Sent
<1>5. ChainInv' /\ BatchInv'
  BY <1>1, <1>3, <1>4, NewChain, NoPaperDue DEF Sent
<1>6. OnPaper' /\ ReportInv'
  BY <1>1, <1>2, <1>3, SentSame DEF Ops
<1>7. VerdictInv'
  BY <1>1, <1>2, <1>3, VerdictStays DEF Sent, ExamInv
<1> QED
  BY <1>3, <1>5, <1>6, <1>7 DEF CoreInv

LEMMA CoreChoose ==
  ASSUME ExamInv, NEW k \in DOMAIN items, NEW o \in Options, Choose(k, o),
         phase = "exam", UNCHANGED server,
         UNCHANGED <<phase, sessionId, items, results, submittedIds, summary>>
  PROVE  CoreInv'
<1>1. CASE ~feedback
  BY <1>1, StillStep DEF Choose
<1>2. CASE feedback
  <2> DEFINE i == items[k].item
             body == [j \in {i} |-> [version |-> items[k].version, mark |-> o]]
  <2>1. Send({}, "answer", sessionId, <<>>, body)
    BY <1>2 DEF Choose
  <2>2. DOMAIN body = {i} /\ i \in Items /\ i \in PaperItems
    BY QuestionOnPaper DEF ExamInv, ScreenInv
  <2> HIDE DEF body
  <2>3. DOMAIN body \subseteq Items /\ IsFiniteSet(DOMAIN body)
    BY <2>2, FS_Singleton
  <2>4. sessionId # 0 /\ sessionId \in 0 .. Len(sessions)
    BY DEF ExamInv, ScreenInv, TableInv
  <2>5. \A c \in Waiting : c.op = "answer"
    BY NoneInExam
  <2>6. PICK f, d : Sent({}, f, d, "answer", sessionId, body) /\ TableInv' /\ BatchRows'
    BY <2>1, <2>3, <2>4, <2>5, SendStep DEF Ops
  <2>7. \A c \in Waiting' : c.op = "answer"
    BY <2>5, <2>6, OnlyNew DEF Sent
  <2>8. NoBatch(sessionId)'
    <3>1. NoBatch(sessionId)
      BY DEF ExamInv, BatchInv
    <3>2. PICK s : s = sessionId
      OBVIOUS
    <3>3. NoBatch(s)'
      BY <2>6, <3>1, <3>2, NoBatchStays DEF Sent
    <3> QED
      BY <3>2, <3>3 DEF NoBatch
  <2>9. ChainInv' /\ BatchInv'
    BY <2>6, <2>7, <2>8, NoChain, NoPaperDue
  <2>10. OnPaper' /\ ReportInv'
    BY <2>2, <2>6, SentSame DEF Ops
  <2>11. VerdictInv'
    BY <2>6, VerdictStays DEF Sent, ExamInv
  <2> QED
    BY <2>6, <2>9, <2>10, <2>11 DEF CoreInv
<1> QED
  BY <1>1, <1>2 DEF ExamInv, ScreenInv


LEMMA PendingDomain ==
  ASSUME ScreenInv
  PROVE  /\ DOMAIN Pending = PaperItems \ submittedIds
         /\ PaperItems \subseteq Items /\ IsFiniteSet(PaperItems)
<1>1. items \in Paper
  BY DEF ScreenInv
<1>2. \A k \in DOMAIN items : items[k].item \in Items
  BY <1>1, QuestionOnPaper
<1>3. PaperItems \subseteq Items
  BY <1>2 DEF PaperItems
<1>4. IsFiniteSet(PaperItems)
  <2> DEFINE g == [k \in DOMAIN items |-> items[k].item]
  <2>1. PaperItems = {g[k] : k \in DOMAIN g} /\ DOMAIN g = 1 .. Len(items)
        /\ Len(items) \in Nat
    BY <1>1 DEF PaperItems, Paper
  <2> HIDE DEF g
  <2>2. IsFiniteSet(1 .. Len(items))
    BY <2>1, FS_Interval
  <2> QED
    BY <2>1, <2>2, Images
<1>5. DOMAIN Pending
         = {items[k].item :
               k \in {j \in DOMAIN items : items[j].item \notin submittedIds}}
  BY DEF Pending
<1> QED
  BY <1>3, <1>4, <1>5 DEF PaperItems

LEMMA CoreSubmit ==
  ASSUME ExamInv, OnSubmitExam
  PROVE  CoreInv'
<1>1. /\ phase = "exam" /\ phase' = "loading" /\ UNCHANGED server
      /\ UNCHANGED <<sessionId, items, results, submittedIds, summary>>
  BY DEF OnSubmitExam, SubmitEnabled, ReviewShown, RunnerShown
<1>2. sessionId # 0 /\ sessionId \in 0 .. Len(sessions)
  BY <1>1 DEF ExamInv, ScreenInv, TableInv
<1>3. \A c \in Waiting : c.op = "answer"
  BY <1>1, NoneInExam
<1>4. /\ DOMAIN Pending = PaperItems \ submittedIds
      /\ PaperItems \subseteq Items /\ IsFiniteSet(PaperItems)
  BY PendingDomain DEF ExamInv
<1>8. DOMAIN results = submittedIds
  BY <1>1 DEF ExamInv, VerdictInv, RefInv
<1>5. ASSUME NEW op \in {"bulk", "finish"}, NEW body,
             Send({}, op, sessionId, <<>>, body),
             op = "bulk" => DOMAIN body = PaperItems \ submittedIds,
             op = "finish" => PaperItems \subseteq submittedIds
      PROVE  CoreInv'
  <2>1. op = "bulk" => DOMAIN body \subseteq Items /\ IsFiniteSet(DOMAIN body)
    BY <1>4, <1>5, FS_Difference
  <2>2. NoBatch(sessionId)
    BY <1>1 DEF ExamInv, BatchInv
  <2>3. PICK f, d : Sent({}, f, d, op, sessionId, body) /\ TableInv' /\ BatchRows'
    BY <1>1, <1>2, <1>3, <1>5, <2>1, <2>2, SendStep DEF Ops
  <2>4. \A c \in Waiting' : c = d \/ c.op = "answer"
    BY <1>3, <2>3, OnlyNew DEF Sent
  <2>5. d \in Waiting' /\ d.op = op /\ d.session = sessionId'
    BY <1>1, <2>3 DEF Sent
  <2>6. ChainInv'
    BY <1>1, <1>5, <2>4, <2>5, NewChain
  <2>7. BatchInv'
    BY <1>1, <1>5, <2>3, <2>4, <2>5, NoPaperDue
  <2>8. OnPaper' /\ ReportInv'
    <3>1. /\ op \in Ops
          /\ (op \in {"answer", "bulk"} => DOMAIN body \subseteq PaperItems)
          /\ (op = "bulk" => PaperItems \subseteq DOMAIN body \cup DOMAIN results)
          /\ (op = "finish" => PaperItems \subseteq DOMAIN results')
      BY <1>1, <1>5, <1>8 DEF Ops
    <3> QED
      BY <1>1, <2>3, <3>1, SentSame
  <2>9. VerdictInv'
    BY <1>1, <2>3, VerdictStays DEF Sent, ExamInv
  <2> QED
    BY <2>3, <2>6, <2>7, <2>8, <2>9 DEF CoreInv
<1>6. CASE DOMAIN Pending = {}
  <2>1. Send({}, "finish", sessionId, <<>>, <<>>)
    BY <1>6 DEF OnSubmitExam
  <2> QED
    BY <1>4, <1>5, <1>6, <2>1
<1>7. CASE DOMAIN Pending # {}
  <2>1. Send({}, "bulk", sessionId, <<>>, Pending)
    BY <1>7 DEF OnSubmitExam
  <2>2. PICK body : body = Pending
    OBVIOUS
  <2> QED
    BY <1>4, <1>5, <2>1, <2>2
<1> QED
  BY <1>6, <1>7

-----------------------------------------------------------------------------
(* The replies. *)

LEMMA CoreStartReplied ==
  ASSUME ExamInv, NEW c \in calls, StartReplied(c)
  PROVE  CoreInv'
<1>1. /\ c \in Waiting /\ c.op = "start" /\ c.served /\ c.ok
      /\ sessionId' = c.reply.session /\ phase' = "loading" /\ UNCHANGED server
      /\ Send({c}, "paper", c.reply.session, <<>>, <<>>)
      /\ UNCHANGED <<items, results, summary, submittedIds>>
  BY DEF StartReplied, Replied
<1>2. PICK s : s = c.reply.session
  OBVIOUS
<1>3. s \in DOMAIN sessions /\ Untouched(s) /\ phase = "setup"
  BY <1>1, <1>2, WaitingGood DEF ExamInv, ChainInv, ReplyGood
<1>4. s \in 0 .. Len(sessions) /\ s # 0
  BY <1>3 DEF ExamInv, TableInv
<1>5. PICK f, d : Sent({c}, f, d, "paper", s, <<>>) /\ TableInv' /\ BatchRows'
  BY <1>1, <1>2, <1>4, SendStep DEF Ops
<1>6. \A e \in Waiting' : e = d \/ e.op = "answer"
  <2>1. \A e \in DOMAIN f : e \in Waiting => e.op = "answer"
    BY <1>1, <1>5 DEF Sent, ExamInv, ChainInv
  <2> QED
    BY <1>5, <2>1, OnlyNew DEF Sent
<1>7. d \in Waiting' /\ d.op = "paper" /\ d.session = sessionId'
  BY <1>1, <1>2, <1>5 DEF Sent
<1>8. ChainInv'
  BY <1>1, <1>6, <1>7, NewChain
<1>9. Untouched(sessionId)'
  <2>1. Untouched(s)'
    BY <1>3, <1>5, <1>7, UntouchedStays DEF Sent, Grades
  <2> QED
    BY <1>1, <1>2, <2>1 DEF Untouched
<1>10. BatchInv'
  BY <1>1, <1>5, <1>9 DEF BatchInv, BatchRows
<1>11. OnPaper'
  BY <1>9, OnPaperFresh
<1>12. VerdictInv'
  <2>1. \A i \in DOMAIN results : results[i].via = "answer"
    <3>1. sessionId = 0
      BY <1>3 DEF ExamInv, ScreenInv
    <3>2. \A r \in responses : r.session # 0
      BY DEF ExamInv, TableInv
    <3> QED
      BY <3>1, <3>2 DEF ExamInv, VerdictInv, RowsShown
  <2>2. RowsShown(results)'
    BY <1>1, <2>1 DEF ExamInv, VerdictInv, RowsShown, server
  <2>3. RefInv'
    BY <1>1 DEF ExamInv, VerdictInv, RefInv
  <2>4. \A e \in Waiting' : e.op # "bulk"
    BY <1>6, <1>7
  <2> QED
    BY <2>2, <2>3, <2>4 DEF VerdictInv
<1>13. ReportInv'
  BY <1>1, <1>6, <1>7 DEF ExamInv, ReportInv, server
<1> QED
  BY <1>5, <1>8, <1>10, <1>11, <1>12, <1>13 DEF CoreInv

\* The one the page waited for besides answers is gone.
LEMMA ChainHeard ==
  ASSUME ExamInv, NEW c \in Waiting, c.op # "answer", NEW f, NEW N, Effect(f, N),
         c \notin DOMAIN f
  PROVE  \A d \in Waiting' : d \in N \/ d.op = "answer"
<1>1. \A d \in DOMAIN f : d \in Waiting => d.op = "answer"
  BY DEF ExamInv, ChainInv
<1> QED
  BY <1>1, OnlyNew

\* A reply is heard and nothing sent: what that leaves of the tables.
LEMMA HeardTables ==
  ASSUME ExamInv, NEW done, calls' = calls \ done, clicks' = clicks, UNCHANGED server,
         sessionId' \in 0 .. Len(sessions)
  PROVE  \E f : /\ Effect(f, {}) /\ Tables(f)
                /\ DOMAIN f = calls \ done /\ \A c \in DOMAIN f : f[c] = c
                /\ TableInv' /\ BatchRows' /\ Started' <= Started
<1>1. PICK f : f = [c \in calls \ done |-> c]
  OBVIOUS
<1>2. Effect(f, {}) /\ Tables(f)
  BY <1>1, DropEffect DEF ExamInv
<1>3. DOMAIN f = calls \ done /\ \A c \in DOMAIN f : f[c] = c
  BY <1>1
<1>4. Started' <= Started
  BY <1>2, StartedLess DEF ExamInv, server
<1>5. Started' <= MaxSessions
  BY <1>2, <1>4, StartedBound DEF ExamInv
<1>6. sessionId' \in 0 .. Len(sessions')
  BY DEF server
<1>9. CountInv'
  BY <1>2, <1>3, CountsStay DEF ExamInv
<1>7. TableInv'
  BY <1>2, <1>3, <1>5, <1>6, <1>9, TableStays DEF ExamInv
<1>8. BatchRows'
  BY <1>2, BatchStays DEF ExamInv, BatchInv, BatchRows
<1> QED
  BY <1>2, <1>3, <1>4, <1>7, <1>8


LEMMA CorePaperReplied ==
  ASSUME ExamInv, NEW c \in calls, PaperReplied(c)
  PROVE  CoreInv'
<1>1. /\ c \in Waiting /\ c.op = "paper" /\ UNCHANGED server
      /\ calls' = calls \ {c} /\ clicks' = clicks /\ results' = <<>>
      /\ submittedIds' = {} /\ phase' \in {"ready", "exam"}
      /\ UNCHANGED <<sessionId, summary>>
  BY DEF PaperReplied, Replied
<1>2. sessionId \in 0 .. Len(sessions)
  BY DEF ExamInv, TableInv
<1>3. PICK f : /\ Effect(f, {}) /\ Tables(f) /\ DOMAIN f = calls \ {c}
               /\ TableInv' /\ BatchRows'
  BY <1>1, <1>2, HeardTables
<1>4. \A d \in Waiting' : d.op = "answer"
  BY <1>1, <1>3, ChainHeard
<1>5. Untouched(sessionId)'
  <2>1. Untouched(sessionId)
    BY <1>1 DEF ExamInv, BatchInv
  <2>2. PICK s : s = sessionId
    OBVIOUS
  <2>3. Untouched(s)'
    BY <1>3, <2>1, <2>2, UntouchedStays
  <2> QED
    BY <1>1, <2>2, <2>3 DEF Untouched
<1>6. NoBatch(sessionId)'
  BY <1>5 DEF Untouched, NoBatch, Grades
<1>7. ChainInv' /\ BatchInv'
  BY <1>1, <1>3, <1>4, <1>6, NoChain, NoPaperDue
<1>8. OnPaper' /\ VerdictInv'
  BY <1>1, <1>4, <1>5, OnPaperFresh, VerdictCleared
<1>9. ReportInv'
  BY <1>1, <1>4 DEF ExamInv, ReportInv, server
<1> QED
  BY <1>3, <1>7, <1>8, <1>9 DEF CoreInv

LEMMA CoreAnswerReplied ==
  ASSUME ExamInv, NEW c \in calls, AnswerReplied(c)
  PROVE  CoreInv'
<1>1. /\ c \in Waiting /\ c.op = "answer" /\ c.served /\ c.ok /\ UNCHANGED server
      /\ calls' = calls \ {c} /\ clicks' = clicks
      /\ submittedIds' = submittedIds \cup {r.item : r \in c.reply.rows}
      /\ results' = Graded(results, c.reply.rows)
      /\ UNCHANGED <<phase, sessionId, items, summary, failed>>
  BY DEF AnswerReplied, Replied
<1>2. sessionId' \in 0 .. Len(sessions)
  BY <1>1 DEF ExamInv, TableInv
<1>3. PICK f : /\ Effect(f, {}) /\ Tables(f) /\ DOMAIN f = calls \ {c}
               /\ (\A d \in DOMAIN f : f[d] = d) /\ Started' <= Started
               /\ TableInv'
  BY <1>1, <1>2, HeardTables
<1>4. phase = "loading" => ChainFailed' \/ \E d \in Waiting' : d.op # "answer"
  BY <1>1 DEF ExamInv, ChainInv, ChainFailed, Waiting
<1>5. TableInv' /\ ChainInv' /\ BatchInv' /\ OnPaper'
  <2>1. CountInv'
    BY <1>3 DEF TableInv
  <2> QED
    BY <1>1, <1>3, <1>4, <2>1, QuietCore
<1>6. VerdictInv' /\ DOMAIN results' = DOMAIN results \cup DOMAIN c.body
  <2>1. PICK v : v = results
    OBVIOUS
  <2>2. /\ RowsShown(v) /\ DOMAIN v \subseteq submittedIds
        /\ phase \notin {"loading", "results"} => submittedIds \subseteq DOMAIN v
    BY <2>1 DEF ExamInv, VerdictInv, RefInv
  <2>3. \A d \in Waiting' : d.op = "bulk" => d \in Waiting
    BY <1>1 DEF Waiting
  <2> QED
    BY <1>1, <1>3, <2>1, <2>2, <2>3, VerdictGraded DEF Grades, ExamInv
<1>7. ReportInv'
  BY <1>1, <1>3, <1>6, ReportStays DEF ExamInv
<1> QED
  BY <1>5, <1>6, <1>7 DEF CoreInv

LEMMA CoreBulkReplied ==
  ASSUME ExamInv, NEW c \in calls, BulkReplied(c)
  PROVE  CoreInv'
<1>1. /\ c \in Waiting /\ c.op = "bulk" /\ c.served /\ c.ok /\ UNCHANGED server
      /\ Send({c}, "finish", c.session, <<>>, <<>>)
      /\ submittedIds' = submittedIds \cup {r.item : r \in c.reply.rows}
      /\ results' = Graded(c.kept, c.reply.rows)
      /\ UNCHANGED <<phase, sessionId, items, summary>>
  BY DEF BulkReplied, Replied
<1>2. phase = "loading" /\ c.session = sessionId
  BY <1>1, WaitingTells DEF ExamInv
<1>3. sessionId # 0 /\ sessionId \in 0 .. Len(sessions)
  BY <1>2 DEF ExamInv, ScreenInv, TableInv
<1>4. PICK s : s = c.session
  OBVIOUS
<1>5. PICK f, d : Sent({c}, f, d, "finish", s, <<>>) /\ TableInv' /\ BatchRows'
  BY <1>1, <1>2, <1>3, <1>4, SendStep DEF Ops
<1>6. \A e \in Waiting' : e = d \/ e.op = "answer"
  BY <1>1, <1>5, ChainHeard DEF Sent
<1>7. d \in Waiting' /\ d.op = "finish" /\ d.session = sessionId'
  BY <1>1, <1>2, <1>4, <1>5 DEF Sent
<1>8. ChainInv' /\ BatchInv'
  BY <1>1, <1>2, <1>5, <1>6, <1>7, NewChain, NoPaperDue
<1>9. VerdictInv' /\ DOMAIN results' = DOMAIN c.kept \cup DOMAIN c.body
  <2>1. Tables(f)
    BY <1>5 DEF Sent
  <2>2. PICK v : v = c.kept
    OBVIOUS
  <2>3. RowsShown(v) /\ DOMAIN v \subseteq submittedIds
    BY <1>1, <2>2 DEF ExamInv, VerdictInv
  <2>4. \A e \in Waiting' : e.op # "bulk"
    BY <1>6, <1>7
  <2> QED
    BY <1>1, <1>2, <2>1, <2>2, <2>3, <2>4, VerdictGraded DEF Grades, ExamInv
<1>10. PaperItems \subseteq DOMAIN results'
  BY <1>1, <1>9 DEF ExamInv, ReportInv
<1>11. OnPaper' /\ ReportInv'
  BY <1>1, <1>2, <1>5, <1>9, <1>10, SentSame DEF Ops
<1> QED
  BY <1>5, <1>8, <1>9, <1>11 DEF CoreInv

LEMMA CoreFinishReplied ==
  ASSUME ExamInv, NEW c \in calls, FinishReplied(c)
  PROVE  CoreInv'
<1>1. /\ c \in Waiting /\ c.op = "finish" /\ c.served /\ c.ok /\ UNCHANGED server
      /\ calls' = calls \ {c} /\ clicks' = clicks /\ phase' = "results"
      /\ summary' = [there |-> TRUE, report |-> c.reply.report]
      /\ UNCHANGED <<sessionId, items, results, submittedIds>>
  BY DEF FinishReplied, Replied
<1>2. phase = "loading" /\ c.session = sessionId
  BY <1>1, WaitingTells DEF ExamInv
<1>3. sessionId # 0 /\ sessionId \in 0 .. Len(sessions)
  BY <1>2 DEF ExamInv, ScreenInv, TableInv
<1>4. PICK f : /\ Effect(f, {}) /\ Tables(f) /\ DOMAIN f = calls \ {c}
               /\ TableInv' /\ BatchRows'
  BY <1>1, <1>3, HeardTables
<1>5. \A d \in Waiting' : d.op = "answer"
  BY <1>1, <1>4, ChainHeard
<1>6. ChainInv' /\ BatchInv'
  BY <1>1, <1>4, <1>5, NoChain, NoPaperDue
<1>7. OnPaper'
  BY <1>1, <1>4, OnPaperStays DEF ExamInv
<1>8. VerdictInv'
  BY <1>1, <1>4, VerdictStays DEF ExamInv
<1>9. ReportInv'
  <2>1. /\ sessions[sessionId].status = "completed"
        /\ ReportTrue(sessionId, c.reply.report)
    BY <1>1, <1>2, WaitingGood DEF ExamInv, ReplyGood
  <2>2. PaperItems \subseteq DOMAIN results /\ PaperItems' = PaperItems
    BY <1>1 DEF ExamInv, ReportInv, PaperItems
  <2>3. summary'.there /\ summary'.report = c.reply.report
    BY <1>1
  <2>4. responses' = responses /\ sessions' = sessions /\ raced' = raced
    BY <1>1 DEF server
  <2>5. ReportTrue(sessionId, summary.report)'
    BY <1>1, <2>1, <2>3, <2>4 DEF ReportTrue
  <2>6. summary'.report \in [count : Counters, scored : Counters]
    BY <2>1, <2>3 DEF ReportTrue
  <2> QED
    BY <1>1, <1>3, <1>5, <2>1, <2>2, <2>3, <2>4, <2>5, <2>6 DEF ReportInv
<1> QED
  BY <1>4, <1>6, <1>7, <1>8, <1>9 DEF CoreInv

-----------------------------------------------------------------------------
(* A new start: nothing is left of the exam. *)

LEMMA CoreCleared ==
  ASSUME ExamInv, FreshExam, phase' = "setup", NEW f, Effect(f, {}), Tables(f),
         \A c \in DOMAIN f : (f[c].served => c.served) /\ (f[c].loaded => c.loaded),
         \A d \in Waiting' : d.op = "answer", UNCHANGED server,
         Started' <= Started
  PROVE  CoreInv'
<1>1. /\ items' = <<>> /\ results' = <<>> /\ submittedIds' = {} /\ sessionId' = 0
      /\ summary' = NoSummary
  BY DEF FreshExam
<1>2. Started' <= MaxSessions
  BY StartedBound DEF ExamInv
<1>3. sessionId' \in 0 .. Len(sessions')
  <2>1. Len(sessions') \in Nat
    BY DEF Tables
  <2> QED
    BY <1>1, <2>1
<1>10. CountInv'
  BY CountsStay DEF ExamInv
<1>4. TableInv'
  BY <1>2, <1>3, <1>10, TableStays DEF ExamInv
<1>5. BatchRows'
  BY BatchStays DEF ExamInv, BatchInv, BatchRows
<1>6. ChainInv' /\ BatchInv'
  BY <1>5, NoChain, NoPaperDue
<1>7. Untouched(sessionId)'
  BY <1>1, <1>4, ClearedUntouched
<1>8. OnPaper' /\ VerdictInv'
  BY <1>1, <1>7, OnPaperFresh, VerdictCleared
<1>9. ReportInv'
  BY <1>1 DEF ReportInv, NoSummary, NoReport, Zero, Counters
<1> QED
  BY <1>4, <1>6, <1>8, <1>9 DEF CoreInv

LEMMA CoreReset ==
  ASSUME ExamInv, Reset
  PROVE  CoreInv'
<1>1. /\ phase \in {"exam", "results"} /\ phase' = "setup" /\ FreshExam
      /\ UNCHANGED <<calls, clicks, server>>
  BY DEF Reset, RunnerShown, ReportShown, wire
<1>2. PICK f : f = [c \in calls \ {} |-> c]
  OBVIOUS
<1>3. Effect(f, {}) /\ Tables(f)
  BY <1>1, <1>2, DropEffect DEF ExamInv
<1>4. \A c \in DOMAIN f : f[c] = c
  BY <1>2
<1>5. Started' <= Started
  BY <1>1, <1>3, StartedLess DEF ExamInv, server
<1>6. \A d \in Waiting' : d.op = "answer"
  <2>1. Waiting' = Waiting
    BY <1>1 DEF Waiting
  <2> QED
    BY <1>1, <2>1, NoneInExam
<1> QED
  BY <1>1, <1>3, <1>4, <1>5, <1>6, CoreCleared

LEMMA CoreLeave ==
  ASSUME ExamInv, Leave
  PROVE  CoreInv'
<1>1. /\ phase' = "setup" /\ FreshExam /\ UNCHANGED <<clicks, server>>
      /\ calls' = {[c EXCEPT !.live = FALSE, !.pending = FALSE] :
                      c \in {d \in calls : ~d.served}}
  BY DEF Leave
<1>2. PICK f : f = [c \in {d \in calls : ~d.served} |->
                       [c EXCEPT !.live = FALSE, !.pending = FALSE]]
  OBVIOUS
<1>3. Effect(f, {}) /\ Tables(f)
  BY <1>1, <1>2, LeaveEffect DEF ExamInv
<1>4. ASSUME NEW c \in DOMAIN f
      PROVE  ~f[c].served /\ ~f[c].pending /\ f[c].loaded = c.loaded
  <2>1. /\ c \in calls /\ ~c.served
        /\ f[c] = [c EXCEPT !.live = FALSE, !.pending = FALSE]
    BY <1>2
  <2>2. CallGood(c)
    BY <2>1 DEF ExamInv, TableInv
  <2> QED
    BY <2>1, <2>2 DEF CallGood, CallFieldNames
<1>5. Waiting' = {}
  <2>1. ASSUME NEW d \in Waiting'
        PROVE  FALSE
    <3>1. d \in calls' /\ d.pending
      BY DEF Waiting
    <3>2. PICK c \in DOMAIN f : d = f[c]
      BY <1>3, <3>1, EffectKin
    <3> QED
      BY <3>1, <3>2, <1>4
  <2> QED
    BY <2>1
<1>6. Started' <= Started
  BY <1>1, <1>3, StartedLess DEF ExamInv, server
<1> QED
  BY <1>1, <1>3, <1>4, <1>5, <1>6, CoreCleared

-----------------------------------------------------------------------------
(* All steps, and what follows. *)

LEMMA CoreUser ==
  ASSUME ExamInv, User
  PROVE  CoreInv'
<1>1. CASE ToggleFeedback \/ Turn \/ ToggleFlag \/ Review \/ Begin
  <2>1. /\ UNCHANGED <<calls, clicks, server, failed>>
        /\ UNCHANGED <<sessionId, items, results, submittedIds, summary>>
    BY <1>1 DEF ToggleFeedback, Turn, ToggleFlag, Review, Begin, wire, exam
  <2>2. phase' = phase \/ (phase = "ready" /\ phase' = "exam")
    BY <1>1 DEF ToggleFeedback, Turn, ToggleFlag, Review, Begin, CoverSheetShown
  <2> QED
    BY <2>1, <2>2, StillStep
<1>2. ASSUME NEW k \in DOMAIN items, PickLocked(k)
      PROVE  CoreInv'
  <2>1. /\ UNCHANGED <<calls, clicks, server, failed, phase>>
        /\ UNCHANGED <<sessionId, items, results, submittedIds, summary>>
    BY <1>2 DEF PickLocked, wire
  <2> QED
    BY <2>1, StillStep
<1>3. ASSUME NEW o \in Options, ClickOption(o)
      PROVE  CoreInv'
  <2>1. /\ current \in DOMAIN items /\ phase = "exam" /\ Choose(current, o)
        /\ UNCHANGED server
        /\ UNCHANGED <<phase, sessionId, items, results, submittedIds, summary>>
    BY <1>3 DEF ClickOption, RunnerShown
  <2> QED
    BY <2>1, CoreChoose
<1>4. ASSUME NEW k \in DOMAIN items, NEW o \in Options, PickAt(k, o)
      PROVE  CoreInv'
  <2>1. /\ phase = "exam" /\ Choose(k, o) /\ UNCHANGED server
        /\ UNCHANGED <<phase, sessionId, items, results, submittedIds, summary>>
    BY <1>4 DEF PickAt, SheetBubble, RunnerShown
  <2> QED
    BY <2>1, CoreChoose
<1> QED
  BY <1>1, <1>2, <1>3, <1>4, CoreStart, CoreSubmit, CoreReset, CoreLeave DEF User

LEMMA ExamStep ==
  ASSUME ExamInv, [Next]_vars
  PROVE  ExamInv'
<1>1. ASSUME Next
      PROVE  CoreInv'
  <2>1. ASSUME NEW c \in calls, Reply(c)
        PROVE  CoreInv'
    BY <2>1, CoreStartReplied, CorePaperReplied, CoreAnswerReplied, CoreBulkReplied,
       CoreFinishReplied, CoreFails DEF Reply
  <2>2. ASSUME NEW i \in Items, Edit(i)
        PROVE  CoreInv'
    <3>1. /\ UNCHANGED <<calls, clicks, server, failed, phase>>
          /\ UNCHANGED <<sessionId, items, results, submittedIds, summary>>
      BY <2>2 DEF Edit, wire, page, exam
    <3> QED
      BY <3>1, StillStep
  <2> QED
    BY <1>1, <2>1, <2>2, CoreUser, CoreServe, CoreLost DEF Next
<1>2. ASSUME Next
      PROVE  ScreenInv' /\ BankInv'
  BY <1>2, ScreenNext, BankNext DEF ExamInv
<1>3. CASE UNCHANGED vars
  <2>1. /\ UNCHANGED <<calls, clicks, server, failed, phase>>
        /\ UNCHANGED <<sessionId, items, results, submittedIds, summary>>
    BY <1>3 DEF vars, wire, page, exam
  <2>2. CoreInv'
    BY <2>1, StillStep
  <2>3. ScreenInv'
    <3>1. PaperItems' = PaperItems
      BY <2>1 DEF PaperItems
    <3> QED
      BY <1>3, <3>1 DEF vars, page, exam, ScreenInv, ExamInv
  <2>4. BankInv'
    BY <1>3 DEF vars, wire, bank, BankInv, ExamInv
  <2> QED
    BY <2>2, <2>3, <2>4 DEF CoreInv, ExamInv
<1> QED
  BY <1>1, <1>2, <1>3 DEF CoreInv, ExamInv

LEMMA ExamInit == Init => ExamInv
<1> SUFFICES ASSUME Init
             PROVE  ExamInv
  OBVIOUS
<1>1. /\ phase = "setup" /\ feedback = FALSE /\ sessionId = 0 /\ items = <<>>
      /\ answers = [i \in Items |-> NoOption] /\ flagged = {} /\ results = <<>>
      /\ current = 1 /\ summary = NoSummary /\ showReview = FALSE
      /\ submittedIds = {} /\ failed = {} /\ calls = {} /\ clicks = 0 /\ faults = 0
      /\ sessions = <<>> /\ responses = {} /\ raced = {}
      /\ version = [i \in Items |-> 1] /\ edits = 0
  BY DEF Init
<1>2. Waiting = {}
  BY <1>1 DEF Waiting
<1>3. PaperItems = {}
  BY <1>1, NothingDrawn DEF PaperItems
<1>4. TableInv
  <2>1. Started = 0
    <3>1. {c \in calls : c.op = "start" /\ ~c.served} = {}
      BY <1>1
    <3> QED
      BY <1>1, <3>1, FS_EmptySet DEF Started
  <2>2. MaxSessions \in Nat
    BY ExamAssumption
  <2>3. CountInv
    <3>1. {r.id : r \in responses} = 1 .. 0 /\ 0 \in Nat
      BY <1>1
    <3> QED
      BY <1>1, <3>1, NoVerdicts DEF CountInv
  <2> QED
    BY <1>1, <2>1, <2>2, <2>3, FS_EmptySet DEF TableInv
<1>5. ChainInv /\ BatchInv /\ OnPaper
  BY <1>1, <1>2 DEF ChainInv, BatchInv, OneBatch, OnPaper, NoBatch
<1>6. VerdictInv
  BY <1>1, <1>2, NoVerdicts DEF VerdictInv, RefInv, RowsShown
<1>7. ReportInv
  BY <1>1, <1>2 DEF ReportInv, NoSummary, NoReport, Zero, Counters
<1>8. ScreenInv
  <2>1. current \in 1 .. (Len(items) + 1)
    BY <1>1, NothingDrawn
  <2>2. items \in Paper
    BY <1>1, NothingDrawn
  <2>3. answers \in [Items -> Marks]
    BY <1>1 DEF Marks
  <2> QED
    BY <1>1, <2>1, <2>2, <2>3 DEF ScreenInv
<1>9. BankInv
  BY <1>1, ExamAssumption DEF BankInv
<1> QED
  BY <1>4, <1>5, <1>6, <1>7, <1>8, <1>9 DEF ExamInv

LEMMA ExamTyping == ExamInv => TypeOK
<1> SUFFICES ASSUME ExamInv
             PROVE  TypeOK
  OBVIOUS
<1>1. MaxTrouble \in Nat /\ edits \in Nat /\ edits <= MaxTrouble
  BY ExamAssumption DEF ExamInv, BankInv
<1>2. version \in [Items -> 0 .. MaxTrouble + 1]
  <2>1. 0 .. edits + 1 \subseteq 0 .. MaxTrouble + 1
    BY <1>1
  <2>2. version \in [Items -> 0 .. edits + 1]
    BY DEF ExamInv, BankInv
  <2> QED
    BY <2>1, <2>2
<1>3. submittedIds \subseteq Items /\ DOMAIN results \subseteq Items
  BY DEF ExamInv, VerdictInv, RefInv
<1>4. \A i \in DOMAIN results : results[i] \in responses /\ results[i].item = i
  BY DEF ExamInv, VerdictInv, RowsShown
<1>5. /\ summary.report \in [count : [Kinds -> Nat], scored : [Kinds -> Nat]]
      /\ raced \subseteq DOMAIN sessions
  BY DEF ExamInv, ReportInv, Counters, TableInv, CountInv
<1>6. /\ sessionId \in 0 .. Len(sessions) /\ responses \subseteq RowType
      /\ \A c \in calls : c.session \in 0 .. Len(sessions) /\ c.n <= clicks
  BY DEF ExamInv, TableInv, CallGood
<1>7. /\ phase \in {"setup", "loading", "ready", "exam", "results"}
      /\ {feedback, showReview} \subseteq BOOLEAN
      /\ items \in Seq([item : Items, version : Nat \ {0}])
      /\ answers \in [Items -> Marks]
      /\ flagged \subseteq PaperItems \cap Flaggable
      /\ current \in 1 .. (Len(items) + 1)
      /\ failed \subseteq {"start", "paper", "bulk", "finish"}
  BY DEF ExamInv, ScreenInv, Paper
<1> QED
  BY <1>2, <1>3, <1>4, <1>5, <1>6, <1>7 DEF TypeOK

\* The page, the requests under way and the tables keep their types; the
\* questions flagged and the verdicts shown are of the papers they belong to.
THEOREM ExamTyped == Spec => []TypeOK
BY ExamInit, ExamStep, ExamTyping, PTL DEF Spec

\* An exam is handed in once: whichever requests are lost, late or given up, no
\* question of a session is graded twice by batches.
THEOREM HandedInOnce == Spec => []OneBatch
<1>1. ExamInv => OneBatch
  BY DEF ExamInv, BatchInv
<1> QED
  BY <1>1, ExamInit, ExamStep, PTL DEF Spec

\* When the report is up, each question of the paper has a response row, of
\* this session unless it was sent in feedback mode.
THEOREM NothingLost == Spec => []NothingOnlyOnPaper
<1>1. ExamInv => NothingOnlyOnPaper
  <2> SUFFICES ASSUME ExamInv, ReportShown, NEW i \in PaperItems
               PROVE  \E r \in responses :
                         r.item = i /\ (r.session = sessionId \/ r.via = "answer")
    BY DEF NothingOnlyOnPaper
  <2>1. i \in DOMAIN results
    BY DEF ExamInv, ReportInv, ReportShown
  <2> QED
    BY <2>1 DEF ExamInv, VerdictInv, RowsShown
<1> QED
  BY <1>1, ExamInit, ExamStep, PTL DEF Spec

\* The answer sheet beside the report shows a question as its row has it, unless
\* it has two rows or the verdict is of another exam.  The report counts no answer
\* that is not there; it counts every one, and scores what it counts, in a session
\* no two requests of which were served at once, however late or lost the replies.
THEOREM ReportAgrees == Spec => []SheetAgrees
<1>1. ExamInv => SheetAgrees
  <2> SUFFICES ASSUME ExamInv, ReportShown
               PROVE  SheetAgrees
    BY DEF SheetAgrees
  <2>1. /\ PaperItems \subseteq DOMAIN results
        /\ ReportTrue(sessionId, summary.report)
    BY DEF ExamInv, ReportInv, ReportShown
  <2>2. ASSUME NEW r \in RowsOf(sessionId)
        PROVE  \/ r.item \in PaperItems /\ Tone(r.item) = r.kind
               \/ \E q \in RowsOf(sessionId) : q # r /\ q.item = r.item
               \/ /\ r.item \in DOMAIN results
                  /\ results[r.item].session # sessionId
    <3>1. r \in responses /\ r.session = sessionId
      BY DEF RowsOf
    <3>2. r.item \in PaperItems
      BY <3>1 DEF ExamInv, OnPaper
    <3>3. /\ r.item \in DOMAIN results /\ results[r.item] \in responses
          /\ results[r.item].item = r.item
      BY <2>1, <3>2 DEF ExamInv, VerdictInv, RowsShown
    <3>4. CASE results[r.item] = r
      BY <3>2, <3>3, <3>4 DEF Tone
    <3>5. CASE results[r.item] # r /\ results[r.item].session = sessionId
      <4>1. results[r.item] \in RowsOf(sessionId)
        BY <3>3, <3>5 DEF RowsOf
      <4> QED
        BY <4>1, <3>3, <3>5
    <3> QED
      BY <3>3, <3>4, <3>5
  <2>3. \A k \in Kinds : ReportCounts[k] <= Tally(RowsOf(sessionId))[k]
    BY <2>1, TallyIsNum DEF ReportTrue, ReportCounts
  <2>4. ASSUME sessionId \notin raced
        PROVE  /\ ReportCounts = Tally(RowsOf(sessionId))
               /\ summary.report.scored = ReportCounts
    <3>1. \A k \in Kinds : /\ ReportCounts[k] = Tally(RowsOf(sessionId))[k]
                           /\ summary.report.scored[k] = ReportCounts[k]
      BY <2>1, <2>4, TallyIsNum DEF ReportTrue, ReportCounts
    <3>2. /\ ReportCounts \in Counters /\ summary.report.scored \in Counters
      BY <2>1 DEF ReportTrue, ReportCounts
    <3>3. IsFiniteSet(RowsOf(sessionId))
      BY FS_Subset DEF ExamInv, TableInv, RowsOf
    <3>4. Tally(RowsOf(sessionId)) \in Counters
      BY <3>3, TallyNat
    <3> QED
      BY <3>1, <3>2, <3>4 DEF Counters
  <2> QED
    BY <2>2, <2>3, <2>4 DEF SheetAgrees
<1> QED
  BY <1>1, ExamInit, ExamStep, PTL DEF Spec

\* While the learner works on an exam, what its hand-in would leave out is what
\* the page shows as graded, for any number of exams, requests, lost replies and
\* late ones.
THEOREM RefAgrees == Spec => []RefMatchesState
<1>1. ExamInv => RefMatchesState
  BY DEF ExamInv, VerdictInv, RefInv, RefMatchesState
<1> QED
  BY <1>1, ExamInit, ExamStep, PTL DEF Spec

\* A screen without any usable control is waiting for its chain, has seen it
\* fail, or shows the exam phase of an empty paper.
THEOREM StuckExplained == Spec => []StuckHasReason
<1>1. ExamInv => StuckHasReason
  <2> SUFFICES ASSUME ExamInv
               PROVE  StuckHasReason
    OBVIOUS
  <2>1. CASE phase = "setup"
    <3>1. CASE Busy
      BY <3>1 DEF Busy, StuckHasReason
    <3> QED
      BY <2>1, <3>1 DEF StuckHasReason, WayOut, StartEnabled
  <2>2. CASE phase = "loading"
    BY <2>2 DEF ExamInv, ChainInv, StuckHasReason
  <2>3. CASE phase = "exam"
    BY <2>3 DEF ExamInv, ScreenInv, StuckHasReason, WayOut, RunnerShown
  <2>4. CASE phase = "results"
    BY <2>4 DEF ExamInv, ReportInv, StuckHasReason, WayOut, ReportShown
  <2>5. CASE phase = "ready"
    BY <2>5 DEF StuckHasReason, WayOut, CoverSheetShown
  <2> QED
    BY <2>1, <2>2, <2>3, <2>4, <2>5 DEF ExamInv, ScreenInv
<1> QED
  BY <1>1, ExamInit, ExamStep, PTL DEF Spec
=============================================================================
