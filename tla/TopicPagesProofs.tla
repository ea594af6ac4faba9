--------------------------- MODULE TopicPagesProofs ---------------------------
(***************************************************************************)
(* Theorems about TopicPages, for any number of tabs, topics and requests: *)
(* what the dialogs' look at their own tree guards, and what it does not.  *)
(***************************************************************************)
EXTENDS TopicPages, FiniteSetTheorems, TLAPS

TopicType == [parent : 0 .. Len(topics), level : 0 .. 3, active : BOOLEAN]

TableInv ==
    /\ topics \in Seq(TopicType)
    /\ linked \subseteq DOMAIN topics
    /\ clock \in Nat /\ behind \in BOOLEAN /\ edited \in BOOLEAN

\* What a dialog may act on, if nothing was committed since it was opened: a
\* topic that is there, and of one to be deleted nothing below it.
Usable(x, since) == x # 0 /\ since = clock => x \in Active

Barren(x, since) == since = clock => ChildrenIn(Active, x) = {}

CallFieldNames ==
    {"tab", "op", "topic", "active", "since", "live", "phase", "at", "tree"}

\* A write that has not been committed yet.
Unwritten(c) == c.op # "tree" /\ c.phase \in {"sent", "checked"}

CallOK(c) ==
    /\ DOMAIN c = CallFieldNames
    /\ c.tab \in Tabs /\ c.op \in {"tree", "create", "update", "delete", "item"}
    /\ c.topic \in 0 .. Len(topics)
    /\ c.op \in {"update", "delete", "item"} => c.topic # 0
    /\ c.op = "create" /\ c.topic # 0 => Level(c.topic) <= 2
    /\ c.active \in BOOLEAN /\ c.live \in BOOLEAN
    /\ c.phase \in {"sent", "checked", "ok", "refused"}
    /\ c.since \in 0 .. clock /\ c.at \in 0 .. clock
    /\ c.tree \subseteq DOMAIN topics
    /\ c.op = "tree" /\ c.phase = "ok" /\ c.at = clock => c.tree = Active
    /\ Unwritten(c) =>
          /\ Usable(c.topic, c.since)
          /\ c.op = "delete" => Barren(c.topic, c.since)
          /\ c.op = "delete" /\ c.phase = "checked" /\ c.since = clock =>
                c.topic \notin linked

\* A tree on its way is as new as the one shown and as the writes told of.
Newer(c, p) ==
    c.op = "tree" /\ c.phase = "ok" => c.at >= p.asOf /\ (c.at >= p.own \/ p.early)

\* ChosenParent of a sheet.
ParentIn(s) ==
    CASE s.level = 0 -> 0
      [] s.level = 1 -> s.exam
      [] s.level = 2 -> s.subject
      [] OTHER -> s.domain

\* The selectors of a sheet agree from the parent up.
Nested(s) ==
    /\ s.level > 0 /\ ParentIn(s) # 0 => Level(ParentIn(s)) = s.level - 1
    /\ s.level >= 2 /\ s.exam # 0 /\ s.subject # 0 => Parent(s.subject) = s.exam
    /\ s.level >= 3 /\ s.domain # 0 => Parent(s.domain) = s.subject

SheetOK(s, asOf) ==
    /\ DOMAIN s = DOMAIN Closed
    /\ s.mode \in {"closed", "create", "edit"}
    /\ s.level \in 0 .. 3 /\ s.active \in BOOLEAN
    /\ {s.topic, s.exam, s.subject, s.domain} \subseteq 0 .. Len(topics)
    /\ s.since \in 0 .. asOf
    /\ s.mode = "edit" => s.topic # 0 /\ Usable(s.topic, s.since)
    /\ s.mode = "create" => Nested(s) /\ Usable(ParentIn(s), s.since)

TargetOK(g, asOf) ==
    /\ DOMAIN g = DOMAIN NoTarget
    /\ g.topic \in 0 .. Len(topics) /\ g.since \in 0 .. asOf
    /\ g.topic # 0 =>
          /\ Usable(g.topic, g.since)
          /\ ~g.kids => Barren(g.topic, g.since)

FormOK(f, asOf) ==
    /\ DOMAIN f = DOMAIN NoChoice
    /\ f.topic \in 0 .. Len(topics) /\ f.since \in 0 .. asOf
    /\ Usable(f.topic, f.since)

\* The tree of a tab, and what was told to it.
CacheOK(p) ==
    /\ {p.loaded, p.fresh, p.early} \subseteq BOOLEAN
    /\ p.tree \subseteq DOMAIN topics
    /\ p.asOf \in 0 .. clock /\ p.own \in 0 .. clock
    /\ ~p.loaded => p.tree = {}
    /\ p.loaded /\ p.asOf = clock => p.tree = Active
    /\ p.fresh /\ ~p.early => p.asOf >= p.own

PageOK(p) ==
    /\ DOMAIN p = DOMAIN FreshPage
    /\ p.screen \in {"topics", "new"}
    /\ CacheOK(p)
    /\ SheetOK(p.sheet, p.asOf)
    /\ TargetOK(p.target, p.asOf)
    /\ FormOK(p.form, p.asOf)

PageInv ==
    /\ DOMAIN page = Tabs
    /\ \A t \in Tabs : PageOK(page[t])

CallInv ==
    /\ \A c \in calls : CallOK(c) /\ Newer(c, page[c.tab])
    /\ \A c, d \in calls :
          c.op = "tree" /\ d.op = "tree" /\ c.tab = d.tab => c = d

\* Every commit was paid for by a write that was sent.
UnwrittenCalls == {c \in calls : Unwritten(c)}

WriteInv ==
    /\ writes \in 0 .. MaxWrites
    /\ IsFiniteSet(UnwrittenCalls)
    /\ clock + Cardinality(UnwrittenCalls) <= writes

TopicInv ==
    /\ TableInv /\ PageInv /\ CallInv /\ WriteInv
    /\ OrphansNeedStaleness /\ LinkedStayActive


-----------------------------------------------------------------------------
(* Finite sets, and steps that leave the table alone. *)

LEMMA Images ==
  ASSUME NEW f, IsFiniteSet(DOMAIN f)
  PROVE  LET R == {f[x] : x \in DOMAIN f}
         IN  IsFiniteSet(R) /\ Cardinality(R) <= Cardinality(DOMAIN f)
<1> DEFINE R == {f[x] : x \in DOMAIN f}
<1>1. \E g \in Surjection(DOMAIN f, R) : TRUE
  <2>1. [x \in DOMAIN f |-> f[x]] \in Surjection(DOMAIN f, R)
    BY DEF Surjection
  <2> QED
    BY <2>1
<1> QED
  BY <1>1, FS_Surjection DEF ExistsSurjection

LEMMA UnchangedCall ==
  ASSUME NEW c, CallOK(c), UNCHANGED <<topics, linked, clock>>
  PROVE  CallOK(c)'
BY DEF CallOK, Usable, Barren, ChildrenIn, Active, Level, Parent, Unwritten

LEMMA UnchangedPage ==
  ASSUME NEW p, PageOK(p), UNCHANGED <<topics, linked, clock>>
  PROVE  PageOK(p)'
BY DEF PageOK, CacheOK, SheetOK, TargetOK, FormOK, Nested, ParentIn, Usable, Barren,
   ChildrenIn, Active, Level, Parent, Closed, NoTarget, NoChoice, FreshPage

\* What a step that commits nothing has to keep.
LEMMA QuietStep ==
  ASSUME TopicInv, UNCHANGED <<topics, linked, clock, behind, edited>>,
         DOMAIN page' = Tabs,
         \A t \in Tabs : PageOK(page'[t]),
         \A c \in calls' : CallOK(c) /\ Newer(c, page'[c.tab]),
         \A c, d \in calls' :
            c.op = "tree" /\ d.op = "tree" /\ c.tab = d.tab => c = d,
         WriteInv'
  PROVE  TopicInv'
<1>1. TableInv'
  BY DEF TopicInv, TableInv, TopicType
<1>2. PageInv'
  <2>1. ASSUME NEW t \in Tabs
        PROVE  PageOK(page[t])'
    <3>1. PICK p : p = page'[t]
      OBVIOUS
    <3>2. PageOK(p)'
      BY <3>1, UnchangedPage
    <3> QED
      BY <3>1, <3>2
  <2> QED
    BY <2>1 DEF PageInv
<1>3. CallInv'
  <2>1. ASSUME NEW c \in calls'
        PROVE  CallOK(c)' /\ Newer(c, page'[c.tab])
    BY UnchangedCall
  <2>2. ASSUME NEW c \in calls'
        PROVE  Newer(c, page[c.tab])'
    BY <2>1 DEF Newer
  <2> QED
    BY <2>1, <2>2 DEF CallInv
<1>4. OrphansNeedStaleness' /\ LinkedStayActive'
  BY DEF TopicInv, OrphansNeedStaleness, LinkedStayActive, Orphans, Roots, Active, Parent
<1> QED
  BY <1>1, <1>2, <1>3, <1>4 DEF TopicInv

-----------------------------------------------------------------------------
(* What is under way. *)

LEMMA FewerUnwritten ==
  ASSUME WriteInv, TableInv, NEW S, S \subseteq UnwrittenCalls
  PROVE  IsFiniteSet(S) /\ clock + Cardinality(S) <= writes
<1>1. /\ IsFiniteSet(S) /\ Cardinality(S) <= Cardinality(UnwrittenCalls)
  BY FS_Subset DEF WriteInv
<1>2. Cardinality(S) \in Nat /\ Cardinality(UnwrittenCalls) \in Nat
  BY <1>1, FS_CardinalityType DEF WriteInv
<1>3. clock \in Nat /\ writes \in Nat
  BY TopicAssumption DEF WriteInv, TableInv
<1> QED
  BY <1>1, <1>2, <1>3 DEF WriteInv


LEMMA WritesImage ==
  ASSUME WriteInv, TableInv, clock' = clock,
         writes' = writes \/ (writes < MaxWrites /\ writes' = writes + 1),
         NEW f, DOMAIN f \subseteq UnwrittenCalls,
         UnwrittenCalls' \subseteq {f[c] : c \in DOMAIN f}
  PROVE  WriteInv'
<1>1. /\ IsFiniteSet(DOMAIN f) /\ clock + Cardinality(DOMAIN f) <= writes
  BY FewerUnwritten
<1> DEFINE R == {f[c] : c \in DOMAIN f}
<1>2. IsFiniteSet(R) /\ Cardinality(R) <= Cardinality(DOMAIN f)
  BY <1>1, Images
<1> HIDE DEF R
<1>3. PICK U : U = UnwrittenCalls'
  OBVIOUS
<1>4. IsFiniteSet(U) /\ Cardinality(U) <= Cardinality(R)
  BY <1>2, <1>3, FS_Subset DEF R
<1>5. /\ Cardinality(U) \in Nat /\ Cardinality(R) \in Nat
      /\ Cardinality(DOMAIN f) \in Nat
  BY <1>1, <1>2, <1>4, FS_CardinalityType
<1>6. clock \in Nat /\ writes \in Nat /\ MaxWrites \in Nat /\ writes <= MaxWrites
  BY TopicAssumption DEF WriteInv, TableInv
<1>7. writes' \in 0 .. MaxWrites /\ writes <= writes'
  BY <1>6
<1>8. clock' + Cardinality(U) <= writes'
  BY <1>1, <1>2, <1>4, <1>5, <1>6, <1>7
<1> QED
  BY <1>3, <1>4, <1>7, <1>8 DEF WriteInv

LEMMA WritesStay ==
  ASSUME WriteInv, TableInv, clock' = clock,
         writes' = writes \/ (writes < MaxWrites /\ writes' = writes + 1),
         UnwrittenCalls' \subseteq UnwrittenCalls
  PROVE  WriteInv'
<1>1. PICK f : f = [c \in UnwrittenCalls |-> c]
  OBVIOUS
<1>2. {f[c] : c \in DOMAIN f} = UnwrittenCalls
  BY <1>1
<1> QED
  BY <1>1, <1>2, WritesImage

LEMMA WritesSent ==
  ASSUME WriteInv, TableInv, clock' = clock, writes < MaxWrites,
         writes' = writes + 1, NEW c, calls' = calls \cup {c}
  PROVE  WriteInv'
<1>1. PICK U : U = UnwrittenCalls'
  OBVIOUS
<1>2. U \subseteq UnwrittenCalls \cup {c}
  BY <1>1 DEF UnwrittenCalls
<1>3. /\ IsFiniteSet(UnwrittenCalls \cup {c})
      /\ Cardinality(UnwrittenCalls \cup {c}) <= Cardinality(UnwrittenCalls) + 1
      /\ Cardinality(UnwrittenCalls) \in Nat
  <2>1. IsFiniteSet(UnwrittenCalls)
    BY DEF WriteInv
  <2> HIDE DEF UnwrittenCalls
  <2>2. Cardinality(UnwrittenCalls) \in Nat
    BY <2>1, FS_CardinalityType
  <2> QED
    BY <2>1, <2>2, FS_AddElement
<1>4. /\ IsFiniteSet(U) /\ Cardinality(U) \in Nat
      /\ Cardinality(U) <= Cardinality(UnwrittenCalls \cup {c})
      /\ Cardinality(UnwrittenCalls \cup {c}) \in Nat
  BY <1>2, <1>3, FS_Subset, FS_CardinalityType
<1>5. clock \in Nat /\ writes \in Nat /\ MaxWrites \in Nat /\ writes <= MaxWrites
  BY TopicAssumption DEF WriteInv, TableInv
<1>6. writes' \in 0 .. MaxWrites
  BY <1>5
<1>7. clock' + Cardinality(U) <= writes'
  BY <1>3, <1>4, <1>5 DEF WriteInv
<1> QED
  BY <1>1, <1>4, <1>6, <1>7 DEF WriteInv

LEMMA FetchOK ==
  ASSUME TableInv, NEW t \in Tabs, NEW p
  PROVE  CallOK(StartFetch(t)) /\ Newer(StartFetch(t), p)
<1>1. PICK c : c = StartFetch(t)
  OBVIOUS
<1>2. /\ DOMAIN c = CallFieldNames
      /\ c.tab = t /\ c.op = "tree" /\ c.topic = 0 /\ c.active = TRUE /\ c.since = 0
      /\ c.live = TRUE /\ c.phase = "sent" /\ c.at = 0 /\ c.tree = {}
  BY <1>1 DEF StartFetch, Call, CallFieldNames
<1>3. 0 \in 0 .. Len(topics) /\ 0 \in 0 .. clock
  BY DEF TableInv
<1>4. CallOK(c) /\ Newer(c, p)
  BY <1>2, <1>3 DEF CallOK, Newer, Unwritten
<1> QED
  BY <1>1, <1>4

-----------------------------------------------------------------------------
(* The dialogs. *)

LEMMA LocalStep ==
  ASSUME TopicInv, Local, NEW t \in Tabs, NEW p, page' = [page EXCEPT ![t] = p],
         PageOK(p), p.asOf = page[t].asOf, p.own = page[t].own,
         p.early = page[t].early
  PROVE  TopicInv'
<1>1. /\ UNCHANGED <<topics, linked, clock, behind, edited>>
      /\ calls' = calls /\ writes' = writes
  BY DEF Local
<1>2. DOMAIN page' = Tabs /\ \A u \in Tabs : PageOK(page'[u])
  BY DEF TopicInv, PageInv
<1>3. ASSUME NEW c \in calls'
      PROVE  CallOK(c) /\ Newer(c, page'[c.tab])
  <2>1. CallOK(c) /\ Newer(c, page[c.tab]) /\ c.tab \in Tabs
    BY <1>1 DEF TopicInv, CallInv, CallOK
  <2>2. /\ page'[c.tab].asOf = page[c.tab].asOf /\ page'[c.tab].own = page[c.tab].own
        /\ page'[c.tab].early = page[c.tab].early
    BY <2>1 DEF TopicInv, PageInv
  <2> QED
    BY <2>1, <2>2 DEF Newer
<1>4. \A c, d \in calls' :
         c.op = "tree" /\ d.op = "tree" /\ c.tab = d.tab => c = d
  BY <1>1 DEF TopicInv, CallInv
<1>5. WriteInv'
  BY <1>1, WritesStay DEF TopicInv, UnwrittenCalls
<1> QED
  BY <1>1, <1>2, <1>3, <1>4, <1>5, QuietStep

LEMMA SheetStep ==
  ASSUME TopicInv, Local, NEW t \in Tabs, NEW s, SetSheet(t, s),
         SheetOK(s, page[t].asOf)
  PROVE  TopicInv'
<1>1. PICK p : p = [page[t] EXCEPT !.sheet = s]
  OBVIOUS
<1>2. PageOK(page[t]) /\ DOMAIN page = Tabs
  BY DEF TopicInv, PageInv
<1>3. page' = [page EXCEPT ![t] = p]
  BY <1>1 DEF SetSheet
<1>4. /\ DOMAIN p = DOMAIN FreshPage /\ p.sheet = s
      /\ p.screen = page[t].screen /\ p.loaded = page[t].loaded
      /\ p.tree = page[t].tree /\ p.asOf = page[t].asOf /\ p.fresh = page[t].fresh
      /\ p.own = page[t].own /\ p.early = page[t].early
      /\ p.target = page[t].target /\ p.form = page[t].form
  BY <1>1, <1>2 DEF PageOK, FreshPage
<1>5. PageOK(p)
  BY <1>2, <1>4 DEF PageOK, CacheOK
<1> QED
  BY <1>3, <1>4, <1>5, LocalStep

LEMMA TargetStep ==
  ASSUME TopicInv, Local, NEW t \in Tabs, NEW g,
         page' = [page EXCEPT ![t].target = g], TargetOK(g, page[t].asOf)
  PROVE  TopicInv'
<1>1. PICK p : p = [page[t] EXCEPT !.target = g]
  OBVIOUS
<1>2. PageOK(page[t]) /\ DOMAIN page = Tabs
  BY DEF TopicInv, PageInv
<1>3. page' = [page EXCEPT ![t] = p]
  BY <1>1
<1>4. /\ DOMAIN p = DOMAIN FreshPage /\ p.target = g
      /\ p.screen = page[t].screen /\ p.loaded = page[t].loaded
      /\ p.tree = page[t].tree /\ p.asOf = page[t].asOf /\ p.fresh = page[t].fresh
      /\ p.own = page[t].own /\ p.early = page[t].early
      /\ p.sheet = page[t].sheet /\ p.form = page[t].form
  BY <1>1, <1>2 DEF PageOK, FreshPage
<1>5. PageOK(p)
  BY <1>2, <1>4 DEF PageOK, CacheOK
<1> QED
  BY <1>3, <1>4, <1>5, LocalStep

LEMMA FormStep ==
  ASSUME TopicInv, Local, NEW t \in Tabs, NEW f,
         page' = [page EXCEPT ![t].form = f], FormOK(f, page[t].asOf)
  PROVE  TopicInv'
<1>1. PICK p : p = [page[t] EXCEPT !.form = f]
  OBVIOUS
<1>2. PageOK(page[t]) /\ DOMAIN page = Tabs
  BY DEF TopicInv, PageInv
<1>3. page' = [page EXCEPT ![t] = p]
  BY <1>1
<1>4. /\ DOMAIN p = DOMAIN FreshPage /\ p.form = f
      /\ p.screen = page[t].screen /\ p.loaded = page[t].loaded
      /\ p.tree = page[t].tree /\ p.asOf = page[t].asOf /\ p.fresh = page[t].fresh
      /\ p.own = page[t].own /\ p.early = page[t].early
      /\ p.sheet = page[t].sheet /\ p.target = page[t].target
  BY <1>1, <1>2 DEF PageOK, FreshPage
<1>5. PageOK(p)
  BY <1>2, <1>4 DEF PageOK, CacheOK
<1> QED
  BY <1>3, <1>4, <1>5, LocalStep


\* What is on the screen can be acted on, from a dialog that is as new.
LEMMA Shown ==
  ASSUME TopicInv, NEW t \in Tabs, NEW x, x \in Tree(t)
  PROVE  /\ x \in DOMAIN topics /\ x # 0 /\ x \in 0 .. Len(topics)
         /\ Level(x) \in 0 .. 3 /\ Parent(x) \in 0 .. Len(topics)
         /\ \A s \in 0 .. page[t].asOf : Usable(x, s)
         /\ ChildrenIn(Tree(t), x) = {} =>
               \A s \in 0 .. page[t].asOf : Barren(x, s)
<1>1. /\ topics \in Seq(TopicType) /\ clock \in Nat
      /\ CacheOK(page[t]) /\ x \in page[t].tree
  BY DEF TopicInv, TableInv, PageInv, PageOK, Tree
<1>2. x \in DOMAIN topics /\ page[t].loaded
  BY <1>1 DEF CacheOK
<1>3. x # 0 /\ x \in 0 .. Len(topics) /\ topics[x] \in TopicType
  BY <1>1, <1>2
<1>4. Level(x) \in 0 .. 3 /\ Parent(x) \in 0 .. Len(topics)
  BY <1>3 DEF TopicType, Level, Parent
<1>5. ASSUME NEW s \in 0 .. page[t].asOf, s = clock
      PROVE  Tree(t) = Active
  <2>1. page[t].asOf \in 0 .. clock
    BY <1>1 DEF CacheOK
  <2>2. page[t].asOf = clock
    BY <1>1, <1>5, <2>1
  <2> QED
    BY <1>1, <1>2, <2>2 DEF CacheOK, Tree
<1> QED
  BY <1>2, <1>3, <1>4, <1>5 DEF Usable, Barren, ChildrenIn

LEMMA InTree ==
  ASSUME NEW t, NEW x, EditShown(t, x)
  PROVE  x \in Tree(t) /\ OnTopics(t)
BY DEF EditShown, CardsShown, RowsShown, Roots, ChildrenIn, TreeShown

LEMMA PageOf ==
  ASSUME TopicInv, NEW t \in Tabs
  PROVE  /\ PageOK(page[t]) /\ DOMAIN page = Tabs /\ clock \in Nat
         /\ page[t].asOf \in 0 .. clock /\ page[t].asOf \in 0 .. page[t].asOf
         /\ 0 \in 0 .. page[t].asOf /\ 0 \in 0 .. Len(topics)
         /\ SheetOK(Sheet(t), page[t].asOf)
<1>1. PageOK(page[t]) /\ DOMAIN page = Tabs /\ clock \in Nat
  BY DEF TopicInv, PageInv, TableInv
<1>2. page[t].asOf \in 0 .. clock
  BY <1>1 DEF PageOK, CacheOK
<1> QED
  BY <1>1, <1>2 DEF TopicInv, TableInv, PageOK, Sheet

LEMMA ClosedOK ==
  ASSUME TopicInv, NEW t \in Tabs
  PROVE  /\ SheetOK(Closed, page[t].asOf)
         /\ TargetOK(NoTarget, page[t].asOf)
         /\ FormOK(NoChoice, page[t].asOf)
BY PageOf DEF SheetOK, TargetOK, FormOK, Closed, NoTarget, NoChoice, Usable

LEMMA OpenCreateStep ==
  ASSUME TopicInv, NEW t \in Tabs, NEW x \in 0 .. Len(topics), OpenCreate(t, x)
  PROVE  TopicInv'
<1> DEFINE s0 == [Closed EXCEPT !.mode = "create", !.since = page[t].asOf]
           Known(y) == IF y \in Tree(t) THEN Parent(y) ELSE 0
           s == IF x = 0 THEN s0
                ELSE CASE Level(x) = 0 -> [s0 EXCEPT !.level = 1, !.exam = x]
                       [] Level(x) = 1 -> [s0 EXCEPT !.level = 2, !.exam = Parent(x),
                                                     !.subject = x]
                       [] Level(x) = 2 -> [s0 EXCEPT !.level = 3, !.domain = x,
                                                     !.subject = Parent(x),
                                                     !.exam = Known(Parent(x))]
<1>1. /\ SetSheet(t, s) /\ Local
      /\ x # 0 => AddShown(t, x)
  BY DEF OpenCreate
<1>2. /\ page[t].asOf \in 0 .. page[t].asOf
      /\ 0 \in 0 .. Len(topics)
  BY PageOf
<1>3. CASE x = 0
  <2>1. SheetOK(s, page[t].asOf)
    BY <1>2, <1>3 DEF SheetOK, Closed, Nested, ParentIn, Usable
  <2> QED
    BY <1>1, <2>1, SheetStep
<1>4. CASE x # 0
  <2>1. x \in Tree(t) /\ Level(x) < 3
    BY <1>1, <1>4, InTree DEF AddShown
  <2>2. /\ x \in DOMAIN topics /\ x \in 0 .. Len(topics)
        /\ Level(x) \in 0 .. 3 /\ Parent(x) \in 0 .. Len(topics)
        /\ Usable(x, page[t].asOf)
    BY <1>2, <2>1, Shown
  <2>3. Known(Parent(x)) \in 0 .. Len(topics)
    BY <1>2, Shown
  <2>4. PICK z : z = s
    OBVIOUS
  <2> SUFFICES SheetOK(z, page[t].asOf)
    BY <1>1, <2>4, SheetStep
  <2>5. CASE Level(x) = 0
    <3>1. /\ DOMAIN z = DOMAIN Closed /\ z.mode = "create" /\ z.active = TRUE
          /\ z.topic = 0 /\ z.since = page[t].asOf /\ z.level = 1
          /\ z.exam = x /\ z.subject = 0 /\ z.domain = 0
      <4>1. z = [s0 EXCEPT !.level = 1, !.exam = x]
        BY <1>4, <2>4, <2>5
      <4> HIDE DEF s
      <4> QED
        BY <4>1 DEF Closed
    <3>2. ParentIn(z) = x
      BY <3>1 DEF ParentIn
    <3>3. Nested(z)
      BY <3>1, <3>2, <2>5 DEF Nested
    <3> HIDE DEF s
    <3>4. {z.topic, z.exam, z.subject, z.domain} \subseteq 0 .. Len(topics)
      BY <1>2, <2>2, <3>1
    <3>5. z.active \in BOOLEAN /\ z.mode \in {"closed", "create", "edit"}
      BY <3>1
    <3>6. z.level \in 0 .. 3 /\ z.since \in 0 .. page[t].asOf
      BY <1>2, <3>1
    <3>7. Usable(ParentIn(z), z.since)
      BY <2>2, <3>1, <3>2
    <3> QED
      BY <3>1, <3>3, <3>4, <3>5, <3>6, <3>7 DEF SheetOK
  <2>6. CASE Level(x) = 1
    <3>1. /\ DOMAIN z = DOMAIN Closed /\ z.mode = "create" /\ z.active = TRUE
          /\ z.topic = 0 /\ z.since = page[t].asOf /\ z.level = 2
          /\ z.exam = Parent(x) /\ z.subject = x /\ z.domain = 0
      <4>1. z = [s0 EXCEPT !.level = 2, !.exam = Parent(x), !.subject = x]
        BY <1>4, <2>4, <2>6
      <4> HIDE DEF s
      <4> QED
        BY <4>1 DEF Closed
    <3>2. ParentIn(z) = x
      BY <3>1 DEF ParentIn
    <3>3. Nested(z)
      BY <3>1, <3>2, <2>6 DEF Nested
    <3> HIDE DEF s
    <3>4. {z.topic, z.exam, z.subject, z.domain} \subseteq 0 .. Len(topics)
      BY <1>2, <2>2, <3>1
    <3>5. z.active \in BOOLEAN /\ z.mode \in {"closed", "create", "edit"}
      BY <3>1
    <3>6. z.level \in 0 .. 3 /\ z.since \in 0 .. page[t].asOf
      BY <1>2, <3>1
    <3>7. Usable(ParentIn(z), z.since)
      BY <2>2, <3>1, <3>2
    <3> QED
      BY <3>1, <3>3, <3>4, <3>5, <3>6, <3>7 DEF SheetOK
  <2>7. CASE Level(x) = 2
    <3>1. PICK k : k = Known(Parent(x))
      OBVIOUS
    <3>2. /\ DOMAIN z = DOMAIN Closed /\ z.mode = "create" /\ z.active = TRUE
          /\ z.topic = 0 /\ z.since = page[t].asOf /\ z.level = 3
          /\ z.exam = k /\ z.subject = Parent(x) /\ z.domain = x
      <4>1. z = [s0 EXCEPT !.level = 3, !.domain = x, !.subject = Parent(x),
                           !.exam = k]
        BY <1>4, <2>4, <2>7, <3>1
      <4> HIDE DEF s
      <4> QED
        BY <4>1 DEF Closed
    <3>3. k # 0 => k = Parent(Parent(x))
      BY <3>1
    <3>4. ParentIn(z) = x
      BY <3>2 DEF ParentIn
    <3>5. Nested(z)
      BY <3>2, <3>3, <3>4, <2>7 DEF Nested
    <3>6. k \in 0 .. Len(topics)
      BY <2>3, <3>1
    <3> HIDE DEF s
    <3>7. {z.topic, z.exam, z.subject, z.domain} \subseteq 0 .. Len(topics)
      BY <1>2, <2>2, <3>2, <3>6
    <3>8. z.active \in BOOLEAN /\ z.mode \in {"closed", "create", "edit"}
      BY <3>2
    <3>9. z.level \in 0 .. 3 /\ z.since \in 0 .. page[t].asOf
      BY <1>2, <3>2
    <3>10. Usable(ParentIn(z), z.since)
      BY <2>2, <3>2, <3>4
    <3> QED
      BY <3>2, <3>5, <3>7, <3>8, <3>9, <3>10 DEF SheetOK
  <2> QED
    BY <2>1, <2>2, <2>5, <2>6, <2>7
<1> QED
  BY <1>3, <1>4

LEMMA OpenEditStep ==
  ASSUME TopicInv, NEW t \in Tabs, NEW x, OpenEdit(t, x)
  PROVE  TopicInv'
<1>1. PICK s : s = [Closed EXCEPT !.mode = "edit", !.topic = x, !.level = Level(x),
                                  !.since = page[t].asOf]
  OBVIOUS
<1>2. SetSheet(t, s) /\ Local /\ x \in Tree(t)
  BY <1>1, InTree DEF OpenEdit
<1>3. SheetOK(s, page[t].asOf)
  BY <1>1, <1>2, Shown, PageOf DEF SheetOK, Closed
<1> QED
  BY <1>2, <1>3, SheetStep


LEMMA CloseSheetStep ==
  ASSUME TopicInv, NEW t \in Tabs, CloseSheet(t)
  PROVE  TopicInv'
<1>1. SetSheet(t, Closed) /\ Local
  BY DEF CloseSheet
<1> QED
  BY <1>1, ClosedOK, SheetStep

LEMMA HandleLevelChangeStep ==
  ASSUME TopicInv, NEW t \in Tabs, NEW l \in 0 .. 3, HandleLevelChange(t, l)
  PROVE  TopicInv'
<1>1. PICK s : s = [Sheet(t) EXCEPT !.level = l, !.exam = 0, !.subject = 0,
                                    !.domain = 0]
  OBVIOUS
<1>2. SetSheet(t, s) /\ Local
  BY <1>1 DEF HandleLevelChange
<1>3. SheetOK(Sheet(t), page[t].asOf) /\ 0 \in 0 .. Len(topics)
  BY PageOf
<1>4. /\ DOMAIN s = DOMAIN Closed /\ s.mode = Sheet(t).mode
      /\ s.topic = Sheet(t).topic /\ s.level = l /\ s.active = Sheet(t).active
      /\ s.since = Sheet(t).since /\ s.exam = 0 /\ s.subject = 0 /\ s.domain = 0
  BY <1>1, <1>3 DEF SheetOK, Closed
<1>5. ParentIn(s) = 0
  BY <1>4 DEF ParentIn
<1>6. Nested(s) /\ Usable(ParentIn(s), s.since)
  BY <1>4, <1>5 DEF Nested, Usable
<1>7. SheetOK(s, page[t].asOf)
  BY <1>3, <1>4, <1>6 DEF SheetOK
<1> QED
  BY <1>2, <1>7, SheetStep

LEMMA ChooseExamStep ==
  ASSUME TopicInv, NEW t \in Tabs, NEW x, ChooseExam(t, x)
  PROVE  TopicInv'
<1>1. PICK s : s = [Sheet(t) EXCEPT !.exam = x, !.subject = 0, !.domain = 0]
  OBVIOUS
<1>2. /\ SetSheet(t, s) /\ Local /\ Sheet(t).mode = "create"
      /\ x \in Tree(t) /\ Level(x) = 0
  BY <1>1 DEF ChooseExam, ParentShown, Creating, Exams
<1>3. SheetOK(Sheet(t), page[t].asOf) /\ 0 \in 0 .. Len(topics)
  BY PageOf
<1>4. /\ DOMAIN s = DOMAIN Closed /\ s.mode = "create"
      /\ s.topic = Sheet(t).topic /\ s.level = Sheet(t).level
      /\ s.active = Sheet(t).active /\ s.since = Sheet(t).since
      /\ s.exam = x /\ s.subject = 0 /\ s.domain = 0
  BY <1>1, <1>2, <1>3 DEF SheetOK, Closed
<1>5. x \in 0 .. Len(topics) /\ Usable(x, s.since)
  BY <1>2, <1>3, <1>4, Shown DEF SheetOK
<1>6. ParentIn(s) = IF s.level = 1 THEN x ELSE 0
  BY <1>4 DEF ParentIn
<1>7. Nested(s) /\ Usable(ParentIn(s), s.since)
  BY <1>2, <1>4, <1>5, <1>6 DEF Nested, Usable
<1>8. SheetOK(s, page[t].asOf)
  BY <1>3, <1>4, <1>5, <1>7 DEF SheetOK
<1> QED
  BY <1>2, <1>8, SheetStep

LEMMA ChooseSubjectStep ==
  ASSUME TopicInv, NEW t \in Tabs, NEW x, ChooseSubject(t, x)
  PROVE  TopicInv'
<1>1. PICK s : s = [Sheet(t) EXCEPT !.subject = x, !.domain = 0]
  OBVIOUS
<1>2. /\ SetSheet(t, s) /\ Local /\ Sheet(t).mode = "create"
      /\ 2 <= Sheet(t).level
      /\ x \in Tree(t) /\ Level(x) = 1 /\ Parent(x) = Sheet(t).exam
  BY <1>1 DEF ChooseSubject, ParentShown, Creating, SubjectsFor
<1>3. SheetOK(Sheet(t), page[t].asOf) /\ 0 \in 0 .. Len(topics)
  BY PageOf
<1>4. /\ DOMAIN s = DOMAIN Closed /\ s.mode = "create"
      /\ s.topic = Sheet(t).topic /\ s.level = Sheet(t).level
      /\ s.active = Sheet(t).active /\ s.since = Sheet(t).since
      /\ s.exam = Sheet(t).exam /\ s.subject = x /\ s.domain = 0
  BY <1>1, <1>2, <1>3 DEF SheetOK, Closed
<1>5. x \in 0 .. Len(topics) /\ Usable(x, s.since)
  BY <1>2, <1>3, <1>4, Shown DEF SheetOK
<1>6. s.level \in 2 .. 3
  BY <1>2, <1>3, <1>4 DEF SheetOK
<1>7. ParentIn(s) = IF s.level = 2 THEN x ELSE 0
  BY <1>4, <1>6 DEF ParentIn
<1>8. Nested(s) /\ Usable(ParentIn(s), s.since)
  BY <1>2, <1>4, <1>5, <1>6, <1>7 DEF Nested, Usable
<1>9. SheetOK(s, page[t].asOf)
  BY <1>3, <1>4, <1>5, <1>8 DEF SheetOK
<1> QED
  BY <1>2, <1>9, SheetStep

LEMMA ChooseDomainStep ==
  ASSUME TopicInv, NEW t \in Tabs, NEW x, ChooseDomain(t, x)
  PROVE  TopicInv'
<1>1. PICK s : s = [Sheet(t) EXCEPT !.domain = x]
  OBVIOUS
<1>2. /\ SetSheet(t, s) /\ Local /\ Sheet(t).mode = "create"
      /\ 3 <= Sheet(t).level
      /\ x \in Tree(t) /\ Level(x) = 2 /\ Parent(x) = Sheet(t).subject
  BY <1>1 DEF ChooseDomain, ParentShown, Creating, DomainsFor
<1>3. SheetOK(Sheet(t), page[t].asOf)
  BY PageOf
<1>4. /\ DOMAIN s = DOMAIN Closed /\ s.mode = "create"
      /\ s.topic = Sheet(t).topic /\ s.level = Sheet(t).level
      /\ s.active = Sheet(t).active /\ s.since = Sheet(t).since
      /\ s.exam = Sheet(t).exam /\ s.subject = Sheet(t).subject /\ s.domain = x
  BY <1>1, <1>2, <1>3 DEF SheetOK, Closed
<1>5. x \in 0 .. Len(topics) /\ Usable(x, s.since)
  BY <1>2, <1>3, <1>4, Shown DEF SheetOK
<1>6. s.level = 3
  BY <1>2, <1>3, <1>4 DEF SheetOK
<1>7. ParentIn(s) = x
  BY <1>4, <1>6 DEF ParentIn
<1>8. s.exam # 0 /\ s.subject # 0 => Parent(s.subject) = s.exam
  BY <1>2, <1>3, <1>4, <1>6 DEF SheetOK, Nested
<1>9. Nested(s)
  BY <1>2, <1>4, <1>6, <1>7, <1>8 DEF Nested
<1>10. SheetOK(s, page[t].asOf)
  BY <1>3, <1>4, <1>5, <1>7, <1>9 DEF SheetOK
<1> QED
  BY <1>2, <1>10, SheetStep

LEMMA ToggleActiveStep ==
  ASSUME TopicInv, NEW t \in Tabs, ToggleActive(t)
  PROVE  TopicInv'
<1>1. PICK s : s = [Sheet(t) EXCEPT !.active = ~@]
  OBVIOUS
<1>2. SetSheet(t, s) /\ Local /\ Sheet(t).mode = "edit"
  BY <1>1 DEF ToggleActive
<1>3. SheetOK(Sheet(t), page[t].asOf)
  BY PageOf
<1>4. /\ DOMAIN s = DOMAIN Closed /\ s.mode = "edit"
      /\ s.topic = Sheet(t).topic /\ s.level = Sheet(t).level
      /\ s.since = Sheet(t).since /\ s.exam = Sheet(t).exam
      /\ s.subject = Sheet(t).subject /\ s.domain = Sheet(t).domain
  BY <1>1, <1>2, <1>3 DEF SheetOK, Closed
<1>5. s.active \in BOOLEAN
  BY <1>1, <1>3 DEF SheetOK, Closed
<1>6. SheetOK(s, page[t].asOf)
  BY <1>2, <1>3, <1>4, <1>5 DEF SheetOK
<1> QED
  BY <1>2, <1>6, SheetStep

LEMMA OpenDeleteStep ==
  ASSUME TopicInv, NEW t \in Tabs, NEW x, OpenDelete(t, x)
  PROVE  TopicInv'
<1>1. PICK g : g = [topic |-> x, kids |-> ChildrenIn(Tree(t), x) # {},
                    since |-> page[t].asOf]
  OBVIOUS
<1>2. page' = [page EXCEPT ![t].target = g] /\ Local /\ x \in Tree(t)
  BY <1>1, InTree DEF OpenDelete
<1>3. page[t].asOf \in 0 .. page[t].asOf
  BY PageOf
<1>4. TargetOK(g, page[t].asOf)
  BY <1>1, <1>2, <1>3, Shown DEF TargetOK, NoTarget
<1> QED
  BY <1>2, <1>4, TargetStep

LEMMA CloseDeleteStep ==
  ASSUME TopicInv, NEW t \in Tabs, CloseDelete(t)
  PROVE  TopicInv'
<1>1. page' = [page EXCEPT ![t].target = NoTarget] /\ Local
  BY DEF CloseDelete
<1> QED
  BY <1>1, ClosedOK, TargetStep

LEMMA ChooseTopicStep ==
  ASSUME TopicInv, NEW t \in Tabs, NEW x, ChooseTopic(t, x)
  PROVE  TopicInv'
<1> DEFINE form == page[t].form
           since == IF form.topic = 0 THEN page[t].asOf ELSE form.since
<1>1. FormOK(form, page[t].asOf) /\ page[t].asOf \in 0 .. page[t].asOf
  BY PageOf DEF PageOK
<1>2. since \in 0 .. page[t].asOf
  BY <1>1 DEF FormOK
<1>3. x \in Tree(t) /\ Local
  BY DEF ChooseTopic, Subjects, Domains, Subdomains
<1>4. x # 0 /\ x \in 0 .. Len(topics) /\ \A s \in 0 .. page[t].asOf : Usable(x, s)
  BY <1>3, Shown
<1>5. PICK f : /\ page' = [page EXCEPT ![t].form = f]
               /\ DOMAIN f = DOMAIN NoChoice /\ f.topic = x
               /\ f.since \in {since, form.since}
  <2>1. CASE page' = [page EXCEPT ![t].form =
               [subject |-> x, domain |-> 0, topic |-> x, since |-> since]]
    <3>1. PICK g : g = [subject |-> x, domain |-> 0, topic |-> x, since |-> since]
      OBVIOUS
    <3>2. DOMAIN g = DOMAIN NoChoice /\ g.topic = x /\ g.since = since
      BY <3>1 DEF NoChoice
    <3> QED
      BY <2>1, <3>1, <3>2
  <2>2. CASE page' = [page EXCEPT ![t].form = [form EXCEPT !.domain = x, !.topic = x]]
    <3>1. PICK g : g = [form EXCEPT !.domain = x, !.topic = x]
      OBVIOUS
    <3>2. DOMAIN g = DOMAIN NoChoice /\ g.topic = x /\ g.since = form.since
      BY <1>1, <3>1 DEF FormOK, NoChoice
    <3> QED
      BY <2>2, <3>1, <3>2
  <2>3. CASE page' = [page EXCEPT ![t].form = [form EXCEPT !.topic = x]]
    <3>1. PICK g : g = [form EXCEPT !.topic = x]
      OBVIOUS
    <3>2. DOMAIN g = DOMAIN NoChoice /\ g.topic = x /\ g.since = form.since
      BY <1>1, <3>1 DEF FormOK, NoChoice
    <3> QED
      BY <2>3, <3>1, <3>2
  <2> QED
    BY <2>1, <2>2, <2>3 DEF ChooseTopic
<1>6. FormOK(f, page[t].asOf)
  <2>1. f.since \in 0 .. page[t].asOf
    BY <1>1, <1>2, <1>5 DEF FormOK
  <2> QED
    BY <1>4, <1>5, <2>1 DEF FormOK
<1> QED
  BY <1>3, <1>5, <1>6, FormStep


-----------------------------------------------------------------------------
(* Requests that are sent, and pages that are left. *)

LEMMA CallOf ==
  ASSUME TopicInv, NEW c \in calls
  PROVE  CallOK(c) /\ Newer(c, page[c.tab]) /\ c.tab \in Tabs
BY DEF TopicInv, CallInv, CallOK

LEMMA SendStep ==
  ASSUME TopicInv, NEW c, CallOK(c), c.op # "tree", Send(c)
  PROVE  TopicInv'
<1>1. /\ UNCHANGED <<topics, linked, page, clock, behind, edited>>
      /\ writes < MaxWrites /\ writes' = writes + 1 /\ calls' = calls \cup {c}
  BY DEF Send
<1>2. WriteInv'
  BY <1>1, WritesSent DEF TopicInv
<1>3. ASSUME NEW d \in calls'
      PROVE  CallOK(d) /\ Newer(d, page'[d.tab])
  BY <1>1, CallOf DEF Newer
<1>4. \A d, e \in calls' :
         d.op = "tree" /\ e.op = "tree" /\ d.tab = e.tab => d = e
  BY <1>1 DEF TopicInv, CallInv
<1>5. DOMAIN page' = Tabs /\ \A t \in Tabs : PageOK(page'[t])
  BY <1>1 DEF TopicInv, PageInv
<1> QED
  BY <1>1, <1>2, <1>3, <1>4, <1>5, QuietStep

\* A dialog sends what it knows to be usable.
LEMMA WrittenOK ==
  ASSUME TopicInv, NEW t \in Tabs, NEW op \in {"create", "update", "delete", "item"},
         NEW x \in 0 .. Len(topics), NEW a \in BOOLEAN, NEW s \in 0 .. page[t].asOf,
         Usable(x, s), op # "create" => x # 0,
         op = "create" /\ x # 0 => Level(x) <= 2,
         op = "delete" => Barren(x, s)
  PROVE  CallOK(Call(t, op, x, a, s)) /\ Call(t, op, x, a, s).op # "tree"
<1>1. PICK c : c = Call(t, op, x, a, s)
  OBVIOUS
<1>2. /\ DOMAIN c = CallFieldNames
      /\ c.tab = t /\ c.op = op /\ c.topic = x /\ c.active = a /\ c.since = s
      /\ c.live = TRUE /\ c.phase = "sent" /\ c.at = 0 /\ c.tree = {}
  BY <1>1 DEF Call, CallFieldNames
<1>3. clock \in Nat /\ page[t].asOf \in 0 .. clock
  BY PageOf
<1>4. s \in 0 .. clock /\ 0 \in 0 .. clock
  BY <1>3
<1>5. Unwritten(c) =>
          /\ Usable(c.topic, c.since)
          /\ c.op = "delete" => Barren(c.topic, c.since)
          /\ c.op = "delete" /\ c.phase = "checked" /\ c.since = clock =>
                c.topic \notin linked
  BY <1>2
<1>6. c.live \in BOOLEAN /\ c.active \in BOOLEAN
  BY <1>2
<1>7. CallOK(c) /\ c.op # "tree"
  BY <1>2, <1>4, <1>5, <1>6 DEF CallOK
<1> QED
  BY <1>1, <1>7

LEMMA OnSubmitStep ==
  ASSUME TopicInv, NEW t \in Tabs, OnSubmit(t)
  PROVE  TopicInv'
<1>1. SheetOK(Sheet(t), page[t].asOf)
  BY PageOf
<1>2. CASE Sheet(t).mode = "edit"
  <2>1. Send(Call(t, "update", Sheet(t).topic, Sheet(t).active, Sheet(t).since))
    BY <1>2 DEF OnSubmit, EditedValues
  <2>2. /\ Sheet(t).topic # 0 /\ Usable(Sheet(t).topic, Sheet(t).since)
        /\ Sheet(t).topic \in 0 .. Len(topics) /\ Sheet(t).active \in BOOLEAN
        /\ Sheet(t).since \in 0 .. page[t].asOf
    BY <1>1, <1>2 DEF SheetOK
  <2> QED
    BY <2>1, <2>2, WrittenOK, SendStep
<1>3. CASE Sheet(t).mode # "edit"
  <2>1. Sheet(t).mode = "create"
    BY <1>1, <1>3 DEF OnSubmit, SubmitEnabled, SheetOK
  <2>2. PICK x : x = ChosenParent(t)
    OBVIOUS
  <2>3. x = ParentIn(Sheet(t))
    BY <2>2 DEF ChosenParent, ParentIn
  <2>4. Send(Call(t, "create", x, TRUE, Sheet(t).since))
    BY <1>3, <2>2 DEF OnSubmit, CreatedValues
  <2>5. /\ Usable(x, Sheet(t).since) /\ x \in 0 .. Len(topics)
        /\ Sheet(t).since \in 0 .. page[t].asOf
        /\ Sheet(t).level \in 0 .. 3
        /\ Sheet(t).level > 0 /\ x # 0 => Level(x) = Sheet(t).level - 1
        /\ Sheet(t).level = 0 => x = 0
    <3>1. x \in 0 .. Len(topics)
      BY <1>1, <2>3, PageOf DEF ParentIn, SheetOK
    <3> QED
      BY <1>1, <2>1, <2>3, <3>1 DEF SheetOK, Nested, ParentIn
  <2>6. x # 0 => Level(x) <= 2
    BY <2>5
  <2> QED
    BY <2>4, <2>5, <2>6, WrittenOK, SendStep
<1> QED
  BY <1>2, <1>3

LEMMA HandleDeleteStep ==
  ASSUME TopicInv, NEW t \in Tabs, HandleDelete(t)
  PROVE  TopicInv'
<1> DEFINE g == page[t].target
<1>1. TargetOK(g, page[t].asOf)
  BY PageOf DEF PageOK
<1>2. /\ Send(Call(t, "delete", g.topic, TRUE, g.since))
      /\ g.topic # 0 /\ ~g.kids
  BY DEF HandleDelete, DeleteEnabled
<1>3. /\ Usable(g.topic, g.since) /\ Barren(g.topic, g.since)
      /\ g.topic \in 0 .. Len(topics) /\ g.since \in 0 .. page[t].asOf
  BY <1>1, <1>2 DEF TargetOK
<1> QED
  BY <1>2, <1>3, WrittenOK, SendStep

LEMMA CreateItemStep ==
  ASSUME TopicInv, NEW t \in Tabs, CreateItem(t)
  PROVE  TopicInv'
<1> DEFINE f == page[t].form
<1>1. FormOK(f, page[t].asOf)
  BY PageOf DEF PageOK
<1>2. Send(Call(t, "item", f.topic, TRUE, f.since)) /\ f.topic # 0
  BY DEF CreateItem, CreateEnabled
<1>3. /\ Usable(f.topic, f.since)
      /\ f.topic \in 0 .. Len(topics) /\ f.since \in 0 .. page[t].asOf
  BY <1>1 DEF FormOK
<1> QED
  BY <1>2, <1>3, WrittenOK, SendStep

LEMMA RefetchStep ==
  ASSUME TopicInv, NEW t \in Tabs, Refetch(t)
  PROVE  TopicInv'
<1>1. /\ UNCHANGED <<topics, linked, page, writes, clock, behind, edited>>
      /\ calls' = calls \cup {StartFetch(t)} /\ Fetching(t) = {}
  BY DEF Refetch
<1>2. CallOK(StartFetch(t)) /\ \A p : Newer(StartFetch(t), p)
  BY FetchOK DEF TopicInv
<1>3. ASSUME NEW d \in calls'
      PROVE  CallOK(d) /\ Newer(d, page'[d.tab])
  BY <1>1, <1>2, CallOf
<1>4. StartFetch(t).op = "tree" /\ StartFetch(t).tab = t
  BY DEF StartFetch, Call
<1>5. \A d, e \in calls' :
         d.op = "tree" /\ e.op = "tree" /\ d.tab = e.tab => d = e
  BY <1>1, <1>4 DEF TopicInv, CallInv, Fetching
<1>6. WriteInv'
  <2>1. UnwrittenCalls' \subseteq UnwrittenCalls
    BY <1>1, <1>4 DEF UnwrittenCalls, Unwritten
  <2> QED
    BY <1>1, <2>1, WritesStay DEF TopicInv
<1>7. DOMAIN page' = Tabs /\ \A u \in Tabs : PageOK(page'[u])
  BY <1>1 DEF TopicInv, PageInv
<1> QED
  BY <1>1, <1>3, <1>5, <1>6, <1>7, QuietStep

LEMMA LeaveStep ==
  ASSUME TopicInv, NEW t \in Tabs, NEW rest \in SUBSET calls,
         NEW screen \in {"topics", "new"},
         page' = [page EXCEPT ![t] = Left(t, screen)],
         calls' = Orphaned(t, rest),
         UNCHANGED <<topics, linked, writes, clock, behind, edited>>
  PROVE  TopicInv'
<1>1. PICK p : p = Left(t, screen)
  OBVIOUS
<1>2. PageOK(page[t]) /\ DOMAIN page = Tabs
  BY PageOf
<1>3. /\ DOMAIN p = DOMAIN FreshPage
      /\ p.screen = screen /\ p.loaded = page[t].loaded
      /\ p.tree = page[t].tree /\ p.asOf = page[t].asOf /\ p.fresh = page[t].fresh
      /\ p.own = page[t].own /\ p.early = page[t].early
      /\ p.sheet = Closed /\ p.target = NoTarget /\ p.form = NoChoice
  BY <1>1, <1>2 DEF Left, PageOK, FreshPage
<1>4. PageOK(p)
  BY <1>2, <1>3, ClosedOK DEF PageOK, CacheOK
<1>5. DOMAIN page' = Tabs /\ \A u \in Tabs : PageOK(page'[u])
  BY <1>1, <1>4 DEF TopicInv, PageInv
<1>6. PICK f : f = [c \in calls |->
                       [c EXCEPT !.live = c.live /\ (c.tab # t \/ c.op = "tree")]]
  OBVIOUS
<1>7. \A d \in calls' : \E c \in rest : d = f[c]
  BY <1>6 DEF Orphaned
<1>8. ASSUME NEW c \in calls
      PROVE  /\ DOMAIN f[c] = CallFieldNames /\ f[c].live \in BOOLEAN
             /\ f[c].tab = c.tab /\ f[c].op = c.op /\ f[c].topic = c.topic
             /\ f[c].active = c.active /\ f[c].since = c.since
             /\ f[c].phase = c.phase /\ f[c].at = c.at /\ f[c].tree = c.tree
  BY <1>6, CallOf DEF CallOK, CallFieldNames
<1>9. ASSUME NEW c \in calls
      PROVE  CallOK(f[c]) /\ Newer(f[c], page'[f[c].tab])
  <2>1. /\ page'[c.tab].asOf = page[c.tab].asOf /\ page'[c.tab].own = page[c.tab].own
        /\ page'[c.tab].early = page[c.tab].early
    BY <1>1, <1>2, <1>3, CallOf
  <2>2. CallOK(f[c])
    BY <1>8, CallOf DEF CallOK, Unwritten
  <2>3. Newer(f[c], page'[f[c].tab])
    BY <1>8, <2>1, CallOf DEF Newer
  <2> QED
    BY <2>2, <2>3
<1>10. \A d, e \in calls' :
          d.op = "tree" /\ e.op = "tree" /\ d.tab = e.tab => d = e
  <2> SUFFICES ASSUME NEW d \in calls', NEW e \in calls',
                      d.op = "tree", e.op = "tree", d.tab = e.tab
               PROVE  d = e
    OBVIOUS
  <2>1. PICK c \in calls : d = f[c]
    BY <1>7
  <2>2. PICK b \in calls : e = f[b]
    BY <1>7
  <2>3. c.op = "tree" /\ b.op = "tree" /\ c.tab = b.tab
    BY <2>1, <2>2, <1>8
  <2> QED
    BY <2>1, <2>2, <2>3 DEF TopicInv, CallInv
<1>11. WriteInv'
  <2>1. PICK g : g = [c \in UnwrittenCalls |-> f[c]]
    OBVIOUS
  <2>2. UnwrittenCalls' \subseteq {g[c] : c \in DOMAIN g}
    <3>1. ASSUME NEW d \in UnwrittenCalls'
          PROVE  d \in {g[c] : c \in DOMAIN g}
      <4>1. d \in calls' /\ Unwritten(d)
        BY DEF UnwrittenCalls
      <4>2. PICK c \in calls : d = f[c]
        BY <4>1, <1>7
      <4>3. c \in UnwrittenCalls
        BY <4>1, <4>2, <1>8 DEF UnwrittenCalls, Unwritten
      <4> QED
        BY <4>2, <4>3, <2>1
    <3> QED
      BY <3>1
  <2> QED
    BY <2>1, <2>2, WritesImage DEF TopicInv
<1>12. \A c \in calls' : CallOK(c) /\ Newer(c, page'[c.tab])
  BY <1>7, <1>9
<1> QED
  BY <1>5, <1>10, <1>11, <1>12, QuietStep

LEMMA GoStep ==
  ASSUME TopicInv, NEW t \in Tabs, Go(t)
  PROVE  TopicInv'
<1>1. PICK screen \in {"topics", "new"} :
         page' = [page EXCEPT ![t] = Left(t, screen)]
  BY DEF Go
<1> QED
  BY <1>1, LeaveStep DEF Go

LEMMA ItemRepliedStep ==
  ASSUME TopicInv, NEW c \in calls, ItemReplied(c)
  PROVE  TopicInv'
<1>1. /\ page' = [page EXCEPT ![c.tab] = Left(c.tab, "new")]
      /\ calls' = Orphaned(c.tab, calls \ {c})
      /\ UNCHANGED <<topics, linked, writes, clock, behind, edited>>
  BY DEF ItemReplied
<1> QED
  BY <1>1, CallOf, LeaveStep


-----------------------------------------------------------------------------
(* Replies. *)

\* Requests that go away, and nothing else but what the page is told.
LEMMA FewerCalls ==
  ASSUME TopicInv, calls' \subseteq calls,
         UNCHANGED <<topics, linked, page, clock, behind, edited>>,
         writes' = writes \/ (writes < MaxWrites /\ writes' = writes + 1)
  PROVE  TopicInv'
<1>1. \A c \in calls' : CallOK(c) /\ Newer(c, page'[c.tab])
  BY CallOf
<1>2. \A d, e \in calls' :
         d.op = "tree" /\ e.op = "tree" /\ d.tab = e.tab => d = e
  BY DEF TopicInv, CallInv
<1>3. WriteInv'
  <2>1. UnwrittenCalls' \subseteq UnwrittenCalls
    BY DEF UnwrittenCalls
  <2> QED
    BY <2>1, WritesStay DEF TopicInv
<1>4. DOMAIN page' = Tabs /\ \A t \in Tabs : PageOK(page'[t])
  BY DEF TopicInv, PageInv
<1> QED
  BY <1>1, <1>2, <1>3, <1>4, QuietStep

LEMMA WriteFailsStep ==
  ASSUME TopicInv, NEW c \in calls, WriteFails(c)
  PROVE  TopicInv'
<1>1. /\ calls' \subseteq calls
      /\ UNCHANGED <<topics, linked, page, clock, behind, edited>>
      /\ writes' = writes \/ (writes < MaxWrites /\ writes' = writes + 1)
  BY DEF WriteFails
<1> QED
  BY <1>1, FewerCalls

LEMMA TreeRepliedStep ==
  ASSUME TopicInv, NEW c \in calls, TreeReplied(c)
  PROVE  TopicInv'
<1> DEFINE t == c.tab
<1>1. /\ c.op = "tree" /\ c.phase = "ok" /\ calls' = calls \ {c}
      /\ UNCHANGED <<topics, linked, writes, clock, behind, edited>>
  BY DEF TreeReplied
<1>2. CallOK(c) /\ Newer(c, page[t]) /\ t \in Tabs
  BY CallOf
<1>3. PICK p : p = [page[t] EXCEPT !.loaded = TRUE, !.fresh = TRUE,
                                   !.tree = c.tree, !.asOf = c.at]
  OBVIOUS
<1>4. PageOK(page[t]) /\ DOMAIN page = Tabs /\ clock \in Nat
  BY <1>2, PageOf
<1>5. page' = [page EXCEPT ![t] = p]
  BY <1>3 DEF TreeReplied
<1>6. /\ DOMAIN p = DOMAIN FreshPage
      /\ p.screen = page[t].screen /\ p.loaded = TRUE
      /\ p.tree = c.tree /\ p.asOf = c.at /\ p.fresh = TRUE
      /\ p.own = page[t].own /\ p.early = page[t].early
      /\ p.sheet = page[t].sheet /\ p.target = page[t].target
      /\ p.form = page[t].form
  BY <1>3, <1>4 DEF PageOK, FreshPage
<1>7. CacheOK(p)
  BY <1>1, <1>2, <1>4, <1>6 DEF CacheOK, PageOK, CallOK, Newer
<1>8. \A s : s \in 0 .. page[t].asOf => s \in 0 .. p.asOf
  <2>1. p.asOf \in 0 .. clock /\ page[t].asOf \in 0 .. clock /\ page[t].asOf <= p.asOf
    BY <1>1, <1>2, <1>4, <1>6 DEF PageOK, CacheOK, CallOK, Newer
  <2> QED
    BY <2>1, <1>4
<1>9. PageOK(p)
  BY <1>4, <1>6, <1>7, <1>8 DEF PageOK, SheetOK, TargetOK, FormOK
<1>10. ASSUME NEW d \in calls'
       PROVE  CallOK(d) /\ Newer(d, page'[d.tab])
  <2>1. CallOK(d) /\ Newer(d, page[d.tab]) /\ d.tab \in Tabs
    BY <1>1, CallOf
  <2>2. CASE d.tab = t
    <3>1. d.op # "tree"
      BY <1>1, <2>2 DEF TopicInv, CallInv
    <3> QED
      BY <2>1, <3>1 DEF Newer
  <2>3. CASE d.tab # t
    BY <1>4, <1>5, <2>1, <2>3
  <2> QED
    BY <2>2, <2>3
<1>11. \A d, e \in calls' :
         d.op = "tree" /\ e.op = "tree" /\ d.tab = e.tab => d = e
  BY <1>1 DEF TopicInv, CallInv
<1>12. WriteInv'
  <2>1. UnwrittenCalls' \subseteq UnwrittenCalls
    BY <1>1 DEF UnwrittenCalls
  <2> QED
    BY <1>1, <2>1, WritesStay DEF TopicInv
<1>13. DOMAIN page' = Tabs /\ \A u \in Tabs : PageOK(page'[u])
  BY <1>4, <1>5, <1>9 DEF TopicInv, PageInv
<1> QED
  BY <1>1, <1>10, <1>11, <1>12, <1>13, QuietStep

LEMMA WriteRepliedStep ==
  ASSUME TopicInv, NEW c \in calls, WriteReplied(c)
  PROVE  TopicInv'
<1> DEFINE t == c.tab
<1>1. /\ c.op \in {"create", "update", "delete"} /\ c.phase = "ok"
      /\ calls' = Invalidated(t, calls \ {c})
      /\ UNCHANGED <<topics, linked, writes, clock, behind, edited>>
  BY DEF WriteReplied
<1>2. CallOK(c) /\ t \in Tabs
  BY CallOf
<1>3. PICK p : p = [page[t] EXCEPT
           !.fresh = FALSE,
           !.own = IF c.at > page[t].own THEN c.at ELSE page[t].own,
           !.early = page[t].early \/ ~page[t].loaded,
           !.sheet = IF c.live /\ c.op # "delete" THEN Closed ELSE page[t].sheet,
           !.target = IF c.live /\ c.op = "delete" THEN NoTarget
                      ELSE page[t].target]
  OBVIOUS
<1>4. PageOK(page[t]) /\ DOMAIN page = Tabs /\ clock \in Nat
  BY <1>2, PageOf
<1>5. page' = [page EXCEPT ![t] = p]
  BY <1>3, <1>4 DEF WriteReplied, PageOK, FreshPage
<1>6. /\ DOMAIN p = DOMAIN FreshPage
      /\ p.screen = page[t].screen /\ p.loaded = page[t].loaded
      /\ p.tree = page[t].tree /\ p.asOf = page[t].asOf /\ p.fresh = FALSE
      /\ p.own \in {c.at, page[t].own}
      /\ p.sheet \in {Closed, page[t].sheet}
      /\ p.target \in {NoTarget, page[t].target}
      /\ p.form = page[t].form
  BY <1>3, <1>4 DEF PageOK, FreshPage
<1>7. p.early = (page[t].early \/ ~page[t].loaded)
  BY <1>3, <1>4 DEF PageOK, FreshPage
<1>8. CacheOK(p)
  <2>1. p.own \in 0 .. clock
    BY <1>2, <1>4, <1>6 DEF CallOK, PageOK, CacheOK
  <2>2. p.early \in BOOLEAN
    BY <1>7
  <2> QED
    BY <1>4, <1>6, <2>1, <2>2 DEF PageOK, CacheOK
<1>9. PageOK(p)
  BY <1>2, <1>4, <1>6, <1>8, ClosedOK DEF PageOK
<1>10. /\ CallOK(StartFetch(t)) /\ \A q : Newer(StartFetch(t), q)
       /\ StartFetch(t).op = "tree" /\ StartFetch(t).tab = t
  BY <1>2, FetchOK DEF TopicInv, StartFetch, Call
<1>11. ASSUME NEW d \in calls'
       PROVE  \/ d = StartFetch(t)
              \/ /\ d \in calls
                 /\ d.tab = t /\ d.op = "tree" => ~page[t].loaded
  BY <1>1 DEF Invalidated, Fetching
<1>12. ASSUME NEW d \in calls'
       PROVE  CallOK(d) /\ Newer(d, page'[d.tab])
  <2>1. CASE d = StartFetch(t)
    BY <2>1, <1>10
  <2>2. CASE d \in calls /\ d.tab # t
    BY <2>2, <1>4, <1>5, CallOf
  <2>3. CASE d \in calls /\ d.tab = t /\ d # StartFetch(t)
    <3>1. d.op = "tree" => ~page[t].loaded
      BY <2>3, <1>11
    <3>2. CallOK(d) /\ Newer(d, page[t])
      BY <2>3, CallOf
    <3>3. d.op = "tree" => p.early
      BY <3>1, <1>7
    <3>4. page'[d.tab] = p
      BY <2>3, <1>4, <1>5, <1>2
    <3> QED
      BY <3>2, <3>3, <3>4, <1>6 DEF Newer
  <2> QED
    BY <2>1, <2>2, <2>3, <1>11
<1>13. ASSUME NEW d \in calls', NEW e \in calls', d.op = "tree", e.op = "tree",
              d.tab = e.tab
       PROVE  d = e
  BY <1>1, <1>10, <1>13 DEF Invalidated, Fetching, TopicInv, CallInv
<1>14. WriteInv'
  <2>1. UnwrittenCalls' \subseteq UnwrittenCalls
    BY <1>10, <1>11 DEF UnwrittenCalls, Unwritten
  <2> QED
    BY <1>1, <2>1, WritesStay DEF TopicInv
<1>15. DOMAIN page' = Tabs /\ \A u \in Tabs : PageOK(page'[u])
  BY <1>4, <1>5, <1>9 DEF TopicInv, PageInv
<1> QED
  BY <1>1, <1>12, <1>13, <1>14, <1>15, QuietStep

-----------------------------------------------------------------------------
(* The server: steps without a commit. *)

LEMMA ServedStep ==
  ASSUME TopicInv, NEW c \in calls, NEW d,
         calls' = (calls \ {c}) \cup {d},
         UNCHANGED <<topics, linked, page, writes, clock, behind, edited>>,
         CallOK(d), Newer(d, page[d.tab]), d.op = c.op, d.tab = c.tab,
         Unwritten(d) => Unwritten(c)
  PROVE  TopicInv'
<1>1. \A e \in calls' : CallOK(e) /\ Newer(e, page'[e.tab])
  BY CallOf
<1>2. \A e, f \in calls' :
         e.op = "tree" /\ f.op = "tree" /\ e.tab = f.tab => e = f
  BY DEF TopicInv, CallInv
<1>3. WriteInv'
  <2>1. PICK f : f = [e \in UnwrittenCalls |-> IF e = c THEN d ELSE e]
    OBVIOUS
  <2>2. UnwrittenCalls' \subseteq {f[e] : e \in DOMAIN f}
    <3>1. ASSUME NEW u \in UnwrittenCalls'
          PROVE  u \in {f[e] : e \in DOMAIN f}
      <4>1. CASE u = d
        <5>1. c \in UnwrittenCalls
          BY <4>1, <3>1 DEF UnwrittenCalls
        <5> QED
          BY <5>1, <4>1, <2>1
      <4>2. CASE u # d
        <5>1. u \in UnwrittenCalls /\ u # c
          BY <4>2, <3>1 DEF UnwrittenCalls
        <5> QED
          BY <5>1, <2>1
      <4> QED
        BY <4>1, <4>2
    <3> QED
      BY <3>1
  <2> QED
    BY <2>1, <2>2, WritesImage DEF TopicInv
<1>4. DOMAIN page' = Tabs /\ \A t \in Tabs : PageOK(page'[t])
  BY DEF TopicInv, PageInv
<1> QED
  BY <1>1, <1>2, <1>3, <1>4, QuietStep

LEMMA ServeTreeStep ==
  ASSUME TopicInv, NEW c \in calls, ServeTree(c)
  PROVE  TopicInv'
<1>1. PICK d : d = [c EXCEPT !.phase = "ok", !.at = clock, !.tree = Active]
  OBVIOUS
<1>2. /\ c.op = "tree" /\ calls' = (calls \ {c}) \cup {d}
      /\ UNCHANGED <<topics, linked, page, writes, clock, behind, edited>>
  BY <1>1 DEF ServeTree
<1>3. CallOK(c) /\ c.tab \in Tabs /\ clock \in Nat
  BY CallOf, PageOf
<1>4. /\ DOMAIN d = CallFieldNames /\ d.tab = c.tab /\ d.op = "tree"
      /\ d.topic = c.topic /\ d.active = c.active /\ d.since = c.since
      /\ d.live = c.live /\ d.phase = "ok" /\ d.at = clock /\ d.tree = Active
  BY <1>1, <1>2, <1>3 DEF CallOK, CallFieldNames
<1>5. CallOK(d)
  BY <1>3, <1>4 DEF CallOK, Unwritten, Active
<1>6. Newer(d, page[d.tab])
  <2>1. CacheOK(page[c.tab])
    BY <1>3, PageOf DEF PageOK
  <2> QED
    BY <1>3, <1>4, <2>1 DEF Newer, CacheOK
<1>7. ~Unwritten(d)
  BY <1>4 DEF Unwritten
<1> QED
  BY <1>2, <1>4, <1>5, <1>6, <1>7, ServedStep

LEMMA CheckDeleteStep ==
  ASSUME TopicInv, NEW c \in calls, CheckDelete(c)
  PROVE  TopicInv'
<1>1. PICK d : d = [c EXCEPT !.phase = IF c.topic \in linked THEN "refused"
                                       ELSE "checked"]
  OBVIOUS
<1>2. /\ c.op = "delete" /\ c.phase = "sent" /\ calls' = (calls \ {c}) \cup {d}
      /\ UNCHANGED <<topics, linked, page, writes, clock, behind, edited>>
  BY <1>1 DEF CheckDelete, Answered
<1>3. CallOK(c)
  BY CallOf
<1>4. /\ DOMAIN d = CallFieldNames /\ d.tab = c.tab /\ d.op = "delete"
      /\ d.topic = c.topic /\ d.active = c.active /\ d.since = c.since
      /\ d.live = c.live /\ d.at = c.at /\ d.tree = c.tree
      /\ d.phase \in {"refused", "checked"}
      /\ d.phase = "checked" => c.topic \notin linked
  BY <1>1, <1>2, <1>3 DEF CallOK, CallFieldNames
<1>5. CallOK(d)
  BY <1>2, <1>3, <1>4 DEF CallOK, Unwritten
<1>6. Newer(d, page[d.tab])
  BY <1>4 DEF Newer
<1>7. Unwritten(c)
  BY <1>2 DEF Unwritten
<1> QED
  BY <1>2, <1>4, <1>5, <1>6, <1>7, ServedStep


-----------------------------------------------------------------------------
(* Commits: whatever was opened before one is older than the table from then *)
(* on.                                                                       *)

GrownTopics ==
    /\ TableInv'
    /\ DOMAIN topics \subseteq DOMAIN topics' /\ Len(topics) <= Len(topics')
    /\ \A k \in DOMAIN topics :
          topics'[k].parent = topics[k].parent /\ topics'[k].level = topics[k].level

LEMMA Grown ==
  ASSUME TopicInv, GrownTopics
  PROVE  /\ 0 .. Len(topics) \subseteq 0 .. Len(topics')
         /\ \A x \in 0 .. Len(topics) : x # 0 => x \in DOMAIN topics
<1>1. topics \in Seq(TopicType) /\ Len(topics) \in Nat
  BY DEF TopicInv, TableInv
<1>2. PICK n : n = Len(topics')
  OBVIOUS
<1>3. n \in Nat /\ Len(topics) <= n
  BY <1>2 DEF GrownTopics, TableInv
<1>4. 0 .. Len(topics) \subseteq 0 .. n
  BY <1>1, <1>3
<1> QED
  BY <1>1, <1>2, <1>4

LEMMA SheetGrown ==
  ASSUME TopicInv, GrownTopics, clock' = clock + 1, NEW s, NEW a \in 0 .. clock,
         SheetOK(s, a)
  PROVE  SheetOK(s, a)'
<1>1. /\ 0 .. Len(topics) \subseteq 0 .. Len(topics')
      /\ \A x \in 0 .. Len(topics) : x # 0 => x \in DOMAIN topics
  BY Grown
<1>2. {s.topic, s.exam, s.subject, s.domain} \subseteq 0 .. Len(topics')
  BY <1>1 DEF SheetOK
<1>3. s.since # clock' /\ clock \in Nat
  BY DEF SheetOK, TopicInv, TableInv
<1>4. ParentIn(s) \in {0, s.exam, s.subject, s.domain}
  BY DEF ParentIn
<1>5. /\ ParentIn(s) # 0 => Level(ParentIn(s))' = Level(ParentIn(s))
      /\ s.subject # 0 => Parent(s.subject)' = Parent(s.subject)
      /\ s.domain # 0 => Parent(s.domain)' = Parent(s.domain)
  <2>1. \A x \in {0, s.exam, s.subject, s.domain} : x \in 0 .. Len(topics)
    BY DEF SheetOK, TopicInv, TableInv
  <2>2. \A x \in 0 .. Len(topics) :
           x # 0 => /\ topics'[x].level = topics[x].level
                     /\ topics'[x].parent = topics[x].parent
    BY <1>1 DEF GrownTopics
  <2>3. PICK q : q = ParentIn(s)
    OBVIOUS
  <2> QED
    BY <1>4, <2>1, <2>2, <2>3 DEF Level, Parent, ParentIn
<1>6. Nested(s) => Nested(s)'
  BY <1>5 DEF Nested, ParentIn
<1>7. Usable(s.topic, s.since)' /\ Usable(ParentIn(s), s.since)'
  BY <1>3 DEF Usable
<1> QED
  BY <1>2, <1>6, <1>7 DEF SheetOK

LEMMA PageGrown ==
  ASSUME TopicInv, GrownTopics, clock' = clock + 1, NEW p, PageOK(p)
  PROVE  PageOK(p)'
<1>1. 0 .. Len(topics) \subseteq 0 .. Len(topics')
  BY Grown
<1>2. clock \in Nat /\ p.asOf \in 0 .. clock /\ p.asOf # clock'
  BY DEF PageOK, CacheOK, TopicInv, TableInv
<1>3. CacheOK(p)'
  <2>1. 0 .. clock \subseteq 0 .. clock'
    BY <1>2
  <2>2. p.tree \subseteq DOMAIN topics'
    BY DEF PageOK, CacheOK, GrownTopics
  <2> QED
    BY <1>2, <2>1, <2>2 DEF PageOK, CacheOK
<1>4. SheetOK(p.sheet, p.asOf)'
  BY <1>2, SheetGrown DEF PageOK
<1>5. TargetOK(p.target, p.asOf)'
  <2>1. p.target.since # clock'
    BY <1>2 DEF PageOK, TargetOK
  <2> QED
    BY <1>1, <2>1 DEF PageOK, TargetOK, Usable, Barren
<1>6. FormOK(p.form, p.asOf)'
  <2>1. p.form.since # clock'
    BY <1>2 DEF PageOK, FormOK
  <2> QED
    BY <1>1, <2>1 DEF PageOK, FormOK, Usable
<1> QED
  BY <1>3, <1>4, <1>5, <1>6 DEF PageOK

LEMMA CallGrown ==
  ASSUME TopicInv, GrownTopics, clock' = clock + 1, NEW c, CallOK(c)
  PROVE  CallOK(c)'
<1>1. /\ 0 .. Len(topics) \subseteq 0 .. Len(topics')
      /\ \A x \in 0 .. Len(topics) : x # 0 => x \in DOMAIN topics
  BY Grown
<1>2. clock \in Nat /\ c.since \in 0 .. clock /\ c.at \in 0 .. clock
  BY DEF CallOK, TopicInv, TableInv
<1>3. c.since \in 0 .. clock' /\ c.at \in 0 .. clock' /\ c.since # clock' /\ c.at # clock'
  BY <1>2
<1>4. c.topic \in 0 .. Len(topics') /\ c.tree \subseteq DOMAIN topics'
  BY <1>1 DEF CallOK, GrownTopics
<1>5. c.op = "create" /\ c.topic # 0 => Level(c.topic)' <= 2
  <2>1. c.topic # 0 => topics'[c.topic].level = topics[c.topic].level
    BY <1>1 DEF CallOK, GrownTopics
  <2> QED
    BY <2>1 DEF CallOK, Level
<1> QED
  BY <1>3, <1>4, <1>5 DEF CallOK, Usable, Barren

LEMMA CommitStep ==
  ASSUME TopicInv, NEW c \in calls, Unwritten(c), Commit(c), GrownTopics,
         OrphansNeedStaleness', LinkedStayActive'
  PROVE  TopicInv'
<1>1. PICK d : d = [c EXCEPT !.phase = "ok", !.at = clock + 1]
  OBVIOUS
<1>2. /\ clock' = clock + 1 /\ calls' = (calls \ {c}) \cup {d}
      /\ UNCHANGED <<page, writes>>
  BY <1>1 DEF Commit
<1>3. CallOK(c) /\ c.op # "tree" /\ clock \in Nat
  BY CallOf, PageOf DEF Unwritten
<1>4. /\ DOMAIN d = CallFieldNames /\ d.tab = c.tab /\ d.op = c.op
      /\ d.topic = c.topic /\ d.active = c.active /\ d.since = c.since
      /\ d.live = c.live /\ d.phase = "ok" /\ d.at = clock + 1 /\ d.tree = c.tree
  BY <1>1, <1>3 DEF CallOK, CallFieldNames
<1>5. CallOK(c)'
  BY <1>2, <1>3, CallGrown
<1>6. CallOK(d)'
  <2>1. d.at \in 0 .. clock'
    BY <1>2, <1>3, <1>4
  <2> QED
    BY <1>3, <1>4, <1>5, <2>1 DEF CallOK, Unwritten
<1>7. ASSUME NEW e \in calls'
      PROVE  CallOK(e)' /\ Newer(e, page'[e.tab])
  <2>1. CASE e = d
    BY <1>3, <1>4, <1>6, <2>1 DEF Newer
  <2>2. CASE e # d
    <3>1. e \in calls
      BY <1>2, <2>2
    <3> QED
      BY <1>2, <3>1, CallOf, CallGrown
  <2> QED
    BY <2>1, <2>2
<1>8. CallInv'
  <2>1. \A e \in calls' : Newer(e, page[e.tab])'
    BY <1>7 DEF Newer
  <2>2. \A e, f \in calls' :
           e.op = "tree" /\ f.op = "tree" /\ e.tab = f.tab => e = f
    BY <1>2, <1>3, <1>4 DEF TopicInv, CallInv
  <2> QED
    BY <1>7, <2>1, <2>2 DEF CallInv
<1>9. PageInv'
  <2>1. ASSUME NEW t \in Tabs
        PROVE  PageOK(page[t])'
    <3>1. PICK p : p = page[t]
      OBVIOUS
    <3>2. PageOK(p)'
      BY <1>2, <3>1, PageOf, PageGrown
    <3> QED
      BY <1>2, <3>1, <3>2
  <2> QED
    BY <1>2, <2>1 DEF TopicInv, PageInv
<1>10. WriteInv'
  <2>1. PICK U : U = UnwrittenCalls'
    OBVIOUS
  <2>2. PICK V : V = UnwrittenCalls
    OBVIOUS
  <2>3. U \subseteq V \ {c} /\ c \in V
    BY <1>2, <1>4, <2>1, <2>2 DEF UnwrittenCalls, Unwritten
  <2>4. IsFiniteSet(V) /\ clock + Cardinality(V) <= writes
    BY <2>2 DEF TopicInv, WriteInv
  <2>5. /\ IsFiniteSet(V \ {c}) /\ Cardinality(V \ {c}) = Cardinality(V) - 1
    BY <2>3, <2>4, FS_RemoveElement
  <2>6. IsFiniteSet(U) /\ Cardinality(U) <= Cardinality(V \ {c})
    BY <2>3, <2>5, FS_Subset
  <2>7. Cardinality(U) \in Nat /\ Cardinality(V) \in Nat
    BY <2>4, <2>6, FS_CardinalityType
  <2>8. writes \in Nat
    BY TopicAssumption DEF TopicInv, WriteInv
  <2>9. clock' + Cardinality(U) <= writes'
    BY <1>2, <1>3, <2>4, <2>5, <2>6, <2>7, <2>8
  <2> QED
    BY <1>2, <2>1, <2>6, <2>9 DEF TopicInv, WriteInv
<1> QED
  BY <1>8, <1>9, <1>10 DEF TopicInv, GrownTopics


\* As long as no dialog was behind, the one that commits now saw what is there.
LEMMA Settled ==
  ASSUME TopicInv, NEW c \in calls, Unwritten(c), Commit(c), ~behind'
  PROVE  /\ ~behind
         /\ c.topic # 0 => c.topic \in Active
         /\ c.op = "delete" => ChildrenIn(Active, c.topic) = {}
         /\ c.op = "delete" /\ c.phase = "checked" => c.topic \notin linked
<1>1. CallOK(c) /\ clock \in Nat
  BY CallOf, PageOf
<1>2. ~behind /\ ~(c.since < clock)
  BY DEF Commit, TopicInv, TableInv
<1>3. c.since = clock
  BY <1>1, <1>2 DEF CallOK
<1> QED
  BY <1>1, <1>2, <1>3 DEF CallOK, Usable, Barren

\* Topics that stay where they are.
LEMMA SameTopics ==
  ASSUME TopicInv, NEW c, Commit(c), topics' \in Seq(TopicType),
         Len(topics') = Len(topics),
         linked' \subseteq DOMAIN topics, edited' \in BOOLEAN,
         \A k \in DOMAIN topics :
            topics'[k].parent = topics[k].parent /\ topics'[k].level = topics[k].level
  PROVE  GrownTopics
<1>1. topics \in Seq(TopicType) /\ clock \in Nat /\ behind \in BOOLEAN
  BY DEF TopicInv, TableInv
<1>2. clock' \in Nat /\ behind' \in BOOLEAN
  BY <1>1 DEF Commit
<1>3. DOMAIN topics' = DOMAIN topics /\ Len(topics) <= Len(topics')
  BY <1>1
<1>4. TopicType' = TopicType
  BY DEF TopicType
<1>5. TableInv'
  BY <1>2, <1>3, <1>4 DEF TableInv
<1> QED
  BY <1>3, <1>5 DEF GrownTopics

LEMMA ServeItemStep ==
  ASSUME TopicInv, NEW c \in calls, ServeItem(c)
  PROVE  TopicInv'
<1>1. /\ c.op = "item" /\ Commit(c) /\ linked' = linked \cup {c.topic}
      /\ topics' = topics /\ edited' = edited /\ Unwritten(c)
  BY DEF ServeItem, Unwritten
<1>2. topics \in Seq(TopicType) /\ c.topic \in DOMAIN topics
  <2>1. topics \in Seq(TopicType) /\ c.topic # 0 /\ c.topic \in 0 .. Len(topics)
    BY <1>1, CallOf DEF CallOK, TopicInv, TableInv
  <2> QED
    BY <2>1
<1>3. GrownTopics
  BY <1>1, <1>2, SameTopics DEF TopicInv, TableInv
<1>4. Active' = Active /\ Orphans' = Orphans
  BY <1>1 DEF Active, Orphans, Roots, Parent
<1>5. c.topic # 0
  BY <1>1, CallOf DEF CallOK
<1>6. behind => behind'
  BY <1>1 DEF Commit
<1>7. OrphansNeedStaleness'
  BY <1>1, <1>4, <1>6 DEF OrphansNeedStaleness, TopicInv
<1>8. LinkedStayActive'
  <2>1. CASE behind' \/ edited'
    BY <2>1 DEF LinkedStayActive
  <2>2. CASE ~behind' /\ ~edited'
    <3>1. ~behind /\ c.topic \in Active
      BY <1>1, <1>5, <2>2, Settled
    <3>2. linked \ Active = {}
      BY <1>1, <2>2, <3>1 DEF TopicInv, LinkedStayActive
    <3>3. (linked \ Active)' = {}
      BY <1>1, <1>4, <3>1, <3>2
    <3> QED
      BY <3>3 DEF LinkedStayActive
  <2> QED
    BY <2>1, <2>2
<1> QED
  BY <1>1, <1>3, <1>7, <1>8, CommitStep

\* A topic that is switched on or off.
LEMMA Switched ==
  ASSUME TopicInv, NEW x \in DOMAIN topics, NEW a \in BOOLEAN,
         topics' = [topics EXCEPT ![x].active = a]
  PROVE  /\ topics' \in Seq(TopicType) /\ Len(topics') = Len(topics)
         /\ \A k \in DOMAIN topics :
               topics'[k].parent = topics[k].parent /\ topics'[k].level = topics[k].level
         /\ Active' = IF a THEN Active \cup {x} ELSE Active \ {x}
<1>1. topics \in Seq(TopicType) /\ DOMAIN topics = 1 .. Len(topics)
  BY DEF TopicInv, TableInv
<1>2. PICK q : q = topics'
  OBVIOUS
<1>3. \A k \in DOMAIN topics : topics[k] \in TopicType
  BY <1>1
<1>4. ASSUME NEW k \in DOMAIN topics
      PROVE  /\ q[k] \in TopicType
             /\ q[k].parent = topics[k].parent /\ q[k].level = topics[k].level
             /\ q[k].active = IF k = x THEN a ELSE topics[k].active
  <2>1. q[k] = IF k = x THEN [topics[k] EXCEPT !.active = a] ELSE topics[k]
    BY <1>2
  <2>2. topics[k] \in TopicType
    BY <1>3
  <2> HIDE DEF TopicType
  <2> QED
    BY <2>1, <2>2 DEF TopicType
<1>5. q \in [1 .. Len(topics) -> TopicType]
  BY <1>1, <1>2, <1>4
<1>6. q \in Seq(TopicType) /\ Len(q) = Len(topics)
  BY <1>1, <1>5
<1>7. Active' = IF a THEN Active \cup {x} ELSE Active \ {x}
  <2>1. DOMAIN q = DOMAIN topics
    BY <1>2
  <2>2. Active' = {k \in DOMAIN topics : q[k].active}
    BY <1>2, <2>1 DEF Active
  <2> QED
    BY <2>2, <1>4 DEF Active
<1> QED
  BY <1>2, <1>4, <1>6, <1>7

LEMMA ServeUpdateStep ==
  ASSUME TopicInv, NEW c \in calls, ServeUpdate(c)
  PROVE  TopicInv'
<1>1. /\ c.op = "update" /\ Commit(c) /\ linked' = linked
      /\ topics' = [topics EXCEPT ![c.topic].active = c.active]
      /\ edited' = (edited \/ ~c.active) /\ Unwritten(c)
  BY DEF ServeUpdate, Unwritten
<1>2. topics \in Seq(TopicType) /\ c.topic \in DOMAIN topics /\ c.active \in BOOLEAN
  <2>1. /\ topics \in Seq(TopicType) /\ c.topic # 0 /\ c.topic \in 0 .. Len(topics)
        /\ c.active \in BOOLEAN
    BY <1>1, CallOf DEF CallOK, TopicInv, TableInv
  <2> QED
    BY <2>1
<1>3. /\ topics' \in Seq(TopicType) /\ Len(topics') = Len(topics)
      /\ \A k \in DOMAIN topics :
            topics'[k].parent = topics[k].parent /\ topics'[k].level = topics[k].level
      /\ Active' = IF c.active THEN Active \cup {c.topic} ELSE Active \ {c.topic}
  BY <1>1, <1>2, Switched
<1>4. GrownTopics
  <2>1. edited' \in BOOLEAN
    BY <1>1
  <2> QED
    BY <1>1, <1>3, <2>1, SameTopics DEF TopicInv, TableInv
<1>5. OrphansNeedStaleness' /\ LinkedStayActive'
  <2>1. CASE behind' \/ edited'
    BY <2>1 DEF OrphansNeedStaleness, LinkedStayActive
  <2>2. CASE ~behind' /\ ~edited'
    <3>1. ~behind /\ ~edited /\ c.active
      BY <1>1, <2>2, Settled
    <3>2. c.topic \in Active
      <4>1. c.topic # 0
        BY <1>1, CallOf DEF CallOK
      <4> QED
        BY <1>1, <2>2, <4>1, Settled
    <3>3. Active' = Active
      BY <1>3, <3>1, <3>2
    <3>4. \A k \in Active : Parent(k)' = Parent(k)
      BY <1>3 DEF Active, Parent
    <3>5. Orphans' = Orphans
      BY <3>3, <3>4 DEF Orphans, Roots
    <3> QED
      BY <1>1, <2>2, <3>1, <3>3, <3>5 DEF TopicInv, OrphansNeedStaleness, LinkedStayActive
  <2> QED
    BY <2>1, <2>2
<1> QED
  BY <1>1, <1>4, <1>5, CommitStep

LEMMA CommitDeleteStep ==
  ASSUME TopicInv, NEW c \in calls, CommitDelete(c)
  PROVE  TopicInv'
<1>1. /\ c.op = "delete" /\ c.phase = "checked" /\ Commit(c) /\ linked' = linked
      /\ topics' = [topics EXCEPT ![c.topic].active = FALSE]
      /\ edited' = edited /\ Unwritten(c)
  BY DEF CommitDelete, Unwritten
<1>2. topics \in Seq(TopicType) /\ c.topic \in DOMAIN topics
  <2>1. topics \in Seq(TopicType) /\ c.topic # 0 /\ c.topic \in 0 .. Len(topics)
    BY <1>1, CallOf DEF CallOK, TopicInv, TableInv
  <2> QED
    BY <2>1
<1>3. /\ topics' \in Seq(TopicType) /\ Len(topics') = Len(topics)
      /\ \A k \in DOMAIN topics :
            topics'[k].parent = topics[k].parent /\ topics'[k].level = topics[k].level
      /\ Active' = Active \ {c.topic}
  BY <1>1, <1>2, Switched
<1>4. GrownTopics
  BY <1>1, <1>3, SameTopics DEF TopicInv, TableInv
<1>5. OrphansNeedStaleness' /\ LinkedStayActive'
  <2>1. CASE behind' \/ edited'
    BY <2>1 DEF OrphansNeedStaleness, LinkedStayActive
  <2>2. CASE ~behind' /\ ~edited'
    <3>1. /\ ~behind /\ ~edited /\ c.topic \notin linked
          /\ ChildrenIn(Active, c.topic) = {}
      BY <1>1, <2>2, Settled
    <3>2. Orphans = {} /\ linked \ Active = {}
      BY <3>1 DEF TopicInv, OrphansNeedStaleness, LinkedStayActive
    <3>3. \A k \in Active : Parent(k)' = Parent(k)
      BY <1>3 DEF Active, Parent
    <3>4. Orphans' = {}
      <4>1. ASSUME NEW x \in Orphans'
            PROVE  FALSE
        <5>1. /\ x \in Active /\ x # c.topic /\ Parent(x)' = Parent(x)
              /\ Parent(x) \notin Active \ {c.topic} /\ Parent(x) # 0
          BY <1>3, <3>3 DEF Orphans, Roots
        <5>2. Parent(x) # c.topic
          BY <5>1, <3>1 DEF ChildrenIn
        <5> QED
          BY <5>1, <5>2, <3>2 DEF Orphans, Roots
      <4> QED
        BY <4>1
    <3>5. (linked \ Active)' = {}
      BY <1>1, <1>3, <3>1, <3>2
    <3> QED
      BY <3>4, <3>5 DEF OrphansNeedStaleness, LinkedStayActive
  <2> QED
    BY <2>1, <2>2
<1> QED
  BY <1>1, <1>4, <1>5, CommitStep

LEMMA ServeCreateStep ==
  ASSUME TopicInv, NEW c \in calls, ServeCreate(c)
  PROVE  TopicInv'
<1>1. PICK e : e = [parent |-> c.topic, active |-> TRUE,
                    level |-> IF c.topic = 0 THEN 0 ELSE Level(c.topic) + 1]
  OBVIOUS
<1>2. /\ c.op = "create" /\ Commit(c) /\ linked' = linked
      /\ topics' = Append(topics, e) /\ edited' = edited /\ Unwritten(c)
  BY <1>1 DEF ServeCreate, Unwritten
<1>3. PICK n : n = Len(topics)
  OBVIOUS
<1>4. /\ topics \in Seq(TopicType) /\ n \in Nat /\ DOMAIN topics = 1 .. n
      /\ CallOK(c) /\ clock \in Nat /\ behind \in BOOLEAN /\ edited \in BOOLEAN
      /\ linked \subseteq DOMAIN topics
  BY <1>3, CallOf DEF TopicInv, TableInv
<1>5. e.level \in 0 .. 3
  <2>1. CASE c.topic = 0
    BY <1>1, <2>1
  <2>2. CASE c.topic # 0
    <3>1. c.topic \in DOMAIN topics /\ Level(c.topic) <= 2
      BY <1>2, <1>3, <1>4, <2>2 DEF CallOK
    <3>2. Level(c.topic) \in 0 .. 3
      <4>1. topics[c.topic] \in TopicType
        BY <1>4, <3>1
      <4> QED
        BY <4>1 DEF TopicType, Level
    <3> QED
      BY <1>1, <2>2, <3>1, <3>2
  <2> QED
    BY <2>1, <2>2
<1> DEFINE T == [parent : 0 .. n + 1, level : 0 .. 3, active : BOOLEAN]
<1>6. TopicType \subseteq T /\ e \in T
  <2>1. 0 .. n \subseteq 0 .. n + 1 /\ c.topic \in 0 .. n
    BY <1>3, <1>4 DEF CallOK
  <2>2. e \in T
    BY <1>1, <1>5, <2>1
  <2>3. TopicType \subseteq T
    BY <1>3, <2>1 DEF TopicType
  <2> QED
    BY <2>2, <2>3
<1>7. topics \in Seq(T)
  <2>1. topics \in [1 .. n -> TopicType]
    BY <1>3, <1>4
  <2>2. topics \in [1 .. n -> T]
    <3> HIDE DEF T
    <3> QED
      BY <2>1, <1>6
  <2> HIDE DEF T
  <2> QED
    BY <1>4, <2>2
<1>8. PICK q : q = topics'
  OBVIOUS
<1>9. /\ q \in Seq(T) /\ Len(q) = n + 1 /\ DOMAIN q = 1 .. n + 1
      /\ \A k \in 1 .. n : q[k] = topics[k]
      /\ q[n + 1] = e
  <2> HIDE DEF T
  <2> QED
    BY <1>2, <1>3, <1>4, <1>6, <1>7, <1>8
<1>10. TopicType' = T
  BY <1>8, <1>9 DEF TopicType
<1>11. GrownTopics
  <2>1. clock' \in Nat /\ behind' \in BOOLEAN
    BY <1>2, <1>4 DEF Commit
  <2>2. DOMAIN topics \subseteq DOMAIN q
    BY <1>4, <1>9
  <2>3. TableInv'
    BY <1>2, <1>4, <1>8, <1>9, <1>10, <2>1, <2>2 DEF TableInv
  <2>4. Len(topics) <= Len(q)
    BY <1>3, <1>4, <1>9
  <2> QED
    BY <1>4, <1>8, <1>9, <2>2, <2>3, <2>4 DEF GrownTopics
<1>12. Active' = Active \cup {n + 1}
  <2>1. Active' = {k \in 1 .. n + 1 : q[k].active}
    BY <1>8, <1>9 DEF Active
  <2>2. e.active
    BY <1>1
  <2> QED
    BY <1>4, <1>9, <2>1, <2>2 DEF Active
<1>13. OrphansNeedStaleness' /\ LinkedStayActive'
  <2>1. CASE behind' \/ edited'
    BY <2>1 DEF OrphansNeedStaleness, LinkedStayActive
  <2>2. CASE ~behind' /\ ~edited'
    <3>1. /\ ~behind /\ ~edited /\ (c.topic # 0 => c.topic \in Active)
      BY <1>2, <2>2, Settled
    <3>2. Orphans = {} /\ linked \ Active = {}
      BY <3>1 DEF TopicInv, OrphansNeedStaleness, LinkedStayActive
    <3>3. \A k \in Active : Parent(k)' = Parent(k)
      BY <1>4, <1>8, <1>9 DEF Active, Parent
    <3>4. Parent(n + 1)' = c.topic
      BY <1>1, <1>8, <1>9 DEF Parent
    <3>5. Orphans' = {}
      <4>1. ASSUME NEW x \in Orphans'
            PROVE  FALSE
        <5>1. /\ x \in Active \cup {n + 1}
              /\ Parent(x)' \notin Active \cup {n + 1} /\ Parent(x)' # 0
          BY <1>12 DEF Orphans, Roots
        <5>2. CASE x = n + 1
          BY <5>1, <5>2, <3>1, <3>4
        <5>3. CASE x \in Active
          BY <5>1, <5>3, <3>2, <3>3 DEF Orphans, Roots
        <5> QED
          BY <5>1, <5>2, <5>3
      <4> QED
        BY <4>1
    <3>6. (linked \ Active)' = {}
      BY <1>2, <1>12, <3>2
    <3> QED
      BY <3>5, <3>6 DEF OrphansNeedStaleness, LinkedStayActive
  <2> QED
    BY <2>1, <2>2
<1> QED
  BY <1>2, <1>11, <1>13, CommitStep


-----------------------------------------------------------------------------
(* All steps, and what follows. *)

LEMMA TopicStep ==
  ASSUME TopicInv, [Next]_vars
  PROVE  TopicInv'
<1>1. ASSUME NEW t \in Tabs, Author(t)
      PROVE  TopicInv'
  BY <1>1, OpenCreateStep, OpenEditStep, OpenDeleteStep, ChooseTopicStep,
     ChooseExamStep, ChooseSubjectStep, ChooseDomainStep, HandleLevelChangeStep,
     ToggleActiveStep, CloseSheetStep, CloseDeleteStep, GoStep, RefetchStep,
     OnSubmitStep, HandleDeleteStep, CreateItemStep DEF Author
<1>2. ASSUME NEW c \in calls, Server(c)
      PROVE  TopicInv'
  BY <1>2, ServeTreeStep, ServeCreateStep, ServeUpdateStep, CheckDeleteStep,
     CommitDeleteStep, ServeItemStep DEF Server
<1>3. CASE UNCHANGED vars
  BY <1>3, FewerCalls DEF vars
<1> QED
  BY <1>1, <1>2, <1>3, TreeRepliedStep, ItemRepliedStep, WriteRepliedStep,
     WriteFailsStep DEF Next

LEMMA TopicInit == Init => TopicInv
<1> SUFFICES ASSUME Init
             PROVE  TopicInv
  OBVIOUS
<1>1. /\ topics = [k \in DOMAIN Seeds |->
                      [parent |-> Seeds[k], level |-> SeedLevel[k], active |-> TRUE]]
      /\ linked = {} /\ page = [t \in Tabs |-> FreshPage]
      /\ calls = {Call(t, "tree", 0, TRUE, 0) : t \in Tabs}
      /\ writes = 0 /\ clock = 0 /\ behind = FALSE /\ edited = FALSE
  BY DEF Init
<1>2. PICK n : n = Len(Seeds)
  OBVIOUS
<1>3. /\ n \in Nat /\ DOMAIN Seeds = 1 .. n
      /\ \A k \in 1 .. n : Seeds[k] \in 0 .. (k - 1) /\ SeedLevel[k] \in 0 .. 3
  <2>1. Seeds \in Seq(Nat)
    BY TopicAssumption
  <2>2. n \in Nat /\ DOMAIN Seeds = 1 .. n
    BY <1>2, <2>1
  <2>3. \A k \in DOMAIN Seeds : Seeds[k] \in 0 .. (k - 1)
    BY TopicAssumption
  <2> QED
    BY <2>2, <2>3, LevelAssumption
<1> DEFINE T == [parent : 0 .. n, level : 0 .. 3, active : BOOLEAN]
<1>4. \A k \in 1 .. n : topics[k] \in T
  <2>1. ASSUME NEW k \in 1 .. n
        PROVE  Seeds[k] \in 0 .. n
    BY <1>3
  <2> QED
    BY <1>1, <1>3, <2>1
<1>5. topics \in Seq(T) /\ Len(topics) = n /\ DOMAIN topics = 1 .. n
  <2>1. DOMAIN topics = 1 .. n
    BY <1>1, <1>3
  <2>2. topics = [k \in 1 .. n |-> topics[k]]
    BY <1>1, <1>3
  <2> HIDE DEF T
  <2>3. topics \in [1 .. n -> T]
    BY <1>4, <2>2
  <2> QED
    BY <1>3, <2>1, <2>3
<1>6. TableInv
  <2>1. TopicType = T
    BY <1>5 DEF TopicType
  <2> QED
    BY <1>1, <1>5, <2>1 DEF TableInv
<1>7. Active = 1 .. n
  BY <1>1, <1>3, <1>5 DEF Active
<1>8. Orphans = {}
  <2>1. ASSUME NEW x \in Orphans
        PROVE  FALSE
    <3>1. x \in 1 .. n /\ Seeds[x] # 0 /\ Seeds[x] \notin 1 .. n
      BY <1>1, <1>3, <1>7 DEF Orphans, Roots, Parent
    <3> QED
      BY <1>3, <3>1
  <2> QED
    BY <2>1
<1>9. OrphansNeedStaleness /\ LinkedStayActive
  BY <1>1, <1>8 DEF OrphansNeedStaleness, LinkedStayActive
<1>10. PageInv
  <2>1. 0 \in 0 .. n /\ 0 \in 0 .. clock
    BY <1>1, <1>3
  <2>2. CacheOK(FreshPage)
    BY <1>1, <2>1 DEF CacheOK, FreshPage
  <2>3. /\ SheetOK(Closed, 0) /\ TargetOK(NoTarget, 0) /\ FormOK(NoChoice, 0)
    BY <1>5, <2>1 DEF SheetOK, TargetOK, FormOK, Closed, NoTarget, NoChoice, Usable
  <2>4. PageOK(FreshPage)
    BY <2>2, <2>3 DEF PageOK, FreshPage
  <2> QED
    BY <1>1, <2>4 DEF PageInv
<1>11. CallInv
  <2>1. ASSUME NEW t \in Tabs
        PROVE  CallOK(StartFetch(t)) /\ \A p : Newer(StartFetch(t), p)
    BY <1>6, FetchOK
  <2>2. calls = {StartFetch(t) : t \in Tabs}
    BY <1>1 DEF StartFetch
  <2>3. \A t \in Tabs : StartFetch(t).tab = t
    BY DEF StartFetch, Call
  <2> QED
    BY <2>1, <2>2, <2>3 DEF CallInv
<1>12. WriteInv
  <2>1. UnwrittenCalls = {}
    BY <1>1 DEF UnwrittenCalls, Unwritten, Call
  <2>2. MaxWrites \in Nat
    BY TopicAssumption
  <2> QED
    BY <1>1, <2>1, <2>2, FS_EmptySet DEF WriteInv
<1> QED
  BY <1>6, <1>9, <1>10, <1>11, <1>12 DEF TopicInv

LEMMA TopicTyping == TopicInv => TypeOK
<1> SUFFICES ASSUME TopicInv
             PROVE  TypeOK
  OBVIOUS
<1>1. topics \in Seq(TopicType) /\ linked \subseteq DOMAIN topics /\ clock \in Nat
  BY DEF TopicInv, TableInv
<1>2. PICK n : n = Len(topics)
  OBVIOUS
<1>3. n \in Nat /\ DOMAIN topics = 1 .. n
  BY <1>1, <1>2
<1>4. ASSUME NEW t \in Tabs
      PROVE  /\ page[t].screen \in {"topics", "new"}
             /\ Tree(t) \subseteq DOMAIN topics
             /\ page[t].asOf <= clock /\ page[t].own <= clock
             /\ Sheet(t).topic \in 0 .. Len(topics)
             /\ page[t].target.topic \in 0 .. Len(topics)
  BY <1>1, <1>4, PageOf DEF PageOK, CacheOK, SheetOK, TargetOK, Tree, Sheet
<1>5. ASSUME NEW t \in Tabs
      PROVE  Cardinality(Fetching(t)) <= 1
  <2>1. CASE Fetching(t) = {}
    BY <2>1, FS_EmptySet
  <2>2. ASSUME NEW c \in Fetching(t)
        PROVE  Cardinality(Fetching(t)) <= 1
    <3>1. Fetching(t) = {c}
      BY <2>2 DEF Fetching, TopicInv, CallInv
    <3>2. Cardinality({c}) = 1
      BY FS_Singleton
    <3> QED
      BY <3>1, <3>2
  <2> QED
    BY <2>1, <2>2
<1>6. ASSUME NEW t \in Tabs, NEW l \in 0 .. 3
      PROVE  StatsOf(t)[l] <= Len(topics)
  <2>1. PICK S : S = {x \in Tree(t) : Level(x) = l}
    OBVIOUS
  <2>2. S \subseteq 1 .. n
    BY <1>3, <1>4, <2>1
  <2>3. IsFiniteSet(1 .. n) /\ Cardinality(1 .. n) = n
    BY <1>3, FS_Interval
  <2>4. Cardinality(S) <= n
    BY <2>2, <2>3, FS_Subset
  <2> QED
    BY <1>2, <2>1, <2>4 DEF StatsOf
<1>7. writes \in 0 .. MaxWrites /\ clock <= writes
  <2>1. PICK k : k = Cardinality(UnwrittenCalls)
    OBVIOUS
  <2>2. k \in Nat /\ clock + k <= writes /\ writes \in 0 .. MaxWrites
    BY <2>1, FS_CardinalityType DEF TopicInv, WriteInv
  <2> QED
    BY <1>1, <2>2, TopicAssumption
<1> QED
  BY <1>1, <1>4, <1>5, <1>6, <1>7 DEF TypeOK, TopicType

\* The table, the tabs and the requests keep their types; a tab has one fetch of
\* the tree under way, and every commit was asked for by a write.
THEOREM TopicsTyped == Spec => []TypeOK
BY TopicInit, TopicStep, TopicTyping, PTL DEF Spec

\* What a sheet is about to create goes one level below the parent it names,
\* and its selectors agree, whatever the tree was refetched to meanwhile.
THEOREM SheetsNested == Spec => []ChoicesNested
<1>1. TopicInv => ChoicesNested
  <2> SUFFICES ASSUME TopicInv, NEW t \in Tabs, Creating(t), SubmitEnabled(t),
                      Sheet(t).level > 0
               PROVE  /\ Level(ChosenParent(t)) = Sheet(t).level - 1
                      /\ Sheet(t).level >= 2 =>
                            Parent(Sheet(t).subject) = Sheet(t).exam
                      /\ Sheet(t).level >= 3 =>
                            Parent(Sheet(t).domain) = Sheet(t).subject
    BY DEF ChoicesNested
  <2>1. SheetOK(Sheet(t), page[t].asOf)
    BY PageOf
  <2>2. Nested(Sheet(t)) /\ Sheet(t).level \in 1 .. 3
    BY <2>1 DEF SheetOK, Creating
  <2>3. /\ Sheet(t).exam # 0
        /\ Sheet(t).level >= 2 => Sheet(t).subject # 0
        /\ Sheet(t).level >= 3 => Sheet(t).domain # 0
    BY <2>2 DEF SubmitEnabled, Creating
  <2>4. ChosenParent(t) = ParentIn(Sheet(t)) /\ ChosenParent(t) # 0
    BY <2>2, <2>3 DEF ChosenParent, ParentIn
  <2> QED
    BY <2>2, <2>3, <2>4 DEF Nested
<1> QED
  BY <1>1, TopicInit, TopicStep, PTL DEF Spec

\* An active topic below one that is switched off takes a dialog that was
\* behind the table, or an edit that switched the parent off.
THEOREM OrphansExplained == Spec => []OrphansNeedStaleness
<1>1. TopicInv => OrphansNeedStaleness
  BY DEF TopicInv
<1> QED
  BY <1>1, TopicInit, TopicStep, PTL DEF Spec

\* The same for a topic with questions that is switched off: the two statements
\* of delete_topic let no more through.
THEOREM LinkedExplained == Spec => []LinkedStayActive
<1>1. TopicInv => LinkedStayActive
  BY DEF TopicInv
<1> QED
  BY <1>1, TopicInit, TopicStep, PTL DEF Spec

\* A tree a tab takes for fresh holds every write the tab was told of, unless
\* it was told while its first tree was under way.
THEOREM FreshHoldsOwn == Spec => []OwnWritesShown
<1>1. TopicInv => OwnWritesShown
  BY DEF TopicInv, PageInv, PageOK, CacheOK, OwnWritesShown
<1> QED
  BY <1>1, TopicInit, TopicStep, PTL DEF Spec
=============================================================================
