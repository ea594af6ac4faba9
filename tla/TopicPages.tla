------------------------------ MODULE TopicPages ------------------------------
(***************************************************************************)
(* The topic hierarchy: the topics page and the topic cascade of the new   *)
(* question form in the tabs of some authors, the query cache each tab     *)
(* keeps of the tree, and topic_service.py behind them.                    *)
(*                                                                         *)
(* A dialog works on the tree its tab had when the dialog was opened.      *)
(* since and clock tell how far behind the table that is: they are history *)
(* variables and no action depends on them.                                *)
(***************************************************************************)
EXTENDS Naturals, Sequences, FiniteSets

CONSTANTS
    Tabs,
    Seeds,      \* the parents of the topics there are at first, 0 for none
    MaxTopics,  \* bound on topics
    MaxWrites   \* bound on the writes the pages send and the replies they lose

ASSUME TopicAssumption ==
    /\ Seeds \in Seq(Nat)
    /\ \A k \in DOMAIN Seeds : Seeds[k] \in 0 .. (k - 1)
    /\ {MaxTopics, MaxWrites} \subseteq Nat

VARIABLES
    topics,  \* the topics table, in the order of insertion
    linked,  \* topics with an item link
    page,    \* what each tab shows and remembers
    calls,   \* requests under way
    writes,  \* writes sent and replies lost so far
    clock,   \* commits so far
    behind,  \* a commit from a dialog older than the table has happened
    edited   \* a topic has been switched off by the edit sheet

vars == <<topics, linked, page, calls, writes, clock, behind, edited>>

-----------------------------------------------------------------------------
(* The tree. *)

SeedLevel[k \in DOMAIN Seeds] ==
    IF Seeds[k] = 0 THEN 0 ELSE SeedLevel[Seeds[k]] + 1

\* Exam, subject, domain and subdomain.
ASSUME LevelAssumption == \A k \in DOMAIN Seeds : SeedLevel[k] \in 0 .. 3

Active == {x \in DOMAIN topics : topics[x].active}

Parent(x) == topics[x].parent

Level(x) == topics[x].level

ChildrenIn(tree, x) == {y \in tree : Parent(y) = x}

\* _build_tree: a topic whose parent is not in the tree is a root.
Roots(tree) == {x \in tree : Parent(x) \notin tree}

Orphans == {x \in Roots(Active) : Parent(x) # 0}

-----------------------------------------------------------------------------
(* What a tab shows. *)

Closed ==
    [mode |-> "closed", topic |-> 0, level |-> 0, exam |-> 0, subject |-> 0,
     domain |-> 0, active |-> TRUE, since |-> 0]

NoTarget == [topic |-> 0, kids |-> FALSE, since |-> 0]

NoChoice == [subject |-> 0, domain |-> 0, topic |-> 0, since |-> 0]

\* own is the clock of the last write of this tab it was told of; early says
\* that it was told while the first tree was still on its way.
FreshPage ==
    [screen |-> "topics", loaded |-> FALSE, tree |-> {}, asOf |-> 0,
     fresh |-> FALSE, own |-> 0, early |-> FALSE,
     sheet |-> Closed, target |-> NoTarget, form |-> NoChoice]

Call(t, op, topic, active, since) ==
    [tab |-> t, op |-> op, topic |-> topic, active |-> active, since |-> since,
     live |-> TRUE, phase |-> "sent", at |-> 0, tree |-> {}]

Init ==
    /\ topics = [k \in DOMAIN Seeds |->
                    [parent |-> Seeds[k], level |-> SeedLevel[k], active |-> TRUE]]
    /\ linked = {}
    /\ page = [t \in Tabs |-> FreshPage]
    /\ calls = {Call(t, "tree", 0, TRUE, 0) : t \in Tabs}
    /\ writes = 0 /\ clock = 0
    /\ behind = FALSE /\ edited = FALSE

Sheet(t) == page[t].sheet

Tree(t) == page[t].tree

Fetching(t) == {c \in calls : c.tab = t /\ c.op = "tree"}

Pending(t, ops) == \E c \in calls : c.tab = t /\ c.op \in ops /\ c.live

OnTopics(t) == page[t].screen = "topics"

Busy(t) ==
    Sheet(t).mode # "closed" \/ page[t].target # NoTarget \/ page[t].form # NoChoice

\* The bound on writes covers those that the dialogs and forms open now may send.
WriteLeft == writes + Cardinality({t \in Tabs : Busy(t)}) < MaxWrites

\* The tree is shown with its counts as soon as there is one.
TreeShown(t) == OnTopics(t) /\ page[t].loaded

StatsOf(t) ==
    [l \in 0 .. 3 |-> Cardinality({x \in Tree(t) : Level(x) = l})]

\* A root is drawn as a card, whatever its level is, and the others as rows.
CardsShown(t) == Roots(Tree(t))

RowsShown(t) == UNION {ChildrenIn(Tree(t), x) : x \in Tree(t)}

\* The buttons of a node. The topics here belong to the institution.
EditShown(t, x) == TreeShown(t) /\ x \in CardsShown(t) \cup RowsShown(t)

\* There is nothing below a subdomain.
AddShown(t, x) == EditShown(t, x) /\ Level(x) < 3

\* The parents the sheet offers.
Exams(t) == {x \in Tree(t) : Level(x) = 0}

SubjectsFor(t) == {x \in Tree(t) : Level(x) = 1 /\ Parent(x) = Sheet(t).exam}

DomainsFor(t) == {x \in Tree(t) : Level(x) = 2 /\ Parent(x) = Sheet(t).subject}

ChosenParent(t) ==
    CASE Sheet(t).level = 0 -> 0
      [] Sheet(t).level = 1 -> Sheet(t).exam
      [] Sheet(t).level = 2 -> Sheet(t).subject
      [] OTHER -> Sheet(t).domain

SubmitEnabled(t) ==
    /\ OnTopics(t) /\ Sheet(t).mode # "closed"
    /\ ~Pending(t, {"create", "update"})
    /\ Sheet(t).mode = "create" =>
          /\ Sheet(t).level >= 1 => Sheet(t).exam # 0
          /\ Sheet(t).level >= 2 => Sheet(t).subject # 0
          /\ Sheet(t).level >= 3 => Sheet(t).domain # 0

DeleteEnabled(t) ==
    /\ OnTopics(t) /\ page[t].target.topic # 0
    /\ ~Pending(t, {"delete"}) /\ ~page[t].target.kids

\* The cascade of the new question form takes level 0 for its subjects.
Subjects(t) == {x \in Tree(t) : Level(x) = 0}

Domains(t) == {x \in Tree(t) : Level(x) = 1 /\ Parent(x) = page[t].form.subject}

Subdomains(t) == {x \in Tree(t) : Level(x) = 2 /\ Parent(x) = page[t].form.domain}

CreateEnabled(t) ==
    ~OnTopics(t) /\ page[t].form.topic # 0 /\ ~Pending(t, {"item"})

-----------------------------------------------------------------------------
(* The query cache. *)

StartFetch(t) == Call(t, "tree", 0, TRUE, 0)

\* Mutant: the fetch under way is left to its own.
InvalidatedTwice(t, rest) == rest \cup {[StartFetch(t) EXCEPT !.since = 1]}

\* Mutant: what was cached is dropped from the screen but not asked for again.
InvalidatedQuietly(t, rest) == rest

\* A fetch under way is thrown away for a new one, unless it is the first: that
\* one is waited for, however old what it brings.
Invalidated(t, rest) ==
    IF page[t].loaded THEN (rest \ Fetching(t)) \cup {StartFetch(t)}
    ELSE rest \cup {c \in {StartFetch(t)} : Fetching(t) = {}}

\* Mounted, focused, or too old. A fetch that would bring nothing new is left out.
\* A bound: it starts while no other tab fetches.
Refetch(t) ==
    /\ \A u \in Tabs : Fetching(u) = {}
    /\ page[t].asOf < clock /\ (Busy(t) \/ WriteLeft)
    /\ calls' = calls \cup {StartFetch(t)}
    /\ UNCHANGED <<topics, linked, page, writes, clock, behind, edited>>

TreeReplied(c) ==
    /\ c.op = "tree" /\ c.phase = "ok"
    /\ calls' = calls \ {c}
    /\ page' = [page EXCEPT ![c.tab].loaded = TRUE, ![c.tab].fresh = TRUE,
                            ![c.tab].tree = c.tree, ![c.tab].asOf = c.at]
    /\ UNCHANGED <<topics, linked, writes, clock, behind, edited>>

-----------------------------------------------------------------------------
(* The topics page and the form. *)

Local == UNCHANGED <<topics, linked, calls, writes, clock, behind, edited>>

\* The sheet and the dialog are modal.
NoDialog(t) == OnTopics(t) /\ ~Busy(t) /\ WriteLeft

SetSheet(t, sheet) == page' = [page EXCEPT ![t].sheet = sheet]

\* A bound: one sheet at a time is open among the tabs.
NoSheet(t) == NoDialog(t) /\ \A u \in Tabs : Sheet(u).mode = "closed"

\* openCreate and the effect that fills the sheet in: from the button of the
\* page (x = 0), or below the node x.
OpenCreate(t, x) ==
    /\ NoSheet(t)
    /\ x # 0 => AddShown(t, x)
    /\ LET sheet == [Closed EXCEPT !.mode = "create", !.since = page[t].asOf]
           Known(y) == IF y \in Tree(t) THEN Parent(y) ELSE 0
       IN  SetSheet(t,
             IF x = 0 THEN sheet
             ELSE CASE Level(x) = 0 -> [sheet EXCEPT !.level = 1, !.exam = x]
                    [] Level(x) = 1 -> [sheet EXCEPT !.level = 2, !.exam = Parent(x),
                                                     !.subject = x]
                    [] Level(x) = 2 -> [sheet EXCEPT !.level = 3, !.domain = x,
                                                     !.subject = Parent(x),
                                                     !.exam = Known(Parent(x))])
    /\ Local

\* openEdit: what is in the tree was active when it was fetched.
OpenEdit(t, x) ==
    /\ EditShown(t, x) /\ NoSheet(t)
    /\ SetSheet(t, [Closed EXCEPT !.mode = "edit", !.topic = x, !.level = Level(x),
                                  !.since = page[t].asOf])
    /\ Local

CloseSheet(t) ==
    /\ OnTopics(t) /\ Sheet(t).mode # "closed"
    /\ SetSheet(t, Closed)
    /\ Local

Creating(t) == OnTopics(t) /\ Sheet(t).mode = "create"

\* A select for each level above the one of the new topic.
ParentShown(t, l) == Creating(t) /\ l <= Sheet(t).level

HandleLevelChange(t, l) ==
    /\ Creating(t)
    /\ SetSheet(t, [Sheet(t) EXCEPT !.level = l, !.exam = 0, !.subject = 0,
                                    !.domain = 0])
    /\ Local

\* Mutant: another exam leaves the subject chosen.
ChooseExamOnly(t, x) ==
    /\ ParentShown(t, 1) /\ x \in Exams(t) /\ x # Sheet(t).exam
    /\ SetSheet(t, [Sheet(t) EXCEPT !.exam = x])
    /\ Local

ChooseExam(t, x) ==
    /\ ParentShown(t, 1) /\ x \in Exams(t) /\ x # Sheet(t).exam
    /\ SetSheet(t, [Sheet(t) EXCEPT !.exam = x, !.subject = 0, !.domain = 0])
    /\ Local

ChooseSubject(t, x) ==
    /\ ParentShown(t, 2) /\ x \in SubjectsFor(t)
    /\ x # Sheet(t).subject
    /\ SetSheet(t, [Sheet(t) EXCEPT !.subject = x, !.domain = 0])
    /\ Local

ChooseDomain(t, x) ==
    /\ ParentShown(t, 3) /\ x \in DomainsFor(t)
    /\ x # Sheet(t).domain
    /\ SetSheet(t, [Sheet(t) EXCEPT !.domain = x])
    /\ Local

ToggleActive(t) ==
    /\ OnTopics(t) /\ Sheet(t).mode = "edit"
    /\ SetSheet(t, [Sheet(t) EXCEPT !.active = ~@])
    /\ Local

\* Mutant: the children are not looked at.
OpenDeleteAnyway(t, x) ==
    /\ EditShown(t, x) /\ NoDialog(t)
    /\ page' = [page EXCEPT ![t].target =
                   [topic |-> x, kids |-> FALSE, since |-> page[t].asOf]]
    /\ Local

\* The dialog is given the node it was opened on, with the children of then.
OpenDelete(t, x) ==
    /\ EditShown(t, x) /\ NoDialog(t)
    /\ page' = [page EXCEPT ![t].target =
                   [topic |-> x, kids |-> ChildrenIn(Tree(t), x) # {},
                    since |-> page[t].asOf]]
    /\ Local

CloseDelete(t) ==
    /\ OnTopics(t) /\ page[t].target # NoTarget
    /\ page' = [page EXCEPT ![t].target = NoTarget]
    /\ Local

ChooseTopic(t, x) ==
    LET form  == page[t].form
        since == IF form.topic = 0 THEN page[t].asOf ELSE form.since
    IN  /\ ~OnTopics(t) /\ x # form.topic
        /\ Busy(t) \/ WriteLeft
        /\ \/ /\ x \in Subjects(t)
              /\ page' = [page EXCEPT ![t].form =
                     [subject |-> x, domain |-> 0, topic |-> x, since |-> since]]
           \/ /\ x \in Domains(t)
              /\ page' = [page EXCEPT ![t].form =
                     [form EXCEPT !.domain = x, !.topic = x]]
           \/ /\ x \in Subdomains(t)
              /\ page' = [page EXCEPT ![t].form = [form EXCEPT !.topic = x]]
        /\ Local

\* A page that is left forgets its dialogs; its requests go on.
Left(t, screen) ==
    [page[t] EXCEPT !.screen = screen, !.sheet = Closed, !.target = NoTarget,
                    !.form = NoChoice]

Orphaned(t, rest) ==
    {[c EXCEPT !.live = c.live /\ (c.tab # t \/ c.op = "tree")] : c \in rest}

Go(t) ==
    /\ Busy(t) \/ WriteLeft
    /\ page' = [page EXCEPT ![t] = Left(t, IF OnTopics(t) THEN "new" ELSE "topics")]
    /\ calls' = Orphaned(t, calls)
    /\ UNCHANGED <<topics, linked, writes, clock, behind, edited>>

Send(c) ==
    /\ writes < MaxWrites
    /\ writes' = writes + 1
    /\ calls' = calls \cup {c}
    /\ UNCHANGED <<topics, linked, page, clock, behind, edited>>

\* An edit sends every field of the sheet, the switch as well.
EditedValues(t) == Call(t, "update", Sheet(t).topic, Sheet(t).active, Sheet(t).since)

CreatedValues(t) == Call(t, "create", ChosenParent(t), TRUE, Sheet(t).since)

\* onSubmit of the sheet.
OnSubmit(t) ==
    /\ SubmitEnabled(t)
    /\ IF Sheet(t).mode = "edit" THEN Send(EditedValues(t))
       ELSE Len(topics) < MaxTopics /\ Send(CreatedValues(t))

HandleDelete(t) ==
    /\ DeleteEnabled(t)
    /\ Send(Call(t, "delete", page[t].target.topic, TRUE, page[t].target.since))

\* onSubmit of the new question form.
CreateItem(t) ==
    /\ CreateEnabled(t)
    /\ Send(Call(t, "item", page[t].form.topic, TRUE, page[t].form.since))

\* A new question opens, whatever the tab shows meanwhile; the page of the
\* question stands for a form with nothing chosen.
ItemReplied(c) ==
    /\ c.op = "item" /\ c.phase = "ok"
    /\ page' = [page EXCEPT ![c.tab] = Left(c.tab, "new")]
    /\ calls' = Orphaned(c.tab, calls \ {c})
    /\ UNCHANGED <<topics, linked, writes, clock, behind, edited>>

\* The sheet, or the dialog, that is open when the answer comes is closed.
WriteReplied(c) ==
    /\ c.op \in {"create", "update", "delete"} /\ c.phase = "ok"
    /\ calls' = Invalidated(c.tab, calls \ {c})
    /\ page' = [page EXCEPT
           ![c.tab].fresh = FALSE,
           ![c.tab].own = IF c.at > @ THEN c.at ELSE @,
           ![c.tab].early = @ \/ ~page[c.tab].loaded,
           ![c.tab].sheet = IF c.live /\ c.op # "delete" THEN Closed ELSE @,
           ![c.tab].target = IF c.live /\ c.op = "delete" THEN NoTarget ELSE @]
    /\ UNCHANGED <<topics, linked, writes, clock, behind, edited>>

\* A refusal, or a failure on the way back, is a toast: the dialog stays.
WriteFails(c) ==
    /\ c.op # "tree"
    /\ \/ c.phase = "refused" /\ UNCHANGED writes
       \/ c.phase \in {"sent", "ok"} /\ writes < MaxWrites /\ writes' = writes + 1
    /\ calls' = calls \ {c}
    /\ UNCHANGED <<topics, linked, page, clock, behind, edited>>

-----------------------------------------------------------------------------
(* The server. *)

Answered(c, phase) == calls' = (calls \ {c}) \cup {[c EXCEPT !.phase = phase]}

\* A transaction commits and its answer is on its way.
Commit(c) ==
    /\ clock' = clock + 1
    /\ behind' = (behind \/ c.since < clock)
    /\ calls' = (calls \ {c}) \cup {[c EXCEPT !.phase = "ok", !.at = clock + 1]}
    /\ UNCHANGED <<page, writes>>

ServeTree(c) ==
    /\ c.op = "tree" /\ c.phase = "sent"
    /\ calls' = (calls \ {c})
                  \cup {[c EXCEPT !.phase = "ok", !.at = clock, !.tree = Active]}
    /\ UNCHANGED <<topics, linked, page, writes, clock, behind, edited>>

\* The parent must exist; nobody asks whether it is active.
ServeCreate(c) ==
    /\ c.op = "create" /\ c.phase = "sent"
    /\ topics' = Append(topics,
           [parent |-> c.topic, active |-> TRUE,
            level |-> IF c.topic = 0 THEN 0 ELSE Level(c.topic) + 1])
    /\ Commit(c)
    /\ UNCHANGED <<linked, edited>>

ServeUpdate(c) ==
    /\ c.op = "update" /\ c.phase = "sent"
    /\ topics' = [topics EXCEPT ![c.topic].active = c.active]
    /\ edited' = (edited \/ ~c.active)
    /\ Commit(c)
    /\ UNCHANGED linked

\* Mutant: the links are not looked at.
CheckDeleteNothing(c) ==
    /\ c.op = "delete" /\ c.phase = "sent"
    /\ Answered(c, "checked")
    /\ UNCHANGED <<topics, linked, page, writes, clock, behind, edited>>

\* delete_topic looks for one link ...
CheckDelete(c) ==
    /\ c.op = "delete" /\ c.phase = "sent"
    /\ Answered(c, IF c.topic \in linked THEN "refused" ELSE "checked")
    /\ UNCHANGED <<topics, linked, page, writes, clock, behind, edited>>

\* ... and switches the topic off in a later statement.
CommitDelete(c) ==
    /\ c.op = "delete" /\ c.phase = "checked"
    /\ topics' = [topics EXCEPT ![c.topic].active = FALSE]
    /\ Commit(c)
    /\ UNCHANGED <<linked, edited>>

\* create_item links whatever topic it is given.
ServeItem(c) ==
    /\ c.op = "item" /\ c.phase = "sent"
    /\ linked' = linked \cup {c.topic}
    /\ Commit(c)
    /\ UNCHANGED <<topics, edited>>

-----------------------------------------------------------------------------
Author(t) ==
    \/ \E x \in 0 .. Len(topics) : OpenCreate(t, x)
    \/ \E x \in DOMAIN topics :
          \/ OpenEdit(t, x) \/ OpenDelete(t, x) \/ ChooseTopic(t, x)
          \/ ChooseExam(t, x) \/ ChooseSubject(t, x) \/ ChooseDomain(t, x)
    \/ \E l \in 0 .. 3 : HandleLevelChange(t, l)
    \/ ToggleActive(t) \/ CloseSheet(t) \/ CloseDelete(t) \/ Go(t) \/ Refetch(t)
    \/ OnSubmit(t) \/ HandleDelete(t) \/ CreateItem(t)

Server(c) ==
    \/ ServeTree(c) \/ ServeCreate(c) \/ ServeUpdate(c)
    \/ CheckDelete(c) \/ CommitDelete(c) \/ ServeItem(c)

Next ==
    \/ \E t \in Tabs : Author(t)
    \/ \E c \in calls : Server(c) \/ TreeReplied(c) \/ ItemReplied(c) \/ WriteReplied(c)
                         \/ WriteFails(c)

Spec == Init /\ [][Next]_vars

-----------------------------------------------------------------------------
(* Properties. *)

\* Types of the table, of the tabs and of the requests under way.
TypeOK ==
    /\ topics \in Seq([parent : 0 .. Len(topics), level : 0 .. 3, active : BOOLEAN])
    /\ linked \subseteq DOMAIN topics
    /\ \A t \in Tabs :
          /\ page[t].screen \in {"topics", "new"}
          /\ Tree(t) \subseteq DOMAIN topics
          /\ page[t].asOf <= clock /\ page[t].own <= clock
          /\ Sheet(t).topic \in 0 .. Len(topics)
          /\ page[t].target.topic \in 0 .. Len(topics)
          /\ Cardinality(Fetching(t)) <= 1
          /\ \A l \in 0 .. 3 : StatsOf(t)[l] <= Len(topics)
    /\ writes \in 0 .. MaxWrites
    /\ clock <= writes

\* What a sheet is about to create goes where the sheet says: its parent is one
\* level up, and the selectors above it show that parent's own ancestors.
ChoicesNested ==
    \A t \in Tabs :
        Creating(t) /\ SubmitEnabled(t) /\ Sheet(t).level > 0 =>
            /\ Level(ChosenParent(t)) = Sheet(t).level - 1
            /\ Sheet(t).level >= 2 => Parent(Sheet(t).subject) = Sheet(t).exam
            /\ Sheet(t).level >= 3 => Parent(Sheet(t).domain) = Sheet(t).subject

\* A topic stays active below one that is not only after an edit switched the
\* parent off or a dialog acted on a tree that had changed meanwhile: the
\* dialogs' look at their own tree is the only guard there is.
OrphansNeedStaleness == Orphans # {} => behind \/ edited

\* The same for an inactive topic with questions: delete_topic refuses such a
\* topic, and only what happens between its two statements gets past it.
LinkedStayActive == linked \ Active # {} => behind \/ edited

\* A tree the tab takes for fresh holds everything the tab was told it wrote,
\* unless it was told so before its first tree had arrived.
OwnWritesShown ==
    \A t \in Tabs :
        page[t].fresh /\ ~page[t].early => page[t].asOf >= page[t].own
=============================================================================
