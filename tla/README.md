# Verification of rono

rono is an adaptive learning service: a FastAPI backend on PostgreSQL
(`src/backend`), a Next.js web client (`src/frontend`), an Android client
(`src/android`) and an iOS client (`src/ios`). A learner opens practice
sessions, answers items one at a time or as an exam batch, and the backend
keeps for each learner an append-only history and a set of rollups computed
from it.

This directory holds TLA+ modules translated from that code, TLC
configurations that check them, and TLAPS proofs about them.

| file | what it is |
|---|---|
| `PracticeLedger.tla` | what the history tables promise, with no statements or locks |
| `AnswerCascade.tla` | start, answer, bulk answer and finish, statement by statement; all properties |
| `AnswerCascadeProofs.tla` | theorems about `AnswerCascade` for every value of its constants: types, ledgers, refinement |
| `AnswerCascadeRollupProofs.tla` | theorems about its rollups: cards, session counters, abilities |
| `AnswerCascadeOrderProofs.tla` | theorems that rest on an order: of locks, or of the requests of a client that waits |
| `ExamRunner.tla` | the exam page of the web client against the practice API |
| `ExamRunnerProofs.tla` | theorems about `ExamRunner` for every value of its constants |
| `StudyQueue.tla` | what the server serves a learner who studies, and what answers do to it |
| `StudyRunner.tla` | the study, daily, profile and session pages of the web client over `StudyQueue` |
| `StudyRunnerProofs.tla` | theorems about both for every value of their constants |
| `TopicPages.tla` | the topic tree: the web pages that edit it, their cache, the topic service |
| `TopicPagesProofs.tla` | theorems about `TopicPages` for every value of its constants |
| `ItemPages.tla` | the question bank: list, editor, new question, the item service, other authors |
| `ItemPagesProofs.tla` | theorems about `ItemPages` for every value of its constants |
| `AccountPages.tla` | cookies, sessions, password and photo: the web client and the auth service |
| `AccountPagesProofs.tla` | theorems about `AccountPages` for every value of its constants |
| `MC*.tla`, `*.cfg` | instances for TLC |
| `PROJECT.json` | components, runs, mutants, map to the code, findings, hazards, theorems |

Run for example `tlc -config cascade_racing.cfg MCAnswerCascade`,
`tlc -config accounts.cfg MCAccountPages` and `tlapm AnswerCascadeProofs.tla` in
this directory; `PROJECT.json` has the module of each cfg.

## Inventory

Paths below are relative to `src/`; `app/` is `backend/src/app/`.

### Backend

**Practice write path** (`app/services/practice_service.py`,
`app/api/v1/endpoints/practice.py`).
*State:* `practice_sessions`, `responses`, `review_logs`, `card_states`,
`user_thetas`, `user_topic_mastery`, `theta_history`.
*Operations:* `start_session`, `submit_answer`, `submit_answers_bulk`,
`finish_session`; each is one transaction on one connection.
*Hard:* one answer is more than ten statements at READ COMMITTED; most rows
are read first, without a lock, and written back as absolute values later. Requests of one
learner race (double clicks, two devices, a finish overtaking an answer), a
batch holds many row locks, workers die in the middle.
*Correct when:* the history is only appended to, a batch is all or nothing, an
item is introduced once, no rollup claims more than the history holds, the
rollups are exact as far as the clients keep requests apart, and everything
accepted ends.

**Practice read path** (same service: `get_next_item`, `_mixed_study_pool`,
`_new_cards_remaining_today`, `get_exam_paper`, `study_overview`).
*State:* reads the tables above and the clock. *Hard:* the new-card budget is
checked on serving and charged on answering; soft stops by count and by time;
the fallback to cards that are not due. *Correct when:* reviews are never
starved, the daily cap holds up to the cards in hand, a daily review ends.

**Auth sessions** (`app/services/auth_service.py`, `app/api/deps.py`).
*State:* `auth_sessions`, `users`, `memberships`, two cookies per client.
*Operations:* login, refresh with rotation, logout, list and revoke, change
password. *Hard:* refresh races refresh; a revoke-all races a login that has
not committed; the role comes from the token. *Correct when:* a refresh token works
once, and a password change or deactivation leaves no other live session.

**User administration** (`app/services/user_service.py`): create, update,
deactivate, restore.

**Item bank** (`app/services/item_service.py`) and **topics**
(`app/services/topic_service.py`). *State:* `items`, `item_versions` with one
current, `item_topic_links` with one primary, a tree of topics. *Hard:*
max + 1 version numbers, delete-then-insert of links, check-then-deactivate,
edits while a learner has the item on the screen.

**FSRS and IRT engines** (`app/services/fsrs`, `app/services/irt`): pure
functions; **progress and analytics**: read-only reports;
**storage** (`app/core/storage.py`): avatar and image files next to rows.

**Scripts** (`backend/scripts`): import, seed, and `calibrate_items.py`, which
overwrites item parameters. **Migrations** (`backend/alembic`).

### Clients

**Web client** (`frontend`). Every page keeps its own React state; a query
cache per tab holds what was fetched (the topic tree, lists of questions, the
study overview, the user); mutations are promises whose continuations run
whenever the reply comes. *Hard:* replies that come to a page that has moved
on, guards evaluated on cached data, saves of two requests, chains of
requests of which a later one fails.

- *Exam page* (`practice/page.tsx`): answers, verdicts, the set of questions
  already submitted, a phase. *Correct when:* an exam is handed in completely
  and once, and the report is of what the server recorded.
- *Study, daily and session pages* (`study/page.tsx`, `daily/page.tsx`,
  `study/session/page.tsx`): one question and one request at a time. *Correct
  when:* no question is recorded twice, a session leads to its end.
- *Topics page* (`topics/page.tsx`) and the topic cascade of the form for new
  questions. *Correct when:* a topic goes where the form says, no topic loses
  its parent, no question is left in a topic that is switched off.
- *Item bank pages* (`items/...`). *Correct when:* a save makes one version, a
  calibrated difficulty is not replaced by a preset, the server accepts
  what the form lets through.
- *Account pages* (`login`, `settings`, `profile`, active sessions) and *token
  refresh* (`lib/api/client.ts`): a 401 makes a tab refresh once, with one
  shared promise; the cookies are shared by all tabs. *Correct when:* nobody is
  signed out for no reason.

**Mobile clients.** Android (`TokenAuthenticator`, `ExamViewModel`,
`SessionViewModel`) and iOS (`APIClient`, `ExamRunner`, `SessionRunner`)
repeat the runners and the refresh with their own retries.

### How they interact

Clients reach the backend by HTTP with two cookies; a 401 makes them refresh
once and repeat. All backend state is in PostgreSQL; handlers share nothing
else. The item bank meets the write path where an answer loads the current
version and today's topic links of its item. Hazards, each at its
line and with the properties that cover it, are in `PROJECT.json`.

The modules follow this division. `AnswerCascade` has the concurrency inside
the server; `ExamRunner` and `StudyRunner` have that between a page and the
server. `StudyRunner`, whose page has one request at a time, serves it in one
step, which the refinement of `PracticeLedger` justifies for what it records.
`ExamRunner`, `TopicPages`, `ItemPages` and `AccountPages` have both, page and
service: there a handler takes more than one step where it reads first and
writes later.

## Modules and the code

### AnswerCascade

*Granularity.* An action is one SQL statement whose moment another transaction
can notice. A handler is a `pc` (the next such statement), a `mem` (its Python
variables) and a `buf` (the rows it has flushed and not committed). Statements
between which nothing that matters can change are one action: `Load` is the
session SELECT and the status check, `Respond` is the INSERT of the response
and the SELECT of the card, `TopicPoints` is the SELECT of the topic's ability
row (which by then exists and cannot be duplicated) and of its history.

*PostgreSQL at READ COMMITTED.* Each statement sees what is committed when it
starts plus its own transaction's writes (`Overlay`, `SeenThetas`). A row in
somebody's `buf` is locked: `Holders(r)` are the transactions whose rows r's
next statement needs, and the statement is enabled when there are none. An
INSERT waits for an uncommitted row of the same key and fails
(`DuplicateKey`) if it meets a committed one. `user_thetas` is unique over
`(user_id, topic_id)`, where NULLs never collide, so the INSERT of a global
row neither waits nor fails. Absolute UPDATEs overwrite whatever was committed
while they waited. Transactions in a wait cycle can be aborted
(`DeadlockAbort`), and any transaction can lose its worker (`Crash`). Both, and every
exception, end in the rollback of `get_db`.

| model | code |
|---|---|
| `session` | `practice_sessions`: status, counters, three times the net score |
| `theta` | `user_thetas`: an estimate is a function of the responses it was computed from, so a row carries that set; `by` is the transaction that inserted it, its identity |
| `card`, `mastery` | `reps` and `total_responses`, the fields that count; 0 is no row |
| `responses`, `reviewLog` | the ledgers; `before` is whether `state_before` was `new` |
| `itemState`, `topicOf` | what an author has done: a new version, a soft delete, other links |
| `Arrive`, `Load`, `NotInProgress` | the endpoints, `_load_session`, the status checks |
| `LoadItem` ... `MasteryWrite` | `_grade_one` with `_apply_card_review`, `_recompute_theta`, `_update_mastery`, in the code's order |
| `NextAnswer` | the loop of `submit_answers_bulk` |
| `Close`, `WrittenSession`, `Net` | `finish_session` and the session UPDATEs |
| `Commit`, `Rollback` | the end of the transaction |

*Left out.* `theta_history` is only inserted into. FSRS and IRT arithmetic is
left to the representation above. `get_next_item` may insert an ability row
and never commits it; while its transaction is open it can delay an INSERT of
the same topic's row, which adds no outcome that `Crash` does not have. Rows
of two learners never meet, so there is one learner. An item that one batch names twice
is loaded twice; SQLAlchemy may hand out the first load again, which differs only
if an author edits it in between, and no client sends such a batch.

*Kept though unreachable.* `DuplicateKey` on a mastery row: the topic's
ability row is locked before the mastery row is read, and theorem
`RollupsCurrent` shows that this protects an otherwise unlocked
read-modify-write.

### PracticeLedger

Three steps: a session opens, a session closes, a request appends all it will ever append.
`Record` says what one append may look like: responses of one request to one
opened session, one log per graded response, `new` exactly for the first
review of an item. `AnswerCascade` implements it with
`status <- session[s].status` and the ledgers as they are (`LedgerSpec`).

### ExamRunner

One tab. A request is a record in `calls`: sent, served, replied or failed; the
page may see it fail before, after or without the server serving it, and a reply
finds the page as it then is.

An answer, a batch and a finish are served in two steps, `Load*` and `Commit*`,
between which another request of the session can be served: the page lets two
verdicts overlap, and an answer overlap the hand-in. A session has its counters
as the code has them, read with its row (`seen`) and written back as values
(`Counted`), so that overlapping answers lose counts; the status is looked at
when the row is loaded and not again, so that an answer can commit after the
finish. The report has the counters of the row as it is after the commit, and the
net score is made from those read before it (`scored`). What a
transaction does between the two, statement by statement, is in `AnswerCascade`;
here a commit that the database refuses (a unique key, a deadlock) is a request
the page sees fail and the server drops (`CallFails`, `Lost`). `raced` is a
history variable: the sessions two requests of which were served at once.

| model | code |
|---|---|
| `phase`, `items`, `answers`, `results`, `submittedIds`, ... | the `useState` and `useRef` of `PracticePage` |
| `RunnerShown`, `SubmitEnabled`, `WayOut`, ... | the conditions under which the JSX shows and enables a control |
| `OnStart`, `StartReplied`, `PaperReplied` | `onStart`, a continuation per await |
| `Choose`, `ClickOption`, `PickAt`, `AnswerReplied` | `choose` and its callers, before and after its await |
| `OnSubmitExam`, `BulkReplied`, `FinishReplied` | `onSubmitExam`, per await; `kept` is its copy of `results` |
| `CallFails` | a rejected `mutateAsync`, which nothing catches |
| `Reset`, `Leave` | `reset`; a reload, after which replies have nobody to go to |
| `ServeStart`, `ServePaper`, `Draw` | `start_session`, `exam_paper`, in one step |
| `LoadAnswers`, `CommitAnswers`, `Counted`, `Gradable` | `submit_answer`, `submit_answers_bulk` and their `_grade_one`: what is read, and the commit |
| `LoadFinish`, `CommitFinish`, `Report` | `finish_session`; a finished session's report is read again |
| `Edit` | a new version or a soft delete by an author |

### StudyQueue and StudyRunner

`StudyQueue` is the server: a card is new, due or later; `Servable(s)` is the
set of items `get_next_item` may return, from the pools of the three modes and
the two soft stops; time is the actions `BecomeDue`, `NewDay`, `TimeUp`.
Which eligible item has maximum information is left open, since abilities are
abstract. `StudyRunner` extends it with the tabs of the learner.

| model | code |
|---|---|
| `Candidates`, `MixedPool`, `DailyPool`, `BudgetSpent` | the query, `_mixed_study_pool`, the daily branch and the stops of `get_next_item` |
| `BudgetLeft`, `introduced` | `_new_cards_remaining_today`, today's logs that started from `new` |
| `Overview`, `RecommendedMode` | the study overview, one card per topic |
| `page[t].overview` | the query cache: up to 30 seconds old, never invalidated |
| `Go`, `ToggleTopic`, `StartDaily`, `StartCategory` | the pages, their forms, the practice intent |
| `SetTargetType`, `SaveTarget` | the daily target of the profile page |
| `OnSubmit`, `OnNext`, `StartReplied`, `NextReplied`, `FinishReplied` | the session page, per await; `advance` chains next and finish |

### TopicPages

A dialog works on the tree its tab had when it was opened. `Invalidated` is
`invalidateQueries` of TanStack Query: a fetch under way is thrown away for a
new one, except the first. `delete_topic` is two steps, the look for links and
the switch. `since`, `clock`, `behind`, `edited`, `own` and `early` are history
variables: they say on how old a tree a dialog acted.

| model | code |
|---|---|
| `topics`, `linked` | `topics`, `item_topic_links` |
| `OpenCreate`, `ChooseExam`, `HandleLevelChange`, ... | the sheet with its effects |
| `OpenDelete`, `HandleDelete`, `CheckDelete`, `CommitDelete` | the dialog with `hasChildren`; `delete_topic` |
| `ChooseTopic`, `CreateItem`, `ServeItem` | the cascade of `items/new/page.tsx`, which links a question |

### ItemPages

One author; the others and the calibration job are there through what they
commit. `create_item_version` is two steps, max + 1 and the INSERT. Saving an edit
is two requests, and `Close` stays possible between them. A difficulty has a
revision, `rev`; a form remembers the one it was opened with and whether a preset
was picked in it (`base`, `picked`), and a save the one that was on the screen
(`seen`). `removed` and `raced` are history variables.

| model | code |
|---|---|
| `bank` | `items`, `item_versions`; `cal` is `calibration_status`, `preset` the nearest one to the stored parameters |
| `Rows`, `HandleTabChange`, `Turn` | the list with its status tabs and pages |
| `OpenEdit`, `SetCorrectOption`, `AddOption`, `RemoveOption`, `PickPreset` | the editor and the form for a new question |
| `PresetToSend` | whether a difficulty goes with a save: the form's against the screen's |
| `OnSubmit`, `VersionReplied`, `PresetReplied` | `onSubmit` of the editor, per await |
| `ReadMaxVersion`, `CommitVersion`, `ServePreset`, ... | `item_service.py` |
| `Calibrate` | `calibrate_items.py` |

### AccountPages

Tabs of one browser share `jar`. A refresh revokes the session it was asked
with and opens another one, in two steps (`ReadRefresh`, `CommitRefresh`), as
does a login; `NewPassword` ends what is committed by then. Other devices and
an administrator act through `DeviceLogin`, `DeviceRefresh`, `DevicePassword`
and `SetStatus`.

| model | code |
|---|---|
| `Denied`, `TryRefresh`, `Resume`, `RefreshFails` | `request` and `tryRefresh` of `client.ts` |
| `Load` | `proxy.ts`: the login page without cookies, the dashboard with |
| `Reload`, `Abandon`, `Unheard` | a page that is unloaded: its requests go on, their cookies are lost |
| `Authorized` | `get_current_user` |
| `RevokeReplied`, `Listing`, `GivenUp` | `invalidateQueries`: the list on the screen is fetched again, and a fetch of it under way given up |
| `SaveAvatarFile`, `CommitAvatar`, `DeleteAvatarFile`, `Crash` | `set_avatar` and `clear_avatar`, with the moments a worker may die; a removal that finds nothing to remove writes nothing |

`raced`, `revoked`, `twoTabs`, `left`, `crossed` and `thrown` are history
variables.

## Runs

Every cfg sets `CHECK_DEADLOCK FALSE`: finitely many requests arrive, and when
they have ended the system stops; with all bounds used up a user has nothing left to do.

| run | question | instance |
|---|---|---|
| `cascade_racing` | do the ledgers and the rollups survive any interleaving? `TypeOK`, `OneIntroduction`, `CardsFollowLog`, `CountersBacked`, `CyclesNeedBatch`, `LedgerSpec` | 4 unserialised requests on one session; 73 150 states |
| `cascade_progress` | does every accepted request end? `EveryRequestEnds` | the same menu, 3 requests, `FairSpec`, no symmetry; 20 387 states |
| `cascade_devices` | what holds if each device waits for its replies? `SessionExact`, `ThetaFromHistory`, `MasteryCurrent`, `AllOrNothing` | 4 requests, 2 sessions, an author editing one item; 360 696 states |
| `cascade_serial` | what holds with one request at a time? `RollupsExact` | 4 requests, a 3-answer batch naming an item twice, an item without topic, no penalty; 18 519 states |
| `cascade_two_thetas` | is the global ability row unique? | violated, see below |
| `cascade_stale_theta` | is the ability current? | violated, see below |
| `exam_runner` | is an exam handed in completely, once, and shown as recorded? `TypeOK`, `OneBatch`, `RefMatchesState`, `NothingOnlyOnPaper`, `SheetAgrees`, `StuckHasReason`, `LoadingEnds` | 2 questions, papers of one and of two, 2 answers sent live, one trouble; 584 998 states |
| `exam_late_reply` | does each question of an exam get a response in it? | violated, see below |
| `study` | what bounds a session and a day? `TypeOK`, `BudgetOvershoot`, `RepeatNeedsFault`, `DailyWithinTarget`, `DeadEndNeedsFault`, `LoadingEnds` | 1 tab, 2 items of a topic, a cap and a target of 1, 2 sessions, one trouble; 849 714 states |
| `topics` | what can go wrong in the tree, and from what? `TypeOK`, `ChoicesNested`, `OrphansNeedStaleness`, `LinkedStayActive`, `OwnWritesShown` | 2 tabs, an exam with a subject, 4 topics, 2 writes; 820 116 states |
| `items` | what can go wrong in the bank, and from what? `TypeOK`, `NumbersNeedRace`, `SavedOnceUnlessFault`, `DifficultyNeedsStaleness`, `FormsPass`, `StrandedNeedsRemoval` | 1 question and one more, 2 statuses, 2 presets, pages of one, 2 writes, one act of others or lost request; 2 852 173 states |
| `accounts` | who is signed out, what outlives a password? `TypeOK`, `SignedOutNeedsCause`, `OldCredentialsNeedRace`, `AvatarFilesAgree` | 2 tabs, another device, 2 things asked for, one each of expiries, acts of others and faults; 665 737 states |

*Bounds.* The bounds are `Requests` (each id handles one request), `Sessions`,
`Items`, `Topics`, `Menu`, `Editable`, `Links`. The wait-for and read-write conflicts of
this code are between two transactions on one row or two; a start, two
conflicting requests and a finish are four. Two items are enough for batches
in opposite orders, two topics and none for retags, two sessions for devices that
share every row but the session. A batch of two is enough for a failure in the
middle, for a wait cycle and for the in-memory sync between answers. The menus contain
an answer of each kind. Requests are interchangeable, so their permutations
are a symmetry in the safety runs; the liveness run does without.

*Bounds of the pages.* One lost request, edit or page left is enough for each
of the behaviours named in the hazards: they need one reply to be late or
missing. Two writes are enough for one dialog to act on a tree, or a form on a
question, that another has changed. In `topics` two writes reach all four
levels: the seeds are the first two, a write makes a domain, and a
sheet for a subdomain is open before it is sent. A refetch on focus or after the
stale time starts while no other tab fetches. In `exam_runner` a trouble is a
failure on the way, a reload, an author's edit or an exam after the first; two
answers to one question, or an answer and the hand-in, overlap without one, so
lost counts and an answer that commits after the finish are reached. In `items` a page holds one
question, so that two questions have two pages, and there are two presets, so that
a preset on the screen can change into another one below a form: a question is
created with one, another author picks the other while its editor is open, and the
form sends the preset it was opened with, which nobody picked. In `study` a cap and a target
of one are the smallest that can be passed; a session left with its answer
under way and another one are the two that share the day's budget. In
`accounts` both tabs, the other device, a refresh and a password change are
there at once. Symmetry is over the tabs of `topics` and `accounts`, which
have no liveness properties.

*What a weakened property says.* Several properties have the form "this goes
wrong only if": the page's guard is the only one there is, and it looks at a
copy that can be old. The mutants show that the antecedent is not the whole
property: with the guard of the page gone (no look at the children, no look at
the links, any difficulty sent along) each of them is violated without the
excuse. `SheetAgrees` is of that form for the figures of the report: they are
the session's counters, and these are its responses unless two requests of the
session were served at once. That excuse is the code's (hazards at
`practice_service.py:850` and `:917`); what is left without it is that a report
never counts an answer that is not there, and that the answer sheet below it
shows each response as it is. A batch whose answers do not count on from each
other breaks it with no two requests at once.

*Fairness.* `FairSpec` has `WF_vars(Step(r))`: the server executes what it has
accepted, and `Step` contains `DeadlockAbort` because PostgreSQL looks for
deadlocks after a timeout. It is weak: a request that waits has `Step` disabled
until its holder ends. Nothing makes a request arrive, an author edit or a
worker crash. `ExamRunner` and `StudyRunner` have weak fairness of `Serve` and of
`Reply`, each over all calls together: the server answers what reaches it, and an
answer arrives or is seen to fail (a browser's request ends one way or the
other). Nothing is assumed of the user. The other pages have safety
properties only.

*Clients.* `Exclusive` states how far clients keep requests apart: not at all
(`none`), one at a time per session (`session`, what the runners do when the
user does not click twice), or one at a time altogether (`all`). The
properties that need it are in the last part of the module.

*Mutants.* Each property of a passing run is violated when one mapped
definition is replaced by the mutant next to it in `AnswerCascade`, such as
`SELECT ... FOR SHARE` for the session (wait cycles between single answers),
an upsert for the card (a second introduction), a commit in the place of a
flush (half a batch), or every answer of a batch counting on from the stored row
(lost counts).

## Findings

1. **Two global ability rows** (`cascade_two_thetas`). `PHASES.md:93` says
   that the uniqueness of the global row is enforced in the service layer. The
   service selects and, finding nothing, inserts; two sessions that a new
   learner starts at once both insert, and nothing collides. From then on
   `scalar_one_or_none` raises, and every answer of that learner fails.
2. **An ability that misses an answer** (`cascade_stale_theta`).
   `PHASE_1_REPORT.md:95` says that the ability always holds the current value.
   The history is collected before the UPDATE waits for the row, so of two
   answers in two sessions the later UPDATE can install an estimate without
   the other one, which stays until the learner answers again. Learners with
   two rows are left out of the property.

3. **A verdict of another exam** (`exam_late_reply`). The comment at
   `practice/page.tsx:215` says that every answer not submitted yet is graded with
   the batch, since those of feedback mode have been graded live. The
   continuation of `choose` (line 136) does not ask which exam its answer was
   for: a learner who leaves an exam while a verdict is under way and starts
   another one with the same question has that question taken for submitted.
   The batch leaves it out, and the second session is completed without a response to
   it. `NothingOnlyOnPaper` and `SheetAgrees` state what is left.

Smaller things met on the way, which no doc contradicts: the item
count of a category session is stored and never enforced, although
`study/page.tsx:20` calls it how many questions a tap should queue up; when the
reply of `finish` is lost the session page keeps a next button that is refused
from then on; a failed submit of an exam leaves a loading screen without a
control (`StuckHasReason` allows it as a failure); the list of questions can
show an empty page after a deletion; two revisions at once get the same version
number, on which the table has no key. The button that takes all categories
of the study page compares numbers, so a choice of some of them can become
"all" when a category has gone meanwhile (`StudyRunner`, where all tabs of a
learner share the saved profile, as on the server).

## What is proved

Every safety property that a passing run checks is also a theorem, for every
value of the constants that the modules' assumptions admit: any number of
requests, sessions, items, topics and tabs, any menu, any bounds. The
assumptions are those of the modules themselves, which TLC evaluates in each
run: `NoTopic` is not a topic, the menu is not empty and exactly its answers
carry answers, `OptionsOf` gives options, bounds are natural numbers, the seed
tree of `TopicPages` (`Seeds`, `LevelAssumption`) has parents before children on
levels 0 to 3, a learner has finitely many items (`StudyAssumption`). Two
theorems have a hypothesis of their own, a way for clients to behave, given
below.

| module | theorem | states `Spec => []` of |
|---|---|---|
| `AnswerCascadeProofs` | `TypeCorrect` | `TypeOK` |
| | `IntroducedOnce` | `OneIntroduction` |
| | `BatchAtomic` | `AllOrNothing` |
| | `LedgerRefined` | the refinement, `Spec => LedgerSpec` |
| `AnswerCascadeRollupProofs` | `CardsBacked` | `CardsFollowLog` |
| | `CountersHonest` | `CountersBacked` |
| | `ThetaSound` | `ThetaFromHistory` |
| `AnswerCascadeOrderProofs` | `RollupsCurrent` | `MasteryCurrent` |
| | `CyclesOnlyInBatches` | `CyclesNeedBatch` |
| | `SessionsExact` | `SessionExact`, if a session's requests never overlap |
| | `RollupsExactAlone` | `RollupsExact`, if no two requests overlap and no item is moved |
| `ExamRunnerProofs` | `ExamTyped` | `TypeOK` |
| | `HandedInOnce` | `OneBatch` |
| | `RefAgrees` | `RefMatchesState` |
| | `NothingLost` | `NothingOnlyOnPaper` |
| | `ReportAgrees` | `SheetAgrees` |
| | `StuckExplained` | `StuckHasReason` |
| `StudyRunnerProofs` | `StudyTyped` | `TypeOK` |
| | `OvershootBounded` | `BudgetOvershoot` |
| | `RepeatsExplained` | `RepeatNeedsFault` |
| | `DailyBounded` | `DailyWithinTarget` |
| | `DeadEndsExplained` | `DeadEndNeedsFault` |
| `TopicPagesProofs` | `TopicsTyped` | `TypeOK` |
| | `SheetsNested` | `ChoicesNested` |
| | `OrphansExplained` | `OrphansNeedStaleness` |
| | `LinkedExplained` | `LinkedStayActive` |
| | `FreshHoldsOwn` | `OwnWritesShown` |
| `ItemPagesProofs` | `BankTyped` | `TypeOK` |
| | `FormsAccepted` | `FormsPass` |
| | `NumberedUnlessRaced` | `NumbersNeedRace` |
| | `OneEditOneVersion` | `SavedOnceUnlessFault` |
| | `DifficultyExplained` | `DifficultyNeedsStaleness` |
| | `StrandedExplained` | `StrandedNeedsRemoval` |
| `AccountPagesProofs` | `AccountTyped` | `TypeOK` |
| | `OldCredentialsEnd` | `OldCredentialsNeedRace` |
| | `StaysSignedIn` | `SignedOutNeedsCause` |
| | `AvatarOnDisk` | `AvatarFilesAgree` |

Few of these are inductive. What follows names the invariants that are, and
what each adds.

### The write path

- `TypeInv == TypeOK /\ Control`. The types need to know where a handler is:
  at `topic_update` the topic is not `NoTopic`, the counter `k` stays within
  the batch, only an answer is in the middle of `_grade_one`.
- `CardInv`. No two transactions have written the same card (`CardLocks`, from
  the waits in `Holders`). A committed card has a committed `new` log and the
  other way round, and a pending `new` log owns the pending first write of a
  card that is not committed (`PendingCards`). So whoever commits a `new` log
  is the first, and whoever comes second has no row to insert.
- `HistoryInv`. An open request has in its buffer exactly the responses
  `1 .. Written(r)` and one log for each graded one, the one being written
  excepted, and has nothing committed; so `Commit` makes all of it visible at
  once and `Rollback` none.
- `SessionInv`. An open start works on a session that is not there yet and is
  the only one to; an answer or finish past `Load` works on one that is, and
  status never goes back.

The refinement takes the conjunction: every step but `Commit` is a stutter of
`PracticeLedger`, and `Commit` is `Open`, `Close` or `Record` by its
operation.

The rollups may lag behind the history, so their invariants compare what a
transaction has read or written with the history that this transaction sees:

- `RepsInv`. A card in a buffer, and the reps a handler has read of one, are at
  most the logs it sees (`SeenLogs`: the committed ones and its own). Logs only
  grow, so a read that has become old is still backed.
- `CountsInv`. The counters in a handler's memory are at most the responses it
  sees of its session that are stored or already counted (`SeenResponses`,
  `CountedAnswers`). A response enters that set just when `Counters` counts it.
- `RowsInv` and `UsedInv`. An ability row is identified by who inserted it. A
  handler that goes to update a topic's row has read one that is still there,
  two transactions never hold rows of one topic, and the points it has collected
  are graded responses that are committed or its own. So no second row of a
  topic is committed, and none refers to an answer that was rolled back.
- `MasteryInv`. `_update_mastery` reads the rollup without a lock. Whoever has read or
  written it holds the topic's ability row in its buffer (`HoldsTopic`), of
  which there is one holder, so what it read is the committed value plus its
  own answers (`ReadRollup`, `PendingRollups`).
- `OrderInv`. What a single answer holds says how far it is: a card from
  `global_row` on, the global ability from `topic_points` on and a topic's from
  `counters` on, unless it inserted the row itself. `HolderAhead`: whoever waits
  for a single answer that waits, too, is before it in the order of the locks. The
  member of a cycle that is furthest on would wait for one that is further on.
- `ExactInv`. For `SessionsExact` with `Exclusive \in {"session", "all"}`, which is
  what a client does that waits for each reply before it sends the session's next
  request: the handler's counters are then not bounded by the responses it
  sees but equal to their number.
- `CardsExactInv` and `ThetasExactInv`. For `RollupsExactAlone` with
  `Exclusive = "all"`: one handler is active, so what it reads is what it
  will replace. Its cards equal the logs it sees; each ability it sees equals the
  graded answers it sees of the scope, but for the current answer at the
  statements that come before the update of that scope (`Ahead`). `Links = {}`
  says that no author moves an item to another topic: an ability is computed by
  today's links and the property compares it with the topic each response was stored
  with. This is a hypothesis, not a shortcut: with one move the two differ.

### The exam page

`ExamInv` is the conjunction of `TableInv` (calls name sessions and papers that
exist), `ChainInv` (outside `answer` one request waits at a time, and it is of
the session shown), `BatchInv` (one `bulk` call per session ever, and no batch rows
before it is served), `OnPaper` (the page marks and sends only questions of
the paper), `VerdictInv` (each verdict shown is a row of the server, from a
live answer or of this session), `ReportInv` (a batch and the ref together cover the
paper; a report is of a completed session), `ScreenInv` and `BankInv`. `RefInv`
says that every verdict shown is known to the ref `submittedIds`, in every phase,
and the converse outside `loading` and `results`: the reply of the batch puts
the results of the hand-in back (`kept`), and a verdict that arrived in between is
then in the ref alone. So `RefMatchesState` needs that a batch is only waited for in
`loading`, which `ChainInv` has, and `VerdictInv` has that the ref knows of `kept`.

`CountInv`, in `TableInv`, is about the counters. `CountedIn`: those of a session
never pass its responses, and are its responses in a session without `raced`, whose
score is of the same figures. That is kept by a commit only because of
what the request read before: `LoadedOK` says that its counters were no more than the
responses there were, and are still those of the row unless the session has
raced; and at most one request of such a session is between its two steps.
`ReportTrue` carries it to the report in a reply and on the screen: after a
finish nothing of a session can be counted any more without a race.

### The study pages

The bounds are countings, and what is counted is what may still be recorded.
`TokenInv`: a session has one driver, either the tab that shows it or one
request that was left behind; so there is one question per session in hand.
A request that seemed to fail and may still arrive is a ghost, and each ghost
is paid for by one of `faults` (`Ghosts`, `CallOK`). `OvershootInv`,
`RepeatInv` and `DailyInv` say that what is recorded, in hand and haunting
together stays within the bound, so that serving an answer moves one unit
from one term to another. `NoNewInv` is the case of a cap of 0, in which no
new card is ever shown. `EndInv`: without a fault, a tab whose session is over shows
it or waits for the finish.

### The topic tree

`TopicInv`. A dialog remembers in `since` the clock of the tree it was opened
on. `Usable` and its like say: if nothing was committed since, the parent it shows is
active and the topic it deletes has nothing below it. So every write that
leaves an orphan comes from a dialog with `since # clock`. The types need a
bound on commits, which `WriteInv` pays for with the writes that were sent. For
`OwnWritesShown`, `Newer` orders a fetch under way and the tree it will replace.

### The question bank

`ItemInv`. Version numbers are at most their place, and equal to it without a race
(`ReadOK` says what a request that has read the maximum knows of the versions that
came since). A form has one save under way (`OneSave`); as long as nothing
failed, the versions of a question are of distinct edits and an edit that can
still be sent has made none (`EditInv`, `NotYet`). For the page numbers,
`BankInv` and `PageOK` say that without a removal no question leaves a list,
so an offset that once had rows keeps them. `BaseOK`: below a form the
revision on the screen only grows (`NoOlder`: a reply is no older than what it
replaces), and while it is the one the form was opened with, a form in which nothing
was picked shows what the screen shows, so it has nothing to send. `CallOK` has
what that makes of a save under way, and that the revision a difficulty was sent
from, if it is still the question's, was not of a calibration.

### The account pages

- `CredInv` says of everything that can still become a session that the session
  will be good, that is, of the password of now or marked as raced: of the
  sessions that live, of a login that has verified a password and not
  committed (`CallGood`), of a refresh that has read its session
  (`RefreshGood`), of the other device (`DeviceGood`). A step that keeps the password lets the
  sessions only grow (`Grown`), which preserves all of these (`Kept`); a change
  of the password ends every session but the kept one and marks what is under
  way (`NewPasswordKeeps`).
- `TypeInv` has, besides the types, that a tab has one refresh under way and that a
  request waits only while there is one (`JoinInv`).
- `SignedInv == Cause \/ SignedIn`: as long as there is no cause, the cookies
  are of a session that is live, or a refresh is under way that will bring them.
- `PhotoInv` and `DiskInv`: the files that uploads under way have saved are
  distinct from each other, from the photo of the user and from what others will
  delete; without crashes and crossings, the directory is exactly the photo and what
  the changes under way hold.

*Only model-checked:* `EveryRequestEnds` of `AnswerCascade` and `LoadingEnds`
of `ExamRunner` and `StudyRunner`, which are liveness under fairness and out of
the prover's reach, and the three properties that are violated.

## Not modelled

Float arithmetic of IRT and of the FSRS library; rendering, translations and
wording; reports that only read; migrations, import scripts and
infrastructure, which run with the service idle. Registration and sign-up, the
profile's other fields, roles, and the seven-day end of a session. The mobile
clients. Texts of questions and the keys of options; the replacement of topic
links is one step of `AnswerCascade`, and no page of the web client sends it. `PROJECT.json` lists each
component with what is left out of it.

## Plan

In this order, the most important behaviour first.

Done: `PracticeLedger`, `AnswerCascade`, `ExamRunner`, `StudyQueue`,
`StudyRunner`, `TopicPages`, `ItemPages`, `AccountPages`, and a theorem for every
safety property that a passing run checks.

Left, in this order: the mobile exam runners as variants of `ExamRunner`, with
their retries; the mobile token refresh; two devices in `StudyRunner` with the
lost `theta` row of next; `Scoring` (penalties, rating thresholds, mastery
labels) against reference definitions; the profile's forms and the time zone.

Theorems to add: the refusals that a learner meets (`InCycle` needs two
handlers, so `DeadlockAbort` never strikes a learner who waits), and which of
the history variables of the pages imply one another.
