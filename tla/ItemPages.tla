------------------------------- MODULE ItemPages -------------------------------
(***************************************************************************)
(* The question bank as one author sees it: the list of questions, the     *)
(* page of a question with its editor, and the form for a new one, with    *)
(* item_service.py behind them. Other authors and the calibration job are  *)
(* there only through what they commit.                                    *)
(*                                                                         *)
(* Saving an edit takes two requests: a new version, and then the          *)
(* difficulty if it differs from the one on screen.                        *)
(***************************************************************************)
EXTENDS Naturals, Sequences, FiniteSets

CONSTANTS
    SeedItems,   \* questions there are at first
    Statuses,    \* what a question can be: a draft, and more
    Presets,     \* difficulty presets, 0 stands for none
    PageSize,    \* PAGE_SIZE of the list
    MaxOptions,  \* options a form may have
    MaxItems,    \* bound on questions
    MaxWrites,   \* bound on writes of this author
    MaxOthers    \* bound on commits of the others and on requests lost on the way

ASSUME ItemAssumption ==
    /\ {SeedItems, PageSize} \subseteq Nat \ {0}
    /\ {MaxOptions, MaxItems, MaxWrites, MaxOthers} \subseteq Nat
    /\ "draft" \in Statuses
    /\ Presets \subseteq Nat \ {0} /\ Presets # {}
    /\ MaxOptions >= 2

VARIABLES
    bank,     \* the questions, in the order of creation
    page,     \* what the tab shows
    calls,    \* requests under way
    writes, others,
    faults,   \* how many of the others were lost requests
    removed   \* a question has left a list: deleted, or given another status

vars == <<bank, page, calls, writes, others, faults, removed>>

-----------------------------------------------------------------------------
(* Questions. *)

Items == DOMAIN bank

Live(i) == ~bank[i].deleted

Numbers(i) == {bank[i].versions[k].number : k \in DOMAIN bank[i].versions}

\* A version keeps the number it was given and the form it was typed into; raced
\* says that the number was read before another version was committed.
Version(number, edit, raced) == [number |-> number, edit |-> edit, raced |-> raced]

NewItem(preset, edit) ==
    [versions |-> <<Version(1, edit, FALSE)>>, current |-> 1, status |-> "draft",
     preset |-> preset, cal |-> IF preset = 0 THEN "uncalibrated" ELSE "pre_set",
     rev |-> 0, deleted |-> FALSE]

\* The questions of a list, the newest first.
Matching(status) == {i \in Items : Live(i) /\ status \in {"all", bank[i].status}}

Newer(i, S) == {j \in S : j > i}

Rows(status, offset) ==
    {i \in Matching(status) :
        /\ Cardinality(Newer(i, Matching(status))) >= offset
        /\ Cardinality(Newer(i, Matching(status))) < offset + PageSize}

-----------------------------------------------------------------------------
(* Forms. *)

\* Of an option only whether it is the correct one; a form starts with two.
BlankOptions == <<FALSE, FALSE>>

StoredOptions == <<TRUE, FALSE>>

\* base is the revision of the difficulty the form was opened with, picked says
\* that the author clicked a preset.
NoForm == [edit |-> 0, options |-> <<>>, preset |-> 0, picked |-> FALSE, base |-> 0,
           image |-> FALSE]

CorrectIn(options) == {k \in DOMAIN options : options[k]}

\* What the form asks of its options.
Submittable(options) == Len(options) >= 2 /\ CorrectIn(options) # {}

\* What the server asks of them, which it only counts.
Tally(options) == [total |-> Len(options), correct |-> Cardinality(CorrectIn(options))]

ValidateOptions(tally) == tally.total >= 2 /\ tally.correct = 1

-----------------------------------------------------------------------------
(* The tab. *)

NoList == [loaded |-> FALSE, rows |-> {}, total |-> 0]

NoSnap == [loaded |-> FALSE, cal |-> "uncalibrated", preset |-> 0, rev |-> 0,
           status |-> "draft"]

Snap(i) == [loaded |-> TRUE, cal |-> bank[i].cal, preset |-> bank[i].preset,
            rev |-> bank[i].rev, status |-> bank[i].status]

Call(op, id, preset) ==
    [op |-> op, id |-> id, preset |-> preset, phase |-> "sent", live |-> TRUE,
     edit |-> 0, seen |-> 0, base |-> 0, picked |-> FALSE, next |-> 0,
     options |-> Tally(<<>>), status |-> "all", offset |-> 0, at |-> 0,
     list |-> NoList, snap |-> NoSnap]

ListCall(status, offset) ==
    [Call("list", 0, 0) EXCEPT !.status = status, !.offset = offset]

ListPage ==
    [screen |-> "list", filter |-> "all", offset |-> 0, list |-> NoList,
     target |-> 0, id |-> 0, snap |-> NoSnap, mode |-> "view", form |-> NoForm]

Init ==
    /\ bank = [i \in 1 .. SeedItems |-> NewItem(0, 0)]
    /\ page = ListPage
    /\ calls = {ListCall("all", 0)}
    /\ writes = 0 /\ others = 0 /\ faults = 0
    /\ removed = FALSE

Pending(ops) == \E c \in calls : c.op \in ops /\ c.live

\* A bound: after the last write the author only waits, cancels or goes back.
Acting == writes < MaxWrites

\* The delete dialog is modal: nothing below it can be used.
NoDialog == page.target = 0

Form == page.form

Editing == Form.edit # 0

\* The status tabs and the exam filter, the pages below.
TotalPages == (page.list.total + PageSize - 1) \div PageSize

CurrentPage == page.offset \div PageSize + 1

\* Another tab can be chosen while the rows of the last one are awaited.
TabShown(tab) == page.screen = "list" /\ tab # page.filter

TableShown == page.screen = "list" /\ page.list.loaded

PaginationShown == TableShown /\ TotalPages > 1

EmptyShown == TableShown /\ page.list.rows = {}

RowShown(i) == TableShown /\ i \in page.list.rows

DetailShown == page.screen = "item" /\ page.snap.loaded

ViewShown == DetailShown /\ page.mode = "view"

\* The difficulty card, and the preset nearest to the parameters, 0 for none.
CalibrationShown == page.snap.cal

PresetShown == page.snap.preset

CanEditDifficulty == CalibrationShown \in {"uncalibrated", "pre_set"}

\* The buttons of the editor can be read-only, those of the new question never.
PresetsEnabled == page.screen = "item" => CanEditDifficulty

\* A form knows its own requests only.
Saving(ops) == \E c \in calls : c.op \in ops /\ c.edit = Form.edit

\* Mutant: the second request does not disable the button.
SaveEnabledBetween ==
    Editing /\ ~Saving({"version", "create"}) /\ Submittable(Form.options)

SaveEnabled ==
    Editing /\ ~Saving({"version", "preset", "create"}) /\ Submittable(Form.options)

\* Mutant: any difficulty in the form is sent along.
PresetAlways == IF CanEditDifficulty THEN Form.preset ELSE 0

\* The difficulty to send after the version, 0 for none.
PresetToSend ==
    IF CanEditDifficulty /\ Form.preset # PresetShown THEN Form.preset ELSE 0

-----------------------------------------------------------------------------
(* The query cache. *)

\* A fetch under way is thrown away for a new one.
FetchList(rest, p) ==
    {c \in rest : c.op # "list"}
        \cup {c \in {ListCall(p.filter, p.offset)} : p.screen = "list"}

\* Mutant: the fetch under way stays.
FetchItemToo(rest, p) ==
    rest \cup {c \in {[Call("item", p.id, 0) EXCEPT !.edit = 1]} : p.screen = "item"}

FetchItem(rest, p) ==
    {c \in rest : c.op # "item"}
        \cup {c \in {Call("item", p.id, 0)} : p.screen = "item"}

\* ["items"] is a prefix of every key, ["items", id] only of the question's own.
InvalidateAll(rest, p) == FetchList(FetchItem(rest, p), p)

ListReplied(c) ==
    /\ c.op = "list" /\ c.phase = "ok"
    /\ page' = [page EXCEPT !.list = c.list]
    /\ calls' = calls \ {c}
    /\ UNCHANGED <<bank, writes, others, faults, removed>>

ItemReplied(c) ==
    /\ c.op = "item" /\ c.phase = "ok"
    /\ page' = [page EXCEPT !.snap = c.snap]
    /\ calls' = calls \ {c}
    /\ UNCHANGED <<bank, writes, others, faults, removed>>

\* Focus, or an answer that is too old.
Refetch ==
    /\ Acting /\ others > 0 /\ ~Pending({"list", "item"})
    /\ calls' = InvalidateAll(calls, page)
    /\ UNCHANGED <<bank, page, writes, others, faults, removed>>

-----------------------------------------------------------------------------
(* The pages. *)

Quiet == UNCHANGED <<bank, writes, others, faults, removed>>

\* A page that is left goes with its dialogs; its requests go on.
Orphaned(rest) ==
    {[c EXCEPT !.live = FALSE] : c \in {d \in rest : d.op \notin {"list", "item"}}}

Open(p, rest) ==
    /\ page' = p
    /\ calls' = InvalidateAll(Orphaned(rest), p)

OpenItem(i) ==
    /\ Acting /\ NoDialog /\ RowShown(i)
    /\ Open([ListPage EXCEPT !.screen = "item", !.id = i], calls)
    /\ Quiet

BackToList ==
    /\ page.screen # "list"
    /\ Open(ListPage, calls)
    /\ Quiet

\* Mutant: another tab keeps the offset.
KeepOffset(tab) ==
    /\ Acting /\ NoDialog /\ TabShown(tab)
    /\ Open([page EXCEPT !.filter = tab, !.list = NoList], calls)
    /\ Quiet

HandleTabChange(tab) ==
    /\ Acting /\ NoDialog /\ TabShown(tab)
    /\ Open([page EXCEPT !.filter = tab, !.offset = 0, !.list = NoList], calls)
    /\ Quiet

\* The buttons of the pagination.
Turn(n) ==
    /\ Acting /\ NoDialog /\ PaginationShown
    /\ n \in {CurrentPage - 1, CurrentPage + 1} \cap (1 .. TotalPages)
    /\ Open([page EXCEPT !.offset = (n - 1) * PageSize, !.list = NoList], calls)
    /\ Quiet

\* The delete button of a row; on the page of a question it asks as well.
AskDelete(i) ==
    /\ Acting /\ NoDialog
    /\ RowShown(i) \/ (DetailShown /\ i = page.id)
    /\ page' = [page EXCEPT !.target = i]
    /\ UNCHANGED calls
    /\ Quiet

CancelDelete ==
    /\ ~NoDialog
    /\ page' = [page EXCEPT !.target = 0]
    /\ UNCHANGED calls
    /\ Quiet

\* Told apart by it are the forms that sent something.
NextForm == writes + 1

Opened(form) ==
    /\ page' = [page EXCEPT !.mode = "edit", !.form = [form EXCEPT !.edit = NextForm]]
    /\ UNCHANGED <<bank, calls, writes, others, faults, removed>>

\* The editor starts from the version and the difficulty on screen.
OpenEdit ==
    /\ Acting /\ NoDialog /\ ViewShown
    /\ Opened([NoForm EXCEPT !.options = StoredOptions, !.preset = PresetShown,
                              !.base = page.snap.rev])

\* The form of a new question starts with an average difficulty.
OpenNew ==
    /\ page.screen = "list" /\ Acting /\ NoDialog /\ Len(bank) < MaxItems
    /\ Open([ListPage EXCEPT !.screen = "new",
                             !.form = [NoForm EXCEPT !.edit = NextForm,
                                 !.options = BlankOptions,
                                 !.preset = CHOOSE p \in Presets : TRUE,
                                 !.picked = TRUE]], calls)
    /\ UNCHANGED <<bank, writes, others, faults, removed>>

\* Cancel stays enabled while a save is under way.
Close ==
    /\ NoDialog /\ page.screen = "item" /\ page.mode = "edit"
    /\ page' = [page EXCEPT !.mode = "view", !.form = NoForm]
    /\ UNCHANGED calls
    /\ Quiet

Edit(form) ==
    /\ Acting /\ NoDialog /\ Editing /\ form # Form
    /\ page' = [page EXCEPT !.form = form]
    /\ UNCHANGED calls
    /\ Quiet

SetOptions(options) == Edit([Form EXCEPT !.options = options])

\* Mutant: the option that was correct stays so.
AlsoCorrect(k) ==
    /\ k \in DOMAIN Form.options
    /\ SetOptions([Form.options EXCEPT ![k] = TRUE])

SetCorrectOption(k) ==
    /\ k \in DOMAIN Form.options
    /\ SetOptions([j \in DOMAIN Form.options |-> j = k])

AddOption ==
    /\ Len(Form.options) < MaxOptions
    /\ SetOptions(Append(Form.options, FALSE))

RemoveOption(k) ==
    /\ k \in DOMAIN Form.options /\ Len(Form.options) > 2
    /\ SetOptions([j \in 1 .. Len(Form.options) - 1 |->
                      Form.options[IF j < k THEN j ELSE j + 1]])

PickPreset(p) ==
    /\ PresetsEnabled
    /\ Edit([Form EXCEPT !.preset = p, !.picked = TRUE])

RemoveImage == Form.image /\ Edit([Form EXCEPT !.image = FALSE])

-----------------------------------------------------------------------------
(* Requests. *)

Send(c) ==
    /\ writes < MaxWrites
    /\ writes' = writes + 1
    /\ calls' = calls \cup {c}

\* handleFile: while it is on its way the form can be saved without the image.
Upload ==
    /\ NoDialog /\ Editing /\ ~Form.image /\ ~Saving({"upload"})
    /\ Send([Call("upload", page.id, 0) EXCEPT !.edit = Form.edit])
    /\ UNCHANGED <<bank, page, others, faults, removed>>

UploadReplied(c) ==
    /\ c.op = "upload" /\ c.phase = "ok"
    /\ page' = IF c.edit = Form.edit THEN [page EXCEPT !.form.image = TRUE] ELSE page
    /\ calls' = calls \ {c}
    /\ Quiet

\* onSubmit of the editor.
OnSubmit ==
    /\ NoDialog /\ page.screen = "item" /\ SaveEnabled
    /\ Send([Call("version", page.id, 0) EXCEPT !.edit = Form.edit,
                !.options = Tally(Form.options), !.next = PresetToSend,
                !.seen = page.snap.rev, !.base = Form.base, !.picked = Form.picked])
    /\ UNCHANGED <<bank, page, others, faults, removed>>

\* onSubmit of the form for a new question.
CreateItem ==
    /\ page.screen = "new" /\ SaveEnabled /\ Len(bank) < MaxItems
    /\ Send([Call("create", 0, Form.preset) EXCEPT !.edit = Form.edit,
                !.options = Tally(Form.options)])
    /\ UNCHANGED <<bank, page, others, faults, removed>>

\* handleStatusChange
ChangeStatus(s) ==
    /\ NoDialog /\ DetailShown /\ s # page.snap.status
    /\ Send([Call("status", page.id, 0) EXCEPT !.status = s])
    /\ UNCHANGED <<bank, page, others, faults, removed>>

\* handleDelete
DeleteItem ==
    /\ ~NoDialog /\ ~Pending({"delete"})
    /\ Send([Call("delete", page.target, 0) EXCEPT !.status = page.screen])
    /\ UNCHANGED <<bank, page, others, faults, removed>>

\* The reply of the version, after which the difficulty is sent, or the editor
\* that is open meanwhile is closed; the list is not asked for again.
VersionReplied(c) ==
    /\ c.op = "version" /\ c.phase = "ok"
    /\ LET rest == IF page.id = c.id THEN FetchItem(calls \ {c}, page) ELSE calls \ {c}
       IN  IF c.next # 0
           THEN /\ calls' = rest \cup {[Call("preset", c.id, c.next) EXCEPT
                                           !.edit = c.edit, !.seen = c.seen,
                                           !.base = c.base, !.picked = c.picked,
                                           !.live = c.live]}
                /\ UNCHANGED page
           ELSE /\ calls' = rest
                /\ page' = IF c.live THEN [page EXCEPT !.mode = "view", !.form = NoForm]
                           ELSE page
    /\ Quiet

PresetReplied(c) ==
    /\ c.op = "preset" /\ c.phase = "ok"
    /\ page' = IF c.live THEN [page EXCEPT !.mode = "view", !.form = NoForm] ELSE page
    /\ calls' = InvalidateAll(calls \ {c}, page)
    /\ Quiet

StatusReplied(c) ==
    /\ c.op = "status" /\ c.phase = "ok"
    /\ calls' = InvalidateAll(calls \ {c}, page)
    /\ UNCHANGED page
    /\ Quiet

\* The dialog of the list is closed; the page of the question goes to the list,
\* whatever the tab shows meanwhile.
DeleteReplied(c) ==
    /\ c.op = "delete" /\ c.phase = "ok"
    /\ IF c.status = "list"
       THEN /\ page' = IF c.live THEN [page EXCEPT !.target = 0] ELSE page
            /\ calls' = InvalidateAll(calls \ {c}, page)
       ELSE Open(ListPage, calls \ {c})
    /\ Quiet

CreateReplied(c) ==
    /\ c.op = "create" /\ c.phase = "ok"
    /\ Open([ListPage EXCEPT !.screen = "item", !.id = c.id], calls \ {c})
    /\ Quiet

\* A toast: the form and the dialogs stay. A query keeps what it had when it is
\* refused, and is repeated when it is lost.
Fails(c) ==
    /\ \/ c.phase = "refused" /\ UNCHANGED <<others, faults>>
       \/ /\ c.phase \in {"sent", "ok"} /\ c.op \notin {"list", "item"}
          /\ others < MaxOthers
          /\ others' = others + 1 /\ faults' = faults + 1
    /\ calls' = calls \ {c}
    /\ UNCHANGED <<bank, page, writes, removed>>

-----------------------------------------------------------------------------
(* The server. *)

Answered(c, reply) == calls' = (calls \ {c}) \cup {reply}

Refused(c) == [c EXCEPT !.phase = "refused"]

Done(c) == [c EXCEPT !.phase = "ok"]

Elsewhere == UNCHANGED <<page, writes, others, faults>>

ServeList(c) ==
    /\ c.op = "list" /\ c.phase = "sent"
    /\ Answered(c, [Done(c) EXCEPT !.list =
           [loaded |-> TRUE, rows |-> Rows(c.status, c.offset),
            total |-> Cardinality(Matching(c.status))]])
    /\ UNCHANGED <<bank, removed>> /\ Elsewhere

ServeItem(c) ==
    /\ c.op = "item" /\ c.phase = "sent"
    /\ Answered(c, IF Live(c.id) THEN [Done(c) EXCEPT !.snap = Snap(c.id)]
                   ELSE Refused(c))
    /\ UNCHANGED <<bank, removed>> /\ Elsewhere

ServeUpload(c) ==
    /\ c.op = "upload" /\ c.phase = "sent"
    /\ Answered(c, Done(c))
    /\ UNCHANGED <<bank, removed>> /\ Elsewhere

Highest(i) == CHOOSE n \in Numbers(i) : \A m \in Numbers(i) : m <= n

\* The next number is kept in offset, and in at how many versions there were.
MaxRead(c, number) ==
    /\ c.op = "version" /\ c.phase = "sent"
    /\ Answered(c, IF ~Live(c.id) \/ ~ValidateOptions(c.options) THEN Refused(c)
                   ELSE [c EXCEPT !.phase = "read", !.offset = number,
                                  !.at = Len(bank[c.id].versions)])
    /\ UNCHANGED <<bank, removed>> /\ Elsewhere

\* Mutant: the highest number is given once more.
ReadVersion(c) == MaxRead(c, Highest(c.id))

\* create_item_version reads the highest number ...
ReadMaxVersion(c) == MaxRead(c, Highest(c.id) + 1)

AddVersion(i, version) ==
    bank' = [bank EXCEPT ![i].versions = Append(@, version),
                         ![i].current = Len(bank[i].versions) + 1]

\* ... and inserts the next one later, whatever was inserted meanwhile.
CommitVersion(c) ==
    /\ c.op = "version" /\ c.phase = "read"
    /\ AddVersion(c.id, Version(c.offset, c.edit, c.at # Len(bank[c.id].versions)))
    /\ Answered(c, [Done(c) EXCEPT !.offset = 0, !.at = 0])
    /\ UNCHANGED removed /\ Elsewhere

\* update_item only asks whether the question is there.
SetPreset(i, p) ==
    bank' = [bank EXCEPT ![i].preset = p, ![i].cal = "pre_set", ![i].rev = @ + 1]

ServePreset(c) ==
    /\ c.op = "preset" /\ c.phase = "sent"
    /\ IF Live(c.id)
       THEN /\ SetPreset(c.id, c.preset)
            /\ Answered(c, Done(c))
       ELSE Answered(c, Refused(c)) /\ UNCHANGED bank
    /\ UNCHANGED removed /\ Elsewhere

ServeStatus(c) ==
    /\ c.op = "status" /\ c.phase = "sent"
    /\ IF Live(c.id)
       THEN /\ bank' = [bank EXCEPT ![c.id].status = c.status]
            /\ removed' = TRUE
            /\ Answered(c, Done(c))
       ELSE Answered(c, Refused(c)) /\ UNCHANGED <<bank, removed>>
    /\ Elsewhere

ServeDelete(c) ==
    /\ c.op = "delete" /\ c.phase = "sent"
    /\ IF Live(c.id)
       THEN /\ bank' = [bank EXCEPT ![c.id].deleted = TRUE]
            /\ removed' = TRUE
            /\ Answered(c, Done(c))
       ELSE Answered(c, Refused(c)) /\ UNCHANGED <<bank, removed>>
    /\ Elsewhere

ServeCreate(c) ==
    /\ c.op = "create" /\ c.phase = "sent"
    /\ IF ValidateOptions(c.options)
       THEN /\ bank' = Append(bank, NewItem(c.preset, c.edit))
            /\ Answered(c, [Done(c) EXCEPT !.id = Len(bank) + 1])
       ELSE Answered(c, Refused(c)) /\ UNCHANGED bank
    /\ UNCHANGED removed /\ Elsewhere

-----------------------------------------------------------------------------
(* The others: authors in pages of their own, and calibrate_items.py. *)

Other(i) ==
    /\ others < MaxOthers /\ Live(i)
    /\ others' = others + 1
    /\ UNCHANGED <<page, calls, writes, faults>>

OthersRevise(i) ==
    /\ Other(i)
    /\ AddVersion(i, Version(Highest(i) + 1, 0, FALSE))
    /\ UNCHANGED removed

OthersPreset(i, p) ==
    /\ Other(i)
    /\ SetPreset(i, p)
    /\ UNCHANGED removed

OthersDelete(i) ==
    /\ Other(i)
    /\ bank' = [bank EXCEPT ![i].deleted = TRUE]
    /\ removed' = TRUE

\* The estimate matches none of the presets.
Calibrate(i) ==
    /\ Other(i)
    /\ bank' = [bank EXCEPT ![i].preset = 0, ![i].cal = "calibrated", ![i].rev = @ + 1]
    /\ UNCHANGED removed

-----------------------------------------------------------------------------
Author ==
    \/ \E i \in Items : OpenItem(i) \/ AskDelete(i)
    \/ \E s \in Statuses \cup {"all"} : HandleTabChange(s)
    \/ \E s \in Statuses : ChangeStatus(s)
    \/ \E n \in 1 .. TotalPages : Turn(n)
    \/ \E k \in 1 .. MaxOptions : SetCorrectOption(k) \/ RemoveOption(k)
    \/ \E p \in Presets : PickPreset(p)
    \/ AddOption \/ RemoveImage \/ Upload
    \/ BackToList \/ CancelDelete \/ OpenEdit \/ OpenNew \/ Close \/ Refetch
    \/ OnSubmit \/ CreateItem \/ DeleteItem

Reply(c) ==
    \/ ListReplied(c) \/ ItemReplied(c) \/ UploadReplied(c) \/ VersionReplied(c)
    \/ PresetReplied(c) \/ StatusReplied(c) \/ DeleteReplied(c) \/ CreateReplied(c)
    \/ Fails(c)

Server(c) ==
    \/ ServeList(c) \/ ServeItem(c) \/ ServeUpload(c) \/ ReadMaxVersion(c)
    \/ CommitVersion(c) \/ ServePreset(c) \/ ServeStatus(c) \/ ServeDelete(c)
    \/ ServeCreate(c)

Others ==
    \E i \in Items :
        \/ OthersRevise(i) \/ OthersDelete(i) \/ Calibrate(i)
        \/ \E p \in Presets : OthersPreset(i, p)

Next == Author \/ Others \/ \E c \in calls : Reply(c) \/ Server(c)

Spec == Init /\ [][Next]_vars

-----------------------------------------------------------------------------
(* Properties. *)

\* Types of the bank, of the tab and of the requests under way.
TypeOK ==
    /\ \A i \in Items :
          /\ bank[i].current \in DOMAIN bank[i].versions
          /\ bank[i].status \in Statuses
          /\ bank[i].preset \in Presets \cup {0}
          /\ bank[i].cal = "uncalibrated" => bank[i].preset = 0
    /\ page.screen \in {"list", "item", "new"}
    /\ page.list.rows \subseteq Items /\ Cardinality(page.list.rows) <= PageSize
    /\ page.target \in Items \cup {0} /\ page.id \in Items \cup {0}
    /\ Editing <=> (page.screen = "new" \/ page.mode = "edit")
    /\ Len(Form.options) <= MaxOptions
    /\ Cardinality({c \in calls : c.op \in {"list", "item"}}) <= 1
    /\ writes <= MaxWrites /\ others <= MaxOthers /\ faults <= others

\* The versions of a question are numbered one by one and the current one has
\* the highest number, but for two revisions of it at once.
NumbersNeedRace ==
    \A i \in Items :
        LET versions == bank[i].versions IN
        (\A k \in DOMAIN versions : ~versions[k].raced) =>
            /\ \A k \in DOMAIN versions : versions[k].number = k
            /\ bank[i].current = Len(versions)

\* One edit makes one version: only a request that failed on the way lets a
\* retry repeat the first of the two requests of a save.
SavedOnceUnlessFault ==
    faults = 0 =>
        \A i \in Items : \A k, l \in DOMAIN bank[i].versions :
            bank[i].versions[k].edit = bank[i].versions[l].edit /\ k # l =>
                bank[i].versions[k].edit = 0

\* The server takes any difficulty for any question. What the page alone sees to:
\* one on its way to a calibrated question was sent from a screen older than the
\* calibration, and one that nobody picked was sent because a newer difficulty
\* reached the screen below the very form it comes from.
DifficultyNeedsStaleness ==
    \A c \in calls : c.op = "preset" \/ (c.op = "version" /\ c.next # 0) =>
        /\ bank[c.id].cal = "calibrated" => c.seen < bank[c.id].rev
        /\ ~c.picked => c.base < c.seen

\* The server accepts the options of every form the page lets through: the page
\* asks for some correct option, the server for exactly one.
FormsPass ==
    \A c \in calls : c.op \in {"version", "create"} => ValidateOptions(c.options)

\* The list shows an empty page below the first only after questions have left
\* it: the offset is not taken back when they do.
StrandedNeedsRemoval ==
    EmptyShown /\ page.offset > 0 => removed
=============================================================================
