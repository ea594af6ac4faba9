---------------------------- MODULE ItemPagesProofs ----------------------------
(***************************************************************************)
(* Theorems about ItemPages, for any number of questions, options, writes  *)
(* and commits of others.                                                  *)
(***************************************************************************)
EXTENDS ItemPages, FiniteSetTheorems, WellFoundedInduction, TLAPS

Cals == {"uncalibrated", "pre_set", "calibrated"}

VersionType == [number : Nat, edit : Nat, raced : BOOLEAN]

ItemType ==
    [versions : Seq(VersionType), current : Nat, status : Statuses,
     preset : Presets \cup {0}, cal : Cals, rev : Nat, deleted : BOOLEAN]

ListType == [loaded : BOOLEAN, rows : SUBSET Nat, total : Nat]

SnapType ==
    [loaded : BOOLEAN, cal : Cals, preset : Presets \cup {0}, rev : Nat,
     status : Statuses]

FormType ==
    [edit : Nat, options : Seq(BOOLEAN), preset : Presets \cup {0},
     picked : BOOLEAN, base : Nat, image : BOOLEAN]

Screens == {"list", "item", "new"}

PageType ==
    [screen : Screens, filter : Statuses \cup {"all"}, offset : Nat,
     list : ListType, target : Nat, id : Nat, snap : SnapType,
     mode : {"view", "edit"}, form : FormType]

Saves == {"version", "preset", "create"}

Queries == {"list", "item"}

TallyType == [total : Nat, correct : Nat]

CallType ==
    [op : Saves \cup Queries \cup {"upload", "status", "delete"}, id : Nat,
     preset : Presets \cup {0}, phase : {"sent", "read", "ok", "refused"},
     live : BOOLEAN, edit : Nat, seen : Nat, base : Nat, picked : BOOLEAN,
     next : Presets \cup {0}, options : TallyType,
     status : Statuses \cup {"all"} \cup Screens,
     offset : Nat, at : Nat, list : ListType, snap : SnapType]

-----------------------------------------------------------------------------
(* The bank. *)

\* The first n versions were numbered without a race.
Unraced(versions, n) == \A k \in 1 .. n : ~versions[k].raced

\* A version never has a higher number than its place, and its place for a
\* number unless there was a race before.
Numbered(versions) ==
    \A k \in 1 .. Len(versions) :
        /\ versions[k].number \in 1 .. k
        /\ Unraced(versions, k) => versions[k].number = k

ItemOK(b) ==
    /\ Len(b.versions) # 0 /\ b.current = Len(b.versions)
    /\ Numbered(b.versions)
    /\ \A k \in 1 .. Len(b.versions) : b.versions[k].edit <= writes
    /\ b.cal = "uncalibrated" => b.preset = 0

BankInv ==
    /\ bank \in Seq(ItemType)
    /\ \A i \in Items : ItemOK(bank[i])
    /\ removed \in BOOLEAN
    /\ ~removed => \A i \in Items : Live(i) /\ bank[i].status = "draft"

-----------------------------------------------------------------------------
(* What the tab knows of the bank. *)

\* How many questions a list has as long as none has left one: all are drafts.
Reach(status) == IF status \in {"all", "draft"} THEN Len(bank) ELSE 0

OffsetOK(status, offset) == ~removed /\ offset # 0 => offset < Reach(status)

ListOK(l, status, offset) ==
    /\ l.rows \subseteq Items
    /\ IsFiniteSet(l.rows) /\ Cardinality(l.rows) <= PageSize
    /\ ~removed /\ l.loaded =>
          /\ l.total <= Reach(status)
          /\ offset # 0 => l.rows # {}

\* A revision counter that is still the same is a difficulty that is.
SnapOK(s, i) ==
    s.loaded =>
        /\ i \in Items
        /\ s.rev <= bank[i].rev
        /\ s.rev = bank[i].rev => s.cal = bank[i].cal /\ s.preset = bank[i].preset

AtMostOne(options) ==
    \A j, k \in DOMAIN options : options[j] /\ options[k] => j = k

FormOK(f) ==
    /\ AtMostOne(f.options) /\ Len(f.options) <= MaxOptions
    /\ f.edit <= writes + 1

\* Below a form the difficulty on screen only gets newer; as long as it does not,
\* what nobody picked is what is shown.
BaseOK(f, s) ==
    /\ f.base <= s.rev
    /\ ~f.picked /\ f.base = s.rev => f.preset = s.preset

PageOK(p) ==
    /\ OffsetOK(p.filter, p.offset)
    /\ ListOK(p.list, p.filter, p.offset)
    /\ p.target \in Items \cup {0} /\ p.id \in Items \cup {0}
    /\ p.screen = "item" => p.id # 0
    /\ SnapOK(p.snap, p.id)
    /\ FormOK(p.form)
    /\ p.form.edit # 0 <=> (p.screen = "new" \/ p.mode = "edit")
    /\ p.mode = "edit" => p.screen = "item" /\ p.snap.loaded
    /\ p.mode = "edit" => BaseOK(p.form, p.snap)

PageInv == page \in PageType /\ PageOK(page)

-----------------------------------------------------------------------------
(* The requests under way. *)

\* What a request knows of the bank.
CallOK(c) ==
    /\ c.op \in {"item", "version", "preset", "status", "delete"} => c.id \in Items
    /\ c.op = "create" /\ c.phase = "ok" => c.id \in Items
    /\ c.op = "status" => c.status \in Statuses
    /\ c.op \in {"version", "create"} => ValidateOptions(c.options)
    /\ c.edit <= writes
    /\ c.op = "list" /\ c.phase = "ok" => ListOK(c.list, c.status, c.offset)
    /\ c.op = "item" /\ c.phase = "ok" => c.snap.loaded /\ SnapOK(c.snap, c.id)
    /\ c.op = "preset" \/ (c.op = "version" /\ c.next # 0) =>
          /\ c.seen <= bank[c.id].rev
          /\ c.seen = bank[c.id].rev => bank[c.id].cal # "calibrated"
          /\ ~c.picked => c.base < c.seen
    /\ c.op = "preset" /\ c.phase = "refused" => bank[c.id].deleted

\* The number a version is about to get.
ReadOK(c) ==
    c.op = "version" /\ c.phase = "read" =>
        /\ c.at \in 1 .. Len(bank[c.id].versions)
        /\ c.offset \in 1 .. c.at + 1
        /\ Unraced(bank[c.id].versions, c.at) => c.offset = c.at + 1

\* A difficulty that arrives is no older than the one it replaces.
NoOlder(new, old) ==
    old.rev <= new.rev /\ (old.rev = new.rev => old.preset = new.preset)

\* What is asked for the page is asked for what it shows, and a page and its
\* form know no request of a page that was left.
Shown(c, p) ==
    /\ c.op = "list" =>
          p.screen = "list" /\ c.status = p.filter /\ c.offset = p.offset
    /\ c.op = "item" => p.screen = "item" /\ c.id = p.id
    /\ c.op = "item" /\ c.phase = "ok" /\ p.snap.loaded => NoOlder(c.snap, p.snap)
    /\ c.op \in Saves /\ p.form.edit # 0 /\ c.edit = p.form.edit => c.live
    /\ c.op \in {"version", "preset"} /\ c.live => p.screen = "item"

CallInv ==
    /\ \A c \in calls : c \in CallType /\ CallOK(c) /\ ReadOK(c) /\ Shown(c, page)
    /\ \A c, d \in calls : c.op = d.op /\ c.op \in Queries => c = d

\* A form has one save under way.
OneSave ==
    \A c, d \in calls :
        c.op \in Saves /\ d.op \in Saves /\ c.edit = d.edit => c = d

CountInv ==
    /\ writes \in 0 .. MaxWrites /\ others \in 0 .. MaxOthers
    /\ faults \in 0 .. others

-----------------------------------------------------------------------------
(* What one edit has made of it. *)

Edits(i) == {bank[i].versions[k].edit : k \in 1 .. Len(bank[i].versions)}

Distinct(i) ==
    \A k, l \in 1 .. Len(bank[i].versions) :
        /\ bank[i].versions[k].edit = bank[i].versions[l].edit /\ k # l
        => bank[i].versions[k].edit = 0

\* A version on its way was not there before, or will be refused.
NotYet(c) ==
    c.op = "version" =>
        /\ c.edit # 0
        /\ c.phase = "sent" => c.edit \notin Edits(c.id) \/ bank[c.id].deleted
        /\ c.phase = "read" => c.edit \notin Edits(c.id)

\* The form whose version is there is still busy with it.
Busy(c, p) ==
    /\ c.op \in {"version", "preset"} /\ c.id = p.id /\ c.edit = p.form.edit
    /\ c.op = "version" => c.phase = "ok"

FormNotYet(p) ==
    p.mode = "edit" /\ p.form.edit \in Edits(p.id) =>
        bank[p.id].deleted \/ \E c \in calls : Busy(c, p)

EditInv ==
    faults = 0 =>
        /\ \A i \in Items : Distinct(i)
        /\ \A c \in calls : NotYet(c)
        /\ FormNotYet(page)

ItemInv ==
    /\ BankInv /\ PageInv /\ CallInv /\ OneSave /\ CountInv /\ EditInv


-----------------------------------------------------------------------------
(* What a step that commits something leaves alone. *)

ItemGrows(b, d) ==
    /\ Len(b.versions) <= Len(d.versions)
    /\ \A k \in 1 .. Len(b.versions) : d.versions[k] = b.versions[k]
    /\ b.rev <= d.rev
    /\ b.rev = d.rev => d.cal = b.cal /\ d.preset = b.preset
    /\ b.deleted => d.deleted

Grown ==
    /\ bank \in Seq(ItemType) /\ bank' \in Seq(ItemType)
    /\ Len(bank) <= Len(bank')
    /\ \A i \in Items : ItemGrows(bank[i], bank'[i])
    /\ removed => removed'
    /\ writes \in Nat /\ writes' \in Nat /\ writes <= writes'

LEMMA Typed ==
  ASSUME ItemInv
  PROVE  /\ bank \in Seq(ItemType) /\ Items = 1 .. Len(bank) /\ Len(bank) \in Nat
         /\ \A i \in Items :
               /\ bank[i] \in ItemType /\ ItemOK(bank[i])
               /\ bank[i].versions \in Seq(VersionType)
               /\ Len(bank[i].versions) \in Nat /\ bank[i].rev \in Nat
         /\ writes \in Nat /\ MaxWrites \in Nat /\ PageSize \in Nat \ {0}
         /\ others \in Nat /\ faults \in Nat /\ MaxOthers \in Nat
         /\ page \in PageType /\ PageOK(page)
         /\ page.form \in FormType /\ page.snap \in SnapType /\ page.list \in ListType
<1>1. bank \in Seq(ItemType) /\ \A i \in Items : ItemOK(bank[i])
  BY DEF ItemInv, BankInv
<1>2. Items = 1 .. Len(bank) /\ Len(bank) \in Nat
  BY <1>1 DEF Items
<1>3. \A i \in Items : bank[i] \in ItemType
  BY <1>1, <1>2
<1>4. \A i \in Items : /\ bank[i].versions \in Seq(VersionType)
                       /\ Len(bank[i].versions) \in Nat /\ bank[i].rev \in Nat
  BY <1>3 DEF ItemType
<1>5. /\ writes \in Nat /\ MaxWrites \in Nat /\ PageSize \in Nat \ {0}
      /\ others \in Nat /\ faults \in Nat /\ MaxOthers \in Nat
  BY ItemAssumption DEF ItemInv, CountInv
<1>6. page \in PageType /\ PageOK(page)
  BY DEF ItemInv, PageInv
<1>7. page.form \in FormType /\ page.snap \in SnapType /\ page.list \in ListType
  BY <1>6 DEF PageType
<1> QED
  BY <1>1, <1>2, <1>3, <1>4, <1>5, <1>6, <1>7

LEMMA SnapKept ==
  ASSUME Grown, NEW s \in SnapType, NEW i \in Nat, SnapOK(s, i)
  PROVE  SnapOK(s, i)'
<1>1. CASE ~s.loaded
  BY <1>1 DEF SnapOK
<1>2. CASE s.loaded
  <2>1. /\ i \in Items /\ s.rev <= bank[i].rev
        /\ s.rev = bank[i].rev => s.cal = bank[i].cal /\ s.preset = bank[i].preset
    BY <1>2 DEF SnapOK
  <2>2. /\ i \in Items' /\ bank[i] \in ItemType /\ bank'[i] \in ItemType
        /\ ItemGrows(bank[i], bank'[i])
    BY <2>1 DEF Grown, Items
  <2>3. s.rev \in Nat /\ bank[i].rev \in Nat /\ bank'[i].rev \in Nat
    BY <2>2 DEF ItemType, SnapType
  <2>4. /\ bank[i].rev <= bank'[i].rev
        /\ bank[i].rev = bank'[i].rev =>
              bank'[i].cal = bank[i].cal /\ bank'[i].preset = bank[i].preset
    BY <2>2 DEF ItemGrows
  <2>5. /\ s.rev <= bank'[i].rev
        /\ s.rev = bank'[i].rev =>
              s.cal = bank'[i].cal /\ s.preset = bank'[i].preset
    BY <2>1, <2>3, <2>4
  <2> QED
    BY <2>2, <2>5 DEF SnapOK
<1> QED
  BY <1>1, <1>2

LEMMA ListKept ==
  ASSUME Grown, NEW l \in ListType, NEW s, NEW o, ListOK(l, s, o)
  PROVE  ListOK(l, s, o)'
<1>1. Items \subseteq Items' /\ Len(bank) \in Nat /\ Len(bank') \in Nat
  BY DEF Grown, Items
<1>2. Reach(s) <= Reach(s)' /\ Reach(s) \in Nat /\ Reach(s)' \in Nat
  BY <1>1 DEF Reach, Grown
<1>3. ~removed' /\ l.loaded => l.total <= Reach(s)' /\ (o # 0 => l.rows # {})
  BY <1>2 DEF ListOK, Grown, ListType
<1> QED
  BY <1>1, <1>3 DEF ListOK

LEMMA OffsetKept ==
  ASSUME Grown, NEW s, NEW o \in Nat, OffsetOK(s, o)
  PROVE  OffsetOK(s, o)'
<1>1. Len(bank) \in Nat /\ Len(bank') \in Nat
  BY DEF Grown
<1>2. Reach(s) <= Reach(s)' /\ Reach(s) \in Nat /\ Reach(s)' \in Nat
  BY <1>1 DEF Reach, Grown
<1> QED
  BY <1>2 DEF OffsetOK, Grown

LEMMA PageKept ==
  ASSUME Grown, NEW p \in PageType, PageOK(p)
  PROVE  PageOK(p)'
<1>1. /\ p.snap \in SnapType /\ p.id \in Nat /\ p.list \in ListType
      /\ p.offset \in Nat /\ p.form \in FormType /\ p.form.edit \in Nat
  BY DEF PageType, FormType
<1>2. Items \subseteq Items'
  BY DEF Grown, Items
<1>3. /\ OffsetOK(p.filter, p.offset)' /\ ListOK(p.list, p.filter, p.offset)'
      /\ SnapOK(p.snap, p.id)'
  BY <1>1, OffsetKept, ListKept, SnapKept DEF PageOK
<1>4. FormOK(p.form)'
  <2>1. p.form.edit <= writes + 1
    BY DEF PageOK, FormOK
  <2>2. p.form.edit <= writes' + 1
    BY <1>1, <2>1 DEF Grown
  <2> QED
    BY <2>2 DEF PageOK, FormOK
<1> QED
  BY <1>2, <1>3, <1>4 DEF PageOK

LEMMA CallKept ==
  ASSUME Grown, NEW c \in CallType, CallOK(c), ReadOK(c)
  PROVE  CallOK(c)' /\ ReadOK(c)'
<1>1. /\ c.id \in Nat /\ c.edit \in Nat /\ c.seen \in Nat /\ c.at \in Nat
      /\ c.offset \in Nat /\ c.list \in ListType /\ c.snap \in SnapType
  BY DEF CallType
<1>2. Items \subseteq Items'
  BY DEF Grown, Items
<1>3. c.id \in Items =>
         /\ ItemGrows(bank[c.id], bank'[c.id])
         /\ bank[c.id] \in ItemType /\ bank'[c.id] \in ItemType
  BY DEF Grown, Items
<1>4. c.edit <= writes'
  BY <1>1 DEF CallOK, Grown
<1>5. c.op = "list" /\ c.phase = "ok" => ListOK(c.list, c.status, c.offset)'
  BY <1>1, ListKept DEF CallOK
<1>6. c.op = "item" /\ c.phase = "ok" => c.snap.loaded /\ SnapOK(c.snap, c.id)'
  BY <1>1, SnapKept DEF CallOK
<1>7. c.op = "preset" \/ (c.op = "version" /\ c.next # 0) =>
          /\ c.seen <= bank'[c.id].rev
          /\ c.seen = bank'[c.id].rev => bank'[c.id].cal # "calibrated"
  <2> SUFFICES ASSUME c.op = "preset" \/ (c.op = "version" /\ c.next # 0)
               PROVE  /\ c.seen <= bank'[c.id].rev
                      /\ c.seen = bank'[c.id].rev => bank'[c.id].cal # "calibrated"
    OBVIOUS
  <2>1. /\ c.id \in Items /\ c.seen <= bank[c.id].rev
        /\ c.seen = bank[c.id].rev => bank[c.id].cal # "calibrated"
    BY DEF CallOK
  <2>2. bank[c.id].rev \in Nat /\ bank'[c.id].rev \in Nat
    BY <1>3, <2>1 DEF ItemType
  <2>3. /\ bank[c.id].rev <= bank'[c.id].rev
        /\ bank[c.id].rev = bank'[c.id].rev => bank'[c.id].cal = bank[c.id].cal
    BY <1>3, <2>1 DEF ItemGrows
  <2> QED
    BY <1>1, <2>1, <2>2, <2>3
<1>8. c.op = "preset" /\ c.phase = "refused" => bank'[c.id].deleted
  BY <1>3 DEF CallOK, ItemGrows
<1>9. CallOK(c)'
  BY <1>2, <1>4, <1>5, <1>6, <1>7, <1>8 DEF CallOK
<1>10. ReadOK(c)'
  <2> SUFFICES ASSUME c.op = "version" /\ c.phase = "read"
               PROVE  /\ c.at \in 1 .. Len(bank'[c.id].versions)
                      /\ c.offset \in 1 .. c.at + 1
                      /\ Unraced(bank'[c.id].versions, c.at) => c.offset = c.at + 1
    BY DEF ReadOK
  <2>1. /\ c.id \in Items /\ c.at \in 1 .. Len(bank[c.id].versions)
        /\ c.offset \in 1 .. c.at + 1
        /\ Unraced(bank[c.id].versions, c.at) => c.offset = c.at + 1
    BY DEF CallOK, ReadOK
  <2>2. /\ Len(bank[c.id].versions) <= Len(bank'[c.id].versions)
        /\ \A k \in 1 .. Len(bank[c.id].versions) :
              bank'[c.id].versions[k] = bank[c.id].versions[k]
    BY <1>3, <2>1 DEF ItemGrows
  <2>3. Len(bank[c.id].versions) \in Nat /\ Len(bank'[c.id].versions) \in Nat
    BY <1>3, <2>1 DEF ItemType
  <2>4. 1 .. c.at \subseteq 1 .. Len(bank[c.id].versions)
    BY <1>1, <2>1, <2>3
  <2>5. Unraced(bank'[c.id].versions, c.at) => Unraced(bank[c.id].versions, c.at)
    BY <2>2, <2>4 DEF Unraced
  <2> QED
    BY <2>1, <2>2, <2>3, <2>5
<1> QED
  BY <1>9, <1>10


-----------------------------------------------------------------------------
(* Steps that leave the bank alone. *)

\* The saves of a set of requests are those under way, in a form that may have
\* been left meanwhile.
SavesFrom(S, f) ==
    \A d \in S : d.op \in Saves =>
        \E c \in calls : /\ d = f[c] /\ c.op \in Saves /\ c.edit = d.edit
                         /\ d.op = "version" =>
                               c.op = "version" /\ c.id = d.id /\ c.phase = d.phase

LEMMA BankStays ==
  ASSUME ItemInv, UNCHANGED <<bank, removed>>, writes' \in {writes, writes + 1}
  PROVE  Grown /\ BankInv'
<1>1. Grown
  BY Typed DEF Grown, ItemGrows
<1>2. ASSUME NEW i \in Items'
      PROVE  ItemOK(bank[i])'
  <2>1. i \in Items /\ ItemOK(bank[i]) /\ bank'[i] = bank[i]
    BY <1>2, Typed DEF Items
  <2>2. ASSUME NEW k \in 1 .. Len(bank[i].versions)
        PROVE  bank[i].versions[k].edit <= writes'
    <3>1. bank[i].versions[k] \in VersionType
      BY <2>1, Typed
    <3>2. bank[i].versions[k].edit \in Nat /\ writes \in Nat
      BY <3>1, Typed DEF VersionType
    <3> QED
      BY <2>1, <3>2 DEF ItemOK
  <2> QED
    BY <2>1, <2>2 DEF ItemOK
<1>3. BankInv'
  BY <1>2 DEF ItemInv, BankInv, Live, Items
<1> QED
  BY <1>1, <1>3

LEMMA QuietStep ==
  ASSUME ItemInv, UNCHANGED <<bank, removed, writes>>,
         CountInv',
         page' \in PageType, PageOK(page)',
         \A c \in calls' : /\ c \in CallType /\ CallOK(c) /\ ReadOK(c)
                           /\ Shown(c, page'),
         \A c, d \in calls' : c.op = d.op /\ c.op \in Queries => c = d,
         NEW f, SavesFrom(calls', f),
         faults' = 0 => faults = 0,
         faults' = 0 => FormNotYet(page)'
  PROVE  ItemInv'
<1>1. Grown /\ BankInv'
  BY BankStays
<1>2. PageInv'
  BY DEF PageInv
<1>3. CallInv'
  <2>1. ASSUME NEW c \in calls'
        PROVE  c \in CallType /\ CallOK(c)' /\ ReadOK(c)' /\ Shown(c, page')
    BY <1>1, CallKept
  <2>2. ASSUME NEW c \in calls'
        PROVE  Shown(c, page)'
    BY <2>1 DEF Shown
  <2> QED
    BY <2>1, <2>2 DEF CallInv
<1>4. OneSave'
  BY DEF ItemInv, OneSave, SavesFrom
<1>5. EditInv'
  <2>1. ASSUME faults' = 0, NEW d \in calls'
        PROVE  NotYet(d)'
    <3>1. CASE d.op # "version"
      BY <3>1 DEF NotYet
    <3>2. CASE d.op = "version"
      <4>1. PICK c \in calls : /\ c.op = "version" /\ c.id = d.id
                               /\ c.phase = d.phase /\ c.edit = d.edit
        BY <3>2 DEF SavesFrom, Saves
      <4>2. NotYet(c)
        BY <2>1 DEF ItemInv, EditInv
      <4> QED
        BY <4>1, <4>2 DEF NotYet, Edits
    <3> QED
      BY <3>1, <3>2
  <2>2. ASSUME faults' = 0, NEW i \in Items'
        PROVE  Distinct(i)'
    BY <2>2 DEF ItemInv, EditInv, Distinct, Items
  <2> QED
    BY <2>1, <2>2 DEF EditInv
<1> QED
  BY <1>1, <1>2, <1>3, <1>4, <1>5 DEF ItemInv

LEMMA NoTally == Tally(<<>>) \in TallyType
<1>1. CorrectIn(<<>>) = {} /\ Len(<<>>) = 0
  BY DEF CorrectIn
<1> QED
  BY <1>1, FS_EmptySet DEF Tally, TallyType

\* What the page asks for, after what is under way.
LEMMA Fetched ==
  ASSUME NEW S, NEW p, NEW d \in InvalidateAll(S, p)
  PROVE  \/ d \in S /\ d.op \notin Queries
         \/ d = ListCall(p.filter, p.offset) /\ p.screen = "list"
         \/ d = Call("item", p.id, 0) /\ p.screen = "item"
<1>1. \/ d \in FetchItem(S, p) /\ d.op # "list"
      \/ d = ListCall(p.filter, p.offset) /\ p.screen = "list"
  <2>1. PICK R : R = FetchItem(S, p)
    OBVIOUS
  <2>2. d \in FetchList(R, p)
    BY <2>1 DEF InvalidateAll
  <2> QED
    BY <2>1, <2>2 DEF FetchList
<1>2. CASE d \in FetchItem(S, p) /\ d.op # "list"
  BY <1>2 DEF FetchItem, Queries
<1> QED
  BY <1>1, <1>2

LEMMA Asked ==
  ASSUME writes \in Nat, NEW p \in PageType, p.screen = "item" => p.id \in Items,
         NEW d, \/ d = ListCall(p.filter, p.offset) /\ p.screen = "list"
                \/ d = Call("item", p.id, 0) /\ p.screen = "item"
  PROVE  /\ d \in CallType /\ CallOK(d) /\ ReadOK(d) /\ Shown(d, p)
         /\ d.op \in Queries /\ d.op = p.screen
         /\ d.op = "list" => d = ListCall(p.filter, p.offset)
         /\ d.op = "item" => d = Call("item", p.id, 0)
<1>0. /\ p.filter \in Statuses \cup {"all"} /\ p.offset \in Nat /\ p.id \in Nat
  BY DEF PageType
<1>1. writes \in Nat /\ "draft" \in Statuses
  BY ItemAssumption
<1>2. PICK l \in ListType : l = NoList
  BY DEF NoList, ListType
<1>3. PICK s \in SnapType : s = NoSnap
  BY <1>1 DEF NoSnap, SnapType, Cals
<1>4. PICK t \in TallyType : t = Tally(<<>>)
  BY NoTally
<1>5. CASE d = ListCall(p.filter, p.offset) /\ p.screen = "list"
  <2>1. d = [op |-> "list", id |-> 0, preset |-> 0, phase |-> "sent", live |-> TRUE,
             edit |-> 0, seen |-> 0, base |-> 0, picked |-> FALSE, next |-> 0,
             options |-> t, status |-> p.filter, offset |-> p.offset, at |-> 0,
             list |-> l, snap |-> s]
    BY <1>2, <1>3, <1>4, <1>5 DEF ListCall, Call
  <2>2. d \in CallType
    BY <1>0, <2>1 DEF CallType, Saves, Queries, Screens
  <2>3. d.op = "list" /\ d.phase = "sent" /\ d.edit = 0 /\ d.status = p.filter
        /\ d.offset = p.offset
    BY <2>1
  <2>4. CallOK(d) /\ ReadOK(d) /\ Shown(d, p)
    BY <1>1, <1>5, <2>3 DEF CallOK, ReadOK, Shown, Saves
  <2> QED
    BY <1>5, <2>2, <2>3, <2>4 DEF Queries
<1>6. CASE d = Call("item", p.id, 0) /\ p.screen = "item"
  <2>1. d = [op |-> "item", id |-> p.id, preset |-> 0, phase |-> "sent", live |-> TRUE,
             edit |-> 0, seen |-> 0, base |-> 0, picked |-> FALSE, next |-> 0,
             options |-> t, status |-> "all", offset |-> 0, at |-> 0,
             list |-> l, snap |-> s]
    BY <1>2, <1>3, <1>4, <1>6 DEF Call
  <2>2. d \in CallType
    BY <1>0, <2>1 DEF CallType, Saves, Queries, Screens
  <2>3. d.op = "item" /\ d.phase = "sent" /\ d.edit = 0 /\ d.id = p.id
    BY <2>1
  <2>4. p.id \in Items
    BY <1>6
  <2>5. CallOK(d) /\ ReadOK(d) /\ Shown(d, p)
    BY <1>1, <1>6, <2>3, <2>4 DEF CallOK, ReadOK, Shown, Saves
  <2> QED
    BY <1>6, <2>2, <2>3, <2>5 DEF Queries
<1> QED
  BY <1>5, <1>6

\* The requests after a page was opened.
LEMMA OpenStep ==
  ASSUME ItemInv, Quiet, NEW p \in PageType, PageOK(p),
         NEW S, S \subseteq calls, Open(p, S),
         p.screen = "item" => p.mode = "view",
         \A c \in calls : c.op \in Saves /\ p.form.edit # 0 => c.edit # p.form.edit
  PROVE  ItemInv'
<1>1. /\ page' = p /\ calls' = InvalidateAll(Orphaned(S), p)
      /\ UNCHANGED <<bank, writes, others, faults, removed>>
  BY DEF Open, Quiet
<1>2. PageOK(page)'
  <2>1. PageOK(p)'
    BY <1>1, BankStays, PageKept
  <2> QED
    BY <1>1, <2>1
<1>0. p.screen = "item" => p.id \in Items
  BY DEF PageOK
<1> DEFINE gone(c) == [c EXCEPT !.live = FALSE]
<1>3. PICK f : f = [c \in calls |-> gone(c)]
  OBVIOUS
<1>4. ASSUME NEW d \in calls', d.op \notin Queries
      PROVE  \E c \in calls :
                /\ d = f[c] /\ d \in CallType /\ d.op = c.op /\ d.edit = c.edit
                /\ d.id = c.id /\ d.phase = c.phase /\ ~d.live
                /\ CallOK(d) /\ ReadOK(d)
  <2>1. d \in Orphaned(S)
    <3>1. d \in InvalidateAll(Orphaned(S), p)
      BY <1>1
    <3>2. CASE d \in Orphaned(S) /\ d.op \notin Queries
      BY <3>2
    <3>3. CASE \/ d = ListCall(p.filter, p.offset) /\ p.screen = "list"
               \/ d = Call("item", p.id, 0) /\ p.screen = "item"
      BY <1>0, <1>4, <3>3, Asked, Typed
    <3> QED
      BY <3>1, <3>2, <3>3, Fetched
  <2>2. PICK c \in S : d = gone(c)
    BY <2>1 DEF Orphaned
  <2>3. c \in calls /\ c \in CallType /\ CallOK(c) /\ ReadOK(c)
    BY <2>2 DEF ItemInv, CallInv
  <2>4. /\ d \in CallType /\ d.op = c.op /\ d.edit = c.edit /\ d.id = c.id
        /\ d.phase = c.phase /\ ~d.live /\ d.status = c.status
        /\ d.options = c.options /\ d.list = c.list /\ d.snap = c.snap
        /\ d.next = c.next /\ d.seen = c.seen /\ d.at = c.at /\ d.offset = c.offset
        /\ d.base = c.base /\ d.picked = c.picked
    BY <2>2, <2>3 DEF CallType
  <2>5. CallOK(d) /\ ReadOK(d)
    BY <2>3, <2>4 DEF CallOK, ReadOK
  <2> QED
    BY <1>3, <2>2, <2>3, <2>4, <2>5
<1>5. ASSUME NEW d \in calls', d.op \in Queries
      PROVE  \/ d = ListCall(p.filter, p.offset) /\ p.screen = "list"
             \/ d = Call("item", p.id, 0) /\ p.screen = "item"
  BY <1>1, <1>5, Fetched
<1>6. ASSUME NEW c \in calls'
      PROVE  c \in CallType /\ CallOK(c) /\ ReadOK(c) /\ Shown(c, page')
  <2>1. CASE c.op \in Queries
    BY <1>0, <1>1, <1>5, <2>1, Asked, Typed
  <2>2. CASE c.op \notin Queries
    <3>1. PICK b \in calls : /\ c \in CallType /\ c.op = b.op /\ c.edit = b.edit
                             /\ CallOK(c) /\ ReadOK(c) /\ ~c.live
      BY <1>4, <2>2
    <3>2. Shown(c, p)
      BY <2>2, <3>1 DEF Shown, Queries
    <3> QED
      BY <1>1, <3>1, <3>2
  <2> QED
    BY <2>1, <2>2
<1>7. ASSUME NEW c \in calls', NEW d \in calls', c.op = d.op, c.op \in Queries
      PROVE  c = d
  <2>1. /\ c.op = "list" => c = ListCall(p.filter, p.offset)
        /\ c.op = "item" => c = Call("item", p.id, 0)
    BY <1>0, <1>5, <1>7, Asked, Typed
  <2>2. /\ d.op = "list" => d = ListCall(p.filter, p.offset)
        /\ d.op = "item" => d = Call("item", p.id, 0)
    BY <1>0, <1>5, <1>7, Asked, Typed
  <2> QED
    BY <1>7, <2>1, <2>2 DEF Queries
<1>8. SavesFrom(calls', f)
  <2> SUFFICES ASSUME NEW d \in calls', d.op \in Saves
               PROVE  \E c \in calls :
                         /\ d = f[c] /\ c.op \in Saves /\ c.edit = d.edit
                         /\ d.op = "version" =>
                               c.op = "version" /\ c.id = d.id /\ c.phase = d.phase
    BY DEF SavesFrom
  <2>1. d.op \notin Queries
    BY DEF Saves, Queries
  <2> QED
    BY <1>4, <2>1
<1>9. FormNotYet(page)'
  <2>1. p.mode = "view"
    BY DEF PageOK, PageType
  <2> QED
    BY <1>1, <2>1 DEF FormNotYet
<1>10. CountInv'
  BY <1>1 DEF ItemInv, CountInv
<1> QED
  BY <1>1, <1>2, <1>6, <1>7, <1>8, <1>9, <1>10, QuietStep


LEMMA EditsOld ==
  ASSUME ItemInv, NEW i \in Items, NEW e \in Edits(i)
  PROVE  e \in Nat /\ e <= writes
<1>1. PICK k \in 1 .. Len(bank[i].versions) : e = bank[i].versions[k].edit
  BY DEF Edits
<1>2. bank[i].versions[k] \in VersionType /\ ItemOK(bank[i])
  BY Typed
<1> QED
  BY <1>1, <1>2 DEF VersionType, ItemOK

\* A dialog, or a form.
LEMMA LocalStep ==
  ASSUME ItemInv, Quiet, calls' = calls, NEW p \in PageType, PageOK(p), page' = p,
         p.screen = page.screen, p.filter = page.filter, p.offset = page.offset,
         p.id = page.id, p.snap = page.snap,
         p.form.edit \in {0, page.form.edit, writes + 1},
         p.mode = "edit" /\ p.form.edit = page.form.edit => page.mode = "edit"
  PROVE  ItemInv'
<1>1. UNCHANGED <<bank, writes, others, faults, removed>>
  BY DEF Quiet
<1>2. PageOK(page)'
  <2>1. PageOK(p)'
    BY <1>1, BankStays, PageKept
  <2> QED
    BY <2>1
<1>3. PICK f : f = [c \in calls |-> c]
  OBVIOUS
<1>4. SavesFrom(calls', f)
  BY <1>3 DEF SavesFrom
<1>5. ASSUME NEW c \in calls'
      PROVE  c \in CallType /\ CallOK(c) /\ ReadOK(c) /\ Shown(c, page')
  <2>1. c \in CallType /\ CallOK(c) /\ ReadOK(c) /\ Shown(c, page)
    BY DEF ItemInv, CallInv
  <2>2. c.edit \in Nat /\ c.edit <= writes /\ writes \in Nat
    BY <2>1, Typed DEF CallOK, CallType
  <2>3. c.edit # writes + 1
    BY <2>2
  <2>4. Shown(c, p)
    BY <2>1, <2>3 DEF Shown
  <2> QED
    BY <2>1, <2>4
<1>6. \A c, d \in calls' : c.op = d.op /\ c.op \in Queries => c = d
  BY DEF ItemInv, CallInv
<1>7. ASSUME faults' = 0
      PROVE  FormNotYet(page)'
  <2> SUFFICES ASSUME p.mode = "edit", p.form.edit \in Edits(p.id)
               PROVE  bank[p.id].deleted \/ \E c \in calls : Busy(c, p)
    BY <1>1 DEF FormNotYet, Edits, Busy
  <2>1. p.id \in Items
    BY DEF PageOK
  <2>2. p.form.edit <= writes /\ p.form.edit \in Nat /\ writes \in Nat
    BY <2>1, EditsOld, Typed
  <2>3. p.form.edit # 0
    BY DEF PageOK
  <2>4. p.form.edit = page.form.edit /\ page.mode = "edit"
    BY <2>2, <2>3
  <2>5. FormNotYet(page)
    BY <1>1, <1>7 DEF ItemInv, EditInv
  <2>6. bank[page.id].deleted \/ \E c \in calls : Busy(c, page)
    BY <2>4, <2>5 DEF FormNotYet
  <2> QED
    BY <2>4, <2>6 DEF Busy
<1>8. CountInv'
  BY <1>1 DEF ItemInv, CountInv
<1> QED
  BY <1>1, <1>2, <1>4, <1>5, <1>6, <1>7, <1>8, QuietStep

\* The page of a list, or of a question that is opened.
LEMMA Blank ==
  ASSUME writes \in Nat
  PROVE  /\ NoList \in ListType /\ NoSnap \in SnapType /\ NoForm \in FormType
         /\ \A s, o : ListOK(NoList, s, o)
         /\ \A i : SnapOK(NoSnap, i)
         /\ FormOK(NoForm)
         /\ ListPage \in PageType /\ PageOK(ListPage)
<1>1. NoList \in ListType
  BY DEF NoList, ListType
<1>2. NoSnap \in SnapType /\ ~NoSnap.loaded
  BY ItemAssumption DEF NoSnap, SnapType, Cals
<1>3. NoForm \in FormType /\ NoForm.edit = 0 /\ NoForm.options = <<>>
  BY DEF NoForm, FormType
<1>4. \A s, o : ListOK(NoList, s, o)
  <2>1. NoList.rows = {} /\ ~NoList.loaded
    BY DEF NoList
  <2>2. IsFiniteSet({}) /\ Cardinality({}) = 0
    BY FS_EmptySet
  <2>3. PageSize \in Nat
    BY ItemAssumption
  <2> QED
    BY <2>1, <2>2, <2>3 DEF ListOK
<1>5. \A i : SnapOK(NoSnap, i)
  BY <1>2 DEF SnapOK
<1>6. FormOK(NoForm)
  <2>1. Len(<<>>) = 0 /\ DOMAIN <<>> = {} /\ MaxOptions \in Nat /\ writes \in Nat
    BY ItemAssumption
  <2> QED
    BY <1>3, <2>1 DEF FormOK, AtMostOne
<1>7. PICK p : p = ListPage
  OBVIOUS
<1>8. /\ p = [screen |-> "list", filter |-> "all", offset |-> 0, list |-> NoList,
              target |-> 0, id |-> 0, snap |-> NoSnap, mode |-> "view",
              form |-> NoForm]
  BY <1>7 DEF ListPage
<1>9. p \in PageType
  BY <1>1, <1>2, <1>3, <1>8 DEF PageType, Screens
<1>10. PageOK(p)
  BY <1>3, <1>4, <1>5, <1>6, <1>8 DEF PageOK, OffsetOK
<1> QED
  BY <1>1, <1>2, <1>3, <1>4, <1>5, <1>6, <1>7, <1>9, <1>10

LEMMA OpenItemStep ==
  ASSUME ItemInv, NEW i \in Items, NEW S, S \subseteq calls, Quiet,
         Open([ListPage EXCEPT !.screen = "item", !.id = i], S)
  PROVE  ItemInv'
<1>1. PICK p : p = [ListPage EXCEPT !.screen = "item", !.id = i]
  OBVIOUS
<1>2. /\ p = [screen |-> "item", filter |-> "all", offset |-> 0, list |-> NoList,
              target |-> 0, id |-> i, snap |-> NoSnap, mode |-> "view",
              form |-> NoForm]
  BY <1>1 DEF ListPage
<1>3. i \in Nat /\ i # 0
  BY Typed
<1>4. p \in PageType
  BY <1>2, <1>3, Blank, Typed DEF PageType, Screens
<1>5. PageOK(p) /\ p.form.edit = 0 /\ p.mode = "view"
  <2>1. NoForm.edit = 0
    BY DEF NoForm
  <2> QED
    BY <1>2, <1>3, <2>1, Blank, Typed DEF PageOK, OffsetOK
<1> QED
  BY <1>1, <1>4, <1>5, OpenStep

LEMMA ListPageStep ==
  ASSUME ItemInv, NEW S, S \subseteq calls, Quiet, Open(ListPage, S)
  PROVE  ItemInv'
<1>1. PICK p : p = ListPage
  OBVIOUS
<1>2. p \in PageType /\ PageOK(p)
  BY <1>1, Blank, Typed
<1>3. p.form.edit = 0 /\ p.screen = "list"
  BY <1>1 DEF ListPage, NoForm
<1> QED
  BY <1>1, <1>2, <1>3, OpenStep

\* A list is asked for another part of it.
LEMMA ListChangeStep ==
  ASSUME ItemInv, Quiet, page.screen = "list", NEW s \in Statuses \cup {"all"},
         NEW o \in Nat, OffsetOK(s, o),
         Open([page EXCEPT !.filter = s, !.offset = o, !.list = NoList], calls)
  PROVE  ItemInv'
<1>1. PICK p : p = [page EXCEPT !.filter = s, !.offset = o, !.list = NoList]
  OBVIOUS
<1>2. page \in PageType /\ PageOK(page)
  BY Typed
<1>3. /\ p \in PageType /\ p.screen = "list" /\ p.filter = s /\ p.offset = o
      /\ p.list = NoList /\ p.target = page.target /\ p.id = page.id
      /\ p.snap = page.snap /\ p.mode = page.mode /\ p.form = page.form
  BY <1>1, <1>2, Blank, Typed DEF PageType
<1>4. p.mode # "edit" /\ p.form.edit = 0
  BY <1>2, <1>3 DEF PageOK
<1>5. PageOK(p)
  BY <1>2, <1>3, <1>4, Blank, Typed DEF PageOK
<1> QED
  BY <1>1, <1>3, <1>4, <1>5, OpenStep

LEMMA HandleTabChangeStep ==
  ASSUME ItemInv, NEW s \in Statuses \cup {"all"}, HandleTabChange(s)
  PROVE  ItemInv'
<1>1. page.screen = "list" /\ Quiet
  BY DEF HandleTabChange, TabShown
<1>2. OffsetOK(s, 0)
  BY DEF OffsetOK
<1>3. Open([page EXCEPT !.filter = s, !.offset = 0, !.list = NoList], calls)
  BY DEF HandleTabChange
<1> QED
  BY <1>1, <1>2, <1>3, ListChangeStep

\* The first question of a page there is comes before the last one.
LEMMA PageInTotal ==
  ASSUME NEW T \in Nat, NEW P \in Nat \ {0}, NEW n \in Nat \ {0},
         n <= (T + P - 1) \div P
  PROVE  (n - 1) * P \in Nat /\ ((n - 1) * P # 0 => (n - 1) * P < T)
<1>1. PICK q \in Int : q = (T + P - 1) \div P
  OBVIOUS
<1>2. P * q <= T + P - 1
  BY <1>1
<1>3. n - 1 <= q - 1 /\ n - 1 \in Nat /\ q \in Int
  BY <1>1
<1>4. PICK d \in Nat : q = n + d
  BY <1>3
<1>5. PICK m \in Nat : m = n - 1
  BY <1>3
<1>6. P * q = P * m + P + P * d
  BY <1>4, <1>5
<1>7. m * P \in Nat /\ P * d \in Nat /\ m * P = P * m
  BY <1>5
<1> QED
  BY <1>2, <1>5, <1>6, <1>7

LEMMA TurnStep ==
  ASSUME ItemInv, NEW n \in 1 .. TotalPages, Turn(n)
  PROVE  ItemInv'
<1>1. page.screen = "list" /\ page.list.loaded /\ Quiet
  BY DEF Turn, PaginationShown, TableShown
<1>2. /\ page \in PageType /\ PageOK(page) /\ PageSize \in Nat \ {0}
      /\ page.list \in ListType /\ page.filter \in Statuses \cup {"all"}
  BY Typed DEF PageType
<1>3. PICK T \in Nat : T = page.list.total
  BY <1>2 DEF ListType
<1>4. n \in Nat \ {0} /\ n <= (T + PageSize - 1) \div PageSize
  BY <1>2, <1>3 DEF TotalPages
<1>5. PICK o \in Nat : o = (n - 1) * PageSize /\ (o # 0 => o < T)
  BY <1>2, <1>3, <1>4, PageInTotal
<1>6. OffsetOK(page.filter, o)
  <2>1. ~removed => T <= Reach(page.filter)
    BY <1>1, <1>2, <1>3 DEF PageOK, ListOK
  <2>2. Reach(page.filter) \in Nat
    BY Typed DEF Reach
  <2> QED
    BY <1>5, <2>1, <2>2 DEF OffsetOK
<1>7. Open([page EXCEPT !.offset = o, !.list = NoList], calls)
  BY <1>5 DEF Turn
<1>8. [page EXCEPT !.offset = o, !.list = NoList]
         = [page EXCEPT !.filter = page.filter, !.offset = o, !.list = NoList]
  BY <1>2 DEF PageType
<1> QED
  BY <1>1, <1>2, <1>6, <1>7, <1>8, ListChangeStep


LEMMA FirstOptions ==
  /\ BlankOptions \in Seq(BOOLEAN) /\ Len(BlankOptions) = 2 /\ AtMostOne(BlankOptions)
  /\ StoredOptions \in Seq(BOOLEAN) /\ Len(StoredOptions) = 2
  /\ AtMostOne(StoredOptions)
<1>1. PICK b \in BOOLEAN : b = FALSE
  OBVIOUS
<1>2. PICK d \in BOOLEAN : d = TRUE
  OBVIOUS
<1>3. ASSUME NEW x \in BOOLEAN
      PROVE  /\ <<x, b>> \in Seq(BOOLEAN) /\ Len(<<x, b>>) = 2
             /\ DOMAIN <<x, b>> = 1 .. 2 /\ <<x, b>>[2] = b
  OBVIOUS
<1>4. ASSUME NEW x \in BOOLEAN
      PROVE  AtMostOne(<<x, b>>)
  <2> SUFFICES ASSUME NEW j \in 1 .. 2, NEW k \in 1 .. 2, <<x, b>>[j], <<x, b>>[k]
               PROVE  j = k
    BY <1>3 DEF AtMostOne
  <2>1. j # 2 /\ k # 2
    BY <1>1, <1>3
  <2> QED
    BY <2>1
<1> QED
  BY <1>1, <1>2, <1>3, <1>4 DEF BlankOptions, StoredOptions

LEMMA OpenNewStep ==
  ASSUME ItemInv, OpenNew
  PROVE  ItemInv'
<1>1. PICK z \in Presets : z = CHOOSE x \in Presets : TRUE
  BY ItemAssumption
<1>2. PICK g : g = [NoForm EXCEPT !.edit = NextForm, !.options = BlankOptions,
                                  !.preset = z, !.picked = TRUE]
  OBVIOUS
<1>3. g = [edit |-> writes + 1, options |-> BlankOptions, preset |-> z,
           picked |-> TRUE, base |-> 0, image |-> FALSE]
  BY <1>2 DEF NoForm, NextForm
<1>4. BlankOptions \in Seq(BOOLEAN) /\ Len(BlankOptions) = 2 /\ AtMostOne(BlankOptions)
  BY FirstOptions
<1>5. writes \in Nat /\ MaxOptions \in Nat /\ MaxOptions >= 2
  BY Typed, ItemAssumption
<1>6. g \in FormType /\ FormOK(g)
  <2>1. writes + 1 \in Nat
    BY <1>5
  <2>2. g \in FormType
    BY <1>3, <1>4, <2>1 DEF FormType
  <2>3. g.options = BlankOptions /\ g.edit = writes + 1
    BY <1>3
  <2>4. AtMostOne(g.options)
    BY <1>4, <2>3
  <2>5. Len(g.options) <= MaxOptions
    BY <1>4, <1>5, <2>3
  <2>6. g.edit <= writes + 1
    BY <2>1, <2>3
  <2> QED
    BY <2>2, <2>4, <2>5, <2>6 DEF FormOK
<1>7. PICK p : p = [ListPage EXCEPT !.screen = "new", !.form = g]
  OBVIOUS
<1>8. p = [screen |-> "new", filter |-> "all", offset |-> 0, list |-> NoList,
           target |-> 0, id |-> 0, snap |-> NoSnap, mode |-> "view", form |-> g]
  BY <1>7 DEF ListPage
<1>9. p \in PageType
  BY <1>6, <1>8, Blank, Typed DEF PageType, Screens
<1>10. PageOK(p)
  <2>1. g.edit # 0
    BY <1>3, <1>5
  <2> QED
    BY <1>6, <1>8, <2>1, Blank, Typed DEF PageOK, OffsetOK
<1>11. ASSUME NEW c \in calls
       PROVE  c.edit # p.form.edit
  <2>1. c.edit \in Nat /\ c.edit <= writes
    BY DEF ItemInv, CallInv, CallOK, CallType
  <2> QED
    BY <1>3, <1>5, <1>8, <2>1
<1>12. Open(p, calls)
  BY <1>1, <1>2, <1>7 DEF OpenNew
<1>13. Quiet
  BY DEF OpenNew, Quiet
<1> QED
  BY <1>8, <1>9, <1>10, <1>11, <1>12, <1>13, OpenStep

LEMMA TargetStep ==
  ASSUME ItemInv, Quiet, calls' = calls, NEW i \in Items \cup {0},
         page' = [page EXCEPT !.target = i]
  PROVE  ItemInv'
<1>1. PICK p : p = [page EXCEPT !.target = i]
  OBVIOUS
<1>2. page \in PageType /\ PageOK(page) /\ i \in Nat
  BY Typed
<1>3. /\ p \in PageType /\ p.target = i /\ p.screen = page.screen
      /\ p.filter = page.filter /\ p.offset = page.offset /\ p.list = page.list
      /\ p.id = page.id /\ p.snap = page.snap /\ p.mode = page.mode
      /\ p.form = page.form
  BY <1>1, <1>2 DEF PageType
<1>4. PageOK(p)
  BY <1>2, <1>3 DEF PageOK
<1> QED
  BY <1>1, <1>3, <1>4, LocalStep

LEMMA AskDeleteStep ==
  ASSUME ItemInv, NEW i \in Items, AskDelete(i)
  PROVE  ItemInv'
<1>1. Quiet /\ calls' = calls /\ page' = [page EXCEPT !.target = i]
  BY DEF AskDelete
<1> QED
  BY <1>1, TargetStep

LEMMA CancelDeleteStep ==
  ASSUME ItemInv, CancelDelete
  PROVE  ItemInv'
<1>1. Quiet /\ calls' = calls /\ page' = [page EXCEPT !.target = 0]
  BY DEF CancelDelete
<1> QED
  BY <1>1, TargetStep

\* The form of a question, and the one it had.
LEMMA FormStep ==
  ASSUME ItemInv, Quiet, calls' = calls, NEW g \in FormType, FormOK(g),
         NEW m \in {"view", "edit"}, page' = [page EXCEPT !.mode = m, !.form = g],
         g.edit # 0 <=> (page.screen = "new" \/ m = "edit"),
         m = "edit" => page.screen = "item" /\ page.snap.loaded,
         m = "edit" => BaseOK(g, page.snap),
         g.edit \in {0, page.form.edit, writes + 1},
         m = "edit" /\ g.edit = page.form.edit => page.mode = "edit"
  PROVE  ItemInv'
<1>1. PICK p : p = [page EXCEPT !.mode = m, !.form = g]
  OBVIOUS
<1>2. page \in PageType /\ PageOK(page)
  BY Typed
<1>3. /\ p \in PageType /\ p.target = page.target /\ p.screen = page.screen
      /\ p.filter = page.filter /\ p.offset = page.offset /\ p.list = page.list
      /\ p.id = page.id /\ p.snap = page.snap /\ p.mode = m /\ p.form = g
  BY <1>1, <1>2 DEF PageType
<1>4. PageOK(p)
  BY <1>2, <1>3 DEF PageOK
<1> QED
  BY <1>1, <1>3, <1>4, LocalStep

LEMMA OpenEditStep ==
  ASSUME ItemInv, OpenEdit
  PROVE  ItemInv'
<1>1. PICK g : g = [[NoForm EXCEPT !.options = StoredOptions, !.preset = PresetShown,
                                   !.base = page.snap.rev]
                      EXCEPT !.edit = NextForm]
  OBVIOUS
<1>2. g = [edit |-> writes + 1, options |-> StoredOptions,
           preset |-> page.snap.preset, picked |-> FALSE, base |-> page.snap.rev,
           image |-> FALSE]
  BY <1>1 DEF NoForm, NextForm, PresetShown
<1>3. /\ page' = [page EXCEPT !.mode = "edit", !.form = g]
      /\ calls' = calls /\ Quiet
      /\ page.screen = "item" /\ page.snap.loaded /\ page.mode = "view"
  BY <1>1 DEF OpenEdit, Opened, Quiet, ViewShown, DetailShown
<1>4. /\ StoredOptions \in Seq(BOOLEAN) /\ Len(StoredOptions) = 2
      /\ AtMostOne(StoredOptions)
  BY FirstOptions
<1>5. writes \in Nat /\ MaxOptions \in Nat /\ MaxOptions >= 2
  BY Typed, ItemAssumption
<1>6. page.snap.preset \in Presets \cup {0} /\ page.snap.rev \in Nat
  BY Typed DEF SnapType
<1>7. g \in FormType /\ FormOK(g)
  <2>1. writes + 1 \in Nat
    BY <1>5
  <2>2. g \in FormType
    BY <1>2, <1>4, <1>6, <2>1 DEF FormType
  <2>3. g.options = StoredOptions /\ g.edit = writes + 1
    BY <1>2
  <2>4. AtMostOne(g.options)
    BY <1>4, <2>3
  <2>5. Len(g.options) <= MaxOptions
    BY <1>4, <1>5, <2>3
  <2>6. g.edit <= writes + 1
    BY <2>1, <2>3
  <2> QED
    BY <2>2, <2>4, <2>5, <2>6 DEF FormOK
<1>8. page.form.edit = 0
  BY <1>3, Typed DEF PageOK
<1>9. /\ g.edit = writes + 1 /\ g.edit # 0 /\ g.edit # page.form.edit
      /\ BaseOK(g, page.snap)
  BY <1>2, <1>5, <1>6, <1>8 DEF BaseOK
<1> QED
  BY <1>3, <1>7, <1>9, FormStep

LEMMA CloseStep ==
  ASSUME ItemInv, Close
  PROVE  ItemInv'
<1>1. /\ page' = [page EXCEPT !.mode = "view", !.form = NoForm]
      /\ calls' = calls /\ Quiet /\ page.screen = "item"
  BY DEF Close
<1>2. NoForm.edit = 0
  BY DEF NoForm
<1> QED
  BY <1>1, <1>2, Blank, Typed, FormStep

\* What is typed into a form.
LEMMA EditStep ==
  ASSUME ItemInv, NEW g \in FormType, Edit(g), g.edit = page.form.edit,
         AtMostOne(g.options), Len(g.options) <= MaxOptions,
         g.base = page.form.base,
         ~g.picked => ~page.form.picked /\ g.preset = page.form.preset
  PROVE  ItemInv'
<1>1. /\ page' = [page EXCEPT !.form = g] /\ calls' = calls /\ Quiet
      /\ page.form.edit # 0
  BY DEF Edit, Editing, Form
<1>2. page \in PageType /\ PageOK(page)
  BY Typed
<1>3. page' = [page EXCEPT !.mode = page.mode, !.form = g]
  BY <1>1, <1>2 DEF PageType
<1>4. FormOK(g)
  BY <1>2 DEF PageOK, FormOK
<1>5. page.mode \in {"view", "edit"}
  BY <1>2 DEF PageType
<1>6. /\ g.edit # 0 <=> (page.screen = "new" \/ page.mode = "edit")
      /\ page.mode = "edit" => page.screen = "item" /\ page.snap.loaded
      /\ page.mode = "edit" => BaseOK(g, page.snap)
  BY <1>2 DEF PageOK, BaseOK
<1> QED
  BY <1>1, <1>3, <1>4, <1>5, <1>6, FormStep

LEMMA OptionsStep ==
  ASSUME ItemInv, NEW o \in Seq(BOOLEAN), SetOptions(o), AtMostOne(o),
         Len(o) <= MaxOptions
  PROVE  ItemInv'
<1>1. PICK g : g = [page.form EXCEPT !.options = o]
  OBVIOUS
<1>2. Edit(g)
  BY <1>1 DEF SetOptions, Form
<1>3. /\ g \in FormType /\ g.edit = page.form.edit /\ g.options = o
      /\ g.picked = page.form.picked /\ g.preset = page.form.preset
      /\ g.base = page.form.base
  BY <1>1, Typed DEF FormType
<1> QED
  BY <1>2, <1>3, EditStep

LEMMA FormOf ==
  ASSUME ItemInv
  PROVE  /\ page.form.options \in Seq(BOOLEAN) /\ Len(page.form.options) \in Nat
         /\ DOMAIN page.form.options = 1 .. Len(page.form.options)
         /\ AtMostOne(page.form.options) /\ Len(page.form.options) <= MaxOptions
         /\ MaxOptions \in Nat
BY Typed, ItemAssumption DEF FormType, PageOK, FormOK

LEMMA SetCorrectOptionStep ==
  ASSUME ItemInv, NEW k, SetCorrectOption(k)
  PROVE  ItemInv'
<1>1. PICK o : o = [j \in DOMAIN page.form.options |-> j = k]
  OBVIOUS
<1>2. SetOptions(o)
  BY <1>1 DEF SetCorrectOption, Form
<1>3. PICK n \in Nat : n = Len(page.form.options) /\ n <= MaxOptions
                       /\ DOMAIN page.form.options = 1 .. n
  BY FormOf
<1>4. o \in [1 .. n -> BOOLEAN] /\ \A j \in 1 .. n : o[j] = (j = k)
  BY <1>1, <1>3
<1>5. o \in Seq(BOOLEAN) /\ Len(o) = n
  BY <1>3, <1>4
<1>6. AtMostOne(o)
  BY <1>4 DEF AtMostOne
<1> QED
  BY <1>2, <1>3, <1>5, <1>6, OptionsStep

LEMMA AddOptionStep ==
  ASSUME ItemInv, AddOption
  PROVE  ItemInv'
<1>1. PICK s : s = page.form.options
  OBVIOUS
<1>2. /\ s \in Seq(BOOLEAN) /\ Len(s) \in Nat /\ AtMostOne(s) /\ MaxOptions \in Nat
      /\ Len(s) < MaxOptions
  BY <1>1, FormOf DEF AddOption, Form
<1>3. PICK o : o = Append(s, FALSE)
  OBVIOUS
<1>4. /\ o \in Seq(BOOLEAN) /\ Len(o) = Len(s) + 1 /\ o[Len(s) + 1] = FALSE
      /\ \A j \in 1 .. Len(s) : o[j] = s[j]
  BY <1>2, <1>3
<1>5. AtMostOne(o)
  <2> SUFFICES ASSUME NEW j \in DOMAIN o, NEW k \in DOMAIN o, o[j], o[k]
               PROVE  j = k
    BY DEF AtMostOne
  <2>1. DOMAIN o = 1 .. Len(s) + 1 /\ DOMAIN s = 1 .. Len(s)
    BY <1>2, <1>4
  <2>2. j \in 1 .. Len(s) /\ k \in 1 .. Len(s)
    BY <1>2, <1>4, <2>1
  <2> QED
    BY <1>2, <1>4, <2>1, <2>2 DEF AtMostOne
<1>6. SetOptions(o)
  BY <1>1, <1>3 DEF AddOption, Form
<1>7. Len(o) <= MaxOptions
  BY <1>2, <1>4
<1> QED
  BY <1>4, <1>5, <1>6, <1>7, OptionsStep

LEMMA RemoveOptionStep ==
  ASSUME ItemInv, NEW k, RemoveOption(k)
  PROVE  ItemInv'
<1>1. PICK s : s = page.form.options
  OBVIOUS
<1>2. /\ s \in Seq(BOOLEAN) /\ AtMostOne(s) /\ DOMAIN s = 1 .. Len(s)
      /\ k \in 1 .. Len(s) /\ Len(s) > 2
      /\ SetOptions([j \in 1 .. Len(s) - 1 |-> s[IF j < k THEN j ELSE j + 1]])
  BY <1>1, FormOf DEF RemoveOption, Form
<1>3. PICK n \in Nat : n = Len(s) - 1 /\ n <= MaxOptions
  <2>1. Len(s) \in Nat /\ Len(s) <= MaxOptions /\ MaxOptions \in Nat
    BY <1>1, FormOf
  <2>2. Len(s) > 2
    BY <1>2
  <2> QED
    BY <2>1, <2>2
<1>4. PICK o : o = [j \in 1 .. n |-> s[IF j < k THEN j ELSE j + 1]]
  OBVIOUS
<1>5. ASSUME NEW j \in 1 .. n
      PROVE  /\ (IF j < k THEN j ELSE j + 1) \in 1 .. Len(s)
             /\ o[j] = s[IF j < k THEN j ELSE j + 1] /\ o[j] \in BOOLEAN
  <2>1. (IF j < k THEN j ELSE j + 1) \in 1 .. Len(s)
    BY <1>2, <1>3
  <2>2. o[j] = s[IF j < k THEN j ELSE j + 1]
    BY <1>4
  <2>3. \A i \in 1 .. Len(s) : s[i] \in BOOLEAN
    BY <1>2
  <2> QED
    BY <2>1, <2>2, <2>3
<1>6. o \in Seq(BOOLEAN) /\ Len(o) = n /\ DOMAIN o = 1 .. n
  <2>1. o \in [1 .. n -> BOOLEAN]
    BY <1>4, <1>5
  <2> QED
    BY <1>3, <2>1
<1>7. AtMostOne(o)
  <2> SUFFICES ASSUME NEW i \in 1 .. n, NEW j \in 1 .. n, o[i], o[j]
               PROVE  i = j
    BY <1>6 DEF AtMostOne
  <2>1. (IF i < k THEN i ELSE i + 1) = (IF j < k THEN j ELSE j + 1)
    BY <1>2, <1>5 DEF AtMostOne
  <2>2. i \in Nat /\ j \in Nat /\ k \in Nat
    BY <1>2
  <2>3. i < k => (IF i < k THEN i ELSE i + 1) = i
    OBVIOUS
  <2>4. j < k => (IF j < k THEN j ELSE j + 1) = j
    OBVIOUS
  <2>5. ~(i < k) => (IF i < k THEN i ELSE i + 1) = i + 1
    OBVIOUS
  <2>6. ~(j < k) => (IF j < k THEN j ELSE j + 1) = j + 1
    OBVIOUS
  <2> QED
    BY <2>1, <2>2, <2>3, <2>4, <2>5, <2>6
<1>8. SetOptions(o)
  BY <1>2, <1>3, <1>4
<1> QED
  BY <1>3, <1>6, <1>7, <1>8, OptionsStep

LEMMA PickPresetStep ==
  ASSUME ItemInv, NEW z \in Presets, PickPreset(z)
  PROVE  ItemInv'
<1>1. PICK g : g = [page.form EXCEPT !.preset = z, !.picked = TRUE]
  OBVIOUS
<1>2. Edit(g)
  BY <1>1 DEF PickPreset, Form
<1>3. /\ g \in FormType /\ g.edit = page.form.edit /\ g.options = page.form.options
      /\ g.picked /\ g.base = page.form.base
  BY <1>1, Typed DEF FormType
<1> QED
  BY <1>2, <1>3, FormOf, EditStep

LEMMA RemoveImageStep ==
  ASSUME ItemInv, RemoveImage
  PROVE  ItemInv'
<1>1. PICK g : g = [page.form EXCEPT !.image = FALSE]
  OBVIOUS
<1>2. Edit(g)
  BY <1>1 DEF RemoveImage, Form
<1>3. /\ g \in FormType /\ g.edit = page.form.edit /\ g.options = page.form.options
      /\ g.picked = page.form.picked /\ g.preset = page.form.preset
      /\ g.base = page.form.base
  BY <1>1, Typed DEF FormType
<1> QED
  BY <1>2, <1>3, FormOf, EditStep


-----------------------------------------------------------------------------
(* What comes back. *)

Asks(d, p) ==
    \/ d = ListCall(p.filter, p.offset) /\ p.screen = "list"
    \/ d = Call("item", p.id, 0) /\ p.screen = "item"

\* The difficulty that follows a version.
Follows(c, e) ==
    /\ c \in calls /\ c.op = "version"
    /\ e \in CallType /\ CallOK(e) /\ e.op = "preset"
    /\ e.edit = c.edit /\ e.live = c.live

LEMMA ReplyStep ==
  ASSUME ItemInv,
         UNCHANGED <<bank, removed, writes, others, faults>>,
         NEW p \in PageType, PageOK(p)', page' = p,
         p.screen = page.screen, p.filter = page.filter, p.offset = page.offset,
         p.id = page.id, p.form.edit \in {0, page.form.edit},
         p.snap = page.snap \/ \A d \in calls' : d.op # "item",
         p.mode = "edit" => page.mode = "edit" /\ p.form.edit = page.form.edit,
         NEW c, NEW e,
         \A d \in calls' : (d \in calls /\ d # c) \/ Asks(d, p)
                              \/ (d = e /\ Follows(c, e)),
         \A d \in calls : d # c /\ d.op \notin Queries => d \in calls',
         \A d \in calls' : \A b \in calls' : d.op = b.op /\ d.op \in Queries => d = b,
         p.mode = "edit" /\ c \in calls /\ Busy(c, page) =>
            \E d \in calls' : Busy(d, p)
  PROVE  ItemInv'
<1>0. p.screen = "item" => p.id \in Items
  BY Typed DEF PageOK
<1>1. PageOK(page)'
  OBVIOUS
<1>2. PICK f : f = [b \in calls |-> IF b = c THEN e ELSE b]
  OBVIOUS
<1>3. ASSUME NEW d \in calls', Asks(d, p)
      PROVE  /\ d \in CallType /\ CallOK(d) /\ ReadOK(d) /\ Shown(d, p)
             /\ d.op \in Queries
  BY <1>0, <1>3, Asked, Typed DEF Asks
<1>4. ASSUME NEW d \in calls'
      PROVE  d \in CallType /\ CallOK(d) /\ ReadOK(d) /\ Shown(d, page')
  <2>1. CASE Asks(d, p)
    BY <1>3, <2>1
  <2>2. CASE d \in calls
    <3>1. d \in CallType /\ CallOK(d) /\ ReadOK(d) /\ Shown(d, page)
      BY <2>2 DEF ItemInv, CallInv
    <3>2. Shown(d, p)
      BY <3>1 DEF Shown
    <3> QED
      BY <3>1, <3>2
  <2>3. CASE d = e /\ Follows(c, e)
    <3>1. Shown(c, page)
      BY <2>3 DEF Follows, ItemInv, CallInv
    <3>2. /\ d \in CallType /\ CallOK(d) /\ d.op = "preset" /\ c.op = "version"
          /\ d.edit = c.edit /\ d.live = c.live
      BY <2>3 DEF Follows
    <3>3. Shown(d, p) /\ ReadOK(d)
      BY <3>1, <3>2 DEF Shown, ReadOK, Saves
    <3> QED
      BY <3>2, <3>3
  <2> QED
    BY <2>1, <2>2, <2>3
<1>5. SavesFrom(calls', f)
  <2> SUFFICES ASSUME NEW d \in calls', d.op \in Saves
               PROVE  \E b \in calls :
                         /\ d = f[b] /\ b.op \in Saves /\ b.edit = d.edit
                         /\ d.op = "version" =>
                               b.op = "version" /\ b.id = d.id /\ b.phase = d.phase
    BY DEF SavesFrom
  <2>1. ~Asks(d, p)
    BY <1>3 DEF Saves, Queries
  <2>2. CASE d \in calls /\ d # c
    BY <1>2, <2>2
  <2>3. CASE d = e /\ Follows(c, e)
    <3>1. /\ c \in calls /\ c.op = "version" /\ d.op = "preset" /\ c.edit = d.edit
          /\ d = f[c]
      BY <1>2, <2>3 DEF Follows
    <3> QED
      BY <3>1 DEF Saves
  <2> QED
    BY <2>1, <2>2, <2>3
<1>6. ASSUME faults' = 0
      PROVE  FormNotYet(page)'
  <2> SUFFICES ASSUME p.mode = "edit", p.form.edit \in Edits(p.id)
               PROVE  bank[p.id].deleted \/ \E d \in calls' : Busy(d, p)
    BY DEF FormNotYet, Edits, Busy
  <2>1. FormNotYet(page)
    BY <1>6 DEF ItemInv, EditInv
  <2>2. bank[page.id].deleted \/ \E b \in calls : Busy(b, page)
    BY <2>1 DEF FormNotYet
  <2>3. ASSUME NEW b \in calls, Busy(b, page), b # c
        PROVE  b \in calls' /\ Busy(b, p)
    BY <2>3 DEF Busy, Queries
  <2> QED
    BY <2>2, <2>3
<1>7. CountInv'
  BY DEF ItemInv, CountInv
<1> QED
  BY <1>1, <1>4, <1>5, <1>6, <1>7, QuietStep

LEMMA Invalidated ==
  ASSUME ItemInv, NEW c, calls' = InvalidateAll(calls \ {c}, page)
  PROVE  /\ \A d \in calls' : (d \in calls /\ d # c) \/ Asks(d, page)
         /\ \A d \in calls : d # c /\ d.op \notin Queries => d \in calls'
         /\ \A d \in calls' : \A b \in calls' :
               d.op = b.op /\ d.op \in Queries => d = b
<1>1. page \in PageType /\ PageOK(page)
  BY Typed
<1>2. page.screen = "item" => page.id \in Items
  BY <1>1 DEF PageOK
<1>3. ASSUME NEW d \in calls'
      PROVE  \/ d \in calls /\ d # c /\ d.op \notin Queries
             \/ Asks(d, page)
  BY Fetched DEF Asks
<1>4. ASSUME NEW d \in calls', NEW b \in calls', d.op = b.op, d.op \in Queries
      PROVE  d = b
  <2>1. Asks(d, page) /\ Asks(b, page)
    BY <1>3, <1>4
  <2>2. /\ d.op = "list" => d = ListCall(page.filter, page.offset)
        /\ d.op = "item" => d = Call("item", page.id, 0)
        /\ b.op = "list" => b = ListCall(page.filter, page.offset)
        /\ b.op = "item" => b = Call("item", page.id, 0)
    BY <1>1, <1>2, <2>1, Asked, Typed DEF Asks
  <2> QED
    BY <1>4, <2>2 DEF Queries
<1>5. ASSUME NEW d \in calls, d # c, d.op \notin Queries
      PROVE  d \in calls'
  BY <1>5 DEF InvalidateAll, FetchList, FetchItem, Queries
<1> QED
  BY <1>3, <1>4, <1>5

\* A reply that changes nothing on the page, after which it may be asked anew.
LEMMA ForgetStep ==
  ASSUME ItemInv, Quiet, page' = page, NEW c,
         ~(c \in calls /\ Busy(c, page)) \/ page.mode = "view",
         \/ calls' = InvalidateAll(calls \ {c}, page)
         \/ calls' = calls \ {c}
  PROVE  ItemInv'
<1>1. page \in PageType /\ PageOK(page)
  BY Typed
<1>2. UNCHANGED <<bank, writes, others, faults, removed>>
  BY DEF Quiet
<1>5. calls' = InvalidateAll(calls \ {c}, page) =>
         /\ \A d \in calls' : (d \in calls /\ d # c) \/ Asks(d, page)
         /\ \A d \in calls : d # c /\ d.op \notin Queries => d \in calls'
         /\ \A d \in calls' : \A b \in calls' :
               d.op = b.op /\ d.op \in Queries => d = b
  BY Invalidated
<1>6. ASSUME calls' = calls \ {c}
      PROVE  /\ \A d \in calls' : (d \in calls /\ d # c) \/ Asks(d, page)
             /\ \A d \in calls : d # c /\ d.op \notin Queries => d \in calls'
             /\ \A d \in calls' : \A b \in calls' :
                   d.op = b.op /\ d.op \in Queries => d = b
  BY <1>6 DEF ItemInv, CallInv
<1>7. /\ \A d \in calls' : (d \in calls /\ d # c) \/ Asks(d, page)
      /\ \A d \in calls : d # c /\ d.op \notin Queries => d \in calls'
      /\ \A d \in calls' : \A b \in calls' :
            d.op = b.op /\ d.op \in Queries => d = b
  BY <1>5, <1>6
<1>8. PICK p \in PageType : p = page
  BY <1>1
<1>10. PageOK(p)' /\ page' = p
  BY <1>2, <1>1, <1>8, BankStays, PageKept
<1> QED
  BY <1>2, <1>7, <1>8, <1>10, ReplyStep

LEMMA RefetchStep ==
  ASSUME ItemInv, Refetch
  PROVE  ItemInv'
<1>1. PICK c : c = Call("item", 0, 0)
  OBVIOUS
<1>2. c.op = "item"
  BY <1>1 DEF Call
<1>3. /\ calls' = InvalidateAll(calls, page) /\ page' = page /\ Quiet
  BY DEF Refetch, Quiet
<1>4. FetchItem(calls, page) = FetchItem(calls \ {c}, page)
  BY <1>2 DEF FetchItem
<1>5. calls' = InvalidateAll(calls \ {c}, page)
  BY <1>3, <1>4 DEF InvalidateAll
<1>6. ~Busy(c, page)
  BY <1>2 DEF Busy
<1> QED
  BY <1>3, <1>5, <1>6, ForgetStep

LEMMA StatusRepliedStep ==
  ASSUME ItemInv, NEW c \in calls, StatusReplied(c)
  PROVE  ItemInv'
<1>1. /\ calls' = InvalidateAll(calls \ {c}, page) /\ page' = page /\ Quiet
      /\ ~Busy(c, page)
  BY DEF StatusReplied, Busy
<1> QED
  BY <1>1, ForgetStep

\* What is on the screen is replaced.
LEMMA DataStep ==
  ASSUME ItemInv,
         UNCHANGED <<bank, removed, writes, others, faults>>,
         NEW c \in calls, c.op \notin {"version", "preset"}, calls' = calls \ {c},
         NEW p \in PageType, PageOK(p)', page' = p,
         p.screen = page.screen, p.filter = page.filter, p.offset = page.offset,
         p.id = page.id, p.form.edit = page.form.edit, p.mode = page.mode,
         p.snap = page.snap \/ c.op = "item"
  PROVE  ItemInv'
<1>0. p.snap = page.snap \/ \A d \in calls' : d.op # "item"
  <2>1. ASSUME c.op = "item", NEW d \in calls', d.op = "item"
        PROVE  FALSE
    BY <2>1 DEF ItemInv, CallInv, Queries
  <2> QED
    BY <2>1
<1>1. \A d \in calls' : \A b \in calls' : d.op = b.op /\ d.op \in Queries => d = b
  BY DEF ItemInv, CallInv
<1>2. ~Busy(c, page)
  BY DEF Busy
<1>3. /\ \A d \in calls' : (d \in calls /\ d # c) \/ Asks(d, p)
                              \/ (d = c /\ Follows(c, c))
      /\ \A d \in calls : d # c /\ d.op \notin Queries => d \in calls'
      /\ p.mode = "edit" /\ c \in calls /\ Busy(c, page) =>
            \E d \in calls' : Busy(d, p)
      /\ p.form.edit \in {0, page.form.edit}
      /\ p.mode = "edit" => page.mode = "edit" /\ p.form.edit = page.form.edit
  BY <1>2
<1> QED
  BY <1>0, <1>1, <1>3, ReplyStep

LEMMA ListRepliedStep ==
  ASSUME ItemInv, NEW c \in calls, ListReplied(c)
  PROVE  ItemInv'
<1>1. PICK p : p = [page EXCEPT !.list = c.list]
  OBVIOUS
<1>2. /\ page' = p /\ calls' = calls \ {c} /\ c.op = "list" /\ c.phase = "ok"
      /\ UNCHANGED <<bank, writes, others, faults, removed>>
  BY <1>1 DEF ListReplied
<1>3. /\ c \in CallType /\ ListOK(c.list, c.status, c.offset)
      /\ c.status = page.filter /\ c.offset = page.offset
  BY <1>2 DEF ItemInv, CallInv, CallOK, Shown
<1>4. page \in PageType /\ PageOK(page) /\ c.list \in ListType
  BY <1>3, Typed DEF CallType
<1>5. /\ p \in PageType /\ p.target = page.target /\ p.screen = page.screen
      /\ p.filter = page.filter /\ p.offset = page.offset /\ p.list = c.list
      /\ p.id = page.id /\ p.snap = page.snap /\ p.mode = page.mode
      /\ p.form = page.form
  BY <1>1, <1>4 DEF PageType
<1>6. PageOK(p)
  BY <1>3, <1>4, <1>5 DEF PageOK
<1>7. PageOK(p)'
  BY <1>2, <1>5, <1>6, BankStays, PageKept
<1> QED
  BY <1>2, <1>5, <1>6, <1>7, DataStep

LEMMA ItemRepliedStep ==
  ASSUME ItemInv, NEW c \in calls, ItemReplied(c)
  PROVE  ItemInv'
<1>1. PICK p : p = [page EXCEPT !.snap = c.snap]
  OBVIOUS
<1>3. /\ page' = p /\ calls' = calls \ {c} /\ c.op = "item" /\ c.phase = "ok"
      /\ UNCHANGED <<bank, writes, others, faults, removed>>
  BY <1>1 DEF ItemReplied
<1>4. /\ c \in CallType /\ c.snap.loaded /\ SnapOK(c.snap, c.id)
      /\ c.id = page.id /\ (page.snap.loaded => NoOlder(c.snap, page.snap))
  BY <1>3 DEF ItemInv, CallInv, CallOK, Shown
<1>5. page \in PageType /\ PageOK(page) /\ c.snap \in SnapType
  BY <1>4, Typed DEF CallType
<1>6. /\ p \in PageType /\ p.target = page.target /\ p.screen = page.screen
      /\ p.filter = page.filter /\ p.offset = page.offset /\ p.list = page.list
      /\ p.id = page.id /\ p.snap = c.snap /\ p.mode = page.mode
      /\ p.form = page.form
  BY <1>1, <1>5 DEF PageType
<1>9. Grown
  BY <1>3, BankStays
<1>10. PageOK(p)'
  <2>1. /\ OffsetOK(p.filter, p.offset)' /\ ListOK(p.list, p.filter, p.offset)'
        /\ SnapOK(p.snap, p.id)' /\ FormOK(p.form)'
    <3>1. /\ p.list \in ListType /\ p.snap \in SnapType /\ p.id \in Nat
          /\ p.offset \in Nat
      BY <1>6 DEF PageType
    <3>2. /\ OffsetOK(p.filter, p.offset) /\ ListOK(p.list, p.filter, p.offset)
          /\ SnapOK(p.snap, p.id) /\ FormOK(p.form)
      BY <1>4, <1>5, <1>6 DEF PageOK
    <3>3. FormOK(p.form)'
      BY <1>3, <3>2 DEF FormOK
    <3> QED
      BY <1>9, <3>1, <3>2, <3>3, OffsetKept, ListKept, SnapKept
  <2>2. p.mode = "edit" => BaseOK(p.form, p.snap)
    <3> SUFFICES ASSUME p.mode = "edit"
                 PROVE  BaseOK(page.form, c.snap)
      BY <1>6
    <3>1. BaseOK(page.form, page.snap) /\ NoOlder(c.snap, page.snap)
      BY <1>4, <1>5, <1>6 DEF PageOK
    <3>2. page.form.base \in Nat /\ page.snap.rev \in Nat /\ c.snap.rev \in Nat
      BY <1>5, Typed DEF SnapType, FormType
    <3> QED
      BY <3>1, <3>2 DEF BaseOK, NoOlder
  <2>3. Items' = Items
    BY <1>3 DEF Items
  <2>4. /\ p.target \in Items \cup {0} /\ p.id \in Items \cup {0}
        /\ p.screen = "item" => p.id # 0
        /\ p.form.edit # 0 <=> (p.screen = "new" \/ p.mode = "edit")
        /\ p.mode = "edit" => p.screen = "item" /\ p.snap.loaded
    BY <1>4, <1>5, <1>6 DEF PageOK
  <2> QED
    BY <2>1, <2>2, <2>3, <2>4 DEF PageOK
<1> QED
  BY <1>3, <1>6, <1>10, DataStep


LEMMA UploadRepliedStep ==
  ASSUME ItemInv, NEW c \in calls, UploadReplied(c)
  PROVE  ItemInv'
<1>1. PICK g : g = IF c.edit = page.form.edit THEN [page.form EXCEPT !.image = TRUE]
                   ELSE page.form
  OBVIOUS
<1>2. PICK p : p = [page EXCEPT !.form = g]
  OBVIOUS
<1>3. /\ page \in PageType /\ PageOK(page) /\ page.form \in FormType
  BY Typed
<1>4. page' = p
  <2>1. CASE c.edit = page.form.edit
    <3>1. page' = [page EXCEPT !.form.image = TRUE]
      BY <2>1 DEF UploadReplied, Form
    <3> QED
      BY <1>1, <1>2, <1>3, <2>1, <3>1 DEF PageType
  <2>2. CASE c.edit # page.form.edit
    <3>1. page' = page
      BY <2>2 DEF UploadReplied, Form
    <3> QED
      BY <1>1, <1>2, <1>3, <2>2, <3>1 DEF PageType
  <2> QED
    BY <2>1, <2>2
<1>5. /\ calls' = calls \ {c} /\ c.op = "upload"
      /\ UNCHANGED <<bank, writes, others, faults, removed>>
  BY DEF UploadReplied, Quiet
<1>6. /\ g \in FormType /\ g.edit = page.form.edit /\ g.options = page.form.options
      /\ g.picked = page.form.picked /\ g.preset = page.form.preset
      /\ g.base = page.form.base
  BY <1>1, <1>3 DEF FormType
<1>7. /\ p \in PageType /\ p.target = page.target /\ p.screen = page.screen
      /\ p.filter = page.filter /\ p.offset = page.offset /\ p.list = page.list
      /\ p.id = page.id /\ p.snap = page.snap /\ p.mode = page.mode
      /\ p.form = g
  BY <1>2, <1>3, <1>6 DEF PageType
<1>8. PageOK(p)
  BY <1>3, <1>6, <1>7 DEF PageOK, FormOK, BaseOK
<1>9. PageOK(p)'
  BY <1>5, <1>7, <1>8, BankStays, PageKept
<1> QED
  BY <1>4, <1>5, <1>6, <1>7, <1>9, DataStep

\* The editor is closed when its last request is answered.
LEMMA ClosedPage ==
  ASSUME ItemInv, NEW c \in calls, c.op \in {"version", "preset"},
         NEW p, p = IF c.live THEN [page EXCEPT !.mode = "view", !.form = NoForm]
                    ELSE page
  PROVE  /\ p \in PageType /\ PageOK(p)
         /\ p.screen = page.screen /\ p.filter = page.filter
         /\ p.offset = page.offset /\ p.id = page.id
         /\ p.form.edit \in {0, page.form.edit} /\ p.snap = page.snap
         /\ p.mode = "edit" => p = page /\ ~Busy(c, page)
<1>1. page \in PageType /\ PageOK(page) /\ Shown(c, page)
  BY Typed DEF ItemInv, CallInv
<1>2. CASE c.live
  <2>1. /\ p \in PageType /\ p.target = page.target /\ p.screen = page.screen
        /\ p.filter = page.filter /\ p.offset = page.offset /\ p.list = page.list
        /\ p.id = page.id /\ p.snap = page.snap /\ p.mode = "view"
        /\ p.form = NoForm
    BY <1>1, <1>2, Blank, Typed DEF PageType
  <2>2. page.screen = "item"
    BY <1>1, <1>2 DEF Shown
  <2>3. NoForm.edit = 0
    BY DEF NoForm
  <2>4. PageOK(p)
    BY <1>1, <2>1, <2>2, <2>3, Blank, Typed DEF PageOK
  <2> QED
    BY <2>1, <2>3, <2>4
<1>3. CASE ~c.live
  <2>1. ASSUME page.mode = "edit", Busy(c, page)
        PROVE  FALSE
    <3>1. page.form.edit # 0 /\ c.edit = page.form.edit
      BY <1>1, <2>1 DEF PageOK, Busy
    <3> QED
      BY <1>1, <1>3, <3>1 DEF Shown, Saves
  <2> QED
    BY <1>1, <1>3, <2>1
<1> QED
  BY <1>2, <1>3

LEMMA FetchedItem ==
  ASSUME NEW S, NEW p, NEW d \in FetchItem(S, p)
  PROVE  \/ d \in S /\ d.op # "item"
         \/ d = Call("item", p.id, 0) /\ p.screen = "item"
BY DEF FetchItem

LEMMA VersionRepliedStep ==
  ASSUME ItemInv, NEW c \in calls, VersionReplied(c)
  PROVE  ItemInv'
<1>1. PICK e : e = [Call("preset", c.id, c.next) EXCEPT
                       !.edit = c.edit, !.seen = c.seen, !.base = c.base,
                       !.picked = c.picked, !.live = c.live]
  OBVIOUS
<1>2. PICK R : R = IF page.id = c.id THEN FetchItem(calls \ {c}, page)
                   ELSE calls \ {c}
  OBVIOUS
<1>3. /\ c.op = "version" /\ c.phase = "ok"
      /\ UNCHANGED <<bank, writes, others, faults, removed>>
  BY DEF VersionReplied, Quiet
<1>4. /\ c.next # 0 => calls' = R \cup {e} /\ page' = page
      /\ c.next = 0 =>
            /\ calls' = R
            /\ page' = IF c.live THEN [page EXCEPT !.mode = "view", !.form = NoForm]
                       ELSE page
  BY <1>1, <1>2 DEF VersionReplied
<1>5. page \in PageType /\ PageOK(page)
  BY Typed
<1>6. page.screen = "item" => page.id \in Items
  BY <1>5 DEF PageOK
<1>7. ASSUME NEW d \in R
      PROVE  \/ d \in calls /\ d # c /\ (page.id = c.id => d.op # "item")
             \/ Asks(d, page) /\ d.op = "item" /\ page.id = c.id
  <2>1. CASE page.id = c.id
    <3>1. \/ d \in calls \ {c} /\ d.op # "item"
          \/ d = Call("item", page.id, 0) /\ page.screen = "item"
      BY <1>2, <2>1, FetchedItem
    <3>2. d = Call("item", page.id, 0) => d.op = "item"
      BY DEF Call
    <3> QED
      BY <2>1, <3>1, <3>2 DEF Asks
  <2>2. CASE page.id # c.id
    BY <1>2, <2>2
  <2> QED
    BY <2>1, <2>2
<1>8. \A d \in calls : d # c /\ d.op \notin Queries => d \in R
  BY <1>2 DEF FetchItem, Queries
<1>9. ASSUME NEW d \in R, NEW b \in R, d.op = b.op, d.op \in Queries
      PROVE  d = b
  <2>1. CASE d \in calls /\ b \in calls
    BY <1>9, <2>1 DEF ItemInv, CallInv
  <2>2. CASE Asks(d, page) /\ d.op = "item" /\ page.id = c.id
    <3>1. Asks(b, page)
      BY <1>7, <1>9, <2>2
    <3> QED
      BY <1>5, <1>6, <1>9, <2>2, <3>1, Asked, Typed DEF Asks
  <2>3. CASE Asks(b, page) /\ b.op = "item" /\ page.id = c.id
    <3>1. Asks(d, page)
      BY <1>7, <1>9, <2>3
    <3> QED
      BY <1>5, <1>6, <1>9, <2>3, <3>1, Asked, Typed DEF Asks
  <2> QED
    BY <1>7, <1>9, <2>1, <2>2, <2>3
<1>11. CASE c.next # 0
  <2>1. c \in CallType /\ CallOK(c)
    BY DEF ItemInv, CallInv
  <2>2. /\ e \in CallType /\ e.op = "preset" /\ e.edit = c.edit /\ e.live = c.live
        /\ e.id = c.id /\ e.seen = c.seen /\ e.phase = "sent"
        /\ e.base = c.base /\ e.picked = c.picked
    <3>1. PICK l \in ListType : l = NoList
      BY Blank, Typed
    <3>2. PICK s \in SnapType : s = NoSnap
      BY Blank, Typed
    <3>5. PICK t \in TallyType : t = Tally(<<>>)
      BY NoTally
    <3>3. e = [op |-> "preset", id |-> c.id, preset |-> c.next, phase |-> "sent",
               live |-> c.live, edit |-> c.edit, seen |-> c.seen, base |-> c.base,
               picked |-> c.picked, next |-> 0, options |-> t, status |-> "all",
               offset |-> 0, at |-> 0, list |-> l, snap |-> s]
      BY <1>1, <3>1, <3>2, <3>5 DEF Call
    <3>4. /\ c.id \in Nat /\ c.next \in Presets \cup {0} /\ c.live \in BOOLEAN
          /\ c.edit \in Nat /\ c.seen \in Nat /\ c.base \in Nat
          /\ c.picked \in BOOLEAN
      BY <2>1 DEF CallType
    <3>6. e \in CallType
      BY <3>3, <3>4 DEF CallType, Saves, Queries, Screens
    <3> QED
      BY <3>3, <3>6
  <2>3. CallOK(e)
    BY <1>3, <1>11, <2>1, <2>2 DEF CallOK
  <2>4. Follows(c, e)
    BY <1>3, <2>2, <2>3 DEF Follows
  <2>5. /\ \A d \in calls' : (d \in calls /\ d # c) \/ Asks(d, page)
                                \/ (d = e /\ Follows(c, e))
        /\ \A d \in calls : d # c /\ d.op \notin Queries => d \in calls'
    BY <1>4, <1>7, <1>8, <1>11, <2>4
  <2>6. \A d \in calls' : \A b \in calls' : d.op = b.op /\ d.op \in Queries => d = b
    BY <1>4, <1>9, <1>11, <2>2 DEF Queries
  <2>7. Busy(c, page) => Busy(e, page)
    BY <2>2 DEF Busy
  <2>8. e \in calls'
    BY <1>4, <1>11
  <2>9. PICK p \in PageType : p = page
    BY <1>5
  <2>10. PageOK(p)' /\ page' = p
    BY <1>3, <1>4, <1>5, <1>11, <2>9, BankStays, PageKept
  <2> QED
    BY <1>3, <2>5, <2>6, <2>7, <2>8, <2>9, <2>10, ReplyStep
<1>12. CASE c.next = 0
  <2>1. PICK p : p = IF c.live THEN [page EXCEPT !.mode = "view", !.form = NoForm]
                     ELSE page
    OBVIOUS
  <2>2. /\ p \in PageType /\ PageOK(p)
        /\ p.screen = page.screen /\ p.filter = page.filter
        /\ p.offset = page.offset /\ p.id = page.id
        /\ p.form.edit \in {0, page.form.edit} /\ p.snap = page.snap
        /\ p.mode = "edit" => p = page /\ ~Busy(c, page)
    BY <1>3, <2>1, ClosedPage
  <2>3. page' = p /\ calls' = R
    BY <1>4, <1>12, <2>1
  <2>4. PageOK(p)'
    BY <1>3, <2>2, BankStays, PageKept
  <2>5. \A d : Asks(d, page) => Asks(d, p)
    BY <2>2 DEF Asks
  <2>6. /\ \A d \in calls' : (d \in calls /\ d # c) \/ Asks(d, p)
                                \/ (d = c /\ Follows(c, c))
        /\ \A d \in calls : d # c /\ d.op \notin Queries => d \in calls'
        /\ \A d \in calls' : \A b \in calls' : d.op = b.op /\ d.op \in Queries => d = b
    BY <1>7, <1>8, <1>9, <2>3, <2>5
  <2> QED
    BY <1>3, <2>2, <2>3, <2>4, <2>6, ReplyStep
<1> QED
  BY <1>11, <1>12


LEMMA PresetRepliedStep ==
  ASSUME ItemInv, NEW c \in calls, PresetReplied(c)
  PROVE  ItemInv'
<1>1. PICK p : p = IF c.live THEN [page EXCEPT !.mode = "view", !.form = NoForm]
                   ELSE page
  OBVIOUS
<1>2. /\ c.op = "preset" /\ page' = p
      /\ calls' = InvalidateAll(calls \ {c}, page)
      /\ UNCHANGED <<bank, writes, others, faults, removed>>
  BY <1>1 DEF PresetReplied, Quiet
<1>3. /\ p \in PageType /\ PageOK(p)
      /\ p.screen = page.screen /\ p.filter = page.filter
      /\ p.offset = page.offset /\ p.id = page.id
      /\ p.form.edit \in {0, page.form.edit} /\ p.snap = page.snap
      /\ p.mode = "edit" => p = page /\ ~Busy(c, page)
  BY <1>1, <1>2, ClosedPage
<1>4. PageOK(p)'
  BY <1>2, <1>3, BankStays, PageKept
<1>5. \A d : Asks(d, page) => Asks(d, p)
  BY <1>3 DEF Asks
<1>6. /\ \A d \in calls' : (d \in calls /\ d # c) \/ Asks(d, p)
                              \/ (d = c /\ Follows(c, c))
      /\ \A d \in calls : d # c /\ d.op \notin Queries => d \in calls'
      /\ \A d \in calls' : \A b \in calls' : d.op = b.op /\ d.op \in Queries => d = b
  BY <1>2, <1>5, Invalidated
<1> QED
  BY <1>2, <1>3, <1>4, <1>6, ReplyStep

LEMMA DeleteRepliedStep ==
  ASSUME ItemInv, NEW c \in calls, DeleteReplied(c)
  PROVE  ItemInv'
<1>1. CASE c.status = "list"
  <2>1. PICK p : p = IF c.live THEN [page EXCEPT !.target = 0] ELSE page
    OBVIOUS
  <2>2. /\ c.op = "delete" /\ page' = p
        /\ calls' = InvalidateAll(calls \ {c}, page)
        /\ UNCHANGED <<bank, writes, others, faults, removed>>
    BY <1>1, <2>1 DEF DeleteReplied, Quiet
  <2>3. page \in PageType /\ PageOK(page)
    BY Typed
  <2>4. /\ p \in PageType /\ p.target \in {0, page.target}
        /\ p.screen = page.screen /\ p.filter = page.filter
        /\ p.offset = page.offset /\ p.list = page.list
        /\ p.id = page.id /\ p.snap = page.snap /\ p.mode = page.mode
        /\ p.form = page.form
    BY <2>1, <2>3 DEF PageType
  <2>5. PageOK(p)
    BY <2>3, <2>4 DEF PageOK
  <2>6. PageOK(p)'
    BY <2>2, <2>4, <2>5, BankStays, PageKept
  <2>7. \A d : Asks(d, page) => Asks(d, p)
    BY <2>4 DEF Asks
  <2>8. /\ \A d \in calls' : (d \in calls /\ d # c) \/ Asks(d, p)
                                \/ (d = c /\ Follows(c, c))
        /\ \A d \in calls : d # c /\ d.op \notin Queries => d \in calls'
        /\ \A d \in calls' : \A b \in calls' : d.op = b.op /\ d.op \in Queries => d = b
        /\ ~Busy(c, page)
    BY <2>2, <2>7, Invalidated DEF Busy
  <2> QED
    BY <2>2, <2>4, <2>6, <2>8, ReplyStep
<1>2. CASE c.status # "list"
  <2>1. Open(ListPage, calls \ {c}) /\ Quiet
    BY <1>2 DEF DeleteReplied
  <2> QED
    BY <2>1, ListPageStep
<1> QED
  BY <1>1, <1>2

LEMMA CreateRepliedStep ==
  ASSUME ItemInv, NEW c \in calls, CreateReplied(c)
  PROVE  ItemInv'
<1>1. /\ Open([ListPage EXCEPT !.screen = "item", !.id = c.id], calls \ {c})
      /\ Quiet /\ c.op = "create" /\ c.phase = "ok"
  BY DEF CreateReplied
<1>2. c.id \in Items
  BY <1>1 DEF ItemInv, CallInv, CallOK
<1> QED
  BY <1>1, <1>2, OpenItemStep

LEMMA FailsStep ==
  ASSUME ItemInv, NEW c \in calls, Fails(c)
  PROVE  ItemInv'
<1>1. /\ calls' = calls \ {c} /\ page' = page
      /\ UNCHANGED <<bank, writes, removed>>
  BY DEF Fails
<1>2. \/ c.phase = "refused" /\ others' = others /\ faults' = faults
      \/ others < MaxOthers /\ others' = others + 1 /\ faults' = faults + 1
  BY DEF Fails
<1>3. /\ others \in Nat /\ faults \in Nat /\ MaxOthers \in Nat
      /\ page \in PageType /\ PageOK(page)
  BY Typed
<1>4. CountInv'
  BY <1>1, <1>2, <1>3 DEF ItemInv, CountInv
<1>5. faults' = 0 => faults = 0 /\ c.phase = "refused"
  BY <1>2, <1>3
<1>6. PageOK(page)'
  BY <1>1, <1>3, BankStays, PageKept
<1>7. PICK f : f = [b \in calls |-> b]
  OBVIOUS
<1>8. SavesFrom(calls', f)
  BY <1>1, <1>7 DEF SavesFrom
<1>9. /\ \A d \in calls' : /\ d \in CallType /\ CallOK(d) /\ ReadOK(d)
                           /\ Shown(d, page')
      /\ \A d, b \in calls' : d.op = b.op /\ d.op \in Queries => d = b
  BY <1>1 DEF ItemInv, CallInv
<1>10. ASSUME faults' = 0
       PROVE  FormNotYet(page)'
  <2> SUFFICES ASSUME page.mode = "edit", page.form.edit \in Edits(page.id)
               PROVE  bank[page.id].deleted \/ \E d \in calls' : Busy(d, page)
    BY <1>1 DEF FormNotYet, Edits, Busy
  <2>1. faults = 0 /\ c.phase = "refused"
    BY <1>5, <1>10
  <2>2. bank[page.id].deleted \/ \E b \in calls : Busy(b, page)
    BY <2>1 DEF ItemInv, EditInv, FormNotYet
  <2>3. Busy(c, page) => bank[page.id].deleted
    <3>1. CallOK(c)
      BY DEF ItemInv, CallInv
    <3> QED
      BY <2>1, <3>1 DEF Busy, CallOK
  <2> QED
    BY <1>1, <2>2, <2>3
<1>12. page' \in PageType
  BY <1>1, <1>3
<1> QED
  BY <1>1, <1>4, <1>5, <1>6, <1>8, <1>9, <1>10, <1>12, QuietStep

-----------------------------------------------------------------------------
(* What is sent. *)

LEMMA SendStep ==
  ASSUME ItemInv, UNCHANGED <<bank, page, others, faults, removed>>,
         writes < MaxWrites, writes' = writes + 1,
         NEW c \in CallType, calls' = calls \cup {c},
         CallOK(c)', ReadOK(c), Shown(c, page), c.op \notin Queries,
         c.op \in Saves => \A d \in calls : d.op \in Saves => d.edit # c.edit,
         faults = 0 => NotYet(c)
  PROVE  ItemInv'
<1>1. writes' \in {writes, writes + 1}
  OBVIOUS
<1>2. Grown /\ BankInv'
  BY <1>1, BankStays
<1>3. PageInv'
  <2>1. PageOK(page)'
    BY <1>2, Typed, PageKept
  <2> QED
    BY <2>1, Typed DEF PageInv
<1>4. CallInv'
  <2>1. ASSUME NEW d \in calls'
        PROVE  d \in CallType /\ CallOK(d)' /\ ReadOK(d)' /\ Shown(d, page)
    <3>1. CASE d \in calls
      <4>1. d \in CallType /\ CallOK(d) /\ ReadOK(d) /\ Shown(d, page)
        BY <3>1 DEF ItemInv, CallInv
      <4> QED
        BY <1>2, <4>1, CallKept
    <3>2. CASE d = c
      BY <3>2 DEF ReadOK
    <3> QED
      BY <3>1, <3>2
  <2>2. ASSUME NEW d \in calls', NEW b \in calls', d.op = b.op, d.op \in Queries
        PROVE  d = b
    BY <2>2 DEF ItemInv, CallInv
  <2>3. ASSUME NEW d \in calls'
        PROVE  Shown(d, page)'
    BY <2>1 DEF Shown
  <2> QED
    BY <2>1, <2>2, <2>3 DEF CallInv
<1>5. OneSave'
  BY DEF ItemInv, OneSave
<1>6. CountInv'
  BY Typed DEF ItemInv, CountInv
<1>7. EditInv'
  <2>1. ASSUME faults = 0, NEW d \in calls'
        PROVE  NotYet(d)'
    BY <2>1 DEF ItemInv, EditInv, NotYet, Edits
  <2>2. ASSUME faults = 0, NEW i \in Items'
        PROVE  Distinct(i)'
    BY <2>2 DEF ItemInv, EditInv, Distinct, Items
  <2>3. ASSUME faults = 0
        PROVE  FormNotYet(page)'
    BY <2>3 DEF ItemInv, EditInv, FormNotYet, Edits, Busy
  <2> QED
    BY <2>1, <2>2, <2>3 DEF EditInv
<1> QED
  BY <1>2, <1>3, <1>4, <1>5, <1>6, <1>7 DEF ItemInv


Ops == Saves \cup Queries \cup {"upload", "status", "delete"}

LEMMA Called ==
  ASSUME ItemInv, NEW o \in Ops, NEW i \in Nat, NEW z \in Presets \cup {0},
         NEW c, c = Call(o, i, z)
  PROVE  /\ c \in CallType /\ c.op = o /\ c.id = i /\ c.preset = z
         /\ c.phase = "sent" /\ c.live /\ c.edit = 0 /\ c.next = 0
<1>1. PICK l \in ListType : l = NoList
  BY Blank, Typed
<1>2. PICK s \in SnapType : s = NoSnap
  BY Blank, Typed
<1>4. PICK t \in TallyType : t = Tally(<<>>)
  BY NoTally
<1>3. c = [op |-> o, id |-> i, preset |-> z, phase |-> "sent", live |-> TRUE,
           edit |-> 0, seen |-> 0, base |-> 0, picked |-> FALSE, next |-> 0,
           options |-> t, status |-> "all", offset |-> 0, at |-> 0, list |-> l,
           snap |-> s]
  BY <1>1, <1>2, <1>4 DEF Call
<1>5. c \in CallType
  BY <1>3 DEF CallType, Ops
<1> QED
  BY <1>3, <1>5

\* A form that can be submitted passes the server.
LEMMA Passes ==
  ASSUME ItemInv, Submittable(page.form.options)
  PROVE  /\ ValidateOptions(Tally(page.form.options))
         /\ Tally(page.form.options) \in TallyType
<1>1. PICK k \in DOMAIN page.form.options : page.form.options[k]
  BY DEF Submittable, CorrectIn
<1>2. CorrectIn(page.form.options) = {k}
  BY <1>1, FormOf DEF AtMostOne, CorrectIn
<1>3. Cardinality({k}) = 1
  BY FS_Singleton
<1>4. Len(page.form.options) \in Nat /\ Len(page.form.options) >= 2
  BY FormOf DEF Submittable
<1>5. PICK n \in Nat : n = Len(page.form.options)
  BY <1>4
<1>6. Tally(page.form.options) = [total |-> n, correct |-> 1]
  BY <1>2, <1>3, <1>5 DEF Tally
<1> QED
  BY <1>4, <1>5, <1>6 DEF ValidateOptions, TallyType

LEMMA UploadStep ==
  ASSUME ItemInv, Upload
  PROVE  ItemInv'
<1>1. PICK b : b = Call("upload", page.id, 0)
  OBVIOUS
<1>2. page \in PageType /\ PageOK(page) /\ writes \in Nat /\ page.form \in FormType
  BY Typed
<1>3. page.id \in Nat /\ page.form.edit \in Nat
  BY <1>2 DEF PageType, FormType
<1>4. b \in CallType /\ b.op = "upload"
  <2>1. "upload" \in Ops /\ 0 \in Presets \cup {0}
    BY DEF Ops
  <2> QED
    BY <1>1, <1>3, <2>1, Called
<1>5. PICK c : c = [b EXCEPT !.edit = page.form.edit]
  OBVIOUS
<1>6. c \in CallType /\ c.op = "upload" /\ c.edit = page.form.edit
  BY <1>3, <1>4, <1>5 DEF CallType
<1>7. /\ writes < MaxWrites /\ writes' = writes + 1 /\ calls' = calls \cup {c}
      /\ UNCHANGED <<bank, page, others, faults, removed>>
  BY <1>1, <1>5 DEF Upload, Send, Form
<1>8. c.edit <= writes'
  BY <1>2, <1>6, <1>7 DEF PageOK, FormOK
<1>9. CallOK(c)'
  BY <1>6, <1>8 DEF CallOK
<1>10. /\ ReadOK(c) /\ Shown(c, page) /\ c.op \notin Queries /\ c.op \notin Saves
       /\ NotYet(c)
  BY <1>6 DEF ReadOK, Shown, Queries, Saves, NotYet
<1> QED
  BY <1>6, <1>7, <1>9, <1>10, SendStep

LEMMA OnSubmitStep ==
  ASSUME ItemInv, OnSubmit
  PROVE  ItemInv'
<1>1. PICK b : b = Call("version", page.id, 0)
  OBVIOUS
<1>2. /\ page \in PageType /\ PageOK(page) /\ writes \in Nat
      /\ page.form \in FormType /\ page.snap \in SnapType
  BY Typed
<1>3. /\ page.id \in Nat /\ page.form.edit \in Nat
      /\ page.snap.rev \in Nat /\ page.form.base \in Nat
      /\ page.form.picked \in BOOLEAN
      /\ page.form.preset \in Presets \cup {0} /\ page.snap.preset \in Presets \cup {0}
  BY <1>2 DEF PageType, FormType, SnapType
<1>4. /\ b \in CallType /\ b.op = "version" /\ b.id = page.id /\ b.phase = "sent"
      /\ b.live
  <2>1. "version" \in Ops /\ 0 \in Presets \cup {0}
    BY DEF Ops, Saves
  <2> QED
    BY <1>1, <1>3, <2>1, Called
<1>5. PICK n : n = PresetToSend
  OBVIOUS
<1>6. n \in Presets \cup {0}
  BY <1>3, <1>5 DEF PresetToSend, Form
<1>18. PICK t \in TallyType : t = Tally(page.form.options) /\ ValidateOptions(t)
  BY Passes DEF OnSubmit, SaveEnabled, Form
<1>7. PICK c : c = [b EXCEPT !.edit = page.form.edit, !.options = t,
                            !.next = n, !.seen = page.snap.rev,
                            !.base = page.form.base, !.picked = page.form.picked]
  OBVIOUS
<1>8. /\ c \in CallType /\ c.op = "version" /\ c.edit = page.form.edit
      /\ c.options = t /\ c.next = n /\ c.seen = page.snap.rev
      /\ c.base = page.form.base /\ c.picked = page.form.picked
      /\ c.id = page.id /\ c.phase = "sent" /\ c.live
  BY <1>3, <1>4, <1>6, <1>7 DEF CallType
<1>9. /\ writes < MaxWrites /\ writes' = writes + 1 /\ calls' = calls \cup {c}
      /\ UNCHANGED <<bank, page, others, faults, removed>>
      /\ page.screen = "item" /\ SaveEnabled
  BY <1>1, <1>5, <1>7, <1>18 DEF OnSubmit, Send, Form
<1>10. /\ page.form.edit # 0 /\ Submittable(page.form.options)
       /\ \A d \in calls : d.op \in Saves => d.edit # page.form.edit
  BY <1>9 DEF SaveEnabled, Editing, Saving, Form, Saves
<1>11. page.mode = "edit" /\ page.snap.loaded /\ page.id \in Items
  BY <1>2, <1>9, <1>10 DEF PageOK
<1>12. c.edit <= writes'
  BY <1>2, <1>8, <1>9 DEF PageOK, FormOK
<1>13. CallOK(c)'
  <2>1. ValidateOptions(c.options)
    BY <1>8, <1>18
  <2>2. c.id \in Items' /\ bank' = bank
    BY <1>8, <1>9, <1>11 DEF Items
  <2>3. c.next # 0 =>
           /\ c.seen <= bank[c.id].rev
           /\ c.seen = bank[c.id].rev => bank[c.id].cal # "calibrated"
           /\ ~c.picked => c.base < c.seen
    <3>1. /\ page.snap.rev <= bank[page.id].rev
          /\ page.snap.rev = bank[page.id].rev => page.snap.cal = bank[page.id].cal
      BY <1>2, <1>11 DEF PageOK, SnapOK
    <3>2. c.next # 0 => page.snap.cal # "calibrated"
      BY <1>5, <1>8 DEF PresetToSend, CanEditDifficulty, CalibrationShown
    <3>3. c.next # 0 => page.form.preset # page.snap.preset
      BY <1>5, <1>8 DEF PresetToSend, PresetShown, Form
    <3>4. BaseOK(page.form, page.snap)
      BY <1>2, <1>11 DEF PageOK
    <3>5. c.next # 0 /\ ~c.picked => c.base < c.seen
      BY <1>3, <1>8, <3>3, <3>4 DEF BaseOK
    <3> QED
      BY <1>8, <3>1, <3>2, <3>5
  <2> QED
    BY <1>8, <1>12, <2>1, <2>2, <2>3 DEF CallOK
<1>14. ReadOK(c) /\ Shown(c, page) /\ c.op \notin Queries
  BY <1>8, <1>9 DEF ReadOK, Shown, Queries
<1>15. faults = 0 => NotYet(c)
  <2> SUFFICES ASSUME faults = 0, c.edit \in Edits(c.id)
               PROVE  bank[c.id].deleted
    BY <1>8, <1>10 DEF NotYet
  <2>1. FormNotYet(page)
    BY DEF ItemInv, EditInv
  <2>2. bank[page.id].deleted \/ \E d \in calls : Busy(d, page)
    BY <1>8, <1>11, <2>1 DEF FormNotYet
  <2>3. \A d \in calls : ~Busy(d, page)
    BY <1>10 DEF Busy, Saves
  <2> QED
    BY <1>8, <2>2, <2>3
<1>17. c.op \in Saves => \A d \in calls : d.op \in Saves => d.edit # c.edit
  BY <1>8, <1>10
<1> QED
  BY <1>8, <1>9, <1>13, <1>14, <1>15, <1>17, SendStep

LEMMA CreateItemStep ==
  ASSUME ItemInv, CreateItem
  PROVE  ItemInv'
<1>1. PICK b : b = Call("create", 0, page.form.preset)
  OBVIOUS
<1>2. /\ page \in PageType /\ PageOK(page) /\ writes \in Nat
      /\ page.form \in FormType
  BY Typed
<1>3. page.form.edit \in Nat /\ page.form.preset \in Presets \cup {0}
  BY <1>2 DEF FormType
<1>4. /\ b \in CallType /\ b.op = "create" /\ b.phase = "sent" /\ b.live
  <2>1. "create" \in Ops /\ 0 \in Nat
    BY DEF Ops, Saves
  <2> QED
    BY <1>1, <1>3, <2>1, Called
<1>14. PICK t \in TallyType : t = Tally(page.form.options) /\ ValidateOptions(t)
  BY Passes DEF CreateItem, SaveEnabled, Form
<1>5. PICK c : c = [b EXCEPT !.edit = page.form.edit, !.options = t]
  OBVIOUS
<1>6. /\ c \in CallType /\ c.op = "create" /\ c.edit = page.form.edit
      /\ c.options = t /\ c.phase = "sent" /\ c.live
  BY <1>3, <1>4, <1>5 DEF CallType
<1>7. /\ writes < MaxWrites /\ writes' = writes + 1 /\ calls' = calls \cup {c}
      /\ UNCHANGED <<bank, page, others, faults, removed>>
      /\ SaveEnabled
  BY <1>1, <1>5, <1>14 DEF CreateItem, Send, Form
<1>8. /\ page.form.edit # 0 /\ Submittable(page.form.options)
      /\ \A d \in calls : d.op \in Saves => d.edit # page.form.edit
  BY <1>7 DEF SaveEnabled, Editing, Saving, Form, Saves
<1>9. c.edit <= writes'
  BY <1>2, <1>6, <1>7 DEF PageOK, FormOK
<1>10. CallOK(c)'
  BY <1>6, <1>9, <1>14 DEF CallOK
<1>11. /\ ReadOK(c) /\ Shown(c, page) /\ c.op \notin Queries /\ NotYet(c)
  BY <1>6 DEF ReadOK, Shown, Queries, NotYet
<1>13. c.op \in Saves => \A d \in calls : d.op \in Saves => d.edit # c.edit
  BY <1>6, <1>8
<1> QED
  BY <1>6, <1>7, <1>10, <1>11, <1>13, SendStep

\* A change of the status, and a deletion.
LEMMA OrderStep ==
  ASSUME ItemInv, UNCHANGED <<bank, page, others, faults, removed>>,
         writes < MaxWrites, writes' = writes + 1,
         NEW o \in {"status", "delete"}, NEW i \in Items,
         NEW s \in Statuses \cup Screens, o = "status" => s \in Statuses,
         calls' = calls \cup {[Call(o, i, 0) EXCEPT !.status = s]}
  PROVE  ItemInv'
<1>1. PICK b : b = Call(o, i, 0)
  OBVIOUS
<1>2. i \in Nat /\ writes \in Nat
  BY Typed
<1>3. b \in CallType /\ b.op = o /\ b.id = i /\ b.edit = 0
  <2>1. o \in Ops /\ 0 \in Presets \cup {0}
    BY DEF Ops
  <2> QED
    BY <1>1, <1>2, <2>1, Called
<1>4. PICK c : c = [b EXCEPT !.status = s]
  OBVIOUS
<1>5. c \in CallType /\ c.op = o /\ c.id = i /\ c.edit = 0 /\ c.status = s
  BY <1>3, <1>4 DEF CallType
<1>6. CallOK(c)'
  <2>1. i \in Items' /\ 0 <= writes'
    BY <1>2 DEF Items
  <2> QED
    BY <1>5, <2>1 DEF CallOK
<1>7. /\ ReadOK(c) /\ Shown(c, page) /\ c.op \notin Queries /\ NotYet(c)
      /\ c.op \notin Saves
  BY <1>5 DEF ReadOK, Shown, Queries, NotYet, Saves
<1>9. /\ calls' = calls \cup {c}
      /\ UNCHANGED <<bank, page, others, faults, removed>>
  BY <1>1, <1>4
<1> QED
  BY <1>5, <1>6, <1>7, <1>9, SendStep

LEMMA ChangeStatusStep ==
  ASSUME ItemInv, NEW s \in Statuses, ChangeStatus(s)
  PROVE  ItemInv'
<1>1. page.id \in Items
  BY Typed DEF ChangeStatus, DetailShown, PageOK
<1> QED
  BY <1>1, OrderStep DEF ChangeStatus, Send

LEMMA DeleteItemStep ==
  ASSUME ItemInv, DeleteItem
  PROVE  ItemInv'
<1>1. page.target \in Items /\ page.screen \in Screens
  BY Typed DEF DeleteItem, NoDialog, PageOK, PageType
<1> QED
  BY <1>1, OrderStep DEF DeleteItem, Send


-----------------------------------------------------------------------------
(* What the server does. *)

\* A request after its service.
Serves(c, d) ==
    /\ c \in calls /\ d \in CallType
    /\ d.op = c.op /\ d.edit = c.edit /\ d.live = c.live /\ d.status = c.status
    /\ c.op # "version" => d.offset = c.offset
    /\ c.op # "create" => d.id = c.id
    /\ d.op = "item" /\ d.phase = "ok" /\ page.snap.loaded =>
          NoOlder(d.snap, page.snap)
    /\ calls' = (calls \ {c}) \cup {d}

LEMMA ServedCalls ==
  ASSUME ItemInv, Grown, page' = page, NEW c, NEW d, Serves(c, d),
         CallOK(d)', ReadOK(d)'
  PROVE  CallInv' /\ OneSave'
<1>1. Shown(d, page)
  <2>1. Shown(c, page) /\ c \in CallType
    BY DEF Serves, ItemInv, CallInv
  <2>2. /\ d.op = c.op /\ d.edit = c.edit /\ d.live = c.live /\ d.status = c.status
        /\ d.op = "list" => d.offset = c.offset
        /\ d.op = "item" => d.id = c.id
        /\ d.op = "item" /\ d.phase = "ok" /\ page.snap.loaded =>
              NoOlder(d.snap, page.snap)
    BY DEF Serves
  <2> QED
    BY <2>1, <2>2 DEF Shown
<1>2. ASSUME NEW b \in calls'
      PROVE  b \in CallType /\ CallOK(b)' /\ ReadOK(b)' /\ Shown(b, page)'
  <2>1. CASE b \in calls
    <3>1. b \in CallType /\ CallOK(b) /\ ReadOK(b) /\ Shown(b, page)
      BY <2>1 DEF ItemInv, CallInv
    <3>2. Shown(b, page)'
      BY <3>1 DEF Shown
    <3> QED
      BY <3>1, <3>2, CallKept
  <2>2. CASE b = d
    <3>1. Shown(d, page)'
      BY <1>1 DEF Shown
    <3> QED
      BY <2>2, <3>1 DEF Serves
  <2> QED
    BY <2>1, <2>2 DEF Serves
<1>3. \A a, b \in calls' : a.op = b.op /\ a.op \in Queries => a = b
  BY DEF ItemInv, CallInv, Serves
<1>4. OneSave'
  BY DEF ItemInv, OneSave, Serves
<1> QED
  BY <1>2, <1>3, <1>4 DEF CallInv

\* A service that commits nothing.
LEMMA LookStep ==
  ASSUME ItemInv, UNCHANGED <<bank, page, writes, others, faults, removed>>,
         NEW c, NEW d, Serves(c, d), CallOK(d), ReadOK(d),
         NotYet(c) => NotYet(d),
         Busy(c, page) => Busy(d, page)
  PROVE  ItemInv'
<1>1. UNCHANGED <<removed>>
  OBVIOUS
<1>2. Grown /\ BankInv'
  BY <1>1, BankStays
<1>3. CallOK(d)' /\ ReadOK(d)'
  BY <1>2, CallKept DEF Serves
<1>4. CallInv' /\ OneSave'
  BY <1>2, <1>3, ServedCalls
<1>5. PageInv'
  BY <1>1, <1>2, PageKept, Typed DEF PageInv
<1>6. EditInv'
  <2>1. ASSUME faults = 0, NEW b \in calls'
        PROVE  NotYet(b)'
    <3>1. NotYet(b)
      BY <2>1 DEF ItemInv, EditInv, Serves
    <3> QED
      BY <3>1 DEF NotYet, Edits
  <2>2. ASSUME faults = 0, NEW i \in Items'
        PROVE  Distinct(i)'
    BY <2>2 DEF ItemInv, EditInv, Distinct, Items
  <2>3. ASSUME faults = 0
        PROVE  FormNotYet(page)'
    <3>1. FormNotYet(page)
      BY <2>3 DEF ItemInv, EditInv
    <3>2. ASSUME NEW b \in calls, Busy(b, page)
          PROVE  \E a \in calls' : Busy(a, page)
      BY <3>2 DEF Serves
    <3> QED
      BY <3>1, <3>2 DEF FormNotYet, Edits, Busy
  <2> QED
    BY <2>1, <2>2, <2>3 DEF EditInv
<1>7. CountInv'
  BY <1>1 DEF ItemInv, CountInv
<1> QED
  BY <1>2, <1>4, <1>5, <1>6, <1>7 DEF ItemInv

LEMMA Refusal ==
  ASSUME ItemInv, NEW c \in calls, NEW d, d = Refused(c),
         c.phase = "sent", calls' = (calls \ {c}) \cup {d},
         c.op \in {"item", "version", "preset", "status", "delete", "create"},
         c.op = "preset" => bank[c.id].deleted
  PROVE  /\ Serves(c, d) /\ CallOK(d) /\ ReadOK(d)
         /\ NotYet(c) => NotYet(d)
         /\ Busy(c, page) => Busy(d, page)
<1>1. c \in CallType /\ CallOK(c)
  BY DEF ItemInv, CallInv
<1>2. /\ d \in CallType /\ d.op = c.op /\ d.edit = c.edit /\ d.live = c.live
      /\ d.status = c.status /\ d.offset = c.offset /\ d.id = c.id
      /\ d.phase = "refused" /\ d.options = c.options /\ d.seen = c.seen
      /\ d.next = c.next /\ d.base = c.base /\ d.picked = c.picked
  BY <1>1 DEF Refused, CallType
<1>3. Serves(c, d)
  BY <1>2 DEF Serves
<1>4. CallOK(d)
  BY <1>1, <1>2 DEF CallOK
<1>5. ReadOK(d) /\ (NotYet(c) => NotYet(d)) /\ (Busy(c, page) => Busy(d, page))
  BY <1>2 DEF ReadOK, NotYet, Busy
<1> QED
  BY <1>3, <1>4, <1>5

\* A page of a list is no longer than it should be, for the rows of a list are
\* told apart by how many are newer.
LEMMA RowsFit ==
  ASSUME ItemInv, NEW s, NEW o \in Nat
  PROVE  /\ Rows(s, o) \subseteq Items /\ IsFiniteSet(Rows(s, o))
         /\ Cardinality(Rows(s, o)) <= PageSize
         /\ IsFiniteSet(Matching(s)) /\ Cardinality(Matching(s)) \in Nat
<1>1. Items = 1 .. Len(bank) /\ Len(bank) \in Nat /\ PageSize \in Nat \ {0}
  BY Typed
<1>2. PICK M : M = Matching(s)
  OBVIOUS
<1>3. M \subseteq Items /\ M \subseteq Nat
  BY <1>1, <1>2 DEF Matching
<1>4. IsFiniteSet(Items)
  <2>1. IsFiniteSet(1 .. Len(bank))
    BY <1>1, FS_Interval
  <2> QED
    BY <1>1, <2>1
<1>5. IsFiniteSet(M) /\ Cardinality(M) \in Nat
  BY <1>3, <1>4, FS_Subset, FS_CardinalityType
<1>6. ASSUME NEW i \in M
      PROVE  IsFiniteSet(Newer(i, M)) /\ Cardinality(Newer(i, M)) \in Nat
  <2>1. Newer(i, M) \subseteq M
    BY DEF Newer
  <2> QED
    BY <1>5, <2>1, FS_Subset, FS_CardinalityType
<1>7. ASSUME NEW i \in M, NEW j \in M, i < j
      PROVE  Cardinality(Newer(i, M)) > Cardinality(Newer(j, M))
  <2>1. /\ IsFiniteSet(Newer(j, M)) /\ Cardinality(Newer(j, M)) \in Nat
        /\ IsFiniteSet(Newer(i, M)) /\ Cardinality(Newer(i, M)) \in Nat
    BY <1>6
  <2>2. j \notin Newer(j, M) /\ Newer(j, M) \cup {j} \subseteq Newer(i, M)
    <3>1. i \in Nat /\ j \in Nat /\ ~(j > j) /\ j > i
      BY <1>3, <1>7
    <3>2. ASSUME NEW k \in Newer(j, M)
          PROVE  k \in Newer(i, M)
      <4>1. k \in M /\ k > j /\ k \in Nat
        BY <1>3 DEF Newer
      <4>2. k > i
        BY <3>1, <4>1
      <4> QED
        BY <4>1, <4>2 DEF Newer
    <3> QED
      BY <3>1, <3>2 DEF Newer
  <2>3. Cardinality(Newer(j, M) \cup {j}) = Cardinality(Newer(j, M)) + 1
    BY <2>1, <2>2, FS_AddElement
  <2>4. Cardinality(Newer(j, M) \cup {j}) <= Cardinality(Newer(i, M))
    BY <2>1, <2>2, FS_Subset
  <2> QED
    BY <2>1, <2>3, <2>4
<1>8. PICK R : R = Rows(s, o)
  OBVIOUS
<1>9. R = {i \in M : /\ Cardinality(Newer(i, M)) >= o
                     /\ Cardinality(Newer(i, M)) < o + PageSize}
  BY <1>2, <1>8 DEF Rows
<1>10. PICK f : f = [i \in R |-> Cardinality(Newer(i, M))]
  OBVIOUS
<1>11. f \in Injection(R, o .. o + PageSize - 1)
  <2>1. ASSUME NEW i \in R
        PROVE  /\ i \in M /\ f[i] = Cardinality(Newer(i, M))
               /\ f[i] \in o .. o + PageSize - 1
    <3>1. /\ i \in M /\ Cardinality(Newer(i, M)) \in Nat
          /\ Cardinality(Newer(i, M)) >= o
          /\ Cardinality(Newer(i, M)) < o + PageSize
      BY <1>6, <1>9
    <3>2. f[i] = Cardinality(Newer(i, M))
      BY <1>10
    <3> QED
      BY <1>1, <3>1, <3>2
  <2>2. ASSUME NEW i \in R, NEW j \in R, f[i] = f[j]
        PROVE  i = j
    <3>1. i \in Nat /\ j \in Nat /\ i \in M /\ j \in M
      BY <1>3, <2>1
    <3>2. /\ Cardinality(Newer(i, M)) \in Nat /\ Cardinality(Newer(j, M)) \in Nat
          /\ Cardinality(Newer(i, M)) = Cardinality(Newer(j, M))
      BY <1>6, <2>1, <2>2, <3>1
    <3>3. ~(i < j) /\ ~(j < i)
      BY <1>7, <3>1, <3>2
    <3> QED
      BY <3>1, <3>3
  <2>3. f \in [R -> o .. o + PageSize - 1]
    BY <1>10, <2>1
  <2> QED
    BY <2>2, <2>3 DEF Injection, IsInjective
<1>12. /\ IsFiniteSet(o .. o + PageSize - 1)
       /\ Cardinality(o .. o + PageSize - 1) = PageSize
  <2>1. PICK e \in Int : e = o + PageSize - 1
    BY <1>1
  <2>2. IsFiniteSet(o .. e) /\ Cardinality(o .. e) = IF o > e THEN 0 ELSE e - o + 1
    BY FS_Interval
  <2> QED
    BY <1>1, <2>1, <2>2
<1>13. PICK B : B = o .. o + PageSize - 1
  OBVIOUS
<1>14. IsFiniteSet(R) /\ Cardinality(R) <= Cardinality(B)
  BY <1>11, <1>12, <1>13, FS_Injection DEF ExistsInjection
<1>15. R \subseteq Items
  BY <1>3, <1>9
<1> QED
  BY <1>2, <1>5, <1>8, <1>12, <1>13, <1>14, <1>15

\* As long as no question has left a list, the page before the last one is not
\* empty.
LEMMA RowsReach ==
  ASSUME ItemInv, ~removed, NEW s, NEW o \in Nat
  PROVE  /\ Cardinality(Matching(s)) <= Reach(s)
         /\ o < Reach(s) => Rows(s, o) # {}
<1>1. Items = 1 .. Len(bank) /\ Len(bank) \in Nat /\ PageSize \in Nat \ {0}
  BY Typed
<1>2. \A i \in Items : Live(i) /\ bank[i].status = "draft"
  BY DEF ItemInv, BankInv
<1>3. CASE s \in {"all", "draft"}
  <2>1. Matching(s) = 1 .. Len(bank)
    BY <1>1, <1>2, <1>3 DEF Matching
  <2>2. Reach(s) = Len(bank)
    BY <1>3 DEF Reach
  <2>3. Cardinality(1 .. Len(bank)) = Len(bank)
    <3>1. Cardinality(1 .. Len(bank))
             = IF 1 > Len(bank) THEN 0 ELSE Len(bank) - 1 + 1
      BY <1>1, FS_Interval
    <3> QED
      BY <1>1, <3>1
  <2>4. ASSUME o < Len(bank)
        PROVE  Rows(s, o) # {}
    <3>1. PICK i \in Nat : i = Len(bank) - o
      BY <1>1, <2>4
    <3>2. PICK e \in Nat : e = Len(bank)
      BY <1>1
    <3>3. Newer(i, 1 .. e) = i + 1 .. e
      BY <1>1, <2>4, <3>1, <3>2 DEF Newer
    <3>4. Cardinality(i + 1 .. e) = o
      <4>1. PICK a \in Nat : a = i + 1
        BY <3>1
      <4>2. Cardinality(a .. e) = IF a > e THEN 0 ELSE e - a + 1
        BY FS_Interval
      <4> QED
        BY <2>4, <3>1, <3>2, <4>1, <4>2
    <3>5. i \in 1 .. e
      BY <2>4, <3>1, <3>2
    <3>6. Cardinality(Newer(i, Matching(s))) = o
      BY <2>1, <3>2, <3>3, <3>4
    <3>7. o >= o /\ o < o + PageSize
      BY <1>1
    <3>8. i \in Rows(s, o)
      BY <2>1, <3>2, <3>5, <3>6, <3>7 DEF Rows
    <3> QED
      BY <3>8
  <2> QED
    BY <1>1, <2>1, <2>2, <2>3, <2>4
<1>4. CASE s \notin {"all", "draft"}
  <2>1. Matching(s) = {}
    BY <1>2, <1>4 DEF Matching
  <2>2. Reach(s) = 0 /\ Cardinality({}) = 0
    BY <1>4, FS_EmptySet DEF Reach
  <2> QED
    BY <2>1, <2>2
<1> QED
  BY <1>3, <1>4


LEMMA ServeListStep ==
  ASSUME ItemInv, NEW c \in calls, ServeList(c)
  PROVE  ItemInv'
<1>1. PICK l : l = [loaded |-> TRUE, rows |-> Rows(c.status, c.offset),
                    total |-> Cardinality(Matching(c.status))]
  OBVIOUS
<1>2. PICK d : d = [Done(c) EXCEPT !.list = l]
  OBVIOUS
<1>3. /\ c.op = "list" /\ calls' = (calls \ {c}) \cup {d}
      /\ UNCHANGED <<bank, page, writes, others, faults, removed>>
  BY <1>1, <1>2 DEF ServeList, Answered, Elsewhere
<1>4. /\ c \in CallType /\ CallOK(c) /\ c.offset \in Nat /\ c.edit \in Nat
      /\ c.status = page.filter /\ c.offset = page.offset
  BY <1>3 DEF ItemInv, CallInv, Shown, CallType
<1>5. l \in ListType /\ l.loaded /\ l.rows = Rows(c.status, c.offset)
      /\ l.total = Cardinality(Matching(c.status))
  <2>1. Items \subseteq Nat
    BY Typed
  <2>2. Rows(c.status, c.offset) \in SUBSET Nat
    BY <1>4, <2>1, RowsFit
  <2>3. Cardinality(Matching(c.status)) \in Nat
    BY <1>4, RowsFit
  <2> QED
    BY <1>1, <2>2, <2>3 DEF ListType
<1>6. ListOK(l, c.status, c.offset)
  <2>1. /\ l.rows \subseteq Items /\ IsFiniteSet(l.rows)
        /\ Cardinality(l.rows) <= PageSize
    BY <1>4, <1>5, RowsFit
  <2>2. ASSUME ~removed
        PROVE  /\ l.total <= Reach(c.status)
               /\ c.offset # 0 => l.rows # {}
    <3>1. OffsetOK(c.status, c.offset)
      BY <1>4, Typed DEF PageOK
    <3>2. c.offset # 0 => c.offset < Reach(c.status)
      BY <2>2, <3>1 DEF OffsetOK
    <3> QED
      BY <1>4, <1>5, <2>2, <3>2, RowsReach
  <2> QED
    BY <2>1, <2>2 DEF ListOK
<1>7. /\ d \in CallType /\ d.op = "list" /\ d.edit = c.edit /\ d.live = c.live
      /\ d.status = c.status /\ d.offset = c.offset /\ d.id = c.id /\ d.list = l
  BY <1>2, <1>3, <1>4, <1>5 DEF Done, CallType
<1>8. CallOK(d)
  BY <1>4, <1>6, <1>7 DEF CallOK
<1>9. ReadOK(d) /\ NotYet(d) /\ ~Busy(c, page)
  BY <1>3, <1>7 DEF ReadOK, NotYet, Busy
<1>10. Serves(c, d)
  BY <1>3, <1>7 DEF Serves
<1> QED
  BY <1>3, <1>8, <1>9, <1>10, LookStep

LEMMA ServeItemStep ==
  ASSUME ItemInv, NEW c \in calls, ServeItem(c)
  PROVE  ItemInv'
<1>1. /\ c.op = "item" /\ c.phase = "sent"
      /\ UNCHANGED <<bank, page, writes, others, faults, removed>>
  BY DEF ServeItem, Elsewhere
<1>2. CASE ~Live(c.id)
  <2>1. PICK d : d = Refused(c)
    OBVIOUS
  <2>2. calls' = (calls \ {c}) \cup {d}
    BY <1>2, <2>1 DEF ServeItem, Answered
  <2> QED
    BY <1>1, <2>1, <2>2, Refusal, LookStep
<1>3. CASE Live(c.id)
  <2>1. PICK s : s = Snap(c.id)
    OBVIOUS
  <2>2. PICK d : d = [Done(c) EXCEPT !.snap = s]
    OBVIOUS
  <2>3. calls' = (calls \ {c}) \cup {d}
    BY <1>3, <2>1, <2>2 DEF ServeItem, Answered
  <2>4. c \in CallType /\ CallOK(c) /\ c.id \in Items
    BY <1>1 DEF ItemInv, CallInv, CallOK
  <2>5. bank[c.id] \in ItemType /\ bank[c.id].rev \in Nat
    BY <2>4, Typed
  <2>6. s \in SnapType /\ s.loaded /\ SnapOK(s, c.id)
    BY <2>1, <2>4, <2>5 DEF Snap, SnapType, SnapOK, ItemType
  <2>7. /\ d \in CallType /\ d.op = "item" /\ d.edit = c.edit /\ d.live = c.live
        /\ d.status = c.status /\ d.offset = c.offset /\ d.id = c.id /\ d.snap = s
    BY <1>1, <2>2, <2>4, <2>6 DEF Done, CallType
  <2>8. CallOK(d)
    BY <2>4, <2>6, <2>7 DEF CallOK
  <2>9. ReadOK(d) /\ NotYet(d) /\ ~Busy(c, page)
    BY <1>1, <2>7 DEF ReadOK, NotYet, Busy
  <2>11. page.snap.loaded => NoOlder(s, page.snap)
    <3>1. c.id = page.id /\ SnapOK(page.snap, page.id)
      BY <1>1, Typed DEF ItemInv, CallInv, Shown, PageOK
    <3> QED
      BY <2>1, <3>1 DEF Snap, SnapOK, NoOlder
  <2>10. Serves(c, d)
    BY <1>1, <2>3, <2>7, <2>11 DEF Serves
  <2> QED
    BY <1>1, <2>8, <2>9, <2>10, LookStep
<1> QED
  BY <1>2, <1>3

LEMMA ServeUploadStep ==
  ASSUME ItemInv, NEW c \in calls, ServeUpload(c)
  PROVE  ItemInv'
<1>1. PICK d : d = Done(c)
  OBVIOUS
<1>2. /\ c.op = "upload" /\ calls' = (calls \ {c}) \cup {d}
      /\ UNCHANGED <<bank, page, writes, others, faults, removed>>
  BY <1>1 DEF ServeUpload, Answered, Elsewhere
<1>3. c \in CallType /\ CallOK(c)
  BY DEF ItemInv, CallInv
<1>4. /\ d \in CallType /\ d.op = "upload" /\ d.edit = c.edit /\ d.live = c.live
      /\ d.status = c.status /\ d.offset = c.offset /\ d.id = c.id
  BY <1>1, <1>2, <1>3 DEF Done, CallType
<1>5. CallOK(d) /\ ReadOK(d) /\ NotYet(d) /\ ~Busy(c, page)
  BY <1>2, <1>3, <1>4 DEF CallOK, ReadOK, NotYet, Busy
<1>6. Serves(c, d)
  BY <1>2, <1>4 DEF Serves
<1> QED
  BY <1>2, <1>5, <1>6, LookStep

\* The least of some numbers.
LEMMA Least ==
  ASSUME NEW T, T \subseteq Nat, T # {}
  PROVE  \E n \in T : \A m \in T : n <= m
<1> DEFINE Below == {p \in Nat \X Nat : p[1] < p[2]}
<1>1. IsWellFoundedOn(Below, Nat)
  BY NatLessThanWellFounded DEF OpToRel
<1>2. ASSUME NEW x \in Nat, NEW y \in Nat, y < x
      PROVE  <<y, x>> \in Below
  BY <1>2
<1> HIDE DEF Below
<1>3. PICK x \in T : \A y \in T : ~ (<<y, x>> \in Below)
  BY <1>1, WFMin
<1>4. \A y \in T : ~ (y < x)
  BY <1>2, <1>3
<1> QED
  BY <1>4

LEMMA HighestIs ==
  ASSUME ItemInv, NEW i \in Items
  PROVE  /\ Highest(i) \in 1 .. Len(bank[i].versions)
         /\ Unraced(bank[i].versions, Len(bank[i].versions)) =>
               Highest(i) = Len(bank[i].versions)
<1>1. PICK v : v = bank[i].versions
  OBVIOUS
<1>2. PICK n \in Nat : n = Len(v)
  BY <1>1, Typed
<1>3. /\ v \in Seq(VersionType) /\ DOMAIN v = 1 .. n /\ n # 0 /\ Numbered(v)
  BY <1>1, <1>2, Typed DEF ItemOK
<1>4. ASSUME NEW k \in 1 .. n
      PROVE  /\ v[k].number \in Nat /\ v[k].number <= k /\ v[k].number >= 1
             /\ Unraced(v, k) => v[k].number = k
  BY <1>2, <1>3, <1>4 DEF Numbered
<1>5. PICK N : N = Numbers(i)
  OBVIOUS
<1>6. N = {v[k].number : k \in 1 .. n}
  BY <1>1, <1>3, <1>5 DEF Numbers
<1>7. \A m \in N : m \in 1 .. n
  BY <1>4, <1>6
<1>8. PICK T : T = {n - m : m \in N}
  OBVIOUS
<1>9. T \subseteq Nat /\ T # {}
  <2>1. T \subseteq Nat
    BY <1>7, <1>8
  <2>2. v[1].number \in N
    BY <1>3, <1>6
  <2> QED
    BY <1>8, <2>1, <2>2
<1>10. PICK t \in T : \A u \in T : t <= u
  BY <1>9, Least
<1>11. PICK h \in N : t = n - h
  BY <1>8, <1>10
<1>12. ASSUME NEW m \in N
       PROVE  m <= h
  <2>1. n - m \in T
    BY <1>8
  <2>2. n - h <= n - m
    BY <1>10, <1>11, <2>1
  <2>3. m \in 1 .. n /\ h \in 1 .. n
    BY <1>7
  <2> QED
    BY <2>2, <2>3
<1>13. Highest(i) \in N /\ \A m \in N : m <= Highest(i)
  BY <1>5, <1>12 DEF Highest
<1>14. Highest(i) \in 1 .. n
  BY <1>7, <1>13
<1>15. ASSUME Unraced(v, n)
       PROVE  Highest(i) = n
  <2>1. n \in 1 .. n
    BY <1>3
  <2>2. v[n].number = n
    BY <1>4, <1>15, <2>1
  <2>3. n \in N
    BY <1>6, <2>1, <2>2
  <2>4. n <= Highest(i)
    BY <1>13, <2>3
  <2> QED
    BY <1>14, <2>4
<1> QED
  BY <1>1, <1>2, <1>14, <1>15

LEMMA ReadMaxVersionStep ==
  ASSUME ItemInv, NEW c \in calls, ReadMaxVersion(c)
  PROVE  ItemInv'
<1>1. /\ c.op = "version" /\ c.phase = "sent"
      /\ UNCHANGED <<bank, page, writes, others, faults, removed>>
  BY DEF ReadMaxVersion, MaxRead, Elsewhere
<1>2. c \in CallType /\ CallOK(c) /\ c.id \in Items
  BY <1>1 DEF ItemInv, CallInv, CallOK
<1>3. CASE ~Live(c.id) \/ ~ValidateOptions(c.options)
  <2>1. PICK d : d = Refused(c)
    OBVIOUS
  <2>2. calls' = (calls \ {c}) \cup {d}
    BY <1>3, <2>1 DEF ReadMaxVersion, MaxRead, Answered
  <2> QED
    BY <1>1, <2>1, <2>2, Refusal, LookStep
<1>4. CASE Live(c.id) /\ ValidateOptions(c.options)
  <2>1. PICK n : n = Highest(c.id) + 1
    OBVIOUS
  <2>2. PICK m \in Nat : m = Len(bank[c.id].versions)
    BY <1>2, Typed
  <2>3. PICK d : d = [c EXCEPT !.phase = "read", !.offset = n, !.at = m]
    OBVIOUS
  <2>4. calls' = (calls \ {c}) \cup {d}
    BY <1>4, <2>1, <2>2, <2>3 DEF ReadMaxVersion, MaxRead, Answered
  <2>5. /\ n \in Nat /\ m # 0 /\ n \in 1 .. m + 1
        /\ Unraced(bank[c.id].versions, m) => n = m + 1
    <3>1. /\ Highest(c.id) \in 1 .. m
          /\ Unraced(bank[c.id].versions, m) => Highest(c.id) = m
      BY <1>2, <2>2, HighestIs
    <3> QED
      BY <2>1, <2>2, <3>1
  <2>6. /\ d \in CallType /\ d.op = "version" /\ d.edit = c.edit /\ d.live = c.live
        /\ d.status = c.status /\ d.offset = n /\ d.id = c.id /\ d.at = m
        /\ d.phase = "read" /\ d.options = c.options /\ d.seen = c.seen
        /\ d.next = c.next /\ d.base = c.base /\ d.picked = c.picked
    BY <1>1, <1>2, <2>2, <2>3, <2>5 DEF CallType
  <2>7. CallOK(d)
    BY <1>1, <1>2, <2>6 DEF CallOK
  <2>8. ReadOK(d)
    <3>1. m \in 1 .. Len(bank[c.id].versions)
      BY <2>2, <2>5
    <3> QED
      BY <2>5, <2>6, <3>1 DEF ReadOK
  <2>9. (NotYet(c) => NotYet(d)) /\ ~Busy(c, page)
    BY <1>1, <1>4, <2>6 DEF NotYet, Busy, Live
  <2>10. Serves(c, d)
    BY <1>1, <2>4, <2>6 DEF Serves
  <2> QED
    BY <1>1, <2>7, <2>8, <2>9, <2>10, LookStep
<1> QED
  BY <1>3, <1>4


-----------------------------------------------------------------------------
(* What is committed. *)

Commits(i, b) ==
    /\ b \in ItemType /\ bank' = [bank EXCEPT ![i] = b]
    /\ ItemGrows(bank[i], b) /\ ItemOK(b)
    /\ removed' \in BOOLEAN /\ (removed => removed')
    /\ ~removed' => ~b.deleted /\ b.status = "draft"
    /\ writes' = writes

LEMMA Committed ==
  ASSUME ItemInv, NEW i \in Items, NEW b, Commits(i, b)
  PROVE  /\ Grown /\ BankInv' /\ Items' = Items /\ bank'[i] = b
         /\ \A j \in Items : j # i => bank'[j] = bank[j]
<1>1. /\ bank \in Seq(ItemType) /\ Items = 1 .. Len(bank) /\ Len(bank) \in Nat
      /\ writes \in Nat
  BY Typed
<1>2. /\ b \in ItemType /\ bank' = [bank EXCEPT ![i] = b]
      /\ ItemGrows(bank[i], b) /\ ItemOK(b) /\ writes' = writes
  BY DEF Commits
<1>3. /\ bank' \in Seq(ItemType) /\ Len(bank') = Len(bank) /\ Items' = Items
      /\ bank'[i] = b /\ \A j \in Items : j # i => bank'[j] = bank[j]
  BY <1>1, <1>2 DEF Items
<1>4. ASSUME NEW j \in Items
      PROVE  ItemGrows(bank[j], bank'[j]) /\ ItemOK(bank'[j])
  <2>1. CASE j = i
    BY <1>2, <1>3, <2>1
  <2>2. CASE j # i
    <3>1. ItemOK(bank[j]) /\ bank[j].rev \in Nat /\ Len(bank[j].versions) \in Nat
      BY Typed
    <3>2. ItemGrows(bank[j], bank[j])
      BY <3>1 DEF ItemGrows
    <3> QED
      BY <1>3, <2>2, <3>1, <3>2
  <2> QED
    BY <2>1, <2>2
<1>5. Grown
  BY <1>1, <1>2, <1>3, <1>4 DEF Grown, Commits
<1>6. \A j \in Items' : ItemOK(bank[j])'
  BY <1>2, <1>3, <1>4 DEF ItemOK
<1>7. ~removed' => \A j \in Items' : Live(j)' /\ bank'[j].status = "draft"
  <2> SUFFICES ASSUME ~removed', NEW j \in Items
               PROVE  ~bank'[j].deleted /\ bank'[j].status = "draft"
    BY <1>3 DEF Live
  <2>1. ~removed
    BY DEF Commits
  <2>2. ~bank[j].deleted /\ bank[j].status = "draft"
    BY <2>1 DEF ItemInv, BankInv, Live
  <2> QED
    BY <1>3, <2>2 DEF Commits
<1>8. BankInv'
  BY <1>3, <1>6, <1>7 DEF BankInv, Commits
<1> QED
  BY <1>3, <1>5, <1>8

\* The requests after a commit: all of them, or one is served.
CallsAfter(c, d) ==
    \/ calls' = calls
    \/ Serves(c, d) /\ CallOK(d)' /\ ReadOK(d)'

LEMMA AfterCommit ==
  ASSUME ItemInv, Grown, BankInv', page' = page,
         NEW c, NEW d, CallsAfter(c, d), CountInv', EditInv'
  PROVE  ItemInv'
<1>1. CallInv' /\ OneSave'
  <2>1. CASE calls' = calls
    <3>1. ASSUME NEW b \in calls
          PROVE  b \in CallType /\ CallOK(b)' /\ ReadOK(b)' /\ Shown(b, page)'
      <4>1. b \in CallType /\ CallOK(b) /\ ReadOK(b) /\ Shown(b, page)
        BY DEF ItemInv, CallInv
      <4>2. Shown(b, page)'
        BY <4>1 DEF Shown
      <4> QED
        BY <4>1, <4>2, CallKept
    <3> QED
      BY <2>1, <3>1 DEF ItemInv, CallInv, OneSave
  <2>2. CASE Serves(c, d) /\ CallOK(d)' /\ ReadOK(d)'
    BY <2>2, ServedCalls
  <2> QED
    BY <2>1, <2>2 DEF CallsAfter
<1>2. PageInv'
  BY PageKept, Typed DEF PageInv
<1> QED
  BY <1>1, <1>2 DEF ItemInv

\* Edits of the versions there are, when none is added.
LEMMA EditsStay ==
  ASSUME ItemInv, page' = page, faults' = faults, Items \subseteq Items',
         \A i \in Items : /\ bank'[i].versions = bank[i].versions
                          /\ bank[i].deleted => bank'[i].deleted,
         \A i \in Items' : i \notin Items => Distinct(i)',
         NEW c, NEW d,
         \/ calls' = calls
         \/ /\ Serves(c, d)
            /\ NotYet(c) => NotYet(d)
            /\ Busy(c, page) => Busy(d, page),
         d.op = "version" => d.id \in Items
  PROVE  EditInv'
<1>1. \A i \in Items : Edits(i)' = Edits(i)
  BY DEF Edits
<1>2. ASSUME NEW b \in CallType, NotYet(b), b.op = "version" => b.id \in Items
      PROVE  NotYet(b)'
  BY <1>1, <1>2 DEF NotYet
<1>3. ASSUME faults = 0, NEW b \in calls'
      PROVE  NotYet(b)'
  <2>1. CASE b \in calls
    <3>1. /\ b \in CallType /\ NotYet(b)
          /\ b.op = "version" => b.id \in Items
      BY <1>3, <2>1 DEF ItemInv, EditInv, CallInv, CallOK
    <3> QED
      BY <1>2, <3>1
  <2>2. CASE b = d /\ Serves(c, d) /\ (NotYet(c) => NotYet(d))
    <3>1. b \in CallType /\ NotYet(b)
      BY <1>3, <2>2 DEF ItemInv, EditInv, Serves
    <3> QED
      BY <1>2, <2>2, <3>1
  <2> QED
    BY <1>3, <2>1, <2>2 DEF Serves
<1>4. ASSUME faults = 0, NEW i \in Items'
      PROVE  Distinct(i)'
  BY <1>4 DEF ItemInv, EditInv, Distinct
<1>5. ASSUME faults = 0
      PROVE  FormNotYet(page)'
  <2> SUFFICES ASSUME page.mode = "edit", page.form.edit \in Edits(page.id)'
               PROVE  bank'[page.id].deleted \/ \E a \in calls' : Busy(a, page)
    BY DEF FormNotYet, Busy, Edits
  <2>1. page.id \in Items
    BY Typed DEF PageOK
  <2>2. bank[page.id].deleted \/ \E b \in calls : Busy(b, page)
    BY <1>1, <1>5, <2>1 DEF ItemInv, EditInv, FormNotYet
  <2>3. ASSUME NEW b \in calls, Busy(b, page)
        PROVE  \E a \in calls' : Busy(a, page)
    BY <2>3 DEF Serves
  <2> QED
    BY <2>1, <2>2, <2>3
<1> QED
  BY <1>3, <1>4, <1>5 DEF EditInv

LEMMA NoVersionStep ==
  ASSUME ItemInv, UNCHANGED <<page, faults>>, CountInv',
         NEW i \in Items, NEW b, Commits(i, b), b.versions = bank[i].versions,
         NEW c, NEW d, CallsAfter(c, d),
         NotYet(c) => NotYet(d), Busy(c, page) => Busy(d, page),
         d.op # "version"
  PROVE  ItemInv'
<1>1. /\ Grown /\ BankInv' /\ Items' = Items /\ bank'[i] = b
      /\ \A j \in Items : j # i => bank'[j] = bank[j]
  BY Committed
<1>2. \A j \in Items : /\ bank'[j].versions = bank[j].versions
                       /\ bank[j].deleted => bank'[j].deleted
  BY <1>1 DEF Commits, ItemGrows
<1>3. \A j \in Items' : j \notin Items => Distinct(j)'
  BY <1>1
<1>4. \/ calls' = calls
      \/ /\ Serves(c, d)
         /\ NotYet(c) => NotYet(d)
         /\ Busy(c, page) => Busy(d, page)
  BY DEF CallsAfter
<1>5. EditInv'
  BY <1>1, <1>2, <1>3, <1>4, EditsStay
<1> QED
  BY <1>1, <1>5, AfterCommit

\* The request that is served without a version.
LEMMA Carried ==
  ASSUME ItemInv, NEW c \in calls, c.op \in {"preset", "status", "delete"},
         NEW d, d = Done(c), calls' = (calls \ {c}) \cup {d}, Grown, writes' = writes
  PROVE  /\ CallsAfter(c, d) /\ (NotYet(c) => NotYet(d))
         /\ (Busy(c, page) => Busy(d, page)) /\ d.op # "version"
<1>1. c \in CallType /\ CallOK(c)
  BY DEF ItemInv, CallInv
<1>2. /\ d \in CallType /\ d.op = c.op /\ d.edit = c.edit /\ d.live = c.live
      /\ d.status = c.status /\ d.offset = c.offset /\ d.id = c.id
      /\ d.phase = "ok" /\ d.seen = c.seen /\ d.base = c.base
      /\ d.picked = c.picked
  BY <1>1 DEF Done, CallType
<1>3. Serves(c, d)
  BY <1>2 DEF Serves
<1>4. CallOK(d) /\ ReadOK(d)
  BY <1>1, <1>2 DEF CallOK, ReadOK
<1>5. CallOK(d)' /\ ReadOK(d)'
  BY <1>2, <1>4, CallKept
<1> QED
  BY <1>2, <1>3, <1>5 DEF CallsAfter, NotYet, Busy

LEMMA PresetItem ==
  ASSUME ItemInv, NEW i \in Items, NEW z \in Presets \cup {0},
         NEW k \in {"pre_set", "calibrated"},
         bank' = [bank EXCEPT ![i].preset = z, ![i].cal = k, ![i].rev = @ + 1],
         writes' = writes, removed' = removed
  PROVE  \E b : Commits(i, b) /\ b.versions = bank[i].versions
<1>1. /\ bank[i] \in ItemType /\ ItemOK(bank[i]) /\ bank[i].rev \in Nat
      /\ Len(bank[i].versions) \in Nat /\ bank \in Seq(ItemType)
      /\ Items = DOMAIN bank
  BY Typed DEF Items
<1>2. PICK r \in Nat : r = bank[i].rev + 1
  BY <1>1
<1>3. PICK b : b = [bank[i] EXCEPT !.preset = z, !.cal = k, !.rev = r]
  OBVIOUS
<1>4. bank' = [bank EXCEPT ![i] = b]
  BY <1>1, <1>2, <1>3
<1>5. /\ b \in ItemType /\ b.versions = bank[i].versions
      /\ b.current = bank[i].current /\ b.status = bank[i].status
      /\ b.preset = z /\ b.cal = k /\ b.rev = r /\ b.deleted = bank[i].deleted
  BY <1>1, <1>3 DEF ItemType, Cals
<1>6. ItemGrows(bank[i], b)
  <2>1. bank[i].rev <= b.rev /\ bank[i].rev # b.rev
    BY <1>1, <1>2, <1>5
  <2> QED
    BY <1>1, <1>5, <2>1 DEF ItemGrows
<1>7. ItemOK(b)
  BY <1>1, <1>5 DEF ItemOK
<1>8. removed \in BOOLEAN /\ (~removed => ~b.deleted /\ b.status = "draft")
  BY <1>5 DEF ItemInv, BankInv, Live
<1> QED
  BY <1>4, <1>5, <1>6, <1>7, <1>8 DEF Commits

LEMMA ServePresetStep ==
  ASSUME ItemInv, NEW c \in calls, ServePreset(c)
  PROVE  ItemInv'
<1>1. /\ c.op = "preset" /\ c.phase = "sent"
      /\ UNCHANGED <<page, writes, others, faults, removed>>
  BY DEF ServePreset, Elsewhere
<1>2. c \in CallType /\ CallOK(c) /\ c.id \in Items
  BY <1>1 DEF ItemInv, CallInv, CallOK
<1>3. CASE ~Live(c.id)
  <2>1. PICK d : d = Refused(c)
    OBVIOUS
  <2>2. /\ calls' = (calls \ {c}) \cup {d}
        /\ UNCHANGED <<bank, page, writes, others, faults, removed>>
    BY <1>1, <1>3, <2>1 DEF ServePreset, Answered
  <2> QED
    BY <1>1, <1>3, <2>1, <2>2, Refusal, LookStep DEF Live
<1>4. CASE Live(c.id)
  <2>1. PICK d : d = Done(c)
    OBVIOUS
  <2>4. SetPreset(c.id, c.preset) /\ calls' = (calls \ {c}) \cup {d}
    BY <1>4, <2>1 DEF ServePreset, Answered
  <2>9. c.preset \in Presets \cup {0}
    BY <1>2 DEF CallType
  <2>10. PICK b : Commits(c.id, b) /\ b.versions = bank[c.id].versions
    BY <1>1, <1>2, <2>4, <2>9, PresetItem DEF SetPreset
  <2>11. Grown
    BY <1>2, <2>10, Committed
  <2>12. /\ CallsAfter(c, d) /\ (NotYet(c) => NotYet(d))
         /\ (Busy(c, page) => Busy(d, page)) /\ d.op # "version"
    BY <1>1, <2>1, <2>4, <2>11, Carried
  <2>13. CountInv'
    BY <1>1 DEF ItemInv, CountInv
  <2> QED
    BY <1>1, <1>2, <2>10, <2>12, <2>13, NoVersionStep
<1> QED
  BY <1>3, <1>4

LEMMA StatusItem ==
  ASSUME ItemInv, NEW i \in Items, NEW s \in Statuses,
         bank' = [bank EXCEPT ![i].status = s],
         writes' = writes, removed' = TRUE
  PROVE  \E b : Commits(i, b) /\ b.versions = bank[i].versions
<1>1. /\ bank[i] \in ItemType /\ ItemOK(bank[i]) /\ bank[i].rev \in Nat
      /\ Len(bank[i].versions) \in Nat /\ bank \in Seq(ItemType)
      /\ Items = DOMAIN bank
  BY Typed DEF Items
<1>2. PICK b : b = [bank[i] EXCEPT !.status = s]
  OBVIOUS
<1>3. bank' = [bank EXCEPT ![i] = b]
  BY <1>1, <1>2
<1>4. /\ b \in ItemType /\ b.versions = bank[i].versions
      /\ b.current = bank[i].current /\ b.preset = bank[i].preset
      /\ b.cal = bank[i].cal /\ b.rev = bank[i].rev /\ b.deleted = bank[i].deleted
  BY <1>1, <1>2 DEF ItemType
<1>5. ItemGrows(bank[i], b) /\ ItemOK(b)
  BY <1>1, <1>4 DEF ItemGrows, ItemOK
<1> QED
  BY <1>3, <1>4, <1>5 DEF Commits

LEMMA DeletedItem ==
  ASSUME ItemInv, NEW i \in Items,
         bank' = [bank EXCEPT ![i].deleted = TRUE],
         writes' = writes, removed' = TRUE
  PROVE  \E b : Commits(i, b) /\ b.versions = bank[i].versions
<1>1. /\ bank[i] \in ItemType /\ ItemOK(bank[i]) /\ bank[i].rev \in Nat
      /\ Len(bank[i].versions) \in Nat /\ bank \in Seq(ItemType)
      /\ Items = DOMAIN bank
  BY Typed DEF Items
<1>2. PICK b : b = [bank[i] EXCEPT !.deleted = TRUE]
  OBVIOUS
<1>3. bank' = [bank EXCEPT ![i] = b]
  BY <1>1, <1>2
<1>4. /\ b \in ItemType /\ b.versions = bank[i].versions
      /\ b.current = bank[i].current /\ b.preset = bank[i].preset
      /\ b.cal = bank[i].cal /\ b.rev = bank[i].rev /\ b.deleted
  BY <1>1, <1>2 DEF ItemType
<1>5. ItemGrows(bank[i], b) /\ ItemOK(b)
  BY <1>1, <1>4 DEF ItemGrows, ItemOK
<1> QED
  BY <1>3, <1>4, <1>5 DEF Commits


LEMMA ServeStatusStep ==
  ASSUME ItemInv, NEW c \in calls, ServeStatus(c)
  PROVE  ItemInv'
<1>1. /\ c.op = "status" /\ c.phase = "sent"
      /\ UNCHANGED <<page, writes, others, faults>>
  BY DEF ServeStatus, Elsewhere
<1>2. c \in CallType /\ c.id \in Items /\ c.status \in Statuses
  BY <1>1 DEF ItemInv, CallInv, CallOK
<1>3. CASE ~Live(c.id)
  <2>1. PICK d : d = Refused(c)
    OBVIOUS
  <2>2. /\ calls' = (calls \ {c}) \cup {d}
        /\ UNCHANGED <<bank, page, writes, others, faults, removed>>
    BY <1>1, <1>3, <2>1 DEF ServeStatus, Answered
  <2> QED
    BY <1>1, <2>1, <2>2, Refusal, LookStep
<1>4. CASE Live(c.id)
  <2>1. PICK d : d = Done(c)
    OBVIOUS
  <2>2. /\ bank' = [bank EXCEPT ![c.id].status = c.status] /\ removed' = TRUE
        /\ calls' = (calls \ {c}) \cup {d}
    BY <1>4, <2>1 DEF ServeStatus, Answered
  <2>3. PICK b : Commits(c.id, b) /\ b.versions = bank[c.id].versions
    BY <1>1, <1>2, <2>2, StatusItem
  <2>4. Grown
    BY <1>2, <2>3, Committed
  <2>5. /\ CallsAfter(c, d) /\ (NotYet(c) => NotYet(d))
        /\ (Busy(c, page) => Busy(d, page)) /\ d.op # "version"
    BY <1>1, <2>1, <2>2, <2>4, Carried
  <2>6. CountInv'
    BY <1>1 DEF ItemInv, CountInv
  <2> QED
    BY <1>1, <1>2, <2>3, <2>5, <2>6, NoVersionStep
<1> QED
  BY <1>3, <1>4

LEMMA ServeDeleteStep ==
  ASSUME ItemInv, NEW c \in calls, ServeDelete(c)
  PROVE  ItemInv'
<1>1. /\ c.op = "delete" /\ c.phase = "sent"
      /\ UNCHANGED <<page, writes, others, faults>>
  BY DEF ServeDelete, Elsewhere
<1>2. c \in CallType /\ c.id \in Items
  BY <1>1 DEF ItemInv, CallInv, CallOK
<1>3. CASE ~Live(c.id)
  <2>1. PICK d : d = Refused(c)
    OBVIOUS
  <2>2. /\ calls' = (calls \ {c}) \cup {d}
        /\ UNCHANGED <<bank, page, writes, others, faults, removed>>
    BY <1>1, <1>3, <2>1 DEF ServeDelete, Answered
  <2> QED
    BY <1>1, <2>1, <2>2, Refusal, LookStep
<1>4. CASE Live(c.id)
  <2>1. PICK d : d = Done(c)
    OBVIOUS
  <2>2. /\ bank' = [bank EXCEPT ![c.id].deleted = TRUE] /\ removed' = TRUE
        /\ calls' = (calls \ {c}) \cup {d}
    BY <1>4, <2>1 DEF ServeDelete, Answered
  <2>3. PICK b : Commits(c.id, b) /\ b.versions = bank[c.id].versions
    BY <1>1, <1>2, <2>2, DeletedItem
  <2>4. Grown
    BY <1>2, <2>3, Committed
  <2>5. /\ CallsAfter(c, d) /\ (NotYet(c) => NotYet(d))
        /\ (Busy(c, page) => Busy(d, page)) /\ d.op # "version"
    BY <1>1, <2>1, <2>2, <2>4, Carried
  <2>6. CountInv'
    BY <1>1 DEF ItemInv, CountInv
  <2> QED
    BY <1>1, <1>2, <2>3, <2>5, <2>6, NoVersionStep
<1> QED
  BY <1>3, <1>4

\* What the others commit but versions.
LEMMA OtherStep ==
  ASSUME ItemInv, NEW i \in Items, Other(i), NEW b, Commits(i, b),
         b.versions = bank[i].versions
  PROVE  ItemInv'
<1>1. /\ UNCHANGED <<page, calls, writes, faults>>
      /\ others < MaxOthers /\ others' = others + 1
  BY DEF Other
<1>2. PICK d : d = Call("item", 0, 0)
  OBVIOUS
<1>3. d.op # "version"
  BY <1>2 DEF Call
<1>4. CountInv'
  <2>1. /\ writes \in 0 .. MaxWrites /\ others \in Nat /\ MaxOthers \in Nat
        /\ faults \in 0 .. others
    BY Typed DEF ItemInv, CountInv
  <2>2. others + 1 \in 0 .. MaxOthers /\ faults \in 0 .. others + 1
    BY <1>1, <2>1
  <2> QED
    BY <1>1, <2>1, <2>2 DEF CountInv
<1>6. CallsAfter(d, d)
  BY <1>1 DEF CallsAfter
<1> QED
  BY <1>1, <1>3, <1>4, <1>6, NoVersionStep

LEMMA OthersPresetStep ==
  ASSUME ItemInv, NEW i \in Items, NEW p \in Presets, OthersPreset(i, p)
  PROVE  ItemInv'
<1>1. PICK b : Commits(i, b) /\ b.versions = bank[i].versions
  BY PresetItem DEF OthersPreset, SetPreset, Other
<1> QED
  BY <1>1, OtherStep DEF OthersPreset

LEMMA CalibrateStep ==
  ASSUME ItemInv, NEW i \in Items, Calibrate(i)
  PROVE  ItemInv'
<1>1. PICK b : Commits(i, b) /\ b.versions = bank[i].versions
  BY PresetItem DEF Calibrate, Other
<1> QED
  BY <1>1, OtherStep DEF Calibrate

LEMMA OthersDeleteStep ==
  ASSUME ItemInv, NEW i \in Items, OthersDelete(i)
  PROVE  ItemInv'
<1>1. PICK b : Commits(i, b) /\ b.versions = bank[i].versions
  BY DeletedItem DEF OthersDelete, Other
<1> QED
  BY <1>1, OtherStep DEF OthersDelete


-----------------------------------------------------------------------------
(* A version more. *)

LEMMA VersionItem ==
  ASSUME ItemInv, NEW i \in Items, NEW u \in VersionType, AddVersion(i, u),
         u.number \in 1 .. Len(bank[i].versions) + 1,
         Unraced(bank[i].versions, Len(bank[i].versions)) /\ ~u.raced =>
            u.number = Len(bank[i].versions) + 1,
         u.edit <= writes, writes' = writes, removed' = removed
  PROVE  \E b : Commits(i, b) /\ b.versions = Append(bank[i].versions, u)
<1>1. /\ bank[i] \in ItemType /\ ItemOK(bank[i]) /\ bank[i].rev \in Nat
      /\ bank \in Seq(ItemType) /\ Items = DOMAIN bank
  BY Typed DEF Items
<1>2. PICK v : v = bank[i].versions
  OBVIOUS
<1>3. PICK n \in Nat : n = Len(v)
  BY <1>2, Typed
<1>4. PICK w : w = Append(v, u)
  OBVIOUS
<1>5. /\ v \in Seq(VersionType) /\ w \in Seq(VersionType) /\ Len(w) = n + 1
      /\ w[n + 1] = u /\ \A k \in 1 .. n : w[k] = v[k]
  BY <1>2, <1>3, <1>4, Typed
<1>6. PICK m \in Nat : m = n + 1
  BY <1>3
<1>7. PICK b : b = [bank[i] EXCEPT !.versions = w, !.current = m]
  OBVIOUS
<1>8. bank' = [bank EXCEPT ![i] = b]
  BY <1>1, <1>2, <1>3, <1>4, <1>6, <1>7 DEF AddVersion
<1>9. /\ b \in ItemType /\ b.versions = w /\ b.current = m
      /\ b.status = bank[i].status /\ b.preset = bank[i].preset
      /\ b.cal = bank[i].cal /\ b.rev = bank[i].rev /\ b.deleted = bank[i].deleted
  BY <1>1, <1>5, <1>7 DEF ItemType
<1>10. ItemGrows(bank[i], b)
  <2>1. Len(v) <= Len(w) /\ \A k \in 1 .. Len(v) : w[k] = v[k]
    BY <1>3, <1>5
  <2> QED
    BY <1>1, <1>2, <1>9, <2>1 DEF ItemGrows
<1>11. Numbered(w)
  <2> SUFFICES ASSUME NEW k \in 1 .. m
               PROVE  /\ w[k].number \in 1 .. k
                      /\ Unraced(w, k) => w[k].number = k
    BY <1>5, <1>6 DEF Numbered
  <2>1. CASE k \in 1 .. n
    <3>1. 1 .. k \subseteq 1 .. n
      BY <1>3, <2>1
    <3>2. Unraced(w, k) => Unraced(v, k)
      BY <1>5, <3>1 DEF Unraced
    <3>3. Numbered(v)
      BY <1>1, <1>2 DEF ItemOK
    <3> QED
      BY <1>3, <1>5, <2>1, <3>2, <3>3 DEF Numbered
  <2>2. CASE k = m
    <3>1. 1 .. n \subseteq 1 .. m /\ m \in 1 .. m
      BY <1>3, <1>6
    <3>2. Unraced(w, m) => Unraced(v, n) /\ ~u.raced
      BY <1>5, <1>6, <3>1 DEF Unraced
    <3> QED
      BY <1>2, <1>3, <1>5, <1>6, <2>2, <3>2
  <2> QED
    BY <1>3, <1>6, <2>1, <2>2
<1>12. ASSUME NEW k \in 1 .. m
       PROVE  w[k].edit <= writes
  <2>1. CASE k \in 1 .. n
    BY <1>1, <1>2, <1>3, <1>5, <2>1 DEF ItemOK
  <2>2. CASE k = m
    BY <1>5, <1>6, <2>2
  <2> QED
    BY <1>3, <1>6, <2>1, <2>2
<1>13. ItemOK(b)
  <2>1. Len(b.versions) # 0 /\ b.current = Len(b.versions) /\ Len(b.versions) = m
    BY <1>3, <1>5, <1>6, <1>9
  <2>2. Numbered(b.versions)
    BY <1>9, <1>11
  <2>3. \A k \in 1 .. Len(b.versions) : b.versions[k].edit <= writes
    BY <1>9, <1>12, <2>1
  <2>4. b.cal = "uncalibrated" => b.preset = 0
    BY <1>1, <1>9 DEF ItemOK
  <2> QED
    BY <2>1, <2>2, <2>3, <2>4 DEF ItemOK
<1>14. removed \in BOOLEAN /\ (~removed => ~b.deleted /\ b.status = "draft")
  BY <1>9 DEF ItemInv, BankInv, Live
<1> QED
  BY <1>2, <1>4, <1>8, <1>9, <1>10, <1>13, <1>14 DEF Commits

\* Whose version it is: nobody's here, or that of the request that is served.
OwnVersion(c, d, i, u) ==
    \/ calls' = calls /\ u.edit = 0
    \/ /\ Serves(c, d) /\ CallOK(d)' /\ ReadOK(d)'
       /\ c.op = "version" /\ c.phase = "read" /\ d.phase = "ok"
       /\ c.id = i /\ d.id = i /\ u.edit = c.edit

LEMMA VersionStep ==
  ASSUME ItemInv, UNCHANGED <<page, faults>>, CountInv',
         NEW i \in Items, NEW b, NEW u \in VersionType, Commits(i, b),
         b.versions = Append(bank[i].versions, u),
         NEW c, NEW d, OwnVersion(c, d, i, u)
  PROVE  ItemInv'
<1>1. /\ Grown /\ BankInv' /\ Items' = Items /\ bank'[i] = b
      /\ \A j \in Items : j # i => bank'[j] = bank[j]
  BY Committed
<1>2. PICK v : v = bank[i].versions
  OBVIOUS
<1>3. PICK n \in Nat : n = Len(v)
  BY <1>2, Typed
<1>4. PICK w : w = bank'[i].versions
  OBVIOUS
<1>5. /\ v \in Seq(VersionType) /\ Len(w) = n + 1
      /\ w[n + 1] = u /\ \A k \in 1 .. n : w[k] = v[k]
  BY <1>1, <1>2, <1>3, <1>4, Typed
<1>6. \A j \in Items : j # i => Edits(j)' = Edits(j)
  BY <1>1 DEF Edits
<1>7. Edits(i) = {v[k].edit : k \in 1 .. n} /\ Edits(i)' = {w[k].edit : k \in 1 .. n + 1}
  BY <1>2, <1>3, <1>4, <1>5 DEF Edits
<1>8. \A e \in Edits(i)' : e \in Edits(i) \/ e = u.edit
  <2>1. ASSUME NEW k \in 1 .. n + 1
        PROVE  w[k].edit \in Edits(i) \/ w[k].edit = u.edit
    <3>1. k \in 1 .. n \/ k = n + 1
      BY <1>3
    <3> QED
      BY <1>5, <1>7, <3>1
  <2> QED
    BY <1>7, <2>1
<1>9. \A j \in Items : bank[j].deleted => bank'[j].deleted
  BY <1>1 DEF Grown, ItemGrows
<1>10. ASSUME faults = 0, u.edit # 0
       PROVE  u.edit \notin Edits(i)
  <2>1. NotYet(c) /\ c.op = "version" /\ c.phase = "read" /\ c.id = i /\ u.edit = c.edit
    BY <1>10 DEF OwnVersion, Serves, ItemInv, EditInv
  <2> QED
    BY <2>1 DEF NotYet
<1>11. ASSUME faults = 0, NEW j \in Items
       PROVE  Distinct(j)'
  <2>1. Distinct(j)
    BY <1>11 DEF ItemInv, EditInv
  <2>2. CASE j # i
    BY <1>1, <2>1, <2>2 DEF Distinct
  <2>3. CASE j = i
    <3>1. \A k, l \in 1 .. n : v[k].edit = v[l].edit /\ k # l => v[k].edit = 0
      BY <1>2, <1>3, <2>1, <2>3 DEF Distinct
    <3>2. \A k \in 1 .. n : v[k].edit = u.edit => u.edit = 0
      BY <1>7, <1>10, <1>11
    <3>3. \A k \in 1 .. n + 1 : k \in 1 .. n \/ k = n + 1
      BY <1>3
    <3>4. ASSUME NEW k \in 1 .. n + 1, NEW l \in 1 .. n + 1,
                 w[k].edit = w[l].edit, k # l
          PROVE  w[k].edit = 0
      <4>1. CASE k \in 1 .. n /\ l \in 1 .. n
        BY <1>5, <3>1, <3>4, <4>1
      <4>2. CASE k \in 1 .. n /\ l = n + 1
        BY <1>5, <3>2, <3>4, <4>2
      <4>3. CASE k = n + 1 /\ l \in 1 .. n
        BY <1>5, <3>2, <3>4, <4>3
      <4> QED
        BY <3>3, <3>4, <4>1, <4>2, <4>3
    <3> QED
      BY <1>4, <1>5, <2>3, <3>4 DEF Distinct
  <2> QED
    BY <2>2, <2>3
<1>12. ASSUME faults = 0, NEW a \in calls'
       PROVE  NotYet(a)'
  <2> SUFFICES ASSUME a.op = "version"
               PROVE  NotYet(a)'
    BY DEF NotYet
  <2>1. CASE a \in calls /\ (u.edit # 0 => a.edit # u.edit)
    <3>1. a \in CallType /\ NotYet(a) /\ a.id \in Items
      BY <1>12, <2>1 DEF ItemInv, EditInv, CallInv, CallOK
    <3>2. a.edit # 0 /\ a.edit # u.edit
      BY <2>1, <3>1 DEF NotYet
    <3>3. a.edit \notin Edits(a.id) => a.edit \notin Edits(a.id)'
      BY <1>6, <1>8, <3>1, <3>2
    <3> QED
      BY <1>9, <3>1, <3>3 DEF NotYet
  <2>2. CASE OwnVersion(c, d, i, u) /\ a = d /\ Serves(c, d) /\ d.phase = "ok"
             /\ c.op = "version"
    <3>1. d.edit = c.edit /\ NotYet(c)
      BY <1>12, <2>2 DEF Serves, ItemInv, EditInv
    <3> QED
      BY <2>2, <3>1 DEF NotYet
  <2>3. CASE a \in calls /\ a # c /\ Serves(c, d) /\ u.edit = c.edit /\ c.op = "version"
    <3>1. a.edit # c.edit
      BY <2>3 DEF ItemInv, OneSave, Serves, Saves
    <3> QED
      BY <2>1, <2>3, <3>1
  <2> QED
    BY <1>12, <2>1, <2>2, <2>3 DEF OwnVersion, Serves
<1>13. ASSUME faults = 0
       PROVE  FormNotYet(page)'
  <2> SUFFICES ASSUME page.mode = "edit", page.form.edit \in Edits(page.id)'
               PROVE  bank'[page.id].deleted \/ \E a \in calls' : Busy(a, page)
    BY DEF FormNotYet, Busy, Edits
  <2>1. page.id \in Items /\ page.form.edit # 0
    BY Typed DEF PageOK
  <2>2. CASE page.form.edit \in Edits(page.id)
    <3>1. bank[page.id].deleted \/ \E a \in calls : Busy(a, page)
      BY <1>13, <2>2 DEF ItemInv, EditInv, FormNotYet
    <3>2. ASSUME NEW a \in calls, Busy(a, page)
          PROVE  a \in calls'
      BY <3>2 DEF Busy, OwnVersion, Serves
    <3> QED
      BY <1>9, <2>1, <3>1, <3>2
  <2>3. CASE page.form.edit \notin Edits(page.id)
    <3>1. page.id = i /\ page.form.edit = u.edit /\ u.edit # 0
      BY <1>6, <1>8, <2>1, <2>3
    <3>2. d \in calls' /\ d.op = "version" /\ d.phase = "ok" /\ d.id = page.id
          /\ d.edit = page.form.edit
      BY <3>1 DEF OwnVersion, Serves
    <3> QED
      BY <3>2 DEF Busy
  <2> QED
    BY <2>2, <2>3
<1>14. EditInv'
  BY <1>1, <1>11, <1>12, <1>13 DEF EditInv
<1>15. CallsAfter(c, d)
  BY DEF CallsAfter, OwnVersion
<1> QED
  BY <1>1, <1>14, <1>15, AfterCommit


LEMMA CommitVersionStep ==
  ASSUME ItemInv, NEW c \in calls, CommitVersion(c)
  PROVE  ItemInv'
<1>1. /\ c.op = "version" /\ c.phase = "read"
      /\ UNCHANGED <<page, writes, others, faults>>
      /\ UNCHANGED <<removed>>
  BY DEF CommitVersion, Elsewhere
<1>2. /\ c \in CallType /\ CallOK(c) /\ ReadOK(c) /\ c.id \in Items
      /\ c.edit <= writes /\ c.offset \in Nat /\ c.edit \in Nat
  BY <1>1 DEF ItemInv, CallInv, CallOK, CallType
<1>3. PICK n \in Nat : n = Len(bank[c.id].versions)
  BY <1>2, Typed
<1>4. PICK r \in BOOLEAN : r = (c.at # n)
  OBVIOUS
<1>5. PICK u : u = Version(c.offset, c.edit, r)
  OBVIOUS
<1>6. /\ u \in VersionType /\ u.number = c.offset /\ u.edit = c.edit
      /\ u.raced = r
  BY <1>2, <1>5 DEF Version, VersionType
<1>7. AddVersion(c.id, u)
  BY <1>3, <1>4, <1>5 DEF CommitVersion
<1>8. c.at \in 1 .. n /\ c.offset \in 1 .. c.at + 1
      /\ (Unraced(bank[c.id].versions, c.at) => c.offset = c.at + 1)
  BY <1>1, <1>2, <1>3 DEF ReadOK
<1>9. c.offset \in 1 .. n + 1
  BY <1>3, <1>8
<1>10. Unraced(bank[c.id].versions, n) /\ ~r => c.offset = n + 1
  BY <1>4, <1>8
<1>11. PICK b : /\ Commits(c.id, b)
                /\ b.versions = Append(bank[c.id].versions, u)
  BY <1>1, <1>2, <1>3, <1>6, <1>7, <1>9, <1>10, VersionItem
<1>12. Grown
  BY <1>2, <1>11, Committed
<1>13. PICK d : d = [Done(c) EXCEPT !.offset = 0, !.at = 0]
  OBVIOUS
<1>14. calls' = (calls \ {c}) \cup {d}
  BY <1>13 DEF CommitVersion, Answered
<1>15. /\ d \in CallType /\ d.op = c.op /\ d.edit = c.edit /\ d.live = c.live
       /\ d.status = c.status /\ d.id = c.id /\ d.phase = "ok"
       /\ d.options = c.options /\ d.seen = c.seen /\ d.next = c.next
       /\ d.base = c.base /\ d.picked = c.picked
  BY <1>2, <1>13 DEF Done, CallType
<1>16. CallOK(d) /\ ReadOK(d)
  BY <1>1, <1>2, <1>15 DEF CallOK, ReadOK
<1>17. CallOK(d)' /\ ReadOK(d)'
  BY <1>12, <1>15, <1>16, CallKept
<1>18. OwnVersion(c, d, c.id, u)
  BY <1>1, <1>6, <1>14, <1>15, <1>17 DEF OwnVersion, Serves
<1>19. CountInv'
  BY <1>1 DEF ItemInv, CountInv
<1> QED
  BY <1>1, <1>2, <1>6, <1>11, <1>18, <1>19, VersionStep

LEMMA OthersReviseStep ==
  ASSUME ItemInv, NEW i \in Items, OthersRevise(i)
  PROVE  ItemInv'
<1>1. /\ UNCHANGED <<page, calls, writes, faults>>
      /\ others < MaxOthers /\ others' = others + 1 /\ removed' = removed
  BY DEF OthersRevise, Other
<1>2. PICK n \in Nat : n = Len(bank[i].versions)
  BY Typed
<1>3. PICK h \in Nat : h = Highest(i) + 1
  <2>1. Highest(i) \in 1 .. n
    BY <1>2, HighestIs
  <2> QED
    BY <2>1
<1>4. PICK u : u = Version(h, 0, FALSE)
  OBVIOUS
<1>5. u \in VersionType /\ u.number = h /\ u.edit = 0
  BY <1>4 DEF Version, VersionType
<1>6. AddVersion(i, u)
  BY <1>3, <1>4 DEF OthersRevise
<1>7. h \in 1 .. n + 1 /\ (Unraced(bank[i].versions, n) => h = n + 1)
  <2>1. /\ Highest(i) \in 1 .. n
        /\ Unraced(bank[i].versions, n) => Highest(i) = n
    BY <1>2, HighestIs
  <2> QED
    BY <1>2, <1>3, <2>1
<1>8. 0 <= writes
  BY Typed
<1>9. PICK b : Commits(i, b) /\ b.versions = Append(bank[i].versions, u)
  BY <1>1, <1>2, <1>5, <1>6, <1>7, <1>8, VersionItem
<1>10. CountInv'
  <2>1. /\ writes \in 0 .. MaxWrites /\ others \in Nat /\ MaxOthers \in Nat
        /\ faults \in 0 .. others
    BY Typed DEF ItemInv, CountInv
  <2>2. others + 1 \in 0 .. MaxOthers /\ faults \in 0 .. others + 1
    BY <1>1, <2>1
  <2> QED
    BY <1>1, <2>1, <2>2 DEF CountInv
<1>12. PICK d : d = Call("item", 0, 0)
  OBVIOUS
<1>13. OwnVersion(d, d, i, u)
  BY <1>1, <1>5 DEF OwnVersion
<1> QED
  BY <1>1, <1>5, <1>9, <1>10, <1>13, VersionStep

-----------------------------------------------------------------------------
(* A question more. *)

LEMMA NewItemIs ==
  ASSUME NEW p \in Presets \cup {0}, NEW e \in Nat, NEW b, b = NewItem(p, e)
  PROVE  /\ b \in ItemType /\ b.status = "draft" /\ ~b.deleted
         /\ Len(b.versions) = 1 /\ b.current = 1 /\ Numbered(b.versions)
         /\ b.versions[1].edit = e
         /\ b.cal = "uncalibrated" => b.preset = 0
<1>1. PICK u : u = Version(1, e, FALSE)
  OBVIOUS
<1>2. u \in VersionType /\ u.number = 1 /\ u.edit = e
  BY <1>1 DEF Version, VersionType
<1>3. PICK v : v = <<u>>
  OBVIOUS
<1>4. v \in Seq(VersionType) /\ Len(v) = 1 /\ v[1] = u
  BY <1>2, <1>3
<1>5. PICK k \in Cals : k = (IF p = 0 THEN "uncalibrated" ELSE "pre_set")
  BY DEF Cals
<1>6. b = [versions |-> v, current |-> 1, status |-> "draft", preset |-> p,
           cal |-> k, rev |-> 0, deleted |-> FALSE]
  BY <1>1, <1>3, <1>5 DEF NewItem
<1>7. /\ b \in ItemType /\ b.versions = v /\ b.current = 1 /\ b.status = "draft"
      /\ b.preset = p /\ b.cal = k /\ ~b.deleted
  <2>1. "draft" \in Statuses
    BY ItemAssumption
  <2> QED
    BY <1>4, <1>6, <2>1 DEF ItemType
<1>8. Numbered(v)
  BY <1>2, <1>4 DEF Numbered
<1> QED
  BY <1>2, <1>4, <1>5, <1>7, <1>8

LEMMA ServeCreateStep ==
  ASSUME ItemInv, NEW c \in calls, ServeCreate(c)
  PROVE  ItemInv'
<1>1. /\ c.op = "create" /\ c.phase = "sent"
      /\ UNCHANGED <<page, writes, others, faults>>
      /\ UNCHANGED <<removed>>
  BY DEF ServeCreate, Elsewhere
<1>2. /\ c \in CallType /\ CallOK(c) /\ c.edit <= writes /\ c.edit \in Nat
      /\ c.preset \in Presets \cup {0} /\ ValidateOptions(c.options)
  BY <1>1 DEF ItemInv, CallInv, CallOK, CallType
<1>3. PICK b : b = NewItem(c.preset, c.edit)
  OBVIOUS
<1>4. /\ b \in ItemType /\ b.status = "draft" /\ ~b.deleted
      /\ Len(b.versions) = 1 /\ b.current = 1 /\ Numbered(b.versions)
      /\ b.versions[1].edit = c.edit
      /\ b.cal = "uncalibrated" => b.preset = 0
  BY <1>2, <1>3, NewItemIs
<1>5. PICK n \in Nat : n = Len(bank)
  BY Typed
<1>6. bank \in Seq(ItemType) /\ Items = 1 .. n
  BY <1>5, Typed
<1>7. PICK m \in Nat : m = n + 1
  BY <1>5
<1>8. bank' = Append(bank, b)
  BY <1>2, <1>3 DEF ServeCreate
<1>9. /\ bank' \in Seq(ItemType) /\ Len(bank') = m /\ bank'[m] = b
      /\ \A i \in 1 .. n : bank'[i] = bank[i]
  BY <1>4, <1>5, <1>6, <1>7, <1>8
<1>10. /\ Items' = 1 .. m /\ Items \subseteq Items'
       /\ \A i \in Items' : i \in Items \/ i = m
       /\ m \in Items' /\ m \notin Items
  BY <1>5, <1>6, <1>7, <1>9 DEF Items
<1>11. ItemOK(b)
  <2>1. \A k \in 1 .. Len(b.versions) : b.versions[k].edit <= writes
    BY <1>2, <1>4
  <2> QED
    BY <1>4, <2>1 DEF ItemOK
<1>12. Grown
  <2>1. \A i \in Items : ItemGrows(bank[i], bank'[i])
    BY <1>6, <1>9, Typed DEF ItemGrows
  <2>2. Len(bank) <= Len(bank')
    BY <1>5, <1>7, <1>9
  <2> QED
    BY <1>1, <1>6, <1>9, <2>1, <2>2, Typed DEF Grown
<1>13. BankInv'
  <2>1. ASSUME NEW i \in Items'
        PROVE  ItemOK(bank[i])'
    <3>1. ItemOK(bank'[i])
      BY <1>6, <1>9, <1>10, <1>11, Typed
    <3> QED
      BY <1>1, <3>1 DEF ItemOK
  <2>2. ASSUME ~removed', NEW i \in Items'
        PROVE  ~bank'[i].deleted /\ bank'[i].status = "draft"
    <3>1. \A j \in Items : ~bank[j].deleted /\ bank[j].status = "draft"
      BY <1>1, <2>2 DEF ItemInv, BankInv, Live
    <3> QED
      BY <1>4, <1>6, <1>9, <1>10, <3>1
  <2>3. removed' \in BOOLEAN
    BY <1>1 DEF ItemInv, BankInv
  <2> QED
    BY <1>9, <2>1, <2>2, <2>3 DEF BankInv, Live
<1>14. PICK d : d = [Done(c) EXCEPT !.id = m]
  OBVIOUS
<1>15. calls' = (calls \ {c}) \cup {d}
  BY <1>2, <1>5, <1>7, <1>14 DEF ServeCreate, Answered
<1>16. /\ d \in CallType /\ d.op = c.op /\ d.edit = c.edit /\ d.live = c.live
       /\ d.status = c.status /\ d.offset = c.offset /\ d.id = m
       /\ d.phase = "ok" /\ d.options = c.options
  BY <1>2, <1>14 DEF Done, CallType
<1>17. Serves(c, d)
  BY <1>1, <1>15, <1>16 DEF Serves
<1>18. CallOK(d)'
  BY <1>1, <1>2, <1>10, <1>16 DEF CallOK
<1>19. ReadOK(d)'
  BY <1>1, <1>16 DEF ReadOK
<1>20. CallsAfter(c, d)
  BY <1>17, <1>18, <1>19 DEF CallsAfter
<1>21. ASSUME NEW i \in Items', i \notin Items
       PROVE  Distinct(i)'
  BY <1>4, <1>9, <1>10, <1>21 DEF Distinct
<1>22. \A i \in Items : /\ bank'[i].versions = bank[i].versions
                        /\ bank[i].deleted => bank'[i].deleted
  BY <1>6, <1>9
<1>23. EditInv'
  <2>1. (NotYet(c) => NotYet(d)) /\ (Busy(c, page) => Busy(d, page))
    BY <1>1, <1>16 DEF NotYet, Busy
  <2>2. d.op # "version"
    BY <1>1, <1>16
  <2> QED
    BY <1>1, <1>10, <1>17, <1>21, <1>22, <2>1, <2>2, EditsStay
<1>24. CountInv'
  BY <1>1 DEF ItemInv, CountInv
<1> QED
  BY <1>1, <1>12, <1>13, <1>20, <1>23, <1>24, AfterCommit


-----------------------------------------------------------------------------
(* The invariant. *)

LEMMA ItemStarts ==
  ASSUME Init
  PROVE  ItemInv
<1>1. /\ writes = 0 /\ others = 0 /\ faults = 0 /\ page = ListPage
      /\ ~removed /\ removed = FALSE
  BY DEF Init
<1>2. PICK n \in Nat \ {0} : n = SeedItems
  BY ItemAssumption
<1>3. PICK b : b = NewItem(0, 0)
  OBVIOUS
<1>4. /\ b \in ItemType /\ b.status = "draft" /\ ~b.deleted
      /\ Len(b.versions) = 1 /\ b.current = 1 /\ Numbered(b.versions)
      /\ b.versions[1].edit = 0
      /\ b.cal = "uncalibrated" => b.preset = 0
  BY <1>3, NewItemIs
<1>5. bank = [i \in 1 .. n |-> b]
  BY <1>2, <1>3 DEF Init
<1>6. /\ bank \in Seq(ItemType) /\ Len(bank) = n /\ Items = 1 .. n
      /\ \A i \in 1 .. n : bank[i] = b
  BY <1>4, <1>5 DEF Items
<1>7. ItemOK(b)
  BY <1>1, <1>4 DEF ItemOK
<1>8. BankInv
  BY <1>1, <1>4, <1>6, <1>7 DEF BankInv, Live
<1>9. PICK p : p = ListPage
  OBVIOUS
<1>10. p \in PageType /\ PageOK(p)
  BY <1>1, <1>9, Blank
<1>11. PageInv
  BY <1>1, <1>9, <1>10 DEF PageInv
<1>12. p.screen = "list" /\ p.filter = "all" /\ p.offset = 0 /\ p.mode = "view"
  BY <1>9 DEF ListPage
<1>13. PICK c : c = ListCall("all", 0)
  OBVIOUS
<1>14. calls = {c}
  BY <1>13 DEF Init
<1>15. /\ c \in CallType /\ CallOK(c) /\ ReadOK(c) /\ Shown(c, p)
       /\ c.op \in Queries
  BY <1>1, <1>10, <1>12, <1>13, Asked
<1>16. CallInv /\ OneSave
  BY <1>1, <1>9, <1>14, <1>15 DEF CallInv, OneSave
<1>17. CountInv
  <2>1. MaxWrites \in Nat /\ MaxOthers \in Nat
    BY ItemAssumption
  <2> QED
    BY <1>1, <2>1 DEF CountInv
<1>18. EditInv
  <2>1. \A i \in Items : Distinct(i)
    BY <1>4, <1>6 DEF Distinct
  <2>2. NotYet(c)
    BY <1>15 DEF NotYet, Queries
  <2>3. FormNotYet(page)
    BY <1>1, <1>9, <1>12 DEF FormNotYet
  <2> QED
    BY <1>14, <2>1, <2>2, <2>3 DEF EditInv
<1> QED
  BY <1>8, <1>11, <1>16, <1>17, <1>18 DEF ItemInv

LEMMA BackToListStep ==
  ASSUME ItemInv, BackToList
  PROVE  ItemInv'
BY ListPageStep DEF BackToList

LEMMA AuthorStep ==
  ASSUME ItemInv, Author
  PROVE  ItemInv'
<1>1. ASSUME NEW i \in Items, OpenItem(i)
      PROVE  ItemInv'
  <2>1. Quiet /\ Open([ListPage EXCEPT !.screen = "item", !.id = i], calls)
    BY <1>1 DEF OpenItem
  <2> QED
    BY <2>1, OpenItemStep
<1>2. ASSUME NEW i \in Items, AskDelete(i)
      PROVE  ItemInv'
  BY <1>2, AskDeleteStep
<1>3. ASSUME NEW s \in Statuses \cup {"all"}, HandleTabChange(s)
      PROVE  ItemInv'
  BY <1>3, HandleTabChangeStep
<1>4. ASSUME NEW s \in Statuses, ChangeStatus(s)
      PROVE  ItemInv'
  BY <1>4, ChangeStatusStep
<1>5. ASSUME NEW n \in 1 .. TotalPages, Turn(n)
      PROVE  ItemInv'
  BY <1>5, TurnStep
<1>6. ASSUME NEW k \in 1 .. MaxOptions, SetCorrectOption(k) \/ RemoveOption(k)
      PROVE  ItemInv'
  BY <1>6, SetCorrectOptionStep, RemoveOptionStep
<1>7. ASSUME NEW z \in Presets, PickPreset(z)
      PROVE  ItemInv'
  BY <1>7, PickPresetStep
<1>8. CASE AddOption \/ RemoveImage \/ Upload \/ BackToList \/ CancelDelete
           \/ OpenEdit
  BY <1>8, AddOptionStep, RemoveImageStep, UploadStep, BackToListStep,
     CancelDeleteStep, OpenEditStep
<1>9. CASE OpenNew \/ Close \/ Refetch \/ OnSubmit \/ CreateItem \/ DeleteItem
  BY <1>9, OpenNewStep, CloseStep, RefetchStep, OnSubmitStep, CreateItemStep,
     DeleteItemStep
<1> QED
  BY <1>1, <1>2, <1>3, <1>4, <1>5, <1>6, <1>7, <1>8, <1>9 DEF Author

LEMMA ReplyingStep ==
  ASSUME ItemInv, NEW c \in calls, Reply(c)
  PROVE  ItemInv'
BY ListRepliedStep, ItemRepliedStep, UploadRepliedStep, VersionRepliedStep,
   PresetRepliedStep, StatusRepliedStep, DeleteRepliedStep, CreateRepliedStep,
   FailsStep DEF Reply

LEMMA ServerStep ==
  ASSUME ItemInv, NEW c \in calls, Server(c)
  PROVE  ItemInv'
BY ServeListStep, ServeItemStep, ServeUploadStep, ReadMaxVersionStep,
   CommitVersionStep, ServePresetStep, ServeStatusStep, ServeDeleteStep,
   ServeCreateStep DEF Server

LEMMA OthersStep ==
  ASSUME ItemInv, Others
  PROVE  ItemInv'
BY OthersReviseStep, OthersDeleteStep, CalibrateStep, OthersPresetStep DEF Others

LEMMA ItemHolds == Spec => []ItemInv
<1>1. Init => ItemInv
  BY ItemStarts
<1>2. ItemInv /\ [Next]_vars => ItemInv'
  <2> SUFFICES ASSUME ItemInv, [Next]_vars
               PROVE  ItemInv'
    OBVIOUS
  <2>1. CASE Next
    BY <2>1, AuthorStep, OthersStep, ReplyingStep, ServerStep DEF Next
  <2>2. CASE UNCHANGED vars
    BY <2>2 DEF vars, ItemInv, BankInv, PageInv, CallInv, OneSave, CountInv,
       EditInv, Items, Live, ItemOK, Numbered, Unraced, PageOK, OffsetOK,
       Reach, ListOK, SnapOK, FormOK, AtMostOne, CallOK, ReadOK, Shown, Edits,
       Distinct, NotYet, Busy, FormNotYet, DifficultyNeedsStaleness
  <2> QED
    BY <2>1, <2>2
<1> QED
  BY <1>1, <1>2, PTL DEF Spec

-----------------------------------------------------------------------------
(* What follows. *)

\* Every question has a current version and a known status, only a question
\* whose difficulty was never set is uncalibrated, the rows of the list are
\* questions and no more than a page of them, a form is open exactly where the
\* page says so, and one query is under way at most.
THEOREM BankTyped == Spec => []TypeOK
<1>1. ItemInv => TypeOK
  <2> SUFFICES ASSUME ItemInv
               PROVE  TypeOK
    OBVIOUS
  <2>1. ASSUME NEW i \in Items
        PROVE  /\ bank[i].current \in DOMAIN bank[i].versions
               /\ bank[i].status \in Statuses
               /\ bank[i].preset \in Presets \cup {0}
               /\ bank[i].cal = "uncalibrated" => bank[i].preset = 0
    <3>1. /\ bank[i] \in ItemType /\ ItemOK(bank[i])
          /\ bank[i].versions \in Seq(VersionType) /\ Len(bank[i].versions) \in Nat
      BY Typed
    <3>2. /\ DOMAIN bank[i].versions = 1 .. Len(bank[i].versions)
          /\ bank[i].current = Len(bank[i].versions)
          /\ Len(bank[i].versions) # 0
      BY <3>1 DEF ItemOK
    <3>3. bank[i].current \in DOMAIN bank[i].versions
      BY <3>1, <3>2
    <3> QED
      BY <3>1, <3>3 DEF ItemType, ItemOK
  <2>2. page.screen \in {"list", "item", "new"}
    BY Typed DEF PageType, Screens
  <2>3. page.list.rows \subseteq Items /\ Cardinality(page.list.rows) <= PageSize
    BY Typed DEF PageOK, ListOK
  <2>4. page.target \in Items \cup {0} /\ page.id \in Items \cup {0}
    BY Typed DEF PageOK
  <2>5. Editing <=> (page.screen = "new" \/ page.mode = "edit")
    BY Typed DEF PageOK, Editing, Form
  <2>6. Len(Form.options) <= MaxOptions
    BY Typed DEF PageOK, FormOK, Form
  <2>7. PICK Q : Q = {c \in calls : c.op \in {"list", "item"}}
    OBVIOUS
  <2>8. ASSUME NEW c \in Q, NEW d \in Q
        PROVE  c = d
    <3>1. Shown(c, page) /\ Shown(d, page) /\ c \in calls /\ d \in calls
      BY <2>7 DEF ItemInv, CallInv
    <3>2. c.op = d.op /\ c.op \in Queries
      BY <2>7, <3>1 DEF Shown, Queries
    <3> QED
      BY <3>1, <3>2 DEF ItemInv, CallInv
  <2>9. Cardinality(Q) <= 1
    <3>1. CASE Q = {}
      <4>1. Cardinality(Q) = 0
        BY <3>1, FS_EmptySet
      <4> QED
        BY <4>1
    <3>2. CASE Q # {}
      <4>1. PICK c \in Q : Q = {c}
        BY <2>8, <3>2
      <4>2. Cardinality({c}) = 1
        BY FS_Singleton
      <4> QED
        BY <4>1, <4>2
    <3> QED
      BY <3>1, <3>2
  <2>10. writes <= MaxWrites /\ others <= MaxOthers /\ faults <= others
    BY Typed DEF ItemInv, CountInv
  <2> QED
    BY <2>1, <2>2, <2>3, <2>4, <2>5, <2>6, <2>7, <2>9, <2>10 DEF TypeOK
<1> QED
  BY <1>1, ItemHolds, PTL

\* The options of every form that is sent pass _validate_options: no sequence of
\* edits of the options leaves a form that the page lets through and the server
\* refuses.
THEOREM FormsAccepted == Spec => []FormsPass
<1>1. ItemInv => FormsPass
  BY DEF ItemInv, CallInv, CallOK, FormsPass
<1> QED
  BY <1>1, ItemHolds, PTL

\* The versions of a question are numbered one by one and the current one is the
\* last, unless a number was read before another version was committed.
THEOREM NumberedUnlessRaced == Spec => []NumbersNeedRace
<1>1. ItemInv => NumbersNeedRace
  <2> SUFFICES ASSUME ItemInv, NEW i \in Items,
                      \A k \in DOMAIN bank[i].versions : ~bank[i].versions[k].raced
               PROVE  /\ \A k \in DOMAIN bank[i].versions :
                            bank[i].versions[k].number = k
                      /\ bank[i].current = Len(bank[i].versions)
    BY DEF NumbersNeedRace
  <2>1. PICK v : v = bank[i].versions
    OBVIOUS
  <2>2. PICK n \in Nat : n = Len(v)
    BY <2>1, Typed
  <2>3. v \in Seq(VersionType) /\ DOMAIN v = 1 .. n /\ Numbered(v)
    BY <2>1, <2>2, Typed DEF ItemOK
  <2>4. ASSUME NEW k \in 1 .. n
        PROVE  v[k].number = k
    <3>1. 1 .. k \subseteq 1 .. n
      BY <2>2
    <3>2. Unraced(v, k)
      BY <2>1, <2>3, <3>1 DEF Unraced
    <3> QED
      BY <2>2, <2>3, <3>2 DEF Numbered
  <2>5. bank[i].current = Len(bank[i].versions)
    BY Typed DEF ItemOK
  <2> QED
    BY <2>1, <2>3, <2>4, <2>5
<1> QED
  BY <1>1, ItemHolds, PTL

\* As long as no request fails on its way, one edit makes one version: the form
\* stays busy from the first request of a save to the reply of the last, and
\* what is committed after it was closed belongs to no form.
THEOREM OneEditOneVersion == Spec => []SavedOnceUnlessFault
<1>1. ItemInv => SavedOnceUnlessFault
  <2> SUFFICES ASSUME ItemInv, faults = 0, NEW i \in Items,
                      NEW k \in DOMAIN bank[i].versions,
                      NEW l \in DOMAIN bank[i].versions,
                      bank[i].versions[k].edit = bank[i].versions[l].edit, k # l
               PROVE  bank[i].versions[k].edit = 0
    BY DEF SavedOnceUnlessFault
  <2>1. k \in 1 .. Len(bank[i].versions) /\ l \in 1 .. Len(bank[i].versions)
    BY Typed
  <2>2. Distinct(i)
    BY DEF ItemInv, EditInv
  <2> QED
    BY <2>1, <2>2 DEF Distinct
<1> QED
  BY <1>1, ItemHolds, PTL

\* For any number of forms, refetches and commits of others: a difficulty on its
\* way to a calibrated question comes from a screen older than the calibration,
\* and one that nobody picked from a form below which a newer one arrived.
THEOREM DifficultyExplained == Spec => []DifficultyNeedsStaleness
<1>1. ItemInv => DifficultyNeedsStaleness
  <2> SUFFICES ASSUME ItemInv, NEW c \in calls,
                      c.op = "preset" \/ (c.op = "version" /\ c.next # 0)
               PROVE  /\ bank[c.id].cal = "calibrated" => c.seen < bank[c.id].rev
                      /\ ~c.picked => c.base < c.seen
    BY DEF DifficultyNeedsStaleness
  <2>1. c \in CallType /\ CallOK(c) /\ c.id \in Items
    BY DEF ItemInv, CallInv, CallOK
  <2>2. c.seen \in Nat /\ bank[c.id].rev \in Nat
    BY <2>1, Typed DEF CallType
  <2> QED
    BY <2>1, <2>2 DEF CallOK
<1> QED
  BY <1>1, ItemHolds, PTL

\* A page of the list other than the first is only shown empty after a question
\* was deleted or given another status.
THEOREM StrandedExplained == Spec => []StrandedNeedsRemoval
<1>1. ItemInv => StrandedNeedsRemoval
  <2> SUFFICES ASSUME ItemInv, EmptyShown, page.offset > 0
               PROVE  removed
    BY DEF StrandedNeedsRemoval
  <2>1. page.list.loaded /\ page.list.rows = {}
    BY DEF EmptyShown, TableShown
  <2>2. page.offset # 0
    BY Typed DEF PageType
  <2> QED
    BY <2>1, <2>2, Typed DEF PageOK, ListOK
<1> QED
  BY <1>1, ItemHolds, PTL
=============================================================================
