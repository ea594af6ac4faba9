---------------------------- MODULE PracticeLedger ----------------------------
(***************************************************************************)
(* What the write path promises of its history tables, with no statements, *)
(* locks or transactions: PHASE_1_REPORT.md calls responses and            *)
(* review_logs append-only ledgers, written once and never updated.        *)
(*                                                                         *)
(* Each step relates the tables before and after one committed request.    *)
(***************************************************************************)
EXTENDS Naturals

CONSTANTS Requests, Sessions

VARIABLES
    status,      \* of each session: none, in_progress or completed
    responses,   \* rows [id, session, item, topic, kind], id = <<request, n>>
    reviewLog    \* rows [id, item, before], id of the response they belong to

ledger == <<status, responses, reviewLog>>

Appended == responses' \ responses

Logged == reviewLog' \ reviewLog

Init ==
    /\ status = [s \in Sessions |-> "none"]
    /\ responses = {}
    /\ reviewLog = {}

Open(s) ==
    /\ status[s] = "none"
    /\ status' = [status EXCEPT ![s] = "in_progress"]
    /\ UNCHANGED <<responses, reviewLog>>

\* A completed session may be finished again: both requests saw it open.
Close(s) ==
    /\ status[s] # "none"
    /\ status' = [status EXCEPT ![s] = "completed"]
    /\ UNCHANGED <<responses, reviewLog>>

\* One request appends all it will ever append, at once: responses to one
\* session that was opened, one log for each that is not a skip, and a log
\* says 'new' exactly for the first review of its item.
Record(r, s) ==
    /\ status[s] # "none"
    /\ \A x \in responses : x.id[1] # r
    /\ responses \subseteq responses'
    /\ reviewLog \subseteq reviewLog'
    /\ \A x \in Appended : x.id[1] = r /\ x.session = s
    /\ \A x, y \in Appended : x.id = y.id => x = y
    /\ \A l \in Logged :
           \E x \in Appended : x.id = l.id /\ x.item = l.item /\ x.kind # "skip"
    /\ \A x \in Appended : x.kind # "skip" => \E l \in Logged : l.id = x.id
    /\ \A l \in Logged : \A k \in reviewLog :
           l.before = "new" => k.item # l.item
    /\ \A l \in Logged :
           l.before # "new" =>
               \E k \in reviewLog' : k.item = l.item /\ k.before = "new"
    /\ \A l, k \in Logged :
           l.before = "new" /\ k.before = "new" /\ l.item = k.item => l = k
    /\ UNCHANGED status

Next ==
    \/ \E s \in Sessions : Open(s) \/ Close(s)
    \/ \E r \in Requests, s \in Sessions : Record(r, s)

Spec == Init /\ [][Next]_ledger
=============================================================================
