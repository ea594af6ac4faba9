--------------------------- MODULE MCAnswerCascade ---------------------------
(* Instances of AnswerCascade for TLC: two items of one topic, two sessions. *)
EXTENDS AnswerCascade, TLC

CONSTANTS i1, i2, t1, t2, s1, s2

MCFirstTopic == (i1 :> t1) @@ (i2 :> t1)

MCMixedTopic == (i1 :> t1) @@ (i2 :> NoTopic)

A(i, kind) == [item |-> i, kind |-> kind]

Start(s, scope) ==
    [op |-> "start", session |-> s, scope |-> scope, answers |-> <<>>]

Submit(s, answers) ==
    [op |-> "answer", session |-> s, scope |-> NoTopic, answers |-> answers]

Finish(s) ==
    [op |-> "finish", session |-> s, scope |-> NoTopic, answers |-> <<>>]

\* One session hit by everything at once: a double click, two batches in
\* opposite orders, a finish that overtakes an answer.
RacingMenu ==
    {Start(s1, t1), Finish(s1),
     Submit(s1, <<A(i1, "correct")>>),
     Submit(s1, <<A(i1, "correct"), A(i2, "skip")>>),
     Submit(s1, <<A(i2, "wrong"), A(i1, "correct")>>)}

\* Two devices of one learner, each with a session of its own.
DevicesMenu ==
    {Start(s1, NoTopic), Start(s2, NoTopic),
     Submit(s1, <<A(i1, "correct")>>), Submit(s2, <<A(i1, "wrong")>>),
     Submit(s2, <<A(i2, "correct"), A(i1, "skip")>>), Finish(s2)}

\* A client that waits for every reply; a batch may name an item twice.
SerialMenu ==
    {Start(s1, t1), Start(s1, NoTopic), Finish(s1),
     Submit(s1, <<A(i1, "correct")>>), Submit(s1, <<A(i1, "skip")>>),
     Submit(s1, <<A(i1, "wrong"), A(i2, "correct"), A(i1, "correct")>>)}

\* Requests differ in nothing but their names, and no liveness is checked
\* where this is used.
Symmetry == Permutations(Requests)
=============================================================================
