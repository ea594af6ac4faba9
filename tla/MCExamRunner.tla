----------------------------- MODULE MCExamRunner -----------------------------
(* Instances of ExamRunner for TLC: papers of at most two questions. *)
EXTENDS ExamRunner, TLC

CONSTANTS q1, q2, a, b

MCKey == (q1 :> a) @@ (q2 :> b)

MCOptionsOf == (q1 :> {a, b}) @@ (q2 :> {b})

\* A paper, and one whose only question an author may delete.
MCScopes == {<<q1, q2>>, <<q2>>}
=============================================================================
