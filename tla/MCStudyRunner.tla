----------------------------- MODULE MCStudyRunner -----------------------------
(* Instances of StudyRunner for TLC: two items of one topic or of two. *)
EXTENDS StudyRunner, TLC

CONSTANTS i1, i2, ta, tb

MCTopicOf == (i1 :> ta) @@ (i2 :> ta)

MCExamOf == (i1 :> 1) @@ (i2 :> 1)

MCMastered == {{}, {ta}}
=============================================================================
