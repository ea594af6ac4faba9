----------------------------- MODULE MCTopicPages -----------------------------
(* Instances of TopicPages for TLC: one exam with one subject. *)
EXTENDS TopicPages, TLC

MCSeeds == <<0, 1>>

MCSymmetry == Permutations(Tabs)
=============================================================================
