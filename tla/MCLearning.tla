----------------------------- MODULE MCLearning -----------------------------
(* Values for model checking Learning.                                     *)
EXTENDS Learning

Task(theme, answer) == [theme |-> theme, answer |-> answer]

\* Two themes, the second one after two tasks of the first.
MCStore == <<Task("verbs", "a1"), Task("verbs", "a2"), Task("nouns", "a3")>>
=============================================================================
