---------------------------- MODULE MCTopicFilter ----------------------------
(* Instances of TopicFilter for TLC.                                       *)
EXTENDS TopicFilter

CONSTANTS e, a, m   \* levels: the empty one, a plain one, one such as "x#"

PlainLevels == {e, a}
MixedLevels == {m}
=============================================================================
