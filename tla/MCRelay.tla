------------------------------- MODULE MCRelay -------------------------------
(* Instances of Relay for TLC.                                             *)
EXTENDS Relay

CONSTANT t1   \* a topic name

OneTopic == {t1}

\* Three adapters: the scope of the second does not include the topic.
ThreeScopes == [a \in 1..3 |-> IF a = 2 THEN {} ELSE {t1}]

\* Two adapters whose scopes both include it.
PairScopes == [a \in 1..2 |-> {t1}]

\* Adapters whose clients may stop reading.
NoAdapters == {}
BothAdapters == {1, 2}
=============================================================================
