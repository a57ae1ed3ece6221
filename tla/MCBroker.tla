------------------------------- MODULE MCBroker -------------------------------
(* Instances of Broker for TLC.                                            *)
EXTENDS Broker, TLC

CONSTANTS c1, c2, f1, f2, bad, t1

TwoConns == {c1, c2}
NoConns == {}
OneFilter == {f1}
TwoFilters == {f1, f2}
BadFilters == {bad}
NoFilters == {}
OneTopic == {t1}

\* t1 matches f1 and not f2.
FirstMatches == {<<f1, t1>>}

\* The connections are interchangeable.
Symmetry == Permutations(TwoConns)
=============================================================================
