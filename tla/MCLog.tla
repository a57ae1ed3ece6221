-------------------------------- MODULE MCLog --------------------------------
(* Instances of Log for TLC.                                               *)
EXTENDS Log

CONSTANTS a1, a2, int, abrt

TwoAdapters == {a1, a2}
TwoNames == [a \in {a1, a2} |-> a]
TwoSignals == {int, abrt}

\* The control thread and the first broker may send to a client that does not
\* read.
OneBrokerToo == {Control, a1}
=============================================================================
