------------------------------- MODULE MCStart -------------------------------
(* Instances of Start for TLC.                                             *)
EXTENDS Start

CONSTANTS eth   \* an interface with an address of its own

OneNic == {eth}

\* 0 to 2 fit a socket, 5 fits port_int only, 9 does not fit and becomes 1.
Ports == {0, 1, 2, 5, 9}

\* Another process listens on this one.
InUse == {[ip |-> eth, port |-> 2]}
=============================================================================
