------------------------------- MODULE Bridge -------------------------------
(***************************************************************************)
(* What an octopusMQ instance promises about the messages its adapters     *)
(* share, with no threads, locks or queue in it.  Shared messages form one *)
(* log.  Every adapter walks the log from its start, at its own pace and   *)
(* without ever going back; of the entries it passes it is given exactly   *)
(* those that another adapter shared and whose topic is in its scope.      *)
(***************************************************************************)
EXTENDS Naturals, Sequences

CONSTANTS Adapter,   \* the adapters of the pool
          Topic,     \* topic names
          Scope      \* Scope[a]: the topics that the scope of a includes

VARIABLES log,       \* every message shared so far, in order
          pos,       \* pos[a]: how many entries of log a has passed
          got        \* got[a]: the log positions handed to a, in order

vars == <<log, pos, got>>

\* The log entry m is forwarded to adapter a.
ForwardedTo(m, a) == m.origin # a /\ m.topic \in Scope[a]

Init ==
  /\ log = <<>>
  /\ pos = [a \in Adapter |-> 0]
  /\ got = [a \in Adapter |-> <<>>]

\* Adapter a shares a message that one of its clients published.
Share(a, t) ==
  /\ log' = Append(log, [origin |-> a, topic |-> t])
  /\ UNCHANGED <<pos, got>>

\* Adapter a passes the next entry of the log, and is given it if due.
Forward(a) ==
  /\ pos[a] < Len(log)
  /\ pos' = [pos EXCEPT ![a] = @ + 1]
  /\ got' = IF ForwardedTo(log[pos[a] + 1], a)
              THEN [got EXCEPT ![a] = Append(@, pos[a] + 1)]
              ELSE got
  /\ UNCHANGED log

Next ==
  \/ \E a \in Adapter, t \in Topic : Share(a, t)
  \/ \E a \in Adapter : Forward(a)

Spec == Init /\ [][Next]_vars
=============================================================================
