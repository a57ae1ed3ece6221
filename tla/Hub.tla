---------------------------------- MODULE Hub ----------------------------------
(***************************************************************************)
(* What one broker promises, without threads, locks and sockets: clients   *)
(* are connected or not; the subscriptions of a client end with its        *)
(* connection, at once; and a message, of a client or relayed from another *)
(* adapter, is sent to exactly those subscriptions that matched it at one  *)
(* moment.  A client that goes away may cut a sending short.               *)
(***************************************************************************)
CONSTANTS Conn, Filter, Topic, Matches

VARIABLES
  clients,   \* connected clients
  subs,      \* their subscriptions
  sending,   \* subscriptions still to be sent a message of a client
  relaying   \* subscriptions still to be sent a relayed message

hub_vars == <<clients, subs, sending, relaying>>

Init == clients = {} /\ subs = {} /\ sending = {} /\ relaying = {}

\* While a message is being sent, subscriptions do not change.
Quiet == sending = {} /\ relaying = {}

Matching(t) == {s \in subs : <<s.filter, t>> \in Matches}

Connect(c) ==
  /\ clients' = clients \cup {c}
  /\ UNCHANGED <<subs, sending, relaying>>

\* A second subscription of a client to a filter changes nothing.
Subscribe(c, f, nl) ==
  /\ Quiet
  /\ c \in clients
  /\ \A s \in subs : s.con = c => s.filter # f
  /\ subs' = subs \cup {[con |-> c, filter |-> f, nl |-> nl]}
  /\ UNCHANGED <<clients, sending, relaying>>

\* Filters are unsubscribed from: for all clients, as the code has it.
Unsubscribe ==
  /\ Quiet
  /\ \E F \in SUBSET Filter : subs' = {s \in subs : s.filter \notin F}
  /\ UNCHANGED <<clients, sending, relaying>>

\* A client ends, and its subscriptions with it.
End(c) ==
  /\ \/ Quiet
     \/ \A s \in subs : s.con # c
  /\ clients' = clients \ {c}
  /\ subs' = {s \in subs : s.con # c}
  /\ UNCHANGED <<sending, relaying>>

\* Client c publishes; its own subscriptions with "no local" are left out.
Publish(c, t) ==
  /\ Quiet
  /\ c \in clients
  /\ sending' = {s \in Matching(t) : ~(s.nl /\ s.con = c)}
  /\ UNCHANGED <<clients, subs, relaying>>

Relay(t) ==
  /\ Quiet
  /\ relaying' = Matching(t)
  /\ UNCHANGED <<clients, subs, sending>>

\* One subscription is sent the message.
Send ==
  \/ /\ \E s \in sending : sending' = sending \ {s}
     /\ UNCHANGED <<clients, subs, relaying>>
  \/ /\ \E s \in relaying : relaying' = relaying \ {s}
     /\ UNCHANGED <<clients, subs, sending>>

\* A lost client ends the relaying of a message (that a client's message
\* cannot be sent on ends the process instead).
Abandon ==
  /\ relaying' = {}
  /\ UNCHANGED <<clients, subs, sending>>

Next ==
  \/ \E c \in Conn : Connect(c) \/ End(c)
  \/ \E c \in Conn, f \in Filter, nl \in BOOLEAN : Subscribe(c, f, nl)
  \/ Unsubscribe
  \/ \E c \in Conn, t \in Topic : Publish(c, t)
  \/ \E t \in Topic : Relay(t)
  \/ Send \/ Abandon

Spec == Init /\ [][Next]_hub_vars
=============================================================================
