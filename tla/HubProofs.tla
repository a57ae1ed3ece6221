------------------------------- MODULE HubProofs -------------------------------
(***************************************************************************)
(* What follows from Hub, and so holds of whatever implements it.          *)
(***************************************************************************)
EXTENDS Hub, TLAPS

(***************************************************************************)
(* A message under way goes to subscriptions there still are, of clients   *)
(* that are still connected; and a client's message and a relayed one are  *)
(* never under way together, so that the subscribers of a broker see the   *)
(* two in one order.                                                       *)
(***************************************************************************)
SentToClients ==
  /\ sending \cup relaying \subseteq subs
  /\ \A s \in subs : s.con \in clients
  /\ sending = {} \/ relaying = {}

\* One subscription of a client to a filter.
OneForFilter ==
  \A s, x \in subs : s.con = x.con /\ s.filter = x.filter => s = x

HubInv == SentToClients /\ OneForFilter

LEMMA HubStep == HubInv /\ [Next]_hub_vars => HubInv'
<1> SUFFICES ASSUME HubInv, [Next]_hub_vars PROVE HubInv'
    OBVIOUS
<1> USE DEF HubInv, SentToClients, OneForFilter, Quiet
<1>1. ASSUME NEW c \in Conn, Connect(c) PROVE HubInv'
  BY <1>1 DEF Connect
<1>2. ASSUME NEW c \in Conn, End(c) PROVE HubInv'
  <2>1. /\ subs' = {s \in subs : s.con # c} /\ clients' = clients \ {c}
        /\ UNCHANGED <<sending, relaying>>
    BY <1>2 DEF End
  <2>2. sending \cup relaying \subseteq subs'
    BY <1>2, <2>1 DEF End
  <2> QED BY <2>1, <2>2
<1>3. ASSUME NEW c \in Conn, NEW f \in Filter, NEW nl \in BOOLEAN, Subscribe(c, f, nl)
      PROVE  HubInv'
  <2> DEFINE new == [con |-> c, filter |-> f, nl |-> nl]
  <2>1. new.con = c /\ new.filter = f /\ c \in clients
    BY <1>3 DEF Subscribe
  <2>2. /\ subs' = subs \cup {new} /\ \A s \in subs : s.con = c => s.filter # f
        /\ UNCHANGED <<clients, sending, relaying>> /\ sending = {} /\ relaying = {}
    BY <1>3 DEF Subscribe
  <2> HIDE DEF new
  <2> QED BY <2>1, <2>2
<1>4. CASE Unsubscribe
  BY <1>4 DEF Unsubscribe
<1>5. ASSUME NEW c \in Conn, NEW t \in Topic, Publish(c, t) PROVE HubInv'
  BY <1>5 DEF Publish, Matching
<1>6. ASSUME NEW t \in Topic, Relay(t) PROVE HubInv'
  BY <1>6 DEF Relay, Matching
<1>7. CASE Send \/ Abandon \/ UNCHANGED hub_vars
  BY <1>7 DEF Send, Abandon, hub_vars
<1> QED BY <1>1, <1>2, <1>3, <1>4, <1>5, <1>6, <1>7 DEF Next

(***************************************************************************)
(* Hub sends to the subscriptions of connected clients only, one message   *)
(* at a time, and once for each filter.                                    *)
(***************************************************************************)
THEOREM HubSends == Spec => [](SentToClients /\ OneForFilter)
<1>1. Init => HubInv
  BY DEF Init, HubInv, SentToClients, OneForFilter
<1>2. HubInv <=> SentToClients /\ OneForFilter
  BY DEF HubInv
<1> QED BY <1>1, <1>2, HubStep, PTL DEF Spec
=============================================================================
