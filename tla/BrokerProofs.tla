----------------------------- MODULE BrokerProofs -----------------------------
(***************************************************************************)
(* Proofs about Broker for any number of connections, filters and topics.  *)
(***************************************************************************)
EXTENDS Broker, FiniteSetTheorems, TLAPS

USE NoConnAssumption

-----------------------------------------------------------------------------
(* The inductive invariant.                                                *)

\* Who has the mutex, and where a thread may have subscriptions to serve.
PlacesInv ==
  /\ who = NoConn <=> io = "idle"
  /\ mutex = "io" <=> io = "fanout"
  /\ mutex = "control" <=> inj # "idle"
  /\ io # "fanout" => todo = {}
  /\ inj = "idle" => inj_todo = {}
  /\ io = "publish" => topic \in Topic

\* The states a connection goes through, and the handlers it has then.
ConnInv ==
  /\ \A c \in Conn :
       /\ sock[c] = "new" => proto[c] = "none"
       /\ c \in connections => proto[c] # "none" /\ meta[c] = "known"
       /\ sock[c] \in {"open", "stalled", "lost"} =>
            /\ proto[c] # "none" => c \in connections
            /\ meta[c] = "known" \/ (io = "accept" /\ who = c)
       /\ c \in connections /\ sock[c] \in {"leaving", "closed"} =>
            io = "erase" /\ who = c
  /\ io \in {"reply", "subscribe", "unsubscribe", "publish", "fanout"} =>
       who \in connections
  /\ io \in {"erase", "erase_subs"} => sock[who] \in {"leaving", "closed"}

\* A subscription without "no local" was asked for so.
EchoInv == \A s \in subs : ~s.nl => <<s.con, s.filter>> \in echo

\* Subscriptions belong to connections; those with "no local" to connections of
\* version 5.
SubsInv ==
  /\ NoOrphanSubs
  /\ EchoInv
  /\ \A s \in subs : s.nl => proto[s.con] = "v5"
  /\ NoLocal

\* What the threads have still to serve is subscribed.
WalkInv ==
  /\ WalkIsStable
  /\ inj = "log" => \E s \in subs : s.con = inj_con

BrokerInv == TypeOK /\ PlacesInv /\ ConnInv /\ SubsInv /\ WalkInv

-----------------------------------------------------------------------------
LEMMA TouchFacts ==
  ASSUME NEW mt \in [Conn -> MetaState], NEW c \in Conn
  PROVE  /\ Touch(mt, c) \in [Conn -> MetaState]
         /\ \A d \in Conn : mt[d] = "known" => Touch(mt, c)[d] = "known"
         /\ mt[c] # "none" => Touch(mt, c) = mt
  BY DEF Touch, MetaState

LEMMA EntriesFacts ==
  ASSUME NEW es \in Entries
  PROVE  es \in Seq(Entry)
  BY MaxEntriesAssumption DEF Entries

LEMMA InitBroker == Init => BrokerInv
<1> SUFFICES ASSUME Init PROVE BrokerInv
    OBVIOUS
<1> USE DEF Init
<1>1. TypeOK
  BY DEF TypeOK, SockState, MetaState, IoPc
<1>2. PlacesInv /\ ConnInv
  BY DEF PlacesInv, ConnInv
<1>3. SubsInv /\ WalkInv
  BY DEF SubsInv, WalkInv, NoOrphanSubs, EchoInv, NoLocal, WalkIsStable
<1> QED BY <1>1, <1>2, <1>3 DEF BrokerInv

-----------------------------------------------------------------------------
(* Every step keeps the invariant: one lemma per action.                   *)

\* What an entry of SUBSCRIBE adds to _subs, if anything.
LEMMA SubscribeEntryStores ==
  ASSUME BrokerInv, SubscribeEntry, subs' # subs
  PROVE  \E s \in Subscription :
           /\ s.con = who
           /\ s.nl => proto[who] = "v5"
           /\ \A x \in subs : x.con = who => x.filter # s.filter
           /\ subs' = subs \cup {s}
<1> DEFINE e == Head(entries)
<1>1. entries # <<>> /\ entries \in Seq(Entry) /\ who \in Conn
  BY DEF SubscribeEntry, BrokerInv, TypeOK, PlacesInv
<1>2. e \in Entry /\ e.filter \in Filter
  BY <1>1 DEF SubscribeEntry
<1>3. e.nl \in BOOLEAN
  BY <1>2 DEF Entry
<1>4. PICK b \in BOOLEAN : b = (proto[who] = "v5" /\ e.nl)
  BY Zenon
<1>5. NewSub(e) = [con |-> who, filter |-> e.filter, nl |-> b]
  BY <1>4, Zenon DEF NewSub
<1>6. NewSub(e) \in Subscription
  BY <1>1, <1>2, <1>5 DEF Subscription
<1>7. NewSub(e).con = who /\ NewSub(e).filter = e.filter /\ NewSub(e).nl = b
  BY <1>5
<1>8. NewSub(e).nl => proto[who] = "v5"
  BY <1>4, <1>7, Zenon
<1>9. /\ subs' = subs \cup {NewSub(e)}
      /\ \A x \in subs : x.con = who => x.filter # NewSub(e).filter
  BY <1>7 DEF SubscribeEntry, Emplace
<1> QED BY <1>6, <1>7, <1>8, <1>9

\* What it adds to the history.
LEMMA SubscribeEntryAsks ==
  ASSUME BrokerInv, SubscribeEntry
  PROVE  /\ echo \subseteq echo' /\ echo' \subseteq Conn \X Filter
         /\ \A s \in subs' \ subs : ~s.nl => <<s.con, s.filter>> \in echo'
<1> DEFINE n == NewSub(Head(entries))
<1>1. echo \subseteq Conn \X Filter
  BY DEF BrokerInv, TypeOK
<1>2. CASE UNCHANGED <<subs, echo>>
  BY <1>1, <1>2
<1>3. CASE Head(entries).filter \in Filter /\ subs' = Emplace(n) /\ echo' = Asked(n)
  <2>1. who \in Conn
    BY DEF SubscribeEntry, BrokerInv, TypeOK, PlacesInv
  <2>2. n.con \in Conn /\ n.filter \in Filter
    BY <1>3, <2>1 DEF NewSub
  <2>3. \A s \in subs' \ subs : s = n
    BY <1>3 DEF Emplace
  <2> HIDE DEF n
  <2>4. CASE n.nl
    BY <1>1, <1>3, <2>3, <2>4 DEF Asked
  <2>5. CASE ~n.nl
    <3>1. echo' = echo \cup {<<n.con, n.filter>>}
      BY <1>3, <2>5, Zenon DEF Asked
    <3> QED BY <1>1, <2>2, <2>3, <3>1
  <2> QED BY <2>4, <2>5
<1> QED BY <1>2, <1>3 DEF SubscribeEntry

\* What the removal of subscriptions does to it.
LEMMA ForgetFacts ==
  ASSUME TypeOK, EchoInv, subs' \subseteq subs, echo' = Forget(subs \ subs'),
         \A s \in subs', x \in subs \ subs' : s.con # x.con \/ s.filter # x.filter
  PROVE  echo' \subseteq Conn \X Filter /\ EchoInv'
<1>1. echo' \subseteq echo
  BY DEF Forget
<1>2. ASSUME NEW s \in subs', ~s.nl PROVE <<s.con, s.filter>> \in echo'
  <2>1. <<s.con, s.filter>> \in echo
    BY <1>2 DEF EchoInv
  <2>2. \A x \in subs \ subs' : <<s.con, s.filter>> # <<x.con, x.filter>>
    BY <1>2
  <2> QED BY <2>1, <2>2 DEF Forget
<1> QED BY <1>1, <1>2 DEF TypeOK, EchoInv

LEMMA LosePeerStep ==
  ASSUME BrokerInv, NEW c \in Conn, LosePeer(c)
  PROVE  BrokerInv'
<1> USE DEF LosePeer, io_vars, inj_vars
<1>0. TypeOK /\ PlacesInv /\ ConnInv /\ SubsInv /\ WalkInv
  BY DEF BrokerInv
<1>1. TypeOK'
  BY <1>0 DEF TypeOK, SockState
<1>2. PlacesInv'
  BY <1>0 DEF PlacesInv
<1>3. ConnInv'
  BY <1>0 DEF ConnInv
<1>4. SubsInv'
  BY <1>0 DEF SubsInv, NoOrphanSubs, EchoInv, NoLocal
<1>5. WalkInv'
  BY <1>0 DEF WalkInv, WalkIsStable
<1> QED BY <1>1, <1>2, <1>3, <1>4, <1>5 DEF BrokerInv

LEMMA StallStep ==
  ASSUME BrokerInv, NEW c \in Conn, Stall(c)
  PROVE  BrokerInv'
<1> USE DEF Stall, io_vars, inj_vars
<1>0. TypeOK /\ PlacesInv /\ ConnInv /\ SubsInv /\ WalkInv
  BY DEF BrokerInv
<1>1. TypeOK'
  <2>1. sock' \in [Conn -> SockState]
    BY <1>0 DEF TypeOK, SockState
  <2> QED BY <1>0, <2>1 DEF TypeOK
<1>2. PlacesInv'
  BY <1>0 DEF PlacesInv
<1>3. ConnInv'
  BY <1>0 DEF TypeOK, PlacesInv, ConnInv
<1>4. SubsInv'
  BY <1>0 DEF SubsInv, NoOrphanSubs, EchoInv, NoLocal
<1>5. WalkInv'
  BY <1>0 DEF WalkInv, WalkIsStable
<1> QED BY <1>1, <1>2, <1>3, <1>4, <1>5 DEF BrokerInv

LEMMA AcceptStep ==
  ASSUME BrokerInv, NEW c \in Conn, Accept(c)
  PROVE  BrokerInv'
<1> USE DEF Accept, Start, inj_vars
<1>0. TypeOK /\ PlacesInv /\ ConnInv /\ SubsInv /\ WalkInv
  BY DEF BrokerInv
<1>1. TypeOK'
  BY <1>0 DEF TypeOK, SockState, IoPc
<1>2. PlacesInv'
  BY <1>0 DEF PlacesInv
<1>3. ConnInv'
  BY <1>0 DEF ConnInv
<1>4. SubsInv'
  BY <1>0 DEF PlacesInv, SubsInv, NoOrphanSubs, EchoInv, NoLocal
<1>5. WalkInv'
  BY <1>0 DEF WalkInv, WalkIsStable
<1> QED BY <1>1, <1>2, <1>3, <1>4, <1>5 DEF BrokerInv

LEMMA AcceptMetaStep ==
  ASSUME BrokerInv, AcceptMeta
  PROVE  BrokerInv'
<1> USE DEF AcceptMeta, Finish, MayThrow, net_vars, inj_vars
<1>0. TypeOK /\ PlacesInv /\ ConnInv /\ SubsInv /\ WalkInv
  BY DEF BrokerInv
<1>1. TypeOK'
  BY <1>0 DEF TypeOK, IoPc, MetaState
<1>2. PlacesInv'
  BY <1>0 DEF PlacesInv
<1>3. ConnInv'
  BY <1>0 DEF TypeOK, ConnInv
<1>4. SubsInv'
  BY <1>0 DEF PlacesInv, SubsInv, NoOrphanSubs, EchoInv, NoLocal
<1>5. WalkInv'
  BY <1>0 DEF WalkInv, WalkIsStable
<1> QED BY <1>1, <1>2, <1>3, <1>4, <1>5 DEF BrokerInv

LEMMA OnConnectStep ==
  ASSUME BrokerInv, NEW c \in Conn, NEW v \in {"v3", "v5"}, OnConnect(c, v)
  PROVE  BrokerInv'
<1> USE DEF OnConnect, Start, Receives, inj_vars
<1>0. TypeOK /\ PlacesInv /\ ConnInv /\ SubsInv /\ WalkInv
  BY DEF BrokerInv
<1>1. TypeOK'
  BY <1>0, TouchFacts DEF TypeOK, IoPc
<1>2. PlacesInv'
  BY <1>0 DEF PlacesInv
<1>3. ConnInv'
  BY <1>0, TouchFacts DEF TypeOK, ConnInv
<1>4. SubsInv'
  BY <1>0 DEF PlacesInv, SubsInv, NoOrphanSubs, EchoInv, NoLocal
<1>5. WalkInv'
  BY <1>0 DEF WalkInv, WalkIsStable
<1> QED BY <1>1, <1>2, <1>3, <1>4, <1>5 DEF BrokerInv

LEMMA OnControlPacketStep ==
  ASSUME BrokerInv, NEW c \in Conn, OnControlPacket(c)
  PROVE  BrokerInv'
<1> USE DEF OnControlPacket, Start, Receives, net_vars, inj_vars
<1>0. TypeOK /\ PlacesInv /\ ConnInv /\ SubsInv /\ WalkInv
  BY DEF BrokerInv
<1>1. TypeOK'
  BY <1>0, TouchFacts DEF TypeOK, IoPc
<1>2. PlacesInv'
  BY <1>0 DEF PlacesInv
<1>3. ConnInv'
  BY <1>0, TouchFacts DEF TypeOK, ConnInv
<1>4. SubsInv'
  BY <1>0 DEF PlacesInv, SubsInv, NoOrphanSubs, EchoInv, NoLocal
<1>5. WalkInv'
  BY <1>0 DEF WalkInv, WalkIsStable
<1> QED BY <1>1, <1>2, <1>3, <1>4, <1>5 DEF BrokerInv

LEMMA ReplyStep ==
  ASSUME BrokerInv, Reply
  PROVE  BrokerInv'
<1> USE DEF Reply, Finish, net_vars, inj_vars
<1>0. TypeOK /\ PlacesInv /\ ConnInv /\ SubsInv /\ WalkInv
  BY DEF BrokerInv
<1>1. TypeOK'
  BY <1>0 DEF TypeOK, IoPc
<1>2. PlacesInv'
  BY <1>0 DEF PlacesInv
<1>3. ConnInv'
  BY <1>0 DEF ConnInv
<1>4. SubsInv'
  BY <1>0 DEF PlacesInv, SubsInv, NoOrphanSubs, EchoInv, NoLocal
<1>5. WalkInv'
  BY <1>0 DEF WalkInv, WalkIsStable
<1> QED BY <1>1, <1>2, <1>3, <1>4, <1>5 DEF BrokerInv

LEMMA OnSubscribeStep ==
  ASSUME BrokerInv, NEW c \in Conn, NEW es \in Entries, OnSubscribe(c, es)
  PROVE  BrokerInv'
<1> USE DEF OnSubscribe, Start, Receives, net_vars, inj_vars
<1>0. TypeOK /\ PlacesInv /\ ConnInv /\ SubsInv /\ WalkInv
  BY DEF BrokerInv
<1>1. TypeOK'
  BY <1>0, TouchFacts, EntriesFacts DEF TypeOK, IoPc
<1>2. PlacesInv'
  BY <1>0 DEF PlacesInv
<1>3. ConnInv'
  BY <1>0, TouchFacts DEF TypeOK, ConnInv
<1>4. SubsInv'
  BY <1>0 DEF PlacesInv, SubsInv, NoOrphanSubs, EchoInv, NoLocal
<1>5. WalkInv'
  BY <1>0 DEF WalkInv, WalkIsStable
<1> QED BY <1>1, <1>2, <1>3, <1>4, <1>5 DEF BrokerInv

LEMMA SubscribeEntryStep ==
  ASSUME BrokerInv, SubscribeEntry
  PROVE  BrokerInv'
<1> USE DEF SubscribeEntry, net_vars, inj_vars
<1>0. TypeOK /\ PlacesInv /\ ConnInv /\ SubsInv /\ WalkInv
  BY DEF BrokerInv
<1>1. TypeOK'
  <2>1. entries' \in Seq(Entry)
    BY <1>0 DEF TypeOK
  <2>2. subs' \subseteq Subscription
    <3>1. CASE subs' = subs
      BY <1>0, <3>1 DEF TypeOK
    <3>2. CASE subs' # subs
      BY <1>0, <3>2, SubscribeEntryStores DEF TypeOK
    <3> QED BY <3>1, <3>2
  <2> QED BY <1>0, <2>1, <2>2, SubscribeEntryAsks DEF TypeOK
<1>2. PlacesInv'
  BY <1>0, SubscribeEntryStores DEF PlacesInv
<1>3. ConnInv'
  BY <1>0, SubscribeEntryStores DEF ConnInv
<1>4. SubsInv'
  <2>1. CASE subs' = subs
    BY <1>0, <2>1, SubscribeEntryAsks DEF SubsInv, NoOrphanSubs, EchoInv, NoLocal
  <2>2. CASE subs' # subs
    <3>1. PICK s \in Subscription :
            /\ s.con = who /\ (s.nl => proto[who] = "v5")
            /\ \A x \in subs : x.con = who => x.filter # s.filter
            /\ subs' = subs \cup {s}
      BY <2>2, SubscribeEntryStores
    <3>2. who \in connections
      BY <1>0 DEF ConnInv
    <3>3. NoOrphanSubs'
      BY <1>0, <3>1, <3>2 DEF SubsInv, NoOrphanSubs
    <3>4. EchoInv'
      BY <1>0, <3>1, SubscribeEntryAsks DEF SubsInv, EchoInv
    <3>5. (\A x \in subs : x.nl => proto[x.con] = "v5")'
      BY <1>0, <3>1 DEF SubsInv
    <3>6. NoLocal'
      BY <1>0, SubscribeEntryAsks DEF SubsInv, NoLocal
    <3> QED BY <3>3, <3>4, <3>5, <3>6 DEF SubsInv
  <2> QED BY <2>1, <2>2
<1>5. WalkInv'
  <2>1. subs \subseteq subs'
    BY SubscribeEntryStores
  <2> QED BY <1>0, <2>1 DEF WalkInv, WalkIsStable
<1> QED BY <1>1, <1>2, <1>3, <1>4, <1>5 DEF BrokerInv

LEMMA SubackStep ==
  ASSUME BrokerInv, Suback
  PROVE  BrokerInv'
<1> USE DEF Suback, Finish, net_vars, inj_vars
<1>0. TypeOK /\ PlacesInv /\ ConnInv /\ SubsInv /\ WalkInv
  BY DEF BrokerInv
<1>1. TypeOK'
  BY <1>0 DEF TypeOK, IoPc
<1>2. PlacesInv'
  BY <1>0 DEF PlacesInv
<1>3. ConnInv'
  BY <1>0 DEF ConnInv
<1>4. SubsInv'
  BY <1>0 DEF PlacesInv, SubsInv, NoOrphanSubs, EchoInv, NoLocal
<1>5. WalkInv'
  BY <1>0 DEF WalkInv, WalkIsStable
<1> QED BY <1>1, <1>2, <1>3, <1>4, <1>5 DEF BrokerInv

LEMMA OnUnsubscribeStep ==
  ASSUME BrokerInv, NEW c \in Conn, NEW es \in Entries, OnUnsubscribe(c, es)
  PROVE  BrokerInv'
<1> USE DEF OnUnsubscribe, Start, Receives, net_vars, inj_vars
<1>0. TypeOK /\ PlacesInv /\ ConnInv /\ SubsInv /\ WalkInv
  BY DEF BrokerInv
<1>1. TypeOK'
  BY <1>0, TouchFacts, EntriesFacts DEF TypeOK, IoPc
<1>2. PlacesInv'
  BY <1>0 DEF PlacesInv
<1>3. ConnInv'
  BY <1>0, TouchFacts DEF TypeOK, ConnInv
<1>4. SubsInv'
  BY <1>0 DEF PlacesInv, SubsInv, NoOrphanSubs, EchoInv, NoLocal
<1>5. WalkInv'
  BY <1>0 DEF WalkInv, WalkIsStable
<1> QED BY <1>1, <1>2, <1>3, <1>4, <1>5 DEF BrokerInv

LEMMA UnsubscribeStep ==
  ASSUME BrokerInv, Unsubscribe
  PROVE  BrokerInv'
<1> USE DEF Unsubscribe, net_vars, inj_vars
<1>0. TypeOK /\ PlacesInv /\ ConnInv /\ SubsInv /\ WalkInv
  BY DEF BrokerInv
<1>e. echo' \subseteq Conn \X Filter /\ EchoInv'
  <2>1. subs' \subseteq subs
    OBVIOUS
  <2>2. \A s \in subs', x \in subs \ subs' : s.con # x.con \/ s.filter # x.filter
    OBVIOUS
  <2> QED BY <1>0, <2>1, <2>2, ForgetFacts DEF SubsInv
<1>1. TypeOK'
  BY <1>0, <1>e DEF TypeOK, IoPc
<1>2. PlacesInv'
  BY <1>0 DEF PlacesInv
<1>3. ConnInv'
  BY <1>0 DEF ConnInv
<1>4. SubsInv'
  BY <1>0, <1>e DEF PlacesInv, SubsInv, NoOrphanSubs, NoLocal
<1>5. WalkInv'
  BY <1>0 DEF PlacesInv, WalkInv, WalkIsStable
<1> QED BY <1>1, <1>2, <1>3, <1>4, <1>5 DEF BrokerInv

LEMMA OnPublishStep ==
  ASSUME BrokerInv, NEW c \in Conn, NEW t \in Topic, OnPublish(c, t)
  PROVE  BrokerInv'
<1> USE DEF OnPublish, Start, Receives, net_vars, inj_vars
<1>0. TypeOK /\ PlacesInv /\ ConnInv /\ SubsInv /\ WalkInv
  BY DEF BrokerInv
<1>1. TypeOK'
  BY <1>0, TouchFacts DEF TypeOK, IoPc
<1>2. PlacesInv'
  BY <1>0 DEF PlacesInv
<1>3. ConnInv'
  BY <1>0, TouchFacts DEF TypeOK, ConnInv
<1>4. SubsInv'
  BY <1>0 DEF PlacesInv, SubsInv, NoOrphanSubs, EchoInv, NoLocal
<1>5. WalkInv'
  BY <1>0 DEF WalkInv, WalkIsStable
<1> QED BY <1>1, <1>2, <1>3, <1>4, <1>5 DEF BrokerInv

LEMMA PublishLockStep ==
  ASSUME BrokerInv, PublishLock
  PROVE  BrokerInv'
<1> USE DEF PublishLock, net_vars, inj_vars, Selected, Receivers
<1>0. TypeOK /\ PlacesInv /\ ConnInv /\ SubsInv /\ WalkInv
  BY DEF BrokerInv
<1>1. TypeOK'
  BY <1>0 DEF TypeOK, IoPc
<1>2. PlacesInv'
  BY <1>0 DEF PlacesInv
<1>3. ConnInv'
  BY <1>0 DEF ConnInv
<1>4. SubsInv'
  BY <1>0 DEF SubsInv, NoOrphanSubs, EchoInv, NoLocal
<1>5. WalkInv'
  BY <1>0 DEF WalkInv, WalkIsStable
<1> QED BY <1>1, <1>2, <1>3, <1>4, <1>5 DEF BrokerInv

LEMMA PublishSendStep ==
  ASSUME BrokerInv, PublishSend
  PROVE  BrokerInv'
<1> USE DEF PublishSend, MayThrow, net_vars, inj_vars
<1>0. TypeOK /\ PlacesInv /\ ConnInv /\ SubsInv /\ WalkInv
  BY DEF BrokerInv
<1>a. /\ todo' \subseteq todo
      /\ meta' \in [Conn -> MetaState]
      /\ \A d \in Conn : meta[d] = "known" => meta'[d] = "known"
      /\ proc' \in {proc, "terminated"}
  <2>1. PICK s \in todo :
          \/ todo' = todo \ {s} /\ meta' = Touch(meta, s.con) /\ proc' = proc
          \/ proc' = "terminated" /\ UNCHANGED <<todo, meta>>
    OBVIOUS
  <2>2. s.con \in Conn
    BY <1>0 DEF TypeOK, Subscription
  <2>3. meta \in [Conn -> MetaState]
    BY <1>0 DEF TypeOK
  <2> QED BY <2>1, <2>2, <2>3, TouchFacts
<1>1. TypeOK'
  BY <1>0, <1>a DEF TypeOK
<1>2. PlacesInv'
  BY <1>0 DEF PlacesInv
<1>3. ConnInv'
  BY <1>0, <1>a DEF ConnInv
<1>4. SubsInv'
  BY <1>0 DEF SubsInv, NoOrphanSubs, EchoInv, NoLocal
<1>5. WalkInv'
  BY <1>0 DEF WalkInv, WalkIsStable
<1> QED BY <1>1, <1>2, <1>3, <1>4, <1>5 DEF BrokerInv

LEMMA PublishShareStep ==
  ASSUME BrokerInv, PublishShare
  PROVE  BrokerInv'
<1> USE DEF PublishShare, Finish, net_vars, inj_vars
<1>0. TypeOK /\ PlacesInv /\ ConnInv /\ SubsInv /\ WalkInv
  BY DEF BrokerInv
<1>1. TypeOK'
  BY <1>0 DEF TypeOK, IoPc
<1>2. PlacesInv'
  BY <1>0 DEF PlacesInv
<1>3. ConnInv'
  BY <1>0 DEF ConnInv
<1>4. SubsInv'
  BY <1>0 DEF SubsInv, NoOrphanSubs, EchoInv, NoLocal
<1>5. WalkInv'
  BY <1>0 DEF WalkInv, WalkIsStable
<1> QED BY <1>1, <1>2, <1>3, <1>4, <1>5 DEF BrokerInv

LEMMA OnDisconnectStep ==
  ASSUME BrokerInv, NEW c \in Conn, OnDisconnect(c)
  PROVE  BrokerInv'
<1> USE DEF OnDisconnect, Start, Receives, inj_vars
<1>0. TypeOK /\ PlacesInv /\ ConnInv /\ SubsInv /\ WalkInv
  BY DEF BrokerInv
<1>1. TypeOK'
  BY <1>0, TouchFacts DEF TypeOK, SockState, IoPc
<1>2. PlacesInv'
  BY <1>0 DEF PlacesInv
<1>3. ConnInv'
  BY <1>0, TouchFacts DEF TypeOK, ConnInv
<1>4. SubsInv'
  BY <1>0 DEF PlacesInv, SubsInv, NoOrphanSubs, EchoInv, NoLocal
<1>5. WalkInv'
  BY <1>0 DEF WalkInv, WalkIsStable
<1> QED BY <1>1, <1>2, <1>3, <1>4, <1>5 DEF BrokerInv

LEMMA OnCloseStep ==
  ASSUME BrokerInv, NEW c \in Conn, OnClose(c)
  PROVE  BrokerInv'
<1> USE DEF OnClose, Start, inj_vars
<1>0. TypeOK /\ PlacesInv /\ ConnInv /\ SubsInv /\ WalkInv
  BY DEF BrokerInv
<1>1. TypeOK'
  BY <1>0 DEF TypeOK, SockState, IoPc
<1>2. PlacesInv'
  BY <1>0 DEF PlacesInv
<1>3. ConnInv'
  BY <1>0 DEF TypeOK, ConnInv
<1>4. SubsInv'
  BY <1>0 DEF PlacesInv, SubsInv, NoOrphanSubs, EchoInv, NoLocal
<1>5. WalkInv'
  BY <1>0 DEF WalkInv, WalkIsStable
<1> QED BY <1>1, <1>2, <1>3, <1>4, <1>5 DEF BrokerInv

LEMMA OnErrorStep ==
  ASSUME BrokerInv, NEW c \in Conn, OnError(c)
  PROVE  BrokerInv'
<1> USE DEF OnError, Start, inj_vars
<1>0. TypeOK /\ PlacesInv /\ ConnInv /\ SubsInv /\ WalkInv
  BY DEF BrokerInv
<1>1. TypeOK'
  BY <1>0, TouchFacts DEF TypeOK, SockState, IoPc
<1>2. PlacesInv'
  BY <1>0 DEF PlacesInv
<1>3. ConnInv'
  BY <1>0, TouchFacts DEF TypeOK, ConnInv
<1>4. SubsInv'
  BY <1>0 DEF PlacesInv, SubsInv, NoOrphanSubs, EchoInv, NoLocal
<1>5. WalkInv'
  BY <1>0 DEF WalkInv, WalkIsStable
<1> QED BY <1>1, <1>2, <1>3, <1>4, <1>5 DEF BrokerInv

LEMMA EraseConnectionStep ==
  ASSUME BrokerInv, EraseConnection
  PROVE  BrokerInv'
<1> USE DEF EraseConnection, net_vars, inj_vars
<1>0. TypeOK /\ PlacesInv /\ ConnInv /\ SubsInv /\ WalkInv
  BY DEF BrokerInv
<1>1. TypeOK'
  BY <1>0 DEF TypeOK, IoPc, MetaState
<1>2. PlacesInv'
  BY <1>0 DEF PlacesInv
<1>3. ConnInv'
  BY <1>0 DEF ConnInv
<1>4. SubsInv'
  BY <1>0 DEF SubsInv, NoOrphanSubs, EchoInv, NoLocal
<1>5. WalkInv'
  BY <1>0 DEF WalkInv, WalkIsStable
<1> QED BY <1>1, <1>2, <1>3, <1>4, <1>5 DEF BrokerInv

LEMMA EraseSubsStep ==
  ASSUME BrokerInv, EraseSubs
  PROVE  BrokerInv'
<1> USE DEF EraseSubs, Finish, net_vars, inj_vars
<1>0. TypeOK /\ PlacesInv /\ ConnInv /\ SubsInv /\ WalkInv
  BY DEF BrokerInv
<1>e. echo' \subseteq Conn \X Filter /\ EchoInv'
  <2>1. subs' \subseteq subs
    OBVIOUS
  <2>2. \A s \in subs', x \in subs \ subs' : s.con # x.con \/ s.filter # x.filter
    OBVIOUS
  <2> QED BY <1>0, <2>1, <2>2, ForgetFacts DEF SubsInv
<1>1. TypeOK'
  BY <1>0, <1>e DEF TypeOK, IoPc
<1>2. PlacesInv'
  BY <1>0 DEF PlacesInv
<1>3. ConnInv'
  BY <1>0 DEF ConnInv
<1>4. SubsInv'
  BY <1>0, <1>e DEF PlacesInv, SubsInv, NoOrphanSubs, NoLocal
<1>5. WalkInv'
  BY <1>0 DEF PlacesInv, WalkInv, WalkIsStable
<1> QED BY <1>1, <1>2, <1>3, <1>4, <1>5 DEF BrokerInv

LEMMA InjectLockStep ==
  ASSUME BrokerInv, NEW t \in Topic, InjectLock(t)
  PROVE  BrokerInv'
<1> USE DEF InjectLock, net_vars, io_vars, Selected
<1>0. TypeOK /\ PlacesInv /\ ConnInv /\ SubsInv /\ WalkInv
  BY DEF BrokerInv
<1>1. TypeOK'
  BY <1>0 DEF TypeOK
<1>2. PlacesInv'
  BY <1>0 DEF PlacesInv
<1>3. ConnInv'
  BY <1>0 DEF ConnInv
<1>4. SubsInv'
  BY <1>0 DEF SubsInv, NoOrphanSubs, EchoInv, NoLocal
<1>5. WalkInv'
  BY <1>0 DEF WalkInv, WalkIsStable
<1> QED BY <1>1, <1>2, <1>3, <1>4, <1>5 DEF BrokerInv

LEMMA InjectSendStep ==
  ASSUME BrokerInv, InjectSend
  PROVE  BrokerInv'
<1> USE DEF InjectSend, net_vars, io_vars
<1>0. TypeOK /\ PlacesInv /\ ConnInv /\ SubsInv /\ WalkInv
  BY DEF BrokerInv
<1>a. inj_con' \in Conn /\ inj_todo' \subseteq inj_todo
  BY <1>0 DEF TypeOK, Subscription
<1>1. TypeOK'
  BY <1>0, <1>a DEF TypeOK
<1>2. PlacesInv'
  BY <1>0 DEF PlacesInv
<1>3. ConnInv'
  BY <1>0 DEF ConnInv
<1>4. SubsInv'
  BY <1>0 DEF SubsInv, NoOrphanSubs, EchoInv, NoLocal
<1>5. WalkInv'
  BY <1>0 DEF WalkInv, WalkIsStable
<1> QED BY <1>1, <1>2, <1>3, <1>4, <1>5 DEF BrokerInv

LEMMA InjectLogStep ==
  ASSUME BrokerInv, InjectLog
  PROVE  BrokerInv'
<1> USE DEF InjectLog, net_vars, io_vars
<1>0. TypeOK /\ PlacesInv /\ ConnInv /\ SubsInv /\ WalkInv
  BY DEF BrokerInv
<1>a. /\ meta' \in [Conn -> MetaState]
      /\ \A d \in Conn : meta[d] = "known" => meta'[d] = "known"
  <2>1. PICK s \in subs : s.con = inj_con
    BY <1>0 DEF WalkInv
  <2>2. inj_con \in Conn /\ meta \in [Conn -> MetaState]
    BY <1>0, <2>1 DEF TypeOK, Subscription
  <2> QED BY <2>2, TouchFacts
<1>1. TypeOK'
  BY <1>0, <1>a DEF TypeOK
<1>2. PlacesInv'
  BY <1>0 DEF PlacesInv
<1>3. ConnInv'
  BY <1>0, <1>a DEF ConnInv
<1>4. SubsInv'
  BY <1>0 DEF SubsInv, NoOrphanSubs, EchoInv, NoLocal
<1>5. WalkInv'
  BY <1>0 DEF WalkInv, WalkIsStable
<1> QED BY <1>1, <1>2, <1>3, <1>4, <1>5 DEF BrokerInv

LEMMA InjectDoneStep ==
  ASSUME BrokerInv, InjectDone
  PROVE  BrokerInv'
<1> USE DEF InjectDone, InjectLeave, net_vars, io_vars
<1>0. TypeOK /\ PlacesInv /\ ConnInv /\ SubsInv /\ WalkInv
  BY DEF BrokerInv
<1>1. TypeOK'
  BY <1>0 DEF TypeOK
<1>2. PlacesInv'
  BY <1>0 DEF PlacesInv
<1>3. ConnInv'
  BY <1>0 DEF ConnInv
<1>4. SubsInv'
  BY <1>0 DEF SubsInv, NoOrphanSubs, EchoInv, NoLocal
<1>5. WalkInv'
  BY <1>0 DEF WalkInv, WalkIsStable
<1> QED BY <1>1, <1>2, <1>3, <1>4, <1>5 DEF BrokerInv

LEMMA InjectThrowsStep ==
  ASSUME BrokerInv, InjectThrows
  PROVE  BrokerInv'
<1> USE DEF InjectThrows, MayThrow, InjectLeave, net_vars, io_vars
<1>0. TypeOK /\ PlacesInv /\ ConnInv /\ SubsInv /\ WalkInv
  BY DEF BrokerInv
<1>1. TypeOK'
  BY <1>0 DEF TypeOK
<1>2. PlacesInv'
  BY <1>0 DEF PlacesInv
<1>3. ConnInv'
  BY <1>0 DEF ConnInv
<1>4. SubsInv'
  BY <1>0 DEF SubsInv, NoOrphanSubs, EchoInv, NoLocal
<1>5. WalkInv'
  BY <1>0 DEF WalkInv, WalkIsStable
<1> QED BY <1>1, <1>2, <1>3, <1>4, <1>5 DEF BrokerInv

LEMMA MetaRaceStep ==
  ASSUME BrokerInv, MetaRace
  PROVE  BrokerInv'
<1> USE DEF MetaRace, net_vars, io_vars, inj_vars
<1>0. TypeOK /\ PlacesInv /\ ConnInv /\ SubsInv /\ WalkInv
  BY DEF BrokerInv
<1>1. TypeOK'
  BY <1>0 DEF TypeOK
<1>2. PlacesInv'
  BY <1>0 DEF PlacesInv
<1>3. ConnInv'
  BY <1>0 DEF ConnInv
<1>4. SubsInv'
  BY <1>0 DEF SubsInv, NoOrphanSubs, EchoInv, NoLocal
<1>5. WalkInv'
  BY <1>0 DEF WalkInv, WalkIsStable
<1> QED BY <1>1, <1>2, <1>3, <1>4, <1>5 DEF BrokerInv

-----------------------------------------------------------------------------
LEMMA NextBroker == BrokerInv /\ [Next]_vars => BrokerInv'
<1> SUFFICES ASSUME BrokerInv, [Next]_vars PROVE BrokerInv'
    OBVIOUS
<1>1. CASE IoStep
  BY <1>1, AcceptMetaStep, ReplyStep, SubscribeEntryStep, SubackStep,
     UnsubscribeStep, PublishLockStep, PublishSendStep, PublishShareStep,
     EraseConnectionStep, EraseSubsStep DEF IoStep
<1>2. CASE InjectStep \/ InjectThrows \/ MetaRace
  BY <1>2, InjectSendStep, InjectLogStep, InjectDoneStep, InjectThrowsStep,
     MetaRaceStep DEF InjectStep
<1>3. CASE \E c \in Conn : Packet(c)
  BY <1>3, AcceptStep, OnConnectStep, OnControlPacketStep, OnSubscribeStep,
     OnUnsubscribeStep, OnPublishStep, OnDisconnectStep DEF Packet
<1>4. CASE \E c \in Conn : End(c) \/ LosePeer(c) \/ Stall(c)
  BY <1>4, OnCloseStep, OnErrorStep, LosePeerStep, StallStep DEF End
<1>5. CASE \E t \in Topic : InjectLock(t)
  BY <1>5, InjectLockStep
<1>6. CASE UNCHANGED vars
  <2> USE <1>6 DEF vars, net_vars, io_vars, inj_vars, BrokerInv
  <2>1. TypeOK' /\ PlacesInv' /\ ConnInv'
    BY DEF TypeOK, PlacesInv, ConnInv
  <2>2. SubsInv' /\ WalkInv'
    BY DEF SubsInv, NoOrphanSubs, EchoInv, NoLocal, WalkInv, WalkIsStable
  <2> QED BY <2>1, <2>2
<1> QED
  BY <1>1, <1>2, <1>3, <1>4, <1>5, <1>6 DEF Next, Ended

(***************************************************************************)
(* The invariant of the handlers, the containers and the mutex, for any    *)
(* number of connections.                                                  *)
(***************************************************************************)
THEOREM BrokerInvariant == Spec => []BrokerInv
BY InitBroker, NextBroker, PTL DEF Spec

\* Type correctness.
THEOREM BrokerTypeCorrect == Spec => []TypeOK
<1>1. BrokerInv => TypeOK
  BY DEF BrokerInv
<1> QED BY <1>1, BrokerInvariant, PTL

(***************************************************************************)
(* The three ways in which a connection ends leave no subscription behind. *)
(***************************************************************************)
THEOREM SubsHaveOwners == Spec => []NoOrphanSubs
<1>1. BrokerInv => NoOrphanSubs
  BY DEF BrokerInv, SubsInv
<1> QED BY <1>1, BrokerInvariant, PTL

\* They leave no closed connection in _connections.
THEOREM ClosedAreErased == Spec => []ClosedIsErased
<1>1. BrokerInv => ClosedIsErased
  BY DEF BrokerInv, TypeOK, ConnInv, ClosedIsErased
<1> QED BY <1>1, BrokerInvariant, PTL

\* A connection is put there only after its address was stored.
THEOREM ConnectedAreKnown == Spec => []ConnectedIsKnown
<1>1. BrokerInv => ConnectedIsKnown
  BY DEF BrokerInv, TypeOK, ConnInv, ConnectedIsKnown
<1> QED BY <1>1, BrokerInvariant, PTL

(***************************************************************************)
(* A client gets its own messages only through filters it has asked for    *)
(* without "no local", with the handlers of both versions.                 *)
(***************************************************************************)
THEOREM NotSentBack == Spec => []NoLocal
<1>1. BrokerInv => NoLocal
  BY DEF BrokerInv, SubsInv
<1> QED BY <1>1, BrokerInvariant, PTL

(***************************************************************************)
(* Neither thread's walk over _subs is disturbed by the other thread.      *)
(***************************************************************************)
THEOREM WalksUndisturbed == Spec => []WalkIsStable
<1>1. BrokerInv => WalkIsStable
  BY DEF BrokerInv, WalkInv
<1> QED BY <1>1, BrokerInvariant, PTL

(***************************************************************************)
(* inject_publish inserts into _meta only between the two halves of        *)
(* close_connection of the connection it has sent to.                      *)
(***************************************************************************)
THEOREM InjectInsertsRarely == Spec => []InjectFindsMeta
<1>1. BrokerInv => InjectFindsMeta
  <2> SUFFICES ASSUME BrokerInv, inj = "log"
               PROVE  meta[inj_con] = "known" \/ (io = "erase_subs" /\ who = inj_con)
    BY DEF InjectFindsMeta
  <2>1. PICK s \in subs : s.con = inj_con
    BY DEF BrokerInv, WalkInv
  <2>2. s.con \in Conn
    BY DEF BrokerInv, TypeOK, Subscription
  <2>3. s.con \in connections => meta[s.con] = "known"
    BY <2>2 DEF BrokerInv, ConnInv
  <2> QED BY <2>1, <2>3 DEF BrokerInv, SubsInv, NoOrphanSubs
<1> QED BY <1>1, BrokerInvariant, PTL

-----------------------------------------------------------------------------
(* Handlers and calls of inject_publish have finitely much to do.          *)

\* Only finitely many subscriptions are ever stored, whatever Conn and Filter.
SubsFinite == IsFiniteSet(subs)

LEMMA NextFinite == BrokerInv /\ SubsFinite /\ [Next]_vars => SubsFinite'
<1> SUFFICES ASSUME BrokerInv, SubsFinite, [Next]_vars PROVE IsFiniteSet(subs')
    BY DEF SubsFinite
<1>1. CASE subs' \subseteq subs
  BY <1>1, FS_Subset DEF SubsFinite
<1>2. CASE SubscribeEntry
  <2>1. subs' = subs \/ \E s \in Subscription : subs' = subs \cup {s}
    BY <1>2, SubscribeEntryStores
  <2> QED BY <2>1, FS_AddElement DEF SubsFinite
<1>3. CASE IoStep /\ ~SubscribeEntry
  <2>1. subs' \subseteq subs
    BY <1>3 DEF IoStep, AcceptMeta, Reply, Suback, Unsubscribe, PublishLock,
                PublishSend, PublishShare, EraseConnection, EraseSubs
  <2> QED BY <1>1, <2>1
<1>4. CASE InjectStep \/ InjectThrows \/ MetaRace \/ \E t \in Topic : InjectLock(t)
  BY <1>1, <1>4 DEF InjectStep, InjectSend, InjectLog, InjectDone, InjectThrows,
                    InjectLeave, MetaRace, InjectLock
<1>5. CASE \E c \in Conn : Packet(c)
  BY <1>1, <1>5 DEF Packet, Accept, OnConnect, OnControlPacket, OnSubscribe,
                    OnUnsubscribe, OnPublish, OnDisconnect
<1>6. CASE \E c \in Conn : End(c) \/ LosePeer(c) \/ Stall(c)
  BY <1>1, <1>6 DEF End, OnClose, OnError, LosePeer, Stall
<1>7. CASE UNCHANGED vars
  BY <1>1, <1>7 DEF vars
<1> QED
  BY <1>2, <1>3, <1>4, <1>5, <1>6, <1>7 DEF Next, Ended

LEMMA FiniteInvariant == Spec => []SubsFinite
<1>1. Init => SubsFinite
  BY FS_EmptySet DEF Init, SubsFinite
<1> QED BY <1>1, NextFinite, BrokerInvariant, PTL DEF Spec

LEMMA LessOne ==
  ASSUME NEW S, IsFiniteSet(S), NEW s \in S
  PROVE  Cardinality(S \ {s}) < Cardinality(S)
<1>1. Cardinality(S \ {s}) = Cardinality(S) - 1 /\ Cardinality(S) \in Nat
  BY FS_RemoveElement, FS_CardinalityType
<1> QED BY <1>1

LEMMA TailIsShorter ==
  ASSUME NEW S, NEW s \in Seq(S), s # <<>>
  PROVE  Len(Tail(s)) < Len(s)
<1>1. Len(s) \in Nat /\ Len(Tail(s)) = Len(s) - 1
  OBVIOUS
<1> QED BY <1>1

\* What the threads have still to send is finite.
LEMMA WalksFinite ==
  ASSUME BrokerInv, SubsFinite
  PROVE  IsFiniteSet(todo) /\ IsFiniteSet(inj_todo)
<1>1. todo \subseteq subs /\ inj_todo \subseteq subs
  BY DEF BrokerInv, WalkInv, WalkIsStable
<1> QED BY <1>1, FS_Subset DEF SubsFinite

LEMMA IoStepGetsOn ==
  ASSUME BrokerInv, SubsFinite, IoStep, io' # "idle", Running'
  PROVE  HandlerGetsOn
<1>1. CASE AcceptMeta
  BY <1>1 DEF AcceptMeta, Finish, Running
<1>2. CASE Reply \/ Suback \/ PublishShare \/ EraseSubs
  BY <1>2 DEF Reply, Suback, PublishShare, EraseSubs, Finish
<1>3. CASE SubscribeEntry
  <2>1. who' = who /\ io' = io /\ entries' = Tail(entries)
    BY <1>3 DEF SubscribeEntry
  <2>2. entries \in Seq(Entry) /\ entries # <<>>
    BY <1>3 DEF SubscribeEntry, BrokerInv, TypeOK
  <2>3. Len(Tail(entries)) < Len(entries)
    BY <2>2, TailIsShorter
  <2>4. Len(entries') < Len(entries)
    BY <2>1, <2>3, Zenon
  <2> QED BY <2>1, <2>4, Zenon DEF HandlerGetsOn
<1>4. CASE Unsubscribe \/ PublishLock \/ EraseConnection
  <2>1. who' = who
    BY <1>4 DEF Unsubscribe, PublishLock, EraseConnection
  <2>2. \/ io = "unsubscribe" /\ io' = "reply"
        \/ io = "publish" /\ io' = "fanout"
        \/ io = "erase" /\ io' = "erase_subs"
    BY <1>4 DEF Unsubscribe, PublishLock, EraseConnection
  <2>3. HandlerStage[io'] < HandlerStage[io]
    BY <2>2 DEF HandlerStage
  <2> QED BY <2>1, <2>3, Zenon DEF HandlerGetsOn
<1>5. CASE PublishSend
  <2>1. who' = who /\ io' = io /\ entries' = entries
    BY <1>5 DEF PublishSend
  <2>2. PICK s \in todo : todo' = todo \ {s}
    BY <1>5 DEF PublishSend, Running
  <2>3. Cardinality(todo') < Cardinality(todo)
    BY <2>2, WalksFinite, LessOne
  <2> QED BY <2>1, <2>3, Zenon DEF HandlerGetsOn
<1> QED BY <1>1, <1>2, <1>3, <1>4, <1>5 DEF IoStep

LEMMA OthersLeaveHandler ==
  ASSUME [Next]_vars, ~IoStep, io # "idle"
  PROVE  UNCHANGED io_vars
<1>1. CASE InjectStep \/ InjectThrows \/ MetaRace \/ \E t \in Topic : InjectLock(t)
  BY <1>1 DEF InjectStep, InjectSend, InjectLog, InjectDone, InjectThrows,
              InjectLeave, MetaRace, InjectLock
<1>2. ASSUME NEW c \in Conn, Packet(c) PROVE FALSE
  BY <1>2 DEF Packet, Accept, OnConnect, OnControlPacket, OnSubscribe,
              OnUnsubscribe, OnPublish, OnDisconnect, Receives, Start
<1>3. ASSUME NEW c \in Conn, End(c) \/ LosePeer(c) \/ Stall(c)
      PROVE  UNCHANGED io_vars
  BY <1>3 DEF End, OnClose, OnError, Start, LosePeer, Stall
<1>4. CASE UNCHANGED vars
  BY <1>4 DEF vars
<1> QED BY <1>1, <1>2, <1>3, <1>4 DEF Next, Ended

LEMMA InjectStepGetsOn ==
  ASSUME BrokerInv, SubsFinite, InjectStep, inj' # "idle"
  PROVE  InjectGetsOn
<1>1. CASE InjectSend
  <2>1. PICK s \in inj_todo : inj_todo' = inj_todo \ {s}
    BY <1>1 DEF InjectSend
  <2>2. Cardinality(inj_todo') < Cardinality(inj_todo)
    BY <2>1, WalksFinite, LessOne
  <2> QED BY <2>2, Zenon DEF InjectGetsOn
<1>2. CASE InjectLog
  BY <1>2 DEF InjectLog, InjectGetsOn
<1>3. CASE InjectDone
  BY <1>3 DEF InjectDone, InjectLeave
<1> QED BY <1>1, <1>2, <1>3 DEF InjectStep

LEMMA OthersLeaveInject ==
  ASSUME [Next]_vars, ~InjectStep, inj # "idle", inj' # "idle"
  PROVE  UNCHANGED inj_vars
<1>1. CASE IoStep
  BY <1>1 DEF IoStep, AcceptMeta, Reply, SubscribeEntry, Suback, Unsubscribe,
              PublishLock, PublishSend, PublishShare, EraseConnection, EraseSubs
<1>2. CASE InjectThrows \/ MetaRace \/ \E t \in Topic : InjectLock(t)
  BY <1>2 DEF InjectThrows, InjectLeave, MetaRace, InjectLock
<1>3. ASSUME NEW c \in Conn, Packet(c) PROVE UNCHANGED inj_vars
  BY <1>3 DEF Packet, Accept, OnConnect, OnControlPacket, OnSubscribe,
              OnUnsubscribe, OnPublish, OnDisconnect
<1>4. ASSUME NEW c \in Conn, End(c) \/ LosePeer(c) \/ Stall(c)
      PROVE  UNCHANGED inj_vars
  BY <1>4 DEF End, OnClose, OnError, LosePeer, Stall
<1>5. CASE UNCHANGED vars
  BY <1>5 DEF vars
<1> QED BY <1>1, <1>2, <1>3, <1>4, <1>5 DEF Next, Ended

(***************************************************************************)
(* Every step of a handler of the io thread, and of inject_publish in the  *)
(* control thread, brings it nearer to its end, and no step of the other   *)
(* thread, of a client or of the network gives it more to do.              *)
(***************************************************************************)
THEOREM HandlersGetOn == Spec => HandlersNearEnd
<1>1. ASSUME BrokerInv, SubsFinite, [Next]_vars, Running'
      PROVE  /\ io # "idle" /\ io' # "idle" =>
                  IF IoStep THEN HandlerGetsOn ELSE UNCHANGED io_vars
             /\ inj # "idle" /\ inj' # "idle" =>
                  IF InjectStep THEN InjectGetsOn ELSE UNCHANGED inj_vars
  <2>1. io # "idle" /\ io' # "idle" /\ IoStep => HandlerGetsOn
    BY <1>1, IoStepGetsOn
  <2>2. io # "idle" /\ ~IoStep => UNCHANGED io_vars
    BY <1>1, OthersLeaveHandler
  <2>3. inj' # "idle" /\ InjectStep => InjectGetsOn
    BY <1>1, InjectStepGetsOn
  <2>4. inj # "idle" /\ inj' # "idle" /\ ~InjectStep => UNCHANGED inj_vars
    BY <1>1, OthersLeaveInject
  <2> QED BY <2>1, <2>2, <2>3, <2>4, Zenon
<1> QED BY <1>1, BrokerInvariant, FiniteInvariant, PTL DEF Spec, HandlersNearEnd

-----------------------------------------------------------------------------
(* How far the code departs from RemovesOwnOnly and ClosedIsForgotten.     *)

(***************************************************************************)
(* A subscription is removed by the handlers for its own connection, or by *)
(* an UNSUBSCRIBE that names its filter, and by nothing else: this is how  *)
(* far the deviation from RemovesOwnOnly goes.                             *)
(***************************************************************************)
RemovesNamedOnly ==
  [][\A s \in subs \ subs' :
       \/ s.con = who
       \/ io = "unsubscribe" /\ \E j \in DOMAIN entries : entries[j].filter = s.filter]_vars

(***************************************************************************)
(* What the accept handler stored of a connection outlives it only if the  *)
(* client never sent CONNECT.                                              *)
(***************************************************************************)
LeftInMeta ==
  \A c \in Conn :
    sock[c] = "closed" /\ io = "idle" /\ meta[c] = "known" => proto[c] = "none"

(***************************************************************************)
(* An entry of _meta without an address is made in one place only, by      *)
(* inject_publish between the two halves of close_connection; no handler   *)
(* of the io thread makes one, whatever the order of packets and errors.   *)
(***************************************************************************)
BlankByInjectOnly ==
  [][\A c \in Conn : meta'[c] = "blank" /\ meta[c] # "blank" =>
       inj = "log" /\ inj_con = c /\ io = "erase_subs" /\ who = c]_vars

\* The strengthening of LeftInMeta that every step keeps.
KeptInv ==
  /\ \A c \in Conn :
       sock[c] \in {"leaving", "closed"} /\ proto[c] # "none" /\ meta[c] = "known" =>
         io = "erase" /\ who = c
  /\ io = "accept" => sock[who] \in {"open", "stalled", "lost"}

LEMMA TouchAdds ==
  ASSUME NEW mt \in [Conn -> MetaState], NEW c \in Conn
  PROVE  /\ \A d \in Conn : Touch(mt, c)[d] = "known" <=> mt[d] = "known"
         /\ \A d \in Conn : Touch(mt, c)[d] = "blank" /\ mt[d] # "blank" =>
                              d = c /\ mt[c] = "none"
BY DEF Touch, MetaState

LEMMA IoStepKept ==
  ASSUME BrokerInv, KeptInv, IoStep
  PROVE  KeptInv'
<1>0. TypeOK /\ PlacesInv /\ ConnInv
  BY DEF BrokerInv
<1>1. CASE AcceptMeta
  BY <1>0, <1>1 DEF AcceptMeta, Finish, net_vars, TypeOK, PlacesInv, KeptInv
<1>2. CASE Reply \/ Suback \/ SubscribeEntry \/ Unsubscribe \/ PublishLock \/ PublishShare
  <2>1. UNCHANGED <<sock, proto, meta>> /\ io' # "accept" /\ io # "erase"
    BY <1>2 DEF Reply, Suback, SubscribeEntry, Unsubscribe, PublishLock,
                PublishShare, Finish, net_vars
  <2> QED BY <2>1 DEF KeptInv
<1>3. CASE PublishSend
  <2>1. PICK s \in todo : meta' = Touch(meta, s.con) \/ meta' = meta
    BY <1>3 DEF PublishSend
  <2>2. s.con \in Conn /\ meta \in [Conn -> MetaState]
    BY <1>0 DEF TypeOK, Subscription
  <2>3. \A d \in Conn : meta'[d] = "known" <=> meta[d] = "known"
    BY <2>1, <2>2, TouchAdds
  <2> QED BY <1>3, <2>3 DEF PublishSend, KeptInv, net_vars
<1>4. CASE EraseConnection
  BY <1>0, <1>4 DEF EraseConnection, net_vars, TypeOK, KeptInv
<1>5. CASE EraseSubs
  BY <1>5 DEF EraseSubs, Finish, net_vars, KeptInv
<1> QED BY <1>1, <1>2, <1>3, <1>4, <1>5 DEF IoStep

LEMMA PacketKept ==
  ASSUME BrokerInv, KeptInv, NEW c \in Conn, Packet(c)
  PROVE  KeptInv'
<1>0. TypeOK /\ PlacesInv /\ ConnInv
  BY DEF BrokerInv
<1>1. CASE Accept(c)
  BY <1>0, <1>1 DEF Accept, Start, TypeOK, KeptInv
<1>2. ASSUME NEW v \in {"v3", "v5"}, OnConnect(c, v) PROVE KeptInv'
  BY <1>0, <1>2, TouchAdds DEF OnConnect, Receives, Start, TypeOK, KeptInv
<1>3. CASE OnControlPacket(c)
  BY <1>0, <1>3, TouchAdds DEF OnControlPacket, Receives, Start, net_vars, TypeOK, KeptInv
<1>4. CASE \E es \in Entries : OnSubscribe(c, es) \/ OnUnsubscribe(c, es)
  BY <1>0, <1>4, TouchAdds DEF OnSubscribe, OnUnsubscribe, Receives, Start,
                               net_vars, TypeOK, KeptInv
<1>5. CASE \E t \in Topic : OnPublish(c, t)
  BY <1>0, <1>5, TouchAdds DEF OnPublish, Receives, Start, net_vars, TypeOK, KeptInv
<1>6. CASE OnDisconnect(c)
  BY <1>0, <1>6, TouchAdds DEF OnDisconnect, Receives, Start, TypeOK, KeptInv
<1> QED BY <1>1, <1>2, <1>3, <1>4, <1>5, <1>6 DEF Packet

LEMMA OthersKept ==
  ASSUME BrokerInv, KeptInv,
         \/ \E c \in Conn : End(c) \/ LosePeer(c) \/ Stall(c)
         \/ InjectStep \/ InjectThrows \/ MetaRace
         \/ \E t \in Topic : InjectLock(t)
  PROVE  KeptInv'
<1>0. TypeOK /\ PlacesInv /\ ConnInv
  BY DEF BrokerInv
<1>1. ASSUME NEW c \in Conn, OnClose(c) PROVE KeptInv'
  BY <1>0, <1>1 DEF OnClose, Start, TypeOK, KeptInv
<1>2. ASSUME NEW c \in Conn, OnError(c) PROVE KeptInv'
  BY <1>0, <1>2, TouchAdds DEF OnError, Start, TypeOK, ConnInv, KeptInv
<1>3. ASSUME NEW c \in Conn, LosePeer(c) \/ Stall(c) PROVE KeptInv'
  BY <1>0, <1>3 DEF LosePeer, Stall, io_vars, TypeOK, PlacesInv, KeptInv
<1>4. CASE InjectLog
  <2>1. inj_con \in Conn
    BY <1>0, <1>4 DEF InjectLog, BrokerInv, WalkInv, WalkIsStable, TypeOK, Subscription
  <2> QED BY <1>0, <1>4, <2>1, TouchAdds DEF InjectLog, net_vars, io_vars, TypeOK, KeptInv
<1>5. CASE InjectSend \/ InjectDone \/ InjectThrows \/ MetaRace
           \/ \E t \in Topic : InjectLock(t)
  BY <1>5 DEF InjectSend, InjectDone, InjectThrows, InjectLeave, MetaRace,
              InjectLock, net_vars, io_vars, KeptInv
<1> QED BY <1>1, <1>2, <1>3, <1>4, <1>5 DEF End, InjectStep

(***************************************************************************)
(* The deviation from ClosedIsForgotten is confined to connections that    *)
(* never sent CONNECT: of every other one the _meta entry is erased.       *)
(***************************************************************************)
THEOREM OnlyUnconnectedIsKept == Spec => []LeftInMeta
<1>1. Init => KeptInv
  BY DEF Init, KeptInv
<1>2. BrokerInv /\ KeptInv /\ [Next]_vars => KeptInv'
  <2>1. CASE UNCHANGED vars
    BY <2>1 DEF vars, net_vars, io_vars, KeptInv
  <2> QED BY <2>1, IoStepKept, PacketKept, OthersKept DEF Next, Ended
<1>3. KeptInv => LeftInMeta
  BY DEF KeptInv, LeftInMeta
<1> QED BY <1>1, <1>2, <1>3, BrokerInvariant, PTL DEF Spec

(***************************************************************************)
(* Empty entries of _meta come from the race of inject_publish with        *)
(* close_connection alone.                                                 *)
(***************************************************************************)
THEOREM BlankFromRaceOnly == Spec => BlankByInjectOnly
<1>1. ASSUME BrokerInv, [Next]_vars, NEW c \in Conn, meta'[c] = "blank", meta[c] # "blank"
      PROVE  inj = "log" /\ inj_con = c /\ io = "erase_subs" /\ who = c
  <2>0. TypeOK /\ PlacesInv /\ ConnInv /\ SubsInv /\ WalkInv
    BY <1>1 DEF BrokerInv
  <2>1. meta' # meta
    BY <1>1
  <2>2. CASE IoStep
    <3>1. CASE AcceptMeta \/ EraseConnection
      BY <1>1, <2>0, <3>1 DEF AcceptMeta, EraseConnection, TypeOK
    <3>2. CASE PublishSend
      <4>1. PICK s \in todo : meta' = Touch(meta, s.con)
        BY <2>1, <3>2 DEF PublishSend
      <4>2. s \in subs /\ s.con \in Conn /\ io = "fanout"
        BY <2>0, <3>2 DEF PublishSend, WalkInv, WalkIsStable, TypeOK, Subscription
      <4>3. meta[s.con] = "known"
        BY <2>0, <4>2 DEF SubsInv, NoOrphanSubs, ConnInv
      <4> QED BY <2>0, <2>1, <4>1, <4>2, <4>3 DEF Touch
    <3> QED BY <2>1, <2>2, <3>1, <3>2 DEF IoStep, Reply, SubscribeEntry, Suback,
               Unsubscribe, PublishLock, PublishShare, EraseSubs
  <2>3. ASSUME NEW d \in Conn, Packet(d) PROVE FALSE
    <3>1. meta' = Touch(meta, d) /\ Receives(d)
      BY <2>1, <2>3 DEF Packet, Accept, OnConnect, OnControlPacket, OnSubscribe,
                        OnUnsubscribe, OnPublish, OnDisconnect
    <3>2. meta[d] = "known"
      BY <2>0, <3>1 DEF Receives, ConnInv
    <3> QED BY <2>1, <3>1, <3>2 DEF Touch
  <2>4. ASSUME NEW d \in Conn, End(d) \/ LosePeer(d) \/ Stall(d) PROVE FALSE
    <3>1. d \in connections /\ meta' = Touch(meta, d)
      BY <2>1, <2>4 DEF End, OnClose, OnError, LosePeer, Stall
    <3>2. meta[d] = "known"
      BY <2>0, <3>1 DEF ConnInv
    <3> QED BY <2>1, <3>1, <3>2 DEF Touch
  <2>5. CASE InjectLog
    <3>1. PICK s \in subs : s.con = inj_con
      BY <2>0, <2>5 DEF WalkInv, InjectLog
    <3>2. inj_con \in Conn /\ inj = "log" /\ meta' = Touch(meta, inj_con)
      BY <2>0, <2>5, <3>1 DEF InjectLog, TypeOK, Subscription
    <3>3. inj_con = c /\ meta[inj_con] = "none"
      BY <1>1, <2>0, <3>2, TouchAdds DEF TypeOK
    <3>4. inj_con \notin connections
      BY <2>0, <3>2, <3>3 DEF ConnInv
    <3> QED BY <2>0, <3>1, <3>2, <3>3, <3>4 DEF SubsInv, NoOrphanSubs
  <2>6. CASE InjectSend \/ InjectDone \/ InjectThrows \/ MetaRace
             \/ \E t \in Topic : InjectLock(t)
    BY <2>1, <2>6 DEF InjectSend, InjectDone, InjectThrows, InjectLeave, MetaRace,
                      InjectLock
  <2>7. CASE UNCHANGED vars
    BY <2>1, <2>7 DEF vars
  <2> QED BY <1>1, <2>2, <2>3, <2>4, <2>5, <2>6, <2>7 DEF Next, Ended, InjectStep
<1>2. BrokerInv /\ [Next]_vars =>
        \A c \in Conn : meta'[c] = "blank" /\ meta[c] # "blank" =>
          inj = "log" /\ inj_con = c /\ io = "erase_subs" /\ who = c
  BY <1>1
<1> QED BY <1>2, BrokerInvariant, PTL DEF Spec, BlankByInjectOnly

(***************************************************************************)
(* The deviation from RemovesOwnOnly is confined to UNSUBSCRIBE and to the *)
(* filters it names.                                                       *)
(***************************************************************************)
THEOREM OnlyNamedAreRemoved == Spec => RemovesNamedOnly
<1>1. ASSUME BrokerInv, [Next]_vars, NEW s \in subs \ subs'
      PROVE  \/ s.con = who
             \/ io = "unsubscribe" /\ \E j \in DOMAIN entries : entries[j].filter = s.filter
  <2>1. subs' # subs /\ entries \in Seq(Entry)
    BY <1>1 DEF BrokerInv, TypeOK
  <2>2. CASE IoStep
    <3>1. CASE Unsubscribe
      <4>1. s \notin {x \in subs : \A j \in 1..Len(entries) : x.filter # entries[j].filter}
        BY <1>1, <3>1 DEF Unsubscribe
      <4>2. \E j \in 1..Len(entries) : s.filter = entries[j].filter
        BY <1>1, <4>1
      <4> QED BY <2>1, <3>1, <4>2 DEF Unsubscribe
    <3>2. CASE EraseSubs
      BY <1>1, <3>2 DEF EraseSubs
    <3>3. CASE SubscribeEntry
      BY <1>1, <3>3, SubscribeEntryStores
    <3> QED BY <2>1, <2>2, <3>1, <3>2, <3>3 DEF IoStep, AcceptMeta, Reply, Suback,
               PublishLock, PublishSend, PublishShare, EraseConnection
  <2>3. CASE ~IoStep
    <3>1. subs' = subs
      BY <1>1, <2>3 DEF Next, Ended, vars, InjectStep, InjectSend, InjectLog,
         InjectDone, InjectThrows, InjectLeave, MetaRace, InjectLock, Packet, Accept,
         OnConnect, OnControlPacket, OnSubscribe, OnUnsubscribe, OnPublish,
         OnDisconnect, End, OnClose, OnError, LosePeer, Stall
    <3> QED BY <2>1, <3>1
  <2> QED BY <2>2, <2>3
<1>2. BrokerInv /\ [Next]_vars =>
        \A s \in subs \ subs' :
          \/ s.con = who
          \/ io = "unsubscribe" /\ \E j \in DOMAIN entries : entries[j].filter = s.filter
  BY <1>1
<1> QED BY <1>2, BrokerInvariant, PTL DEF Spec, RemovesNamedOnly

-----------------------------------------------------------------------------
(* Broker implements Hub.                                                  *)

Clients == connections \cup {s.con : s \in subs}

\* What a stutter of Hub leaves as it is.
HubStutter == UNCHANGED <<Clients, subs, todo, inj_todo>>

LEMMA StutterMaps == HubStutter => UNCHANGED H!hub_vars
  BY DEF HubStutter, Clients, H!hub_vars

\* Steps that touch nothing Hub has.
LEMMA OtherMaps ==
  ASSUME \/ AcceptMeta \/ Reply \/ Suback \/ PublishShare
         \/ InjectLog \/ MetaRace \/ UNCHANGED vars
         \/ \E c \in Conn :
              \/ LosePeer(c) \/ Stall(c) \/ Accept(c) \/ End(c)
              \/ OnControlPacket(c) \/ OnDisconnect(c)
              \/ \E es \in Entries : OnSubscribe(c, es) \/ OnUnsubscribe(c, es)
              \/ \E t \in Topic : OnPublish(c, t)
  PROVE  HubStutter
<1>1. UNCHANGED <<connections, subs, todo, inj_todo>>
  BY DEF AcceptMeta, Reply, Suback, PublishShare, InjectLog, MetaRace, LosePeer,
         Stall, Accept, End, OnClose, OnError, OnControlPacket, OnDisconnect,
         OnSubscribe, OnUnsubscribe, OnPublish, vars, io_vars, inj_vars
<1> QED BY <1>1 DEF HubStutter, Clients

LEMMA OnConnectMaps ==
  ASSUME NEW c \in Conn, NEW v \in {"v3", "v5"}, OnConnect(c, v)
  PROVE  H!Connect(c)
BY DEF OnConnect, inj_vars, H!Connect

LEMMA SubscribeEntryMaps ==
  ASSUME BrokerInv, SubscribeEntry
  PROVE  HubStutter \/ \E c \in Conn, f \in Filter, nl \in BOOLEAN : H!Subscribe(c, f, nl)
<1>1. UNCHANGED <<connections, todo, inj_todo>>
  BY DEF SubscribeEntry, inj_vars
<1>2. CASE subs' = subs
  BY <1>1, <1>2 DEF HubStutter, Clients
<1>3. CASE subs' # subs
  <2>1. PICK s \in Subscription :
          /\ s.con = who
          /\ \A x \in subs : x.con = who => x.filter # s.filter
          /\ subs' = subs \cup {s}
    BY <1>3, SubscribeEntryStores
  <2>2. /\ s.con \in Conn /\ s.filter \in Filter /\ s.nl \in BOOLEAN
        /\ s = [con |-> s.con, filter |-> s.filter, nl |-> s.nl]
    BY DEF Subscription
  <2>3. todo = {} /\ inj_todo = {} /\ who \in connections
    BY <1>3 DEF BrokerInv, PlacesInv, ConnInv, SubscribeEntry
  <2>4. Clients' = Clients
    BY <1>1, <2>1, <2>3 DEF Clients
  <2>5. H!Subscribe(s.con, s.filter, s.nl)
    BY <1>1, <2>1, <2>2, <2>3, <2>4 DEF H!Subscribe, H!Quiet, Clients
  <2> QED BY <2>2, <2>5
<1> QED BY <1>2, <1>3

LEMMA UnsubscribeMaps ==
  ASSUME BrokerInv, Unsubscribe
  PROVE  H!Unsubscribe
<1> DEFINE F == {f \in Filter : \E j \in 1..Len(entries) : f = entries[j].filter}
<1>1. subs' = {s \in subs : s.filter \notin F}
  BY DEF Unsubscribe, BrokerInv, TypeOK, Subscription
<1>2. todo = {} /\ inj_todo = {} /\ UNCHANGED <<connections, todo, inj_todo>>
  BY DEF BrokerInv, PlacesInv, Unsubscribe, inj_vars
<1>3. Clients' = Clients
  <2>1. subs' \subseteq subs /\ \A s \in subs : s.con \in connections
    BY DEF BrokerInv, SubsInv, NoOrphanSubs, Unsubscribe
  <2> QED BY <1>2, <2>1 DEF Clients
<1> QED BY <1>1, <1>2, <1>3 DEF H!Unsubscribe, H!Quiet, Clients

LEMMA PublishLockMaps ==
  ASSUME BrokerInv, PublishLock
  PROVE  \E c \in Conn, t \in Topic : H!Publish(c, t)
<1>1. who \in connections /\ topic \in Topic /\ inj_todo = {} /\ todo = {}
  BY DEF BrokerInv, PlacesInv, ConnInv, PublishLock
<1>2. who \in Conn
  BY <1>1 DEF BrokerInv, TypeOK
<1>3. UNCHANGED <<connections, subs, inj_todo>> /\ todo' = Receivers(who, topic)
  BY DEF PublishLock, inj_vars
<1>4. Receivers(who, topic) = {s \in H!Matching(topic) : ~(s.nl /\ s.con = who)}
  BY DEF Receivers, Selected, H!Matching, BrokerInv, SubsInv
<1>5. H!Publish(who, topic)
  BY <1>1, <1>3, <1>4 DEF H!Publish, H!Quiet
<1> QED BY <1>1, <1>2, <1>5

LEMMA PublishSendMaps ==
  ASSUME PublishSend
  PROVE  HubStutter \/ H!Send
BY DEF PublishSend, inj_vars, HubStutter, Clients, H!Send

\* The connection that io closes is a client until its subscriptions go.
LEMMA EraseConnectionMaps ==
  ASSUME BrokerInv, EraseConnection
  PROVE  HubStutter \/ \E c \in Conn : H!End(c)
<1>1. UNCHANGED <<subs, todo, inj_todo>> /\ connections' = connections \ {who}
  BY DEF EraseConnection, inj_vars
<1>2. who \in Conn
  BY DEF BrokerInv, TypeOK, PlacesInv, EraseConnection
<1>3. CASE \E s \in subs : s.con = who
  BY <1>1, <1>3 DEF HubStutter, Clients, BrokerInv, SubsInv, NoOrphanSubs,
                    EraseConnection
<1>4. CASE \A s \in subs : s.con # who
  <2>1. Clients' = Clients \ {who} /\ subs' = {s \in subs : s.con # who}
    BY <1>1, <1>4 DEF Clients
  <2> QED BY <1>1, <1>2, <1>4, <2>1 DEF H!End, Clients
<1> QED BY <1>3, <1>4

LEMMA EraseSubsMaps ==
  ASSUME BrokerInv, EraseSubs
  PROVE  \E c \in Conn : H!End(c)
<1>1. /\ UNCHANGED <<todo, inj_todo>> /\ connections' = connections \ {who}
      /\ subs' = {s \in subs : s.con # who}
  BY DEF EraseSubs, inj_vars
<1>2. who \in Conn /\ todo = {} /\ inj_todo = {}
  BY DEF BrokerInv, TypeOK, PlacesInv, EraseSubs
<1>3. Clients' = Clients \ {who}
  BY <1>1 DEF Clients
<1> QED BY <1>1, <1>2, <1>3 DEF H!End, H!Quiet, Clients

LEMMA InjectMaps ==
  ASSUME BrokerInv,
         InjectSend \/ InjectDone \/ InjectThrows \/ \E t \in Topic : InjectLock(t)
  PROVE  H!Send \/ H!Abandon \/ \E t \in Topic : H!Relay(t)
<1>1. UNCHANGED <<connections, subs, todo>>
  BY DEF InjectSend, InjectDone, InjectThrows, InjectLock, InjectLeave, io_vars
<1>2. CASE InjectSend
  BY <1>1, <1>2 DEF InjectSend, H!Send
<1>3. CASE InjectDone \/ InjectThrows
  BY <1>1, <1>3 DEF InjectDone, InjectThrows, InjectLeave, H!Abandon
<1>4. ASSUME NEW t \in Topic, InjectLock(t) PROVE H!Relay(t)
  BY <1>1, <1>4 DEF InjectLock, BrokerInv, PlacesInv, Selected, H!Relay, H!Quiet,
                    H!Matching
<1> QED BY <1>2, <1>3, <1>4

LEMMA StepMaps == BrokerInv /\ [Next]_vars => [H!Next]_H!hub_vars
<1> SUFFICES ASSUME BrokerInv, [Next]_vars PROVE H!Next \/ HubStutter
    BY StutterMaps
<1>1. CASE IoStep
  BY <1>1, OtherMaps, SubscribeEntryMaps, UnsubscribeMaps, PublishLockMaps,
     PublishSendMaps, EraseConnectionMaps, EraseSubsMaps DEF IoStep, H!Next
<1>2. CASE InjectStep \/ InjectThrows \/ MetaRace \/ \E t \in Topic : InjectLock(t)
  BY <1>2, OtherMaps, InjectMaps DEF InjectStep, H!Next
<1>3. CASE \E c \in Conn : Packet(c)
  BY <1>3, OtherMaps, OnConnectMaps DEF Packet, H!Next
<1>4. CASE UNCHANGED vars \/ \E c \in Conn : End(c) \/ LosePeer(c) \/ Stall(c)
  BY <1>4, OtherMaps
<1> QED BY <1>1, <1>2, <1>3, <1>4 DEF Next, Ended

(***************************************************************************)
(* Broker implements Hub: every step of its two threads is a step of Hub   *)
(* or changes nothing that Hub has.                                        *)
(***************************************************************************)
THEOREM BrokerRefinement == Spec => ImplementsHub
<1>1. Init => H!Init
  BY DEF Init, H!Init
<1>2. QED
  BY <1>1, StepMaps, BrokerInvariant, PTL DEF Spec, ImplementsHub, H!Spec

===============================================================================
