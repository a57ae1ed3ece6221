-------------------------------- MODULE Broker --------------------------------
(***************************************************************************)
(* One MQTT adapter in the role of a broker: its connections, what it      *)
(* keeps about them, their subscriptions, and the two threads that use     *)
(* these.  The io thread runs one handler after another; the control       *)
(* thread enters through inject_publish.  _subs_mutex guards _subs; _meta  *)
(* has no lock although both threads use it.                               *)
(*                                                                         *)
(* The MQTT library calls the handlers: it delivers CONNECT first and      *)
(* once, delivers nothing after DISCONNECT, and reports the end of every   *)
(* connection by one call, of the close handler or of the error handler.   *)
(* A step is what a thread does between two points where the other thread  *)
(* or the network can interfere.                                           *)
(***************************************************************************)
EXTENDS Naturals, Sequences, FiniteSets

CONSTANTS Conn,        \* connection objects
          Filter,      \* valid topic filters
          BadFilter,   \* texts that valid_topic_filter rejects
          Topic,       \* topic names
          Matches,     \* pairs <<filter, topic>> for which matches_filter holds
          Stalling,    \* connections whose peer may stop reading
          NoConn,      \* no connection
          NoTopic,     \* no topic
          MaxEntries   \* bound: entries of one SUBSCRIBE or UNSUBSCRIBE

ASSUME NoConnAssumption == NoConn \notin Conn
ASSUME NoTopicAssumption == NoTopic \notin Topic
ASSUME FilterAssumption == Filter \cap BadFilter = {}
ASSUME StallingAssumption == Stalling \subseteq Conn
ASSUME MatchesAssumption == Matches \subseteq Filter \X Topic
ASSUME MaxEntriesAssumption == MaxEntries \in Nat

\* An entry of a SUBSCRIBE: of its options only "no local" is kept.
Entry == [filter : Filter \cup BadFilter, nl : BOOLEAN]
Entries == UNION {[1..m -> Entry] : m \in 1..MaxEntries}
Subscription == [con : Conn, filter : Filter, nl : BOOLEAN]

VARIABLES
  sock,         \* sock[c]: the connection as the library and the network see it
  proto,        \* proto[c]: the protocol version of its CONNECT
  connections,  \* _connections
  meta,         \* meta[c]: the entry of c in _meta
  subs,         \* _subs
  echo,         \* history: see below
  mutex,        \* holder of _subs_mutex
  io,           \* where the io thread is in a handler
  who,          \* the connection whose handler it runs
  entries,      \* entries of the packet still to be handled
  topic,        \* topic of the PUBLISH being handled
  todo,         \* subscriptions the publish handler has still to send to
  inj,          \* where the control thread is in inject_publish
  inj_todo,     \* subscriptions inject_publish has still to send to
  inj_con,      \* the connection it has just sent to
  proc          \* the process: is it up?

net_vars == <<sock, proto>>
io_vars == <<io, who, entries, topic, todo>>
inj_vars == <<inj, inj_todo, inj_con>>
vars == <<net_vars, connections, meta, subs, echo, mutex, io_vars, inj_vars, proc>>

(***************************************************************************)
(* sock[c]: "new" before it is accepted, "open", "stalled" while the peer  *)
(* does not read and the buffers are full, "lost" once the operating       *)
(* system knows that the peer is gone (it closed or reset the connection,  *)
(* or does not acknowledge what was sent), "leaving" after a DISCONNECT,   *)
(* "closed" once its end has been reported.  A peer that vanishes without  *)
(* a word leaves its connection "open" or "stalled", perhaps for ever: the *)
(* handlers of CONNECT ignore keep_alive, and no timeout is set.           *)
(* meta[c]: "none", "known" with the address that the accept handler       *)
(* stored, "blank" if _meta[c] created an empty entry.                     *)
(* echo: the pairs <<c, f>> such that c has asked for f without "no local" *)
(* since it has a subscription to f: a history variable, which no guard    *)
(* looks at.                                                               *)
(* proc: "up"; "stopping" after an exception in the control thread, which  *)
(* ends message_queue_manager; "terminated" after one in the io thread,    *)
(* which ends in std::terminate; "undefined" after a data race on _meta.   *)
(***************************************************************************)
SockState == {"new", "open", "stalled", "lost", "leaving", "closed"}
MetaState == {"none", "blank", "known"}
IoPc == {"idle", "accept", "reply", "subscribe", "unsubscribe", "publish", "fanout",
         "erase", "erase_subs"}

Init ==
  /\ sock = [c \in Conn |-> "new"]
  /\ proto = [c \in Conn |-> "none"]
  /\ connections = {} /\ subs = {} /\ echo = {} /\ mutex = "free"
  /\ meta = [c \in Conn |-> "none"]
  /\ io = "idle" /\ who = NoConn /\ entries = <<>> /\ topic = NoTopic
  /\ todo = {}
  /\ inj = "idle" /\ inj_todo = {} /\ inj_con = NoConn
  /\ proc = "up"

\* The expression _meta[c]: it creates an entry if there is none.
Touch(mt, c) == IF mt[c] = "none" THEN [mt EXCEPT ![c] = "blank"] ELSE mt

\* remote_endpoint() throws if the peer is gone by now.
MayThrow(c) == sock[c] \in {"lost", "leaving", "closed"}

\* A send on c returns: at once, unless the peer does not read.
Writable(c) == sock[c] # "stalled"

\* The handler for connection c starts, or ends.
Start(c, pc) == io = "idle" /\ io' = pc /\ who' = c
Finish == io' = "idle" /\ who' = NoConn

-----------------------------------------------------------------------------
(* The network.                                                            *)

\* The peer of c stops reading, or goes on.
Stall(c) ==
  /\ c \in Stalling
  /\ \/ sock[c] = "open" /\ sock' = [sock EXCEPT ![c] = "stalled"]
     \/ sock[c] = "stalled" /\ sock' = [sock EXCEPT ![c] = "open"]
  /\ UNCHANGED <<proto, connections, meta, subs, echo, mutex, io_vars, inj_vars, proc>>

\* The peer of c goes away, which the handlers do not know as yet.
LosePeer(c) ==
  /\ sock[c] \in {"open", "stalled"}
  /\ sock' = [sock EXCEPT ![c] = "lost"]
  /\ UNCHANGED <<proto, connections, meta, subs, echo, mutex, io_vars, inj_vars, proc>>

\* The server accepts c.
Accept(c) ==
  /\ sock[c] = "new"
  /\ sock' = [sock EXCEPT ![c] = "open"]
  /\ Start(c, "accept")
  /\ UNCHANGED <<proto, connections, meta, subs, echo, mutex, entries, topic, todo,
                 inj_vars, proc>>

\* The accept handler stores the peer's address; without a peer it throws.
AcceptMeta ==
  /\ io = "accept"
  /\ \/ meta' = [meta EXCEPT ![who] = "known"] /\ Finish /\ proc' = proc
     \/ MayThrow(who) /\ proc' = "terminated" /\ UNCHANGED <<meta, io, who>>
  /\ UNCHANGED <<net_vars, connections, subs, echo, mutex, entries, topic, todo,
                 inj_vars>>

-----------------------------------------------------------------------------
(* Packets of a client.                                                    *)

\* The library has a packet of c for the broker.
Receives(c) == io = "idle" /\ sock[c] \in {"open", "stalled", "lost"}

\* CONNECT, of either protocol version; CONNACK is still to be sent.
OnConnect(c, v) ==
  /\ Receives(c)
  /\ proto[c] = "none"
  /\ proto' = [proto EXCEPT ![c] = v]
  /\ connections' = connections \cup {c}
  /\ meta' = Touch(meta, c)
  /\ Start(c, "reply")
  /\ UNCHANGED <<sock, subs, echo, mutex, entries, topic, todo, inj_vars, proc>>

\* PINGREQ is answered; PUBACK, PUBREC, PUBREL and PUBCOMP are only logged.
OnControlPacket(c) ==
  /\ Receives(c)
  /\ proto[c] # "none"
  /\ meta' = Touch(meta, c)
  /\ Start(c, "reply") \/ UNCHANGED <<io, who>>
  /\ UNCHANGED <<net_vars, connections, subs, echo, mutex, entries, topic, todo,
                 inj_vars, proc>>

\* CONNACK, PINGRESP or UNSUBACK is sent.
Reply ==
  /\ io = "reply"
  /\ Writable(who)
  /\ Finish
  /\ UNCHANGED <<net_vars, connections, meta, subs, echo, mutex, entries, topic,
                 todo, inj_vars, proc>>

OnSubscribe(c, es) ==
  /\ Receives(c)
  /\ proto[c] # "none"
  /\ Start(c, "subscribe")
  /\ entries' = es
  /\ meta' = Touch(meta, c)
  /\ UNCHANGED <<net_vars, connections, subs, echo, mutex, topic, todo, inj_vars, proc>>

\* The subscription an entry asks for; version 3 has no options beside QoS.
NewSub(e) == [con |-> who, filter |-> e.filter, nl |-> proto[who] = "v5" /\ e.nl]

\* emplace into _subs: refused if this connection has this filter already.
Emplace(s) ==
  IF \E x \in subs : x.con = s.con /\ x.filter = s.filter
    THEN subs
    ELSE subs \cup {s}

\* The history: s was asked for and granted; these subscriptions are gone.
Asked(s) == IF s.nl THEN echo ELSE echo \cup {<<s.con, s.filter>>}
Forget(gone) == {x \in echo : \A s \in gone : x # <<s.con, s.filter>>}

\* One entry: a valid one is stored under the lock.
SubscribeEntry_Mutant ==
  /\ io = "subscribe"
  /\ entries # <<>>
  /\ mutex = "free"
  /\ subs' = Emplace(NewSub(Head(entries)))
  /\ echo' = Asked(NewSub(Head(entries)))
  /\ entries' = Tail(entries)
  /\ UNCHANGED <<net_vars, connections, meta, mutex, io, who, topic, todo,
                 inj_vars, proc>>
SubscribeEntry_Stays ==
  /\ io = "subscribe"
  /\ entries # <<>>
  /\ Head(entries).filter \in Filter
  /\ mutex = "free"
  /\ subs' = Emplace(NewSub(Head(entries)))
  /\ echo' = Asked(NewSub(Head(entries)))
  /\ UNCHANGED <<net_vars, connections, meta, mutex, io_vars, inj_vars, proc>>
SubscribeEntry ==
  /\ io = "subscribe"
  /\ entries # <<>>
  /\ \/ /\ Head(entries).filter \in Filter
        /\ mutex = "free"
        /\ subs' = Emplace(NewSub(Head(entries)))
        /\ echo' = Asked(NewSub(Head(entries)))
     \/ Head(entries).filter \in BadFilter /\ UNCHANGED <<subs, echo>>
  /\ entries' = Tail(entries)
  /\ UNCHANGED <<net_vars, connections, meta, mutex, io, who, topic, todo,
                 inj_vars, proc>>

\* SUBACK is sent.
Suback ==
  /\ io = "subscribe"
  /\ entries = <<>>
  /\ Writable(who)
  /\ Finish
  /\ UNCHANGED <<net_vars, connections, meta, subs, echo, mutex, entries, topic,
                 todo, inj_vars, proc>>

OnUnsubscribe(c, es) ==
  /\ Receives(c)
  /\ proto[c] # "none"
  /\ Start(c, "unsubscribe")
  /\ entries' = es
  /\ meta' = Touch(meta, c)
  /\ UNCHANGED <<net_vars, connections, subs, echo, mutex, topic, todo, inj_vars, proc>>

\* _subs.erase(filter) goes by the topic index: every subscription to the
\* filter is erased, whose ever it is.  UNSUBACK is still to be sent.
Unsubscribe_Unlocked ==
  /\ io = "unsubscribe"
  /\ subs' = {s \in subs : \A j \in 1..Len(entries) : s.filter # entries[j].filter}
  /\ echo' = Forget(subs \ subs')
  /\ entries' = <<>>
  /\ io' = "reply"
  /\ UNCHANGED <<net_vars, connections, meta, mutex, who, topic, todo, inj_vars,
                 proc>>
Unsubscribe ==
  /\ io = "unsubscribe"
  /\ mutex = "free"
  /\ subs' = {s \in subs : \A j \in 1..Len(entries) : s.filter # entries[j].filter}
  /\ echo' = Forget(subs \ subs')
  /\ entries' = <<>>
  /\ io' = "reply"
  /\ UNCHANGED <<net_vars, connections, meta, mutex, who, topic, todo, inj_vars,
                 proc>>

-----------------------------------------------------------------------------
(* A client publishes.                                                     *)

OnPublish(c, t) ==
  /\ Receives(c)
  /\ proto[c] # "none"
  /\ Start(c, "publish")
  /\ topic' = t
  /\ meta' = Touch(meta, c)
  /\ UNCHANGED <<net_vars, connections, subs, echo, mutex, entries, todo,
                 inj_vars, proc>>

\* The subscriptions that matches_filter selects.
Selected(t) == {s \in subs : <<s.filter, t>> \in Matches}

\* The handler of version 5 skips its own "no local" subscriptions, the one
\* of version 3 does not look.
Receivers_Mutant(c, t) == Selected(t)
Receivers(c, t) ==
  {s \in Selected(t) : ~(proto[c] = "v5" /\ s.nl /\ s.con = c)}

PublishLock ==
  /\ io = "publish"
  /\ mutex = "free"
  /\ mutex' = "io"
  /\ todo' = Receivers(who, topic)
  /\ io' = "fanout"
  /\ UNCHANGED <<net_vars, connections, meta, subs, echo, who, entries, topic,
                 inj_vars, proc>>

\* One subscriber is sent the message; if it is gone, remote_endpoint() may
\* throw out of the handler, out of _ioc.run() and out of the thread.
PublishSend_Mutant ==
  /\ io = "fanout"
  /\ \E s \in todo :
       /\ Writable(s.con)
       /\ \/ todo' = todo /\ meta' = Touch(meta, s.con) /\ proc' = proc
          \/ MayThrow(s.con) /\ proc' = "terminated" /\ UNCHANGED <<todo, meta>>
  /\ UNCHANGED <<net_vars, connections, subs, echo, mutex, io, who, entries, topic,
                 inj_vars>>
PublishSend ==
  /\ io = "fanout"
  /\ \E s \in todo :
       /\ Writable(s.con)
       /\ \/ todo' = todo \ {s} /\ meta' = Touch(meta, s.con) /\ proc' = proc
          \/ MayThrow(s.con) /\ proc' = "terminated" /\ UNCHANGED <<todo, meta>>
  /\ UNCHANGED <<net_vars, connections, subs, echo, mutex, io, who, entries, topic,
                 inj_vars>>

\* The lock is released and the message shared with the other adapters.
PublishShare ==
  /\ io = "fanout"
  /\ todo = {}
  /\ mutex' = "free"
  /\ topic' = NoTopic
  /\ Finish
  /\ UNCHANGED <<net_vars, connections, meta, subs, echo, entries, todo,
                 inj_vars, proc>>

-----------------------------------------------------------------------------
(* The end of a connection.                                                *)

OnDisconnect(c) ==
  /\ Receives(c)
  /\ proto[c] # "none"
  /\ sock' = [sock EXCEPT ![c] = "leaving"]
  /\ meta' = Touch(meta, c)
  /\ Start(c, "erase")
  /\ UNCHANGED <<proto, connections, subs, echo, mutex, entries, topic, todo,
                 inj_vars, proc>>

\* The close handler.
OnClose(c) ==
  /\ sock[c] \in {"lost", "leaving"}
  /\ sock' = [sock EXCEPT ![c] = "closed"]
  /\ Start(c, "erase")
  /\ UNCHANGED <<proto, connections, meta, subs, echo, mutex, entries, topic, todo,
                 inj_vars, proc>>

\* The error handler: it does nothing for what is not in _connections.
OnError_Mutant(c) ==
  /\ io = "idle"
  /\ sock[c] \in {"lost", "leaving"}
  /\ sock' = [sock EXCEPT ![c] = "closed"]
  /\ UNCHANGED <<io, who, meta>>
  /\ UNCHANGED <<proto, connections, subs, echo, mutex, entries, topic, todo,
                 inj_vars, proc>>
OnError(c) ==
  /\ io = "idle"
  /\ sock[c] \in {"lost", "leaving"}
  /\ sock' = [sock EXCEPT ![c] = "closed"]
  /\ IF c \in connections
       THEN Start(c, "erase") /\ meta' = Touch(meta, c)
       ELSE UNCHANGED <<io, who, meta>>
  /\ UNCHANGED <<proto, connections, subs, echo, mutex, entries, topic, todo,
                 inj_vars, proc>>

\* close_connection up to its lock.
EraseConnection_Mutant ==
  /\ io = "erase"
  /\ meta' = [meta EXCEPT ![who] = "none"]
  /\ io' = "erase_subs"
  /\ UNCHANGED <<net_vars, connections, subs, echo, mutex, who, entries, topic, todo,
                 inj_vars, proc>>
EraseConnection ==
  /\ io = "erase"
  /\ connections' = connections \ {who}
  /\ meta' = [meta EXCEPT ![who] = "none"]
  /\ io' = "erase_subs"
  /\ UNCHANGED <<net_vars, subs, echo, mutex, who, entries, topic, todo,
                 inj_vars, proc>>

\* close_connection with the lock.
EraseSubs_Mutant ==
  /\ io = "erase_subs"
  /\ mutex = "free"
  /\ connections' = connections \ {who}
  /\ Finish
  /\ UNCHANGED <<net_vars, meta, subs, echo, mutex, entries, topic, todo,
                 inj_vars, proc>>
EraseSubs_Unlocked ==
  /\ io = "erase_subs"
  /\ connections' = connections \ {who}
  /\ subs' = {s \in subs : s.con # who}
  /\ echo' = Forget(subs \ subs')
  /\ Finish
  /\ UNCHANGED <<net_vars, meta, mutex, entries, topic, todo, inj_vars, proc>>
EraseSubs ==
  /\ io = "erase_subs"
  /\ mutex = "free"
  /\ connections' = connections \ {who}
  /\ subs' = {s \in subs : s.con # who}
  /\ echo' = Forget(subs \ subs')
  /\ Finish
  /\ UNCHANGED <<net_vars, meta, mutex, entries, topic, todo, inj_vars, proc>>

-----------------------------------------------------------------------------
(* The control thread in inject_publish.                                   *)

InjectLock(t) ==
  /\ inj = "idle"
  /\ proc = "up"
  /\ mutex = "free"
  /\ mutex' = "control"
  /\ inj' = "send"
  /\ inj_todo' = Selected(t)
  /\ UNCHANGED <<net_vars, connections, meta, subs, echo, io_vars, inj_con, proc>>

\* One subscriber is sent the message.
InjectSend ==
  /\ inj = "send"
  /\ \E s \in inj_todo :
       Writable(s.con) /\ inj_con' = s.con /\ inj_todo' = inj_todo \ {s}
  /\ inj' = "log"
  /\ UNCHANGED <<net_vars, connections, meta, subs, echo, mutex, io_vars, proc>>

\* Its client_id is looked up in _meta.
InjectLog ==
  /\ inj = "log"
  /\ meta' = Touch(meta, inj_con)
  /\ inj' = "send"
  /\ inj_con' = NoConn
  /\ UNCHANGED <<net_vars, connections, subs, echo, mutex, io_vars, inj_todo, proc>>

InjectLeave(p) ==
  /\ mutex' = "free"
  /\ inj' = "idle"
  /\ inj_todo' = {}
  /\ inj_con' = NoConn
  /\ proc' = p
  /\ UNCHANGED <<net_vars, connections, meta, subs, echo, io_vars>>

InjectDone == inj = "send" /\ inj_todo = {} /\ InjectLeave(proc)

\* remote_endpoint() throws: message_queue_manager gives up.
InjectThrows == inj = "log" /\ MayThrow(inj_con) /\ InjectLeave("stopping")

\* The control thread is in _meta while the io thread inserts into it or
\* erases from it: anything may follow.
MetaRace ==
  /\ inj = "log"
  /\ io \in {"accept", "erase"}
  /\ proc' = "undefined"
  /\ UNCHANGED <<net_vars, connections, meta, subs, echo, mutex, io_vars, inj_vars>>

-----------------------------------------------------------------------------
\* The io thread goes on with a handler.
IoStep ==
  \/ AcceptMeta \/ Reply \/ SubscribeEntry \/ Suback \/ Unsubscribe
  \/ PublishLock \/ PublishSend \/ PublishShare
  \/ EraseConnection \/ EraseSubs

\* The control thread goes on with inject_publish.
InjectStep == InjectSend \/ InjectLog \/ InjectDone

\* A packet or the end of connection c starts a handler.
Packet(c) ==
  \/ Accept(c)
  \/ \E v \in {"v3", "v5"} : OnConnect(c, v)
  \/ OnControlPacket(c)
  \/ \E es \in Entries : OnSubscribe(c, es)
  \/ \E es \in Entries : (\A j \in 1..Len(es) : ~es[j].nl) /\ OnUnsubscribe(c, es)
  \/ \E t \in Topic : OnPublish(c, t)
  \/ OnDisconnect(c)

End(c) == OnClose(c) \/ OnError(c)

Running == proc \in {"up", "stopping"}

\* The process is over, or on its way there.
Ended == proc # "up" /\ UNCHANGED vars

Next ==
  \/ Running /\ IoStep
  \/ Running /\ InjectStep
  \/ Running /\ \E c \in Conn : Packet(c) \/ End(c) \/ LosePeer(c) \/ Stall(c)
  \/ Running /\ \E t \in Topic : InjectLock(t)
  \/ Running /\ (InjectThrows \/ MetaRace)
  \/ Ended

Spec == Init /\ [][Next]_vars

(***************************************************************************)
(* Both threads go on with what they have begun: the mutex they contend    *)
(* for is free again and again.  A send completes if the peer reads or is  *)
(* gone; that peers read is not assumed here.  The end of a connection     *)
(* that the operating system knows of ("lost") makes its pending read fail *)
(* and so a handler ready; the io_context runs what is ready in the order  *)
(* in which it became ready, so the end is not overtaken for ever by       *)
(* packets of the others.  That a peer which vanished becomes "lost" is    *)
(* not assumed: LosePeer has no fairness.                                  *)
(***************************************************************************)
Fairness ==
  /\ SF_vars(Running /\ IoStep)
  /\ SF_vars(Running /\ InjectStep)
  /\ \A c \in Conn : SF_vars(Running /\ End(c))

FairSpec == Spec /\ Fairness

-----------------------------------------------------------------------------
(* Properties.                                                             *)

\* Every variable holds a value of its type.
TypeOK ==
  /\ sock \in [Conn -> SockState]
  /\ proto \in [Conn -> {"none", "v3", "v5"}]
  /\ connections \subseteq Conn
  /\ meta \in [Conn -> MetaState]
  /\ subs \subseteq Subscription /\ echo \subseteq Conn \X Filter
  /\ mutex \in {"free", "io", "control"}
  /\ io \in IoPc /\ who \in Conn \cup {NoConn}
  /\ entries \in Seq(Entry) /\ topic \in Topic \cup {NoTopic}
  /\ todo \subseteq Subscription
  /\ inj \in {"idle", "send", "log"}
  /\ inj_todo \subseteq Subscription /\ inj_con \in Conn \cup {NoConn}
  /\ proc \in {"up", "stopping", "terminated", "undefined"}

(***************************************************************************)
(* No subscription outlives its connection: the connection is still in     *)
(* _connections, or its close_connection is under way.  The test in the    *)
(* error handler therefore never skips a connection with subscriptions.    *)
(***************************************************************************)
NoOrphanSubs ==
  \A s \in subs : s.con \in connections \/ (io = "erase_subs" /\ who = s.con)

(***************************************************************************)
(* A connection in _connections has the _meta entry its accept handler     *)
(* made, so that no handler creates one with an empty address for it.      *)
(***************************************************************************)
ConnectedIsKnown == \A c \in connections : meta[c] = "known"

(***************************************************************************)
(* No connection whose end the library has reported stays in _connections, *)
(* whichever of the two handlers was called and whatever came before.      *)
(***************************************************************************)
ClosedIsErased ==
  \A c \in connections : sock[c] = "closed" => io = "erase" /\ who = c

(***************************************************************************)
(* A client is sent what it published itself only through a filter that it *)
(* has asked for without "no local" since it has that subscription:        *)
(* one that always asks with "no local" never gets its own messages,       *)
(* although the handler of version 3 makes no test.  No more can be said:  *)
(* emplace refuses a second SUBSCRIBE to the same filter, and SUBACK says  *)
(* success, so a client that asks with "no local" after it had asked       *)
(* without still gets its own messages.                                    *)
(***************************************************************************)
NoLocal == \A s \in todo : s.con = who => <<who, s.filter>> \in echo

(***************************************************************************)
(* A thread that walks _subs in order to send finds in it, to the end of   *)
(* its walk, every subscription it has still to serve: the other thread    *)
(* changes nothing under it.                                               *)
(***************************************************************************)
WalkIsStable == todo \subseteq subs /\ inj_todo \subseteq subs

(***************************************************************************)
(* When inject_publish looks in _meta for the connection it has just sent  *)
(* to, the control thread finds the entry that accept and CONNECT made, so *)
(* it inserts nothing into a map without a lock; except between the two    *)
(* halves of close_connection, which erases the entry before it waits for  *)
(* the mutex.                                                              *)
(***************************************************************************)
InjectFindsMeta ==
  inj = "log" =>
    meta[inj_con] = "known" \/ (io = "erase_subs" /\ who = inj_con)

\* Refinement: a connection that is being closed is still a client as long as
\* it has subscriptions.
H == INSTANCE Hub WITH
       clients <- connections \cup {s.con : s \in subs},
       sending <- todo, relaying <- inj_todo

(***************************************************************************)
(* The two threads, the containers and the handlers together implement     *)
(* Hub: in particular a walk over _subs, with the other thread waiting or  *)
(* running handlers, sends to just the subscriptions there were when it    *)
(* began.                                                                  *)
(***************************************************************************)
ImplementsHub == H!Spec

\* How far a handler is from its last part.
HandlerStage ==
  [idle |-> 0, accept |-> 0, reply |-> 0, subscribe |-> 0, unsubscribe |-> 1,
   publish |-> 1, fanout |-> 0, erase |-> 1, erase_subs |-> 0]

\* Fewer parts, entries of the packet or subscriptions are left.
HandlerGetsOn ==
  /\ who' = who
  /\ \/ HandlerStage[io'] < HandlerStage[io]
     \/ io' = io /\ Len(entries') < Len(entries)
     \/ io' = io /\ entries' = entries /\ Cardinality(todo') < Cardinality(todo)

\* A subscription was sent the message, or the log entry of one is made.
InjectGetsOn ==
  \/ Cardinality(inj_todo') < Cardinality(inj_todo)
  \/ inj_todo' = inj_todo /\ inj = "log" /\ inj' = "send"

(***************************************************************************)
(* A handler and a call of inject_publish have finitely much to do: each   *)
(* step of the thread brings it nearer to its end or ends it, and no step  *)
(* of the other thread or of a client gives it more to do, although both   *)
(* threads change the containers that the other walks.                     *)
(***************************************************************************)
HandlersNearEnd ==
  [][Running' =>
       /\ io # "idle" /\ io' # "idle" =>
            IF IoStep THEN HandlerGetsOn ELSE UNCHANGED io_vars
       /\ inj # "idle" /\ inj' # "idle" =>
            IF InjectStep THEN InjectGetsOn ELSE UNCHANGED inj_vars]_vars

(***************************************************************************)
(* Only the handlers for a connection remove its subscriptions: each       *)
(* connection has subscriptions of its own (class subscription holds the   *)
(* connection, and the unique index is over connection and filter).        *)
(***************************************************************************)
RemovesOwnOnly == [][\A s \in subs \ subs' : s.con = who]_vars

(***************************************************************************)
(* What the comment in the error handler takes for granted: a connection   *)
(* whose end was reported, and which is in no handler, has been closed by  *)
(* close_connection, so nothing is kept of it in _meta.                    *)
(***************************************************************************)
ClosedIsForgotten ==
  \A c \in Conn : sock[c] = "closed" /\ io = "idle" => meta[c] = "none"

\* No peer stops reading for ever.
StallsEnd == \A c \in Conn : []<>(sock[c] # "stalled")

(***************************************************************************)
(* A handler, once started, comes to its end, however often the control    *)
(* thread takes the mutex between its steps and however often peers stall: *)
(* a send under _subs_mutex holds up the other thread, but only a peer     *)
(* that never reads again, and stays, can hold it up for ever.             *)
(***************************************************************************)
HandlersFinish == StallsEnd => (io # "idle" ~> io = "idle" \/ ~Running)

(***************************************************************************)
(* When the operating system knows that a peer is gone, the subscriptions  *)
(* of its connection disappear, unless another peer never reads again.     *)
(* Of a peer that vanished in silence nothing is promised: without         *)
(* keep_alive nobody looks for it, and its subscriptions may stay.         *)
(***************************************************************************)
LostIsUnsubscribed ==
  StallsEnd =>
    \A c \in Conn : sock[c] = "lost" ~> (\A s \in subs : s.con # c) \/ ~Running
=============================================================================
