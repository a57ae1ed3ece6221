-------------------------------- MODULE Relay --------------------------------
(***************************************************************************)
(* The threads of an octopusMQ process and the queue they share.           *)
(*                                                                         *)
(* The control thread (the main thread) builds the adapters, starts one    *)
(* broker thread for each, and then loops in message_queue_manager,        *)
(* draining the global message_queue into every other adapter whose scope  *)
(* includes the topic.  A broker thread runs the handlers of its clients'  *)
(* packets one after another; the publish handler sends to the adapter's   *)
(* own subscribers under _subs_mutex and then pushes the message to the    *)
(* queue under _queue_mutex.  A signal, or a runtime_error out of an       *)
(* adapter's inject_publish, ends the loop; the adapters are then stopped  *)
(* and their threads joined one by one.                                    *)
(*                                                                         *)
(* One step is what a thread does between two points where another thread  *)
(* can interfere: taking a mutex is a step of its own.  What a handler     *)
(* does with the subscriptions is the subject of module Broker.            *)
(***************************************************************************)
EXTENDS Naturals, Sequences

CONSTANTS PoolSize,    \* number of adapters in the pool
          Topic,       \* topic names
          Scope,       \* Scope[a]: the topics that the scope of a includes
          Stalling,    \* adapters with clients that may stop reading
          NoTopic,     \* no publish handler is running
          MaxMessages, \* bound: no publish starts once this many were shared
          MaxEntries   \* bound: valid entries of one SUBSCRIBE packet

Adapter == 1..PoolSize

ASSUME PoolSizeAssumption == PoolSize \in Nat \ {0}
ASSUME ScopeAssumption == Scope \in [Adapter -> SUBSET Topic]
ASSUME StallingAssumption == Stalling \subseteq Adapter
ASSUME NoTopicAssumption == NoTopic \notin Topic
ASSUME MaxMessagesAssumption == MaxMessages \in Nat
ASSUME MaxEntriesAssumption == MaxEntries \in Nat \ {0}

VARIABLES
  ctl,          \* where the control thread is
  k,            \* its position in a loop over the pool at start and stop
  at,           \* adapters already visited with the front of the queue
  should_stop,  \* control::_should_stop
  initialized,  \* control::_initialized
  qmutex,       \* holder of message_queue::_queue_mutex
  woken,        \* the condition variable was notified since the wait began
  queue,        \* message_queue::_queue, as positions in msgs
  msgs,         \* the messages ever pushed, in order
  popped,       \* how many of them have left the queue
  injected,     \* injected[a]: messages passed to a's inject_publish, in order
  th,           \* th[a]: where the broker thread of a is
  cur,          \* cur[a]: topic of the message its publish handler holds
  left,         \* left[a]: entries its session handler has still to enter
                \* in the subscriptions; 0 if it ends a connection
  smutex,       \* smutex[a]: holder of a's _subs_mutex
  stopped,      \* stopped[a]: a's io_context has been stopped
  stalled       \* adapters with a client that does not read at present

control_vars == <<ctl, k, at, should_stop, initialized>>
queue_vars == <<qmutex, woken, queue, msgs, popped, injected>>
broker_vars == <<th, cur, left, smutex, stopped>>
program == <<control_vars, queue_vars, broker_vars>>
vars == <<program, stalled>>

(***************************************************************************)
(* Where the threads can be.                                               *)
(*   "init", "run"      control::initialize_adapters, its two loops        *)
(*   "loop"             message_queue_manager, before it tests _should_stop*)
(*   "enter", "wait"    wait_and_pop_all, before the lock and in wait_for  *)
(*   "visit"            the loop over the pool, holding _queue_mutex       *)
(*   "inject", "send"   inject_publish, before and after it locks          *)
(*   "stop", "join"     broker::stop, from control::shutdown_adapters      *)
(*   "exited"           main has returned                                  *)
(*   "aborted"          std::terminate ended the process                   *)
(***************************************************************************)
ControlPc == {"init", "run", "loop", "enter", "wait", "visit", "inject",
              "send", "stop", "join", "exited", "aborted"}

(***************************************************************************)
(*   "none"             not started                                        *)
(*   "listen"           worker, before _ioc.run()                          *)
(*   "idle"             in _ioc.run(), between handlers                    *)
(*   "pub_lock"         publish handler, before it locks _subs_mutex       *)
(*   "fanout"           publish handler, holding _subs_mutex               *)
(*   "push", "notify"   message_queue::push, before the lock and after it  *)
(*   "op_lock", "op"    another handler, before and after it locks         *)
(*   "answer"           a handler that sends an answer to its own client   *)
(*   "returned"         worker has returned                                *)
(*   "joined"           the thread was joined                              *)
(***************************************************************************)
BrokerPc == {"none", "listen", "idle", "pub_lock", "fanout", "push",
             "notify", "op_lock", "op", "answer", "returned", "joined"}

Draining == {"visit", "inject", "send"}
Final == {"exited", "aborted"}

Message == [origin : Adapter, topic : Topic]

Init ==
  /\ ctl = "init" /\ k = 0 /\ at = 0
  /\ should_stop = FALSE /\ initialized = FALSE
  /\ qmutex = "free" /\ woken = FALSE
  /\ queue = <<>> /\ msgs = <<>> /\ popped = 0
  /\ injected = [a \in Adapter |-> <<>>]
  /\ th = [a \in Adapter |-> "none"]
  /\ cur = [a \in Adapter |-> NoTopic]
  /\ left = [a \in Adapter |-> 0]
  /\ smutex = [a \in Adapter |-> "free"]
  /\ stopped = [a \in Adapter |-> FALSE]
  /\ stalled = {}

-----------------------------------------------------------------------------
(* The control thread: start and signal.                                   *)

\* Constructing the next adapter's interface succeeds.
BuildAdapter ==
  /\ ctl = "init"
  /\ IF k + 1 < PoolSize
       THEN k' = k + 1 /\ ctl' = ctl
       ELSE k' = 0 /\ ctl' = "run"
  /\ UNCHANGED <<at, should_stop, initialized, queue_vars, broker_vars>>

\* A runtime_error is caught in initialize_adapters; anything else (the
\* bad_lexical_cast of a port above 65535) only in main.  No thread runs yet.
BuildFails ==
  /\ ctl = "init"
  /\ ctl' = "exited"
  /\ \/ should_stop' = TRUE /\ initialized' = FALSE
     \/ UNCHANGED <<should_stop, initialized>>
  /\ UNCHANGED <<k, at, queue_vars, broker_vars>>

\* broker::run starts the thread of the next adapter.
RunAdapter ==
  /\ ctl = "run"
  /\ th' = [th EXCEPT ![k + 1] = "listen"]
  /\ IF k + 1 < PoolSize
       THEN k' = k + 1 /\ UNCHANGED <<ctl, initialized>>
       ELSE k' = 0 /\ ctl' = "loop" /\ initialized' = TRUE
  /\ UNCHANGED <<at, should_stop, queue_vars, cur, left, smutex, stopped>>

\* The thread of the next adapter cannot be created: system_error is caught in
\* main only.  If a thread runs by then, the destructor of the static pool
\* ends the process in std::terminate.
RunFails ==
  /\ ctl = "run"
  /\ ctl' = IF k = 0 THEN "exited" ELSE "aborted"
  /\ UNCHANGED <<k, at, should_stop, initialized, queue_vars, broker_vars>>

\* control::signal_handler; it can interrupt the process at any point.
Signal ==
  /\ ~should_stop
  /\ should_stop' = TRUE
  /\ UNCHANGED <<ctl, k, at, initialized, queue_vars, broker_vars>>

-----------------------------------------------------------------------------
(* The control thread: message_queue_manager and wait_and_pop_all.         *)

\* The test of the while loop.
LoopTest ==
  /\ ctl = "loop"
  /\ ctl' = IF should_stop THEN "stop" ELSE "enter"
  /\ UNCHANGED <<k, at, should_stop, initialized, queue_vars, broker_vars>>

\* The predicate given to wait_for.
QueueReady_Mutant == Len(queue) > 1
QueueReady == queue # <<>>

\* wait_for tests its predicate before it waits: the lock is taken and kept
\* if there is something to drain, and given up for the wait if not.
Enter ==
  /\ ctl = "enter"
  /\ qmutex = "free"
  /\ IF QueueReady
       THEN ctl' = "visit" /\ qmutex' = "control" /\ woken' = woken
       ELSE ctl' = "wait" /\ qmutex' = qmutex /\ woken' = FALSE
  /\ UNCHANGED <<k, at, should_stop, initialized, queue, msgs, popped,
                 injected, broker_vars>>

\* A notification, or a spurious wake-up: the predicate is tested again with
\* the lock held, and the wait goes on if it is false.
Wake ==
  /\ ctl = "wait"
  /\ qmutex = "free"
  /\ woken' = FALSE
  /\ IF QueueReady
       THEN ctl' = "visit" /\ qmutex' = "control"
       ELSE UNCHANGED <<ctl, qmutex>>
  /\ UNCHANGED <<k, at, should_stop, initialized, queue, msgs, popped,
                 injected, broker_vars>>

\* The 100 ms have passed: wait_for returns the predicate's value.
Timeout ==
  /\ ctl = "wait"
  /\ qmutex = "free"
  /\ woken' = FALSE
  /\ IF QueueReady
       THEN ctl' = "visit" /\ qmutex' = "control"
       ELSE ctl' = "loop" /\ qmutex' = qmutex
  /\ UNCHANGED <<k, at, should_stop, initialized, queue, msgs, popped,
                 injected, broker_vars>>

\* Message m is for adapter a.
IsFor_Mutant(m, a) == m.topic \in Scope[a]
IsFor(m, a) == m.origin # a /\ m.topic \in Scope[a]

\* The body of the loop over the pool, for the adapter after the first `at`:
\* the call of inject_publish is made or not.
Visit_Mutant ==
  /\ ctl = "visit"
  /\ at < PoolSize
  /\ IF IsFor(msgs[Head(queue)], at + 1)
       THEN /\ injected' = [injected EXCEPT ![at + 1] = Append(@, Head(queue))]
            /\ at' = PoolSize
       ELSE UNCHANGED injected /\ at' = at + 1
  /\ UNCHANGED <<ctl, k, should_stop, initialized, qmutex, woken, queue, msgs,
                 popped, broker_vars>>
Visit ==
  /\ ctl = "visit"
  /\ at < PoolSize
  /\ at' = at + 1
  /\ IF IsFor(msgs[Head(queue)], at + 1)
       THEN /\ injected' = [injected EXCEPT ![at + 1] = Append(@, Head(queue))]
            /\ ctl' = "inject"
       ELSE UNCHANGED <<injected, ctl>>
  /\ UNCHANGED <<k, should_stop, initialized, qmutex, woken, queue, msgs,
                 popped, broker_vars>>

\* inject_publish takes the adapter's _subs_mutex.
InjectLock ==
  /\ ctl = "inject"
  /\ smutex[at] = "free"
  /\ smutex' = [smutex EXCEPT ![at] = "control"]
  /\ ctl' = "send"
  /\ UNCHANGED <<k, at, should_stop, initialized, queue_vars, th, cur,
                 left, stopped>>

\* inject_publish has sent to all matching subscribers, each send waiting
\* until there is room in the buffers, and unlocks.
InjectDone ==
  /\ ctl = "send"
  /\ at \notin stalled
  /\ smutex' = [smutex EXCEPT ![at] = "free"]
  /\ ctl' = "visit"
  /\ UNCHANGED <<k, at, should_stop, initialized, queue_vars, th, cur,
                 left, stopped>>

\* A runtime_error leaves inject_publish and wait_and_pop_all: both locks are
\* released, the message stays in the queue, and message_queue_manager
\* records the error and breaks out of its loop.
InjectThrows_Mutant ==
  /\ ctl = "send"
  /\ smutex' = [smutex EXCEPT ![at] = "free"]
  /\ qmutex' = "free"
  /\ at' = 0
  /\ ctl' = "loop"
  /\ UNCHANGED <<k, should_stop, initialized, woken, queue, msgs, popped,
                 injected, th, cur, left, stopped>>
InjectThrows_Retried ==
  /\ ctl = "send"
  /\ smutex' = [smutex EXCEPT ![at] = "free"]
  /\ ctl' = "inject"
  /\ UNCHANGED <<k, at, should_stop, initialized, queue_vars, th, cur,
                 left, stopped>>
InjectThrows ==
  /\ ctl = "send"
  /\ smutex' = [smutex EXCEPT ![at] = "free"]
  /\ qmutex' = "free"
  /\ initialized' = FALSE
  /\ ctl' = "stop"
  /\ UNCHANGED <<k, at, should_stop, woken, queue, msgs, popped, injected,
                 th, cur, left, stopped>>

\* Any other exception (such as that no packet identifier is free) is caught in
\* main only; when main returns, the destructor of the static pool finds the
\* threads of the adapters joinable.
InjectEscapes ==
  /\ ctl = "send"
  /\ ctl' = "aborted"
  /\ UNCHANGED <<k, at, should_stop, initialized, queue_vars, broker_vars>>

\* Every adapter was visited: the item is popped; the lock is released once
\* the queue is empty.
Pop_Mutant ==
  /\ ctl = "visit"
  /\ at = PoolSize
  /\ queue' = Tail(queue)
  /\ popped' = popped + 1
  /\ at' = at + 1
  /\ IF Len(queue) = 1
       THEN ctl' = "loop" /\ qmutex' = "free"
       ELSE UNCHANGED <<ctl, qmutex>>
  /\ UNCHANGED <<k, should_stop, initialized, woken, msgs, injected,
                 broker_vars>>
Pop ==
  /\ ctl = "visit"
  /\ at = PoolSize
  /\ queue' = Tail(queue)
  /\ popped' = popped + 1
  /\ at' = 0
  /\ IF Len(queue) = 1
       THEN ctl' = "loop" /\ qmutex' = "free"
       ELSE UNCHANGED <<ctl, qmutex>>
  /\ UNCHANGED <<k, should_stop, initialized, woken, msgs, injected,
                 broker_vars>>

-----------------------------------------------------------------------------
(* The control thread: shutdown_adapters.                                  *)

\* broker::stop stops the io_context and closes the server.
StopAdapter_Mutant ==
  /\ ctl = "stop"
  /\ ctl' = "join"
  /\ UNCHANGED <<k, at, should_stop, initialized, queue_vars, broker_vars>>
StopAdapter ==
  /\ ctl = "stop"
  /\ stopped' = [stopped EXCEPT ![k + 1] = TRUE]
  /\ ctl' = "join"
  /\ UNCHANGED <<k, at, should_stop, initialized, queue_vars, th, cur, left, smutex>>

\* ... and joins the thread; the interface is destroyed.  After the last one
\* control::run returns.
JoinAdapter_Mutant ==
  /\ ctl = "join"
  /\ IF k + 1 < PoolSize
       THEN k' = k + 1 /\ ctl' = "stop"
       ELSE k' = 0 /\ ctl' = "exited"
  /\ UNCHANGED <<at, should_stop, initialized, queue_vars, broker_vars>>
JoinAdapter ==
  /\ ctl = "join"
  /\ th[k + 1] = "returned"
  /\ th' = [th EXCEPT ![k + 1] = "joined"]
  /\ IF k + 1 < PoolSize
       THEN k' = k + 1 /\ ctl' = "stop"
       ELSE k' = 0 /\ ctl' = "exited"
  /\ UNCHANGED <<at, should_stop, initialized, queue_vars, cur, left, smutex,
                 stopped>>

-----------------------------------------------------------------------------
(* The broker thread of adapter a.                                         *)

Goto(a, from, to) == th[a] = from /\ th' = [th EXCEPT ![a] = to]

\* worker listens and enters _ioc.run().
Listen(a) ==
  /\ Goto(a, "listen", "idle")
  /\ UNCHANGED <<control_vars, queue_vars, cur, left, smutex, stopped>>

\* _ioc.run() returns between two handlers once the io_context is stopped.
Return(a) ==
  /\ stopped[a]
  /\ Goto(a, "idle", "returned")
  /\ UNCHANGED <<control_vars, queue_vars, cur, left, smutex, stopped>>

\* A client's PUBLISH arrives: its handler starts.
OnPublish(a, t) ==
  /\ ~stopped[a]
  /\ Len(msgs) < MaxMessages
  /\ Goto(a, "idle", "pub_lock")
  /\ cur' = [cur EXCEPT ![a] = t]
  /\ UNCHANGED <<control_vars, queue_vars, left, smutex, stopped>>

\* The publish handler locks _subs_mutex.
PublishLock(a) ==
  /\ smutex[a] = "free"
  /\ smutex' = [smutex EXCEPT ![a] = "broker"]
  /\ Goto(a, "pub_lock", "fanout")
  /\ UNCHANGED <<control_vars, queue_vars, cur, left, stopped>>

\* It has sent to the adapter's own subscribers, and unlocks before it shares.
PublishUnlock_Mutant(a) ==
  /\ a \notin stalled
  /\ Goto(a, "fanout", "push")
  /\ UNCHANGED <<control_vars, queue_vars, cur, left, smutex, stopped>>
PublishUnlock(a) ==
  /\ a \notin stalled
  /\ smutex' = [smutex EXCEPT ![a] = "free"]
  /\ Goto(a, "fanout", "push")
  /\ UNCHANGED <<control_vars, queue_vars, cur, left, stopped>>

\* An exception in the handler leaves _ioc.run() and the thread's function.
PublishThrows(a) ==
  /\ th[a] = "fanout"
  /\ ctl' = "aborted"
  /\ UNCHANGED <<k, at, should_stop, initialized, queue_vars, broker_vars>>

\* The same out of the accept handler, whose peer is gone again.
AcceptThrows(a) ==
  /\ ~stopped[a]
  /\ th[a] = "idle"
  /\ ctl' = "aborted"
  /\ UNCHANGED <<k, at, should_stop, initialized, queue_vars, broker_vars>>

\* share: the message enters the queue under _queue_mutex.
Push_Mutant(a) ==
  /\ queue' = Append(queue, Len(msgs) + 1)
  /\ msgs' = Append(msgs, [origin |-> a, topic |-> cur[a]])
  /\ cur' = [cur EXCEPT ![a] = NoTopic]
  /\ Goto(a, "push", "notify")
  /\ UNCHANGED <<control_vars, qmutex, woken, popped, injected, left,
                 smutex, stopped>>
Push(a) ==
  /\ qmutex = "free"
  /\ queue' = Append(queue, Len(msgs) + 1)
  /\ msgs' = Append(msgs, [origin |-> a, topic |-> cur[a]])
  /\ cur' = [cur EXCEPT ![a] = NoTopic]
  /\ Goto(a, "push", "notify")
  /\ UNCHANGED <<control_vars, qmutex, woken, popped, injected, left,
                 smutex, stopped>>

\* notify_one, after the unlock: it reaches the control thread only if that
\* is waiting at this moment.
Notify_Mutant(a) ==
  /\ Goto(a, "notify", "idle")
  /\ UNCHANGED <<control_vars, queue_vars, cur, left, smutex, stopped>>
Notify(a) ==
  /\ woken' = (woken \/ ctl = "wait")
  /\ Goto(a, "notify", "idle")
  /\ UNCHANGED <<control_vars, qmutex, queue, msgs, popped, injected, cur,
                 left, smutex, stopped>>

\* A packet or the end of a connection, whose handler locks _subs_mutex: a
\* SUBSCRIBE with n valid entries, an UNSUBSCRIBE as if with one, or, with
\* none, a DISCONNECT or a lost connection.
OnSession(a) ==
  /\ ~stopped[a]
  /\ Goto(a, "idle", "op_lock")
  /\ \E n \in 0..MaxEntries : left' = [left EXCEPT ![a] = n]
  /\ UNCHANGED <<control_vars, queue_vars, cur, smutex, stopped>>

\* A packet whose handler only answers it: a CONNECT, a PINGREQ or a SUBSCRIBE
\* without a valid entry.
OnRequest(a) ==
  /\ ~stopped[a]
  /\ Goto(a, "idle", "answer")
  /\ UNCHANGED <<control_vars, queue_vars, cur, left, smutex, stopped>>

SessionLock(a) ==
  /\ smutex[a] = "free"
  /\ smutex' = [smutex EXCEPT ![a] = "broker"]
  /\ Goto(a, "op_lock", "op")
  /\ UNCHANGED <<control_vars, queue_vars, cur, left, stopped>>

\* The subscriptions are changed.  SUBSCRIBE unlocks after each entry and locks
\* again for the next one; the last one is followed by the answer.
SessionUnlock(a) ==
  /\ smutex' = [smutex EXCEPT ![a] = "free"]
  /\ \/ left[a] = 0 /\ Goto(a, "op", "idle") /\ UNCHANGED left
     \/ /\ left[a] > 0
        /\ left' = [left EXCEPT ![a] = @ - 1]
        /\ Goto(a, "op", IF left[a] = 1 THEN "answer" ELSE "op_lock")
  /\ UNCHANGED <<control_vars, queue_vars, cur, stopped>>

\* The answer is sent to the handler's own client, with no lock held.
Answer(a) ==
  /\ a \notin stalled
  /\ Goto(a, "answer", "idle")
  /\ UNCHANGED <<control_vars, queue_vars, cur, left, smutex, stopped>>

-----------------------------------------------------------------------------
\* A client of a stops reading, or all of them read again.
Stall(a) ==
  /\ a \in Stalling
  /\ stalled' = IF a \in stalled THEN stalled \ {a} ELSE stalled \cup {a}
  /\ UNCHANGED program

\* The steps the control thread takes by itself.
ControlStep ==
  /\ \/ BuildAdapter \/ RunAdapter \/ LoopTest
     \/ Enter \/ Wake \/ Timeout \/ Visit \/ InjectLock \/ InjectDone \/ Pop
     \/ StopAdapter \/ JoinAdapter
  /\ UNCHANGED stalled

\* The steps a broker thread takes by itself, with no client involved.
BrokerStep(a) ==
  /\ \/ Listen(a) \/ Return(a)
     \/ PublishLock(a) \/ PublishUnlock(a) \/ Push(a) \/ Notify(a)
     \/ SessionLock(a) \/ SessionUnlock(a) \/ Answer(a)
  /\ UNCHANGED stalled

\* What clients, signals and failures add.
Environment ==
  /\ \/ Signal \/ BuildFails \/ RunFails \/ InjectThrows \/ InjectEscapes
     \/ \E a \in Adapter :
          \/ OnSession(a) \/ OnRequest(a) \/ PublishThrows(a) \/ AcceptThrows(a)
          \/ \E t \in Topic : OnPublish(a, t)
  /\ UNCHANGED stalled

Running == ctl \notin Final

\* The process is over.
Ended == ~Running /\ UNCHANGED vars

Next ==
  \/ Running /\ ControlStep
  \/ Running /\ \E a \in Adapter : BrokerStep(a)
  \/ Running /\ Environment
  \/ Running /\ \E a \in Adapter : Stall(a)
  \/ Ended

Spec == Init /\ [][Next]_vars

(***************************************************************************)
(* A thread that is able to go on again and again does go on: it gets a    *)
(* mutex that is free again and again, and the condition variable's timer  *)
(* fires.  Clients and signals owe nothing: that they read what they are   *)
(* sent is not assumed here.                                               *)
(***************************************************************************)
Fairness ==
  /\ SF_vars(Running /\ ControlStep)
  /\ \A a \in Adapter : SF_vars(Running /\ BrokerStep(a))

FairSpec == Spec /\ Fairness

-----------------------------------------------------------------------------
(* Properties.                                                             *)

ProgramType ==
  /\ ctl \in ControlPc /\ k \in 0..(PoolSize - 1) /\ at \in 0..PoolSize
  /\ should_stop \in BOOLEAN /\ initialized \in BOOLEAN
  /\ qmutex \in {"free", "control"} /\ woken \in BOOLEAN
  /\ queue \in Seq(Nat) /\ msgs \in Seq(Message) /\ popped \in Nat
  /\ injected \in [Adapter -> Seq(Nat)]
  /\ th \in [Adapter -> BrokerPc]
  /\ cur \in [Adapter -> Topic \cup {NoTopic}]
  /\ left \in [Adapter -> 0..MaxEntries]
  /\ smutex \in [Adapter -> {"free", "control", "broker"}]
  /\ stopped \in [Adapter -> BOOLEAN]

\* Every variable holds a value of its type.
TypeOK == ProgramType /\ stalled \subseteq Adapter

\* The guards of the control thread's own steps.
ControlCanGo ==
  /\ ctl \in {"enter", "wait"} => qmutex = "free"
  /\ ctl = "inject" => smutex[at] = "free"
  /\ ctl = "send" => at \notin stalled
  /\ ctl = "join" => th[k + 1] = "returned"

\* The guards of those of the broker thread of a.
BrokerCanGo(a) ==
  /\ th[a] \notin {"none", "returned", "joined"}
  /\ th[a] = "idle" => stopped[a]
  /\ th[a] \in {"pub_lock", "op_lock"} => smutex[a] = "free"
  /\ th[a] \in {"fanout", "answer"} => a \notin stalled
  /\ th[a] = "push" => qmutex = "free"

\* The broker thread of a goes on, or sends to a client that does not read.
Unblocked(a) ==
  BrokerCanGo(a) \/ (th[a] \in {"fanout", "answer"} /\ a \in stalled)

\* What the control thread does next needs the broker thread of a.
ControlWaitsFor(a) ==
  \/ ctl = "inject" /\ at = a
  \/ ctl = "join" /\ k + 1 = a

\* The broker thread of a cannot go on before the control thread does.
WaitsForControl(a) ==
  \/ th[a] = "push" /\ qmutex = "control"
  \/ th[a] \in {"pub_lock", "op_lock"} /\ smutex[a] = "control"

(***************************************************************************)
(* No thread is stuck.  wait_and_pop_all holds _queue_mutex while it takes *)
(* the _subs_mutex of one adapter after another, and broker::stop joins a  *)
(* thread that may be in the middle of a handler.  Still the control       *)
(* thread can go on, or it waits for a broker thread that can; and a       *)
(* broker thread in a handler can go on, or it waits for the control       *)
(* thread.  Only a send to a client that does not read holds them up.      *)
(***************************************************************************)
NeverStuck ==
  Running =>
    /\ \/ ControlCanGo
       \/ ctl = "send" /\ at \in stalled
       \/ \E a \in Adapter : ControlWaitsFor(a) /\ Unblocked(a)
    /\ \A a \in Adapter :
         \/ th[a] \in {"none", "idle", "returned", "joined"}
         \/ Unblocked(a) \/ WaitsForControl(a)

(***************************************************************************)
(* No lost wake-up.  push notifies after it has unlocked; still, whenever  *)
(* the control thread sleeps in wait_for with messages in the queue, it    *)
(* has been notified or a broker thread is about to notify it, so that no  *)
(* message waits for the 100 ms to pass.                                   *)
(***************************************************************************)
NoLostWakeup ==
  ctl = "wait" /\ queue # <<>> =>
    woken \/ \E a \in Adapter : th[a] = "notify"

(***************************************************************************)
(* inject_publish of an adapter is called with the messages in the order   *)
(* in which they were pushed, and never twice with the same one: not even  *)
(* when it throws and wait_and_pop_all leaves the message in the queue.    *)
(***************************************************************************)
RelayedInOrder ==
  \A a \in Adapter : \A i, j \in 1..Len(injected[a]) :
    i < j => injected[a][i] < injected[a][j]

(***************************************************************************)
(* A message that has left the queue was passed to every other adapter     *)
(* whose scope includes its topic, and to no other adapter.                *)
(***************************************************************************)
RelayedToAll ==
  \A i \in 1..popped, a \in Adapter :
    IsFor(msgs[i], a) <=> \E j \in 1..Len(injected[a]) : injected[a][j] = i

(***************************************************************************)
(* When main returns no broker thread is running or joinable: destroying   *)
(* such a std::thread would end the process in std::terminate.  Covers a   *)
(* failure at start, a signal at any moment, and a runtime_error from      *)
(* inject_publish.  Where main catches an exception with a thread running, *)
(* the process has "aborted" (FatalIsHandled).                             *)
(***************************************************************************)
ThreadsJoined ==
  ctl = "exited" => \A a \in Adapter : th[a] \in {"none", "joined"}

(***************************************************************************)
(* What the comment in main says of its try block, that it is there to     *)
(* handle fatal exceptions: none of them ends in std::terminate.           *)
(***************************************************************************)
FatalIsHandled == ctl # "aborted"

(***************************************************************************)
(* While wait_and_pop_all walks the queue and calls into the adapters, the *)
(* only change to the queue is its own pop, so the count it returns is the *)
(* number of messages it relayed.                                          *)
(***************************************************************************)
DrainExclusive ==
  [][(ctl \in Draining) => queue' \in {queue, Tail(queue)}]_vars

\* How far the call of inject_publish still is from its return.
CallStage == [visit |-> 0, send |-> 1, inject |-> 2]

\* The queue gets shorter, or the walk over the pool, or the call, gets on.
DrainGetsOn ==
  \/ Len(queue') < Len(queue)
  \/ queue' = queue /\ at' > at
  \/ queue' = queue /\ at' = at /\ CallStage[ctl'] < CallStage[ctl]

(***************************************************************************)
(* A drain of the queue, during which no adapter can share a message,      *)
(* comes nearer to its end with every step of the control thread, and no   *)
(* broker thread ever sets it back.                                        *)
(***************************************************************************)
DrainNearsEnd ==
  [][({ctl, ctl'} \subseteq Draining) =>
       IF ControlStep THEN DrainGetsOn ELSE UNCHANGED <<ctl, at, queue>>]_vars

\* How far a broker thread that starts no handler is from its join, as long
\* as it enters no subscription.
ThreadStage ==
  [none |-> 0, joined |-> 0, returned |-> 1, idle |-> 2, listen |-> 3,
   notify |-> 3, push |-> 4, fanout |-> 5, pub_lock |-> 6,
   answer |-> 3, op |-> 3, op_lock |-> 4]

\* The thread of a has done nothing, entered one more of the subscriptions of
\* its packet, or come nearer to its join.
ThreadGetsOn(a) ==
  \/ th'[a] = th[a] /\ left'[a] = left[a]
  \/ left'[a] < left[a]
  \/ left'[a] = left[a] /\ ThreadStage[th'[a]] < ThreadStage[th[a]]

\* The adapters for which shutdown_adapters has stopped the io_context.
StoppedByNow == {a \in Adapter : a <= k \/ (ctl = "join" /\ a = k + 1)}

(***************************************************************************)
(* The shutdown comes nearer to its end as well: the control thread goes   *)
(* over the pool once, and the thread it joins finishes the handler it was *)
(* in and starts no other, whatever clients send meanwhile.  That handler  *)
(* may be a SUBSCRIBE, which goes on locking _subs_mutex for its entries   *)
(* and sends its answer after the io_context was stopped; but every one of *)
(* its steps enters a subscription or is one of a few towards its return.  *)
(***************************************************************************)
ShutdownNearsEnd ==
  [][(ctl \in {"stop", "join"}) =>
       /\ \/ UNCHANGED <<ctl, k>> \/ ctl' \in Final
          \/ ctl = "stop" /\ ctl' = "join" /\ k' = k
          \/ ctl = "join" /\ ctl' = "stop" /\ k' = k + 1
       /\ \A a \in StoppedByNow : ThreadGetsOn(a)]_vars

\* How far adapter a has come in the sequence of shared messages.
Position(a) == popped + IF a <= at THEN 1 ELSE 0

(***************************************************************************)
(* The queue, the control thread and the locks together keep the promise   *)
(* of Bridge: one log, of which every adapter sees its share in order.     *)
(***************************************************************************)
Abstract == INSTANCE Bridge WITH
  log <- msgs,
  pos <- [a \in Adapter |-> Position(a)],
  got <- injected

ImplementsBridge == Abstract!Spec

\* No client keeps what it is sent unread for ever.
StallsEnd == \A a \in Adapter : []<>(a \notin stalled)

(***************************************************************************)
(* Every message pushed to the queue leaves it, relayed, unless the        *)
(* process is told to stop or fails first.  Clients may stop reading at    *)
(* any time and so hold up the control thread with both its mutexes, and   *)
(* with it every other adapter, as long as none does so for ever.          *)
(***************************************************************************)
EventuallyRelayed ==
  StallsEnd =>
    \A i \in 1..(MaxMessages + PoolSize) :
      (Len(msgs) >= i) ~> (popped >= i \/ should_stop \/ ctl \in Final \cup {"stop", "join"})

(***************************************************************************)
(* After a signal the process ends: the loop is left, every adapter is     *)
(* stopped and every thread joined, whatever the threads were doing;       *)
(* again unless a client does not read for ever.                           *)
(***************************************************************************)
StopTerminates == StallsEnd => (should_stop ~> ctl \in Final)
=============================================================================
