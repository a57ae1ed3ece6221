# Verification of octopusMQ

octopusMQ is a message broker: one process holds several *adapters* (MQTT brokers on
different interfaces and ports), and every message a client publishes at one adapter
is relayed to the clients of the others.  This directory has TLA+ models of the
parts of it whose correctness depends on the order of things, the TLC runs that
check them on small instances, and TLAPS proofs for any number of adapters, clients,
subscriptions and signals and for texts of any length.  Paths below are relative to
`src/src/`.

## 1. Inventory

| component | state | operations |
|---|---|---|
| control thread, `threads/control.cpp`, `octopus_mq.cpp` | `_should_stop`, `_initialized`, `_adapter_pool` | `initialize_adapters`, `message_queue_manager`, `shutdown_adapters`, `signal_handler`, argument parsing |
| message queue, `network/adapter.cpp` | `_queue`, `_queue_mutex`, `_queue_cv` | `push`, `wait_and_pop_all`, `wait_and_pop` (never called) |
| MQTT broker adapter, `threads/mqtt/broker.cpp` | `_connections`, `_meta`, `_subs`, `_subs_mutex`, `_ioc`, `_thread` | a handler for each MQTT packet in versions 3 and 5, accept, close, error, `close_connection`, `share`, `inject_publish`, `run`, `stop` |
| topic scope, `network/message.cpp` | a list of filters, `_is_global_wildcard` | tokenizing, `valid_topic_filter`, `compare_topics`, `includes`, `matches_filter` |
| settings, `core/settings.cpp`, `network/adapter.cpp` | the pool under construction | `load`, `parse`, `check_bindings` |
| adapter factory and MQTT adapter settings, `network/adapter_factory.cpp`, `network/mqtt/adapter.cpp` | none | which adapter and which transport the settings lead to |
| network, `network/network.cpp` | none | addresses and interfaces |
| log, `core/log.cpp` | `_mutex`, `_buffer`, `_last_adapter_name` | `print`, `print_event`, `print_action`, `print_empty_line`, `print_help` |
| DDS adapter, MQTT client role | none | stubs |

How they interact.  Each broker runs its handlers, one at a time, on a thread of its
own inside `_ioc.run()`.  The publish handler sends to the broker's own subscribers
under `_subs_mutex`, releases it, and pushes the message to the one global queue
under `_queue_mutex`.  The control thread waits on that queue, and *while it holds
`_queue_mutex`* calls `inject_publish` of every other adapter whose scope includes
the topic; `inject_publish` takes that adapter's `_subs_mutex` and sends on the
control thread.  Two kinds of thread thus share `_subs` (under a mutex), `_meta`
(under none) and the sockets.  All threads print to the log, under a mutex of its
own.  A signal handler prints too, on whatever thread the signal interrupts, and
sets `_should_stop`; the control thread then stops and joins the brokers one after
the other.  Exceptions leave `inject_publish` on the control thread (a
`runtime_error` is caught in `message_queue_manager`, anything else only in `main`)
or a handler on a broker thread (caught nowhere).

What is hard, and what makes each part correct:

* **Queue and threads** (modules `Relay`, `Bridge`).  Two mutexes taken in two
  orders by two threads; a notification outside the lock; an exception half way
  through a drain; a signal at any moment; a join of a thread that may be in the
  middle of a handler; a client that does not read and so keeps a thread, with the
  mutexes it holds, in a send.  Correct means: no circular wait, no lost wake-up,
  every message to every adapter it is for, once and in order, and no thread left
  over.
* **Broker** (modules `Broker`, `Hub`).  Three containers that must agree, ended by
  three different handlers; peers that are gone before any handler knows; the
  control thread between any two steps.  Correct means: no subscription or table
  entry outlives its connection, no walk is disturbed, each client's subscriptions
  are its own, and a message goes to just the subscriptions there were at one
  moment.
* **Topic matching** (module `TopicFilter`).  Index arithmetic over two vectors
  with one comparison of sizes before the loop.  Correct means: reads stay in the
  vectors and the answer is the MQTT rule's.
* **Settings and start** (module `Start`).  A file that is loaded in the middle of
  the command line; bindings compared as they arrive; ports that go through three
  widths.  Correct means: what runs is what the file says, or nothing runs.
* **Log and signals** (module `Log`).  Lines written in pieces, a header that
  depends on who printed last, and a signal handler that takes the mutex which
  the thread it interrupts may hold.  Correct means: no line is torn, every event
  is under its own header, and a signal ends the process (where it does not: a
  handler on top of the very call that holds the mutex waits for itself).

`PROJECT.json` lists every hazard with its line and the property that covers it.

## 2. Modules and their correspondence to the code

| module | what it is |
|---|---|
| `Bridge` | abstract: one log, every adapter walks it and is given its share |
| `Relay` | control thread, queue, one thread per adapter, both kinds of mutex |
| `Hub` | abstract: clients, their subscriptions, messages sent to those that match |
| `Broker` | one MQTT adapter: handlers, containers, `inject_publish` |
| `Log` | the log, the threads as far as they print, the signal handler |
| `TopicFilter` | one call of `matches_filter` or `includes` |
| `Start` | arguments, configuration file, check of bindings, building of the brokers |
| `MCRelay`, `MCBroker`, `MCLog`, `MCTopicFilter`, `MCStart` | instances for TLC |
| `RelayProofs`, `BrokerProofs`, `LogProofs`, `TopicFilterProofs`, `StartProofs` | theorems about the models |
| `BridgeProofs`, `HubProofs` | what the two abstract specifications promise |

**Relay.**  A step is what a thread does between two points at which another can
interfere; taking a mutex is a step.  `ctl` and `th[a]` are the program counters
(the comment over `ControlPc` and `BrokerPc` says what each value stands for).
`wait_and_pop_all` is `Enter`, `Wake`, `Timeout` (the condition variable with its
predicate), `Visit` (the body of the loop over the pool), `InjectLock`,
`InjectDone`, `InjectThrows` (the call), and `Pop`.  `message_queue::push` is `Push`
(under the lock) and `Notify` (after it).  A handler that touches the subscriptions
without publishing is `OnSession`, `SessionLock`, `SessionUnlock`; what it does with
them is in `Broker`.  A SUBSCRIBE takes the mutex anew for each valid entry, also
after `_ioc.stop()`, so `left[a]` counts the entries to come. It ends in `Answer`,
as do the handlers that take no mutex (`OnRequest`: CONNECT, PINGREQ);
acknowledgements change nothing `Relay` has and do not appear.  Failures are
`BuildFails` and `RunFails` (at start); `InjectThrows`, a `runtime_error` that
`message_queue_manager` catches, and `InjectEscapes`, any other exception, which
only `main` catches, with every thread joinable; and `PublishThrows` and
`AcceptThrows` on a broker thread, which end the process.  `stalled` has the
adapters one of whose subscribers does not read: meanwhile `InjectDone` and
`PublishUnlock`, the ends of the two loops that send under a mutex, do not happen,
nor does `Answer`, which holds no mutex.  `queue` holds positions in `msgs`, a
history of all pushed messages; `popped` and `injected` are history too and no
action's guard reads them.  The mutex of the queue needs no value for a broker
thread, because `push` holds it only within one step.

**Broker.**  `sock[c]` is the connection as the library and the peer see it;
`connections`, `meta`, `subs` are the three containers, `mutex` is `_subs_mutex`.
The handler that runs is in `io`, its locals in `who`, `entries`, `topic`, `todo`
(the subscriptions its walk has still to serve; the order of the index does not
matter to any property, so any order is taken).  `inject_publish` has `inj`,
`inj_todo`, `inj_con`.  The handlers of versions 3 and 5 differ in the "no local"
test and in the options stored, and the model has these differences
(`NewSub`, `Receivers`).  `Touch` is what `_meta[c]` does to a missing entry.
`close_connection` is two steps, `EraseConnection` and `EraseSubs`, split at its
lock.  `remote_endpoint()` throws when the peer is gone by then (`MayThrow`):
on the io thread this ends the process, on the control thread the relaying.  It is
the only exception `Broker` has; others out of `inject_publish` are in `Relay`.
A connection is "lost" when the operating system knows that its peer is gone.
A peer that vanishes in silence leaves it open: the handlers of CONNECT ignore
keep_alive, no timeout is set, and nothing is claimed of such a peer.
`echo` is a history of which filters a client has asked for without "no local";
`NoLocal` needs it, because `emplace` refuses a second SUBSCRIBE to a filter whose
SUBACK says success, so what is stored is not what was last asked for.
A peer may stop reading (`Stall`; `sock[c] = "stalled"`), and a send to it then
waits (`Writable`): the sends under the mutex (`PublishSend`, `InjectSend`) and
the answers (`Reply` for CONNACK, PINGRESP and UNSUBACK, `Suback`).  The buffers
of a connection are not counted: a peer that does not read has them full.
A data race on `_meta` leads to `proc = "undefined"`, after which nothing is
claimed.  Assumed of the MQTT library: CONNECT comes first and once, nothing is
delivered after DISCONNECT, the end of a connection is reported once, by the
close handler or by the error handler.  Of the subscription options only "no
local" is kept; QoS and retain-as-published never influence control.

`Broker` implements `Hub`, which has clients, subscriptions, and two sets of
subscriptions that a message has still to be sent to, one for a client's message and
one for a relayed one; no threads and no mutex.  The mapping takes `todo` and
`inj_todo` for these sets, and for the clients `_connections` together with the
owners of subscriptions: between the two halves of `close_connection` the
connection is in `_connections` no more but its subscriptions are still sent to.
`Hub` states what the mutex is for: subscriptions do not change while a message
is being sent, and the subscriptions of a client end in one step.  That
UNSUBSCRIBE removes a filter for all clients is in `Hub` as the code has it; it is
the subject of `broker_unsubscribe`.

**TopicFilter.**  A text is the sequence of its levels; a level is a plain name
(possibly empty), `#`, `+`, or a name with a wildcard inside.  Two facts of the
tokenizers are kept by what they do: an empty text, a `#` that is not last and a
mixed level make a filter invalid, a wildcard anywhere makes a topic invalid.
The steps are the early returns, the size test, the turns of the loop, and the
test after it of `compare_topics`.  Where the code reads `filter[size]`, which is
undefined, the model takes any outcome and records it in `bounds`.

**Log.**  `stack[t]` has the calls that thread `t` is in: of `print_event`, of
another print function, or of the signal handler, which may be on top of either
and, for a second signal, of another handler.  The same signal is blocked on a
thread while its handler runs there, as `signal()` of glibc arranges.  A call is
`Lock`, `Header` (of `print_event`: the header line, if the last event was of
another adapter), `Time` (the first piece of the line), `Text` (the rest, and the
unlock) and, in a handler, `Flag`.  `mutex` is `log::_mutex`, `last` is
`_last_adapter_name`; `shown`, the last header in the output, and `open`, the
thread whose line is unfinished, stand for the output and for `_buffer`, which has
the same span.  What a thread does between its calls is cut down to what decides
whether it may print: `control::run` in `ctl`, `alive` and `joining`; everything
else about the threads is in `Relay`, where a signal sets `_should_stop` in one
step.  Every path out of `control::run` and `main` is there: an adapter that cannot
be built (`BuildFails`), a thread that cannot be created while earlier brokers run
(`RunFails`), the two kinds of exceptions out of `inject_publish` (`InjectThrows`),
and the catch of `main`, which prints the exception and `print_stopped`.  When
`main` returns with brokers left (`Destroy`), and when a handler throws on a
broker thread (`BrokerThrows`), `std::terminate` calls `abort`, which raises
SIGABRT; octopusMQ handles that signal too, so the last thing of such a process is
one more line (`aborting`, `Die`).  In `Destroy` that handler reads a map which is
destroyed already, so it may also end the process at once.  `stalled` has the
threads that are in a send to a client which does not read.  The process is over
when `main` returns or `abort` ends it; it hangs when a thread waits for the mutex
that it holds itself (`SelfBlocked`).

**Start.**  One process, one thread: a step is one argument (`Option`,
`FileArgument`, `BadArgument`), one entry of the adapters list (`ReadEntry`), one
comparison in `check_bindings` (`CheckBinding`), one broker built (`BuildAdapter`,
`BuildFails`).  `args` and `file` are histories of what was read; `pool` is
`_adapter_pool` with the address and port of each adapter; `bound` has the sockets.
The other fields of an entry are sound, or `fault` names the first that is not,
since each of them either lets the entry pass or ends the process; all transports
but `tcp` and `websocket` are such a fault, as in the build without TLS.
`StoredPort` is `get<port_int>()`, which keeps the low bits; the broker's
`lexical_cast<uint16_t>` throws instead, and its exception is not one that
`initialize_adapters` catches.  `Overlap`, when the operating system refuses a
second listening socket, is external, and so is `Refused`, the bindings it refuses
the process in any case (another process has them).  Given both, a broker is built
or it is not (`BuildAdapter`, `BuildFails`).  `SoundFile` is stated with these two
and not with the code's own `compare_binding`; `HarmlessShare` is where the code
refuses a file that the system would not.  What happens when the brokers run is
`Relay`, whose `Init` is the state `pc = "build"` with nothing built.

## 3. Runs

| run | instance | question |
|---|---|---|
| `relay` | 3 adapters, 1 topic, the scope in the middle leaves it out, 1 message before publishing stops, up to 2 entries per SUBSCRIBE | all safety of the threads, and that `Relay` implements `Bridge` |
| `relay_live` | 2 adapters, 1 topic, 1 message before publishing stops, up to 2 entries, fair threads, clients that stop reading | nobody is stuck; drains and the shutdown near their ends; messages are relayed, a signal ends the process |
| `relay_fatal` | 2 adapters | *violated*: a fatal exception is not always handled |
| `topic` | levels empty, plain, mixed, `#`, `+`; texts to 3 levels, scopes to 2 filters | reads of the matching, and the exact answer |
| `topic_mqtt` | texts to 2 levels | *violated*: the answer is MQTT's |
| `broker` | 2 connections, 2 valid filters and an invalid one, packets of up to 2 entries | consistency of the containers, handlers near their ends, and that `Broker` implements `Hub` |
| `broker_live` | 2 connections, 1 filter, packets of up to 2 entries, fair threads, both peers may stop reading | handlers end; the subscriptions of a peer that the operating system knows to be gone disappear |
| `broker_unsubscribe` | 2 connections, 1 filter | *violated*: UNSUBSCRIBE removes the client's own subscriptions |
| `broker_meta` | 2 connections, 1 filter | *violated*: nothing is kept of a closed connection |
| `log` | 2 brokers, 1 signal and the SIGABRT of `abort`, failures, the control thread and a broker may send to a client that does not read, fair threads | lines and headers are whole, nobody prints who is gone, what can hang and that it stays so, a signal ends the process |
| `start` | 1 interface, loopback, `*`; ports 0, 1, 2, 5, 9; one binding that the system refuses; 2 arguments, 3 adapters | what runs is what the file says, and a sound file gets its brokers |
| `start_bindings` | the same with 2 adapters | *violated*: the check finds every collision |

Bounds.  The runs are 12, one for each question; several properties share a run
where they are about the same instance.  `MaxMessages` stops new publishes once so
many messages were shared; handlers already running still push, so with `MaxMessages
= 1` and three adapters the queue reaches three messages, from different adapters,
which is what order, double delivery and exceptions in mid-drain need.  The outer
two of three adapters are for the topic, so that a message of the middle one has two
receivers, of which one can throw after the other was served, and one of an outer
one has to pass over the middle.  `MaxEntries = 2` makes a SUBSCRIBE take the mutex
again after another thread had it.  Two connections are one that ends and one that
is served; a third would repeat the second, since no operation relates three.  Two
entries per SUBSCRIBE give a lock taken twice in one handler and a valid entry after
an invalid one.  Three levels against three include every relation of lengths and a
wildcard before, at and after the point where texts part; longer texts and lists are
covered by the proofs.  In `start` a `WordSize` of 8 and a `PortSize` of 4 stand for
2^32 and 2^16: ports 1 and 2 fit a socket, 5 fits `port_int` only, and 9 fits
neither and becomes 1; port 0 leaves the choice to the system.  Three adapters are
the fewest for which a comparison with only the first one is not enough; two
arguments give an option before and after the file and a second file.  `StartProofs`
has no such bounds.  The connections are symmetric in `broker`; the run has no
liveness property.  Peers stop reading only in the runs with liveness: a stall takes
steps away and adds none, so what is safe without stalls is safe with them (and the
proofs have `Stalling` arbitrary).  In `log` two adapters are what a header can be
wrong with; a signal and the SIGABRT are a handler on top of a handler, a handler on
each of two threads, and one after the other; more add only depth, and the proofs
have no bound.

What the violated runs show, and how far each deviation goes.  The second part is
proved in each case, so that what is wrong is known exactly.
* `relay_fatal`: when the thread of the second adapter cannot be created, `main`
  catches the exception, but the destructor of the static pool then meets the first
  adapter's joinable thread and ends the process in `std::terminate`.  An
  exception out of a handler on a broker's thread ends there too: the `try` in
  `main` cannot see it.  So does an exception out of `inject_publish` that is not
  a `runtime_error`: only `main` catches it, with every thread joinable.
  `AbortsOnlyWithThread`: no other step of the model ends there.  It takes a broker
  thread in its fan-out or, before its stop, in the accept handler, or one that was
  started and has not returned when the control thread fails in `run` or in a send.
* `topic_mqtt`: `t/#` does not match `t`.  `AnswersExact` and `ReadsPastPrefix`:
  this, and the read past the end for a filter that is a strict prefix of the
  topic, are the only deviations for topics that do not begin with `$`.  MQTT 4.7.2
  keeps wildcards from matching the first level of those; the code has no such
  rule, and the model has no such topics.
* `broker_unsubscribe`: `_subs.erase(topic)` uses the topic index.
  `OnlyNamedAreRemoved`: only UNSUBSCRIBE takes a subscription from another client,
  and only one to a filter that the packet names.
* `broker_meta`: the error handler takes a connection that never sent CONNECT for
  one that is closed already.  `OnlyUnconnectedIsKept`: of every other connection
  the entry is erased.  `BlankFromRaceOnly`: the one other thing that may remain, an
  empty entry, is made by `inject_publish` between the two halves of
  `close_connection` and nowhere else.
* `start_bindings`: `compare_binding` knows the loopback address as the one that
  overlaps all others; the one that does is that of all interfaces.  `*` and an
  interface on one port pass the check, and fail when the second socket is bound.
  `OnlyAnyIsMissed`: no other collision passes.  The other way round,
  `SoundFilesRun`: a file that the system would accept is refused only if an adapter
  shares a port with one on the loopback interface, or two adapters of one
  interface have port 0; in both cases nothing would collide.

`NeverStuck` is stated with the guards of the threads' steps (`ControlCanGo`,
`BrokerCanGo`), because ENABLED cannot be proved about; on the instance of
`relay_live` TLC found these guards equal to ENABLED of the steps in every state.

Fairness.  `relay_live` assumes that a thread which can go on again and again
does: strong fairness of the control thread's own steps, and of each broker
thread's.  Strong, because a mutex can be taken by the other thread any number of
times in between; the code uses `std::mutex`, which promises no order, so this
is an assumption on the platform's mutex.  Nothing is assumed of
clients, of signals or of failures, so that a send need not complete: the code has
no timeout for it.  What depends on clients is a premise of the properties
instead, `StallsEnd`: no client keeps what it is sent unread for ever.  Without it all
five liveness properties of `relay_live`, `broker_live` and `log` fail, and one such
client indeed stops every adapter, since the control thread sends to it with
`_queue_mutex` held; not even a signal then ends the process.

`log` assumes that every thread goes on inside its calls, the control thread
between them unless it is in a send that stalls, and that `abort` ends; strong
fairness for the same reason.  That a drain and a join come to their end when no
client holds them up is what `DrainNearsEnd`, `ShutdownNearsEnd` and
`StopTerminates` of `Relay` are about.  `SignalStops` assumes nothing of signals
and has `StallsEnd` of its threads as a premise.  A broker owes no step but those
in its calls, and `JoinAdapter` waits for it.

`broker_live` assumes strong fairness of the io thread and of the control thread
inside `inject_publish`, and of `End`, the report of a connection whose end the
operating system knows: its pending read fails, which makes a handler ready, and an
io_context runs what is ready in order.  That a peer which vanished becomes known
(`LosePeer`) is not assumed, because the code has no keep_alive and no timeout: of a
silent peer nothing is promised.  The control thread is not obliged to enter
`inject_publish`.

## 4. Proofs

TLAPS checks all of these for every value of the constants, from the assumptions
named in the modules (`PoolSizeAssumption`, `ScopeAssumption`, ...,
`LevelAssumption`, and in `Start` that the special addresses differ, that a
socket's port is not wider than `port_int`, and that `Refused` are bindings).

`RelayProofs`.  The properties of `Relay` are not inductive.  The invariant
`RelayInv` adds: who holds which mutex, from the program counters (the control
thread has `_queue_mutex` exactly while it drains or calls, a `_subs_mutex` only in
`send`; a broker thread has one only in `fanout` and `op`), which threads are not
yet started, which exist and are stopped (`ThreadsExist`) and which are joined at
each place of the control thread, that there is a message at the front during a
drain and after one that failed, that `queue` is the tail of the log after `popped`,
and that `injected[a]` is increasing and holds exactly the positions up to
`Position(a)` that are for `a`.  From it follow `DeadlockFree`, `WakeupNotLost`,
`InOrder`, `ToAll`, `NoThreadLeft`, `DrainAlone`, `TypeCorrect`, and `Refinement`
(`Spec => ImplementsBridge`).  `DeadlockFree` is that nobody is stuck: the thread
that holds up the control thread is in one of few places, at each of which it has
the mutex it needs or can get it, unless a client does not read.  `DrainsGetOn` and
`ShutdownGetsOn` are the parts of liveness that are steps: there are measures of
what a drain and the shutdown have still to do, which each step of the thread
concerned lowers and no other raises; what then remains for TLC is that the threads
do take steps.  The measure of a thread that was stopped is a pair: the entries left
of its SUBSCRIBE, of which there may be any number, and then its place on the way to
its return.  `InjectBeforeStop` (with `NoneStopped`: before the shutdown no adapter
is stopped) says that the control thread never calls into an adapter that it has
stopped.  For the refinement, every step is a `Share` (`Push`), a `Forward`
(`Visit`) or a stutter of `Bridge`.  `Pop` stutters because `popped` grows as `at`
falls back to 0, so that the position of every adapter stays.

`TopicFilterProofs`.  `TopicInv` has the loop invariants of `compare_topics` (the
first `i` levels match, and the filter is not longer than the topic) and of
`includes` (what the filters before the `n`-th are known to answer).
For texts and scopes of any length, `AnswersExact` says that the answer is that of
`Answer`, which is the rule of MQTT without the parent of a `/#`, and
`ReadsPastPrefix` that it is undefined for strict prefixes only.

`BrokerProofs`.  `BrokerInv` adds to the properties: who has the mutex, and that
`todo` and `inj_todo` are empty outside the walks (`PlacesInv`); the life of a
connection (`ConnInv`): one that the library still delivers packets of, and that
sent CONNECT, is in `_connections` with a known `_meta` entry, and one that has
ended is in `_connections` only while the first half of its `close_connection` is
due; that a subscription with "no local" belongs to a connection of version 5
(`SubsInv`), which is why the handler of version 3 need not look; that of one
without it the client did ask for that (`EchoInv`), which is all that `NoLocal` can
rest on; and that the connection `inject_publish` has just sent to still has a
subscription (`WalkInv`).  `ConnInv` is what makes the test in the error handler
right for connections with subscriptions.  From the invariant follow the seven
invariants of the run `broker`; `HandlersGetOn`, with `SubsFinite` (only finitely
many subscriptions are ever stored) because a walk is measured by the cardinality of
what is left of it; the extents of the two violated runs (`KeptInv`); and
`BrokerRefinement` (`Spec => ImplementsHub`): the locked steps are `Subscribe`,
`Unsubscribe`, `Publish`, `Relay` and `End`, and the invariant gives that no walk is
under way when they change subscriptions.

`LogProofs`.  `LogInv` says that a call between its lock and its unlock belongs to
the thread that holds the mutex, and that of all calls of that thread, handlers
included, only one does (`MutexInv`); hence what one call wrote is still last in
the output when it writes again (`OutputInv`), and `last` is what `shown` shows.
`GoneAreSilent` is part of it: a thread enters a call only while it is alive, and is
joined only out of its calls; `Return` asks for no thread left, since otherwise
`Destroy` is what happens.
It gives `LinesNotTorn`, `HeadersRight` and `GoneNotInLog`.  `HeldInv` adds where
the call that holds the mutex is on its stack: at the top, or under signal handlers
that all wait.  Hence `OnlySignalsBlock`, that nothing else can stop
the holder, and `HangsAreFinal`, that a thread which waits for itself stays so.

`StartProofs`.  `StartInv` says what was taken from the command line at each place
(`ArgumentsInv`), that the pool follows the file entry by entry without a fault
(`PoolInv`), that the sockets are the first ones of the pool (`BoundInv`), and which
pairs of the pool have been compared when `check_bindings` stands at `c`
(`ComparedInv`): each new adapter with the earlier ones, hence every pair, because
the comparison is symmetric.  It gives `StartTypeCorrect`, `BindingsDistinct`,
`StartAsTold` and `PortsKept`.  `RefusedInv` says that a process which has ended was
not given such a file alone, and gives `SoundFilesRun`: with nothing wrong in the
file and no `HarmlessShare` the brokers run.  `MissedCollisions` is what
`OnlyAnyIsMissed` proves.

`BridgeProofs` and `HubProofs` are about the abstract specifications themselves:
that they promise what their comments say.  `SharesExact` and `NothingTakenBack`: an
adapter is given exactly the entries of the log due to it, in order, and nothing is
taken back.  `HubSends`: one message at a time is under way, to subscriptions of
connected clients, once for each filter.  With the refinements these hold of `Relay`
and `Broker` too.

Only model-checked: liveness (fairness and ENABLED are beyond the prover), that is
`EventuallyRelayed`, `StopTerminates`, `HandlersFinish`, `LostIsUnsubscribed` and
`SignalStops`.  Of these `DrainsGetOn`, `ShutdownGetsOn`, `HandlersGetOn`,
`OnlySignalsBlock` and `HangsAreFinal` are the safety halves.  All invariants and all
action properties of the passing runs are theorems, the two refinements included.

## 5. Not modelled

The DDS adapter and the MQTT client are stubs.  Error classes have no behaviour.
Address conversion and the texts of the log are pure input and output; the setters
of `phy` and `address` are not called.  The role of an adapter is parsed and then
never looked at: a client becomes a broker, though `README.md:8` of the repository
offers both.  `wait_and_pop` is never called.

QoS and retain-as-published are left out of `Broker`: they go from SUBSCRIBE
through `_subs` into the options of a send and decide nothing.  One consequence is
listed as a hazard without a model of it: a second SUBSCRIBE to the same filter is
refused by `emplace`, but its SUBACK grants the new QoS.  (For "no local" the
same refusal is in the model: `NoLocal` says what is left of it.)  Nor is there a
model of memory: `std::bad_alloc` could leave any handler, and is one of the
exceptions of `InjectEscapes` and `BrokerThrows` only.  `$` topics are not in
`TopicFilter`.

Three hazards lie in libraries of which the repository has no code: two threads
that write to one connection (an answer of the io thread, and a send of the
control thread), the server closed on the control thread, and the data race
on `_meta`, of which the model has when it may happen (`MetaRace`) and not what
follows.  The queue's length has no bound in the code, and so no property; a peer
that vanishes in silence has no timeout, and so no property either.

## 6. Plan

1. Done: `Bridge`, `Relay`, `TopicFilter`, `Start`, with proofs.
2. Done: `Broker` with peers that stop reading, `Hub`, the refinement, proofs.
3. Done: `Log`, with proofs; stalled sends in `Relay`.
   Done: absence of deadlock, measures of progress, the exact answer of the matching,
   and the extent of every deviation that a run shows, with proofs.
4. Left: the options of subscriptions in `Broker`, and what SUBACK grants.
5. Left: two `Broker`s and the queue in one model, from PUBLISH to the subscribers
   of the other adapter, implementing two `Hub`s joined by a `Bridge`.
