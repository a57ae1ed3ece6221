---------------------------------- MODULE Log ----------------------------------
(***************************************************************************)
(* The log that all threads of an octopusMQ process write to, and the      *)
(* signal handler, which writes to it as well.  log::_mutex is held from   *)
(* the first piece of a line to the last.  A signal interrupts a thread    *)
(* wherever it is; its handler first prints a line and then sets           *)
(* _should_stop.  If the thread it interrupted is the one that holds       *)
(* log::_mutex, the handler waits for itself.                              *)
(*                                                                         *)
(* What the threads do between their calls of the log is in module Relay;  *)
(* here a broker thread prints, sends to clients that may not read, and    *)
(* may throw, and the control thread starts and stops the brokers, on      *)
(* every path out of control::run and main.  An exception that nobody      *)
(* catches, and a std::thread destroyed before its join, call              *)
(* std::terminate, hence abort, which raises SIGABRT: one of the signals   *)
(* that octopusMQ handles, and so the last line before the end.            *)
(***************************************************************************)
EXTENDS Naturals, Sequences

CONSTANTS Adapter,     \* adapters; each has a broker thread, named like it
          Name,        \* Name[a]: the name in the settings of a
          Control,     \* the control thread
          Nobody,      \* no thread
          NoName,      \* no name
          Signal,      \* the signals of supported_signals
          Abort,       \* the one that abort raises
          Stalling,    \* threads that may send to a client that does not read
          MaxSignals   \* bound: number of signals

Thread == Adapter \cup {Control}
AdapterName == {Name[a] : a \in Adapter}

ASSUME ThreadAssumption == Control \notin Adapter /\ Nobody \notin Thread
ASSUME AdapterAssumption == Adapter # {} /\ Stalling \subseteq Thread
ASSUME NameAssumption == Name \in [Adapter -> AdapterName] /\ NoName \notin AdapterName
ASSUME SignalAssumption == Abort \in Signal /\ Signal \cap {"event", "line"} = {}
ASSUME MaxSignalsAssumption == MaxSignals \in Nat

VARIABLES
  ctl,          \* where the control thread is in control::run
  alive,        \* adapters whose broker thread was started and not yet joined
  joining,      \* the adapter whose broker::stop is joining its thread
  aborting,     \* the thread that is in std::terminate
  stalled,      \* threads in a send to a client that does not read at present
  stack,        \* stack[t]: the calls t is in, the innermost one last
  mutex,        \* holder of log::_mutex
  last,         \* log::_last_adapter_name
  shown,        \* the name in the last header line of the output
  open,         \* the thread whose line in the output has no end yet
  should_stop,  \* control::_should_stop
  signals       \* number of signals so far

vars == <<ctl, alive, joining, aborting, stalled, stack, mutex, last, shown, open,
          should_stop, signals>>
program == <<ctl, alive, joining, aborting, stalled>>
output == <<last, shown, open>>

(***************************************************************************)
(* A call is of print_event ("event"), of another print function ("line"), *)
(* or of the handler of a signal.  pc: before the lock ("lock"); holding   *)
(* it, about to compare the name of the adapter ("header"), to write the   *)
(* time ("time") or the rest of the line ("text"); and, in a handler,      *)
(* about to set _should_stop ("flag").                                     *)
(***************************************************************************)
Job == {"event", "line"} \cup Signal
Pc == {"lock", "header", "time", "text", "flag"}
Call ==
  {c \in [job : Job, name : AdapterName \cup {NoName}, pc : Pc] :
     /\ c.job = "event" <=> c.name # NoName
     /\ c.pc = "header" => c.job = "event"
     /\ c.pc = "flag" => c.job \in Signal}
Writing == {"header", "time", "text"}

(***************************************************************************)
(* Where the control thread is.                                            *)
(*   "start"            control::run, before "octopusMQ started"           *)
(*   "init", "run"      initialize_adapters, its two loops                 *)
(*   "announce"         print_adapters                                     *)
(*   "loop"             message_queue_manager                              *)
(*   "stop", "join"     shutdown_adapters                                  *)
(*   "fatal"            the catch of main, before it prints the exception  *)
(*   "stopped", "end"   print_stopped, and after it                        *)
(*   "done", "aborted"  the process has ended, by main's return or by abort*)
(***************************************************************************)
ControlPc == {"start", "init", "run", "announce", "loop", "stop", "join", "fatal",
              "stopped", "end", "done", "aborted"}

Init ==
  /\ ctl = "start" /\ alive = {} /\ joining = Nobody
  /\ aborting = Nobody /\ stalled = {}
  /\ stack = [t \in Thread |-> <<>>]
  /\ mutex = Nobody /\ last = NoName /\ shown = NoName /\ open = Nobody
  /\ should_stop = FALSE /\ signals = 0

Top(t) == stack[t][Len(stack[t])]
At(t, p) == stack[t] # <<>> /\ Top(t).pc = p
Enter(t, job, name) ==
  stack' = [stack EXCEPT ![t] = Append(@, [job |-> job, name |-> name, pc |-> "lock"])]
Goto(t, p) == stack' = [stack EXCEPT ![t][Len(stack[t])].pc = p]
Leave(t) == stack' = [stack EXCEPT ![t] = SubSeq(@, 1, Len(@) - 1)]

-----------------------------------------------------------------------------
(* Inside a call: the steps of thread t.                                   *)

\* The mutex is taken.
Lock_AlwaysHeader(t) ==
  /\ At(t, "lock")
  /\ mutex = Nobody
  /\ mutex' = t
  /\ Goto(t, "header")
  /\ UNCHANGED <<program, output, should_stop, signals>>
Lock_Mutant(t) ==
  /\ At(t, "lock")
  /\ mutex' = t
  /\ Goto(t, IF Top(t).job = "event" THEN "header" ELSE "time")
  /\ UNCHANGED <<program, output, should_stop, signals>>
Lock(t) ==
  /\ At(t, "lock")
  /\ mutex = Nobody
  /\ mutex' = t
  /\ Goto(t, IF Top(t).job = "event" THEN "header" ELSE "time")
  /\ UNCHANGED <<program, output, should_stop, signals>>

\* print_event writes a header line if the last event was of another adapter.
Header_Mutant(t) ==
  /\ At(t, "header")
  /\ last' = Top(t).name
  /\ shown' = IF last = NoName THEN Top(t).name ELSE shown
  /\ Goto(t, "time")
  /\ UNCHANGED <<program, mutex, open, should_stop, signals>>
Header(t) ==
  /\ At(t, "header")
  /\ IF last # Top(t).name
       THEN last' = Top(t).name /\ shown' = Top(t).name
       ELSE UNCHANGED <<last, shown>>
  /\ Goto(t, "time")
  /\ UNCHANGED <<program, mutex, open, should_stop, signals>>

\* print_time begins the line.
Time(t) ==
  /\ At(t, "time")
  /\ open' = t
  /\ Goto(t, "text")
  /\ UNCHANGED <<program, mutex, last, shown, should_stop, signals>>

\* The text ends the line, and the lock guard goes out of scope.
Text_Mutant(t) ==
  /\ At(t, "text")
  /\ open' = Nobody
  /\ IF Top(t).job \in Signal
       THEN Goto(t, "flag") /\ UNCHANGED mutex
       ELSE Leave(t) /\ mutex' = Nobody
  /\ UNCHANGED <<program, last, shown, should_stop, signals>>
Text(t) ==
  /\ At(t, "text")
  /\ open' = Nobody
  /\ mutex' = Nobody
  /\ IF Top(t).job \in Signal THEN Goto(t, "flag") ELSE Leave(t)
  /\ UNCHANGED <<program, last, shown, should_stop, signals>>

\* The signal handler has printed.
Flag_Mutant(t) ==
  /\ At(t, "flag")
  /\ Leave(t)
  /\ UNCHANGED <<program, mutex, output, should_stop, signals>>
Flag(t) ==
  /\ At(t, "flag")
  /\ should_stop' = TRUE
  /\ Leave(t)
  /\ UNCHANGED <<program, mutex, output, signals>>

CallStep(t) == Lock(t) \/ Header(t) \/ Time(t) \/ Text(t) \/ Flag(t)

-----------------------------------------------------------------------------
(* The control thread.                                                     *)

ControlGoes(from, to) ==
  ctl = from /\ stack[Control] = <<>> /\ Control \notin stalled /\ ctl' = to

\* A line printed on the way: print_started, print_adapters, the exception
\* that main catches, print_stopped.
ControlLine ==
  /\ \/ ControlGoes("start", "init")
     \/ ControlGoes("announce", "loop")
     \/ ControlGoes("fatal", "stopped")
     \/ ControlGoes("stopped", "end")
  /\ Enter(Control, "line", NoName)
  /\ UNCHANGED <<alive, joining, aborting, stalled, mutex, output,
                 should_stop, signals>>

\* The adapters are constructed.
Initialize ==
  /\ ControlGoes("init", "run")
  /\ UNCHANGED <<alive, joining, aborting, stalled, stack, mutex, output,
                 should_stop, signals>>

\* Constructing one throws: a runtime_error is printed in initialize_adapters,
\* anything else in main.
BuildFails ==
  /\ \/ /\ ControlGoes("init", "stopped")
        /\ Enter(Control, "line", NoName)
        /\ should_stop' = TRUE
     \/ ControlGoes("init", "fatal") /\ UNCHANGED <<stack, should_stop>>
  /\ UNCHANGED <<alive, joining, aborting, stalled, mutex, output, signals>>

\* broker::run starts a thread; the next one is started while it runs.
RunAdapter ==
  /\ \E a \in Adapter \ alive : alive' = alive \cup {a}
  /\ ControlGoes("run", IF alive' = Adapter THEN "announce" ELSE "run")
  /\ UNCHANGED <<joining, aborting, stalled, stack, mutex, output,
                 should_stop, signals>>

\* ... or cannot be created; main catches that, with the earlier ones running.
RunFails ==
  /\ ControlGoes("run", "fatal")
  /\ UNCHANGED <<alive, joining, aborting, stalled, stack, mutex, output,
                 should_stop, signals>>

\* inject_publish of a prints an event on the control thread.
InjectEvent(a) ==
  /\ ControlGoes("loop", "loop")
  /\ Enter(Control, "event", Name[a])
  /\ UNCHANGED <<alive, joining, aborting, stalled, mutex, output,
                 should_stop, signals>>

\* The loop of message_queue_manager is left.
LoopEnds ==
  /\ should_stop
  /\ ControlGoes("loop", "stop")
  /\ UNCHANGED <<alive, joining, aborting, stalled, stack, mutex, output,
                 should_stop, signals>>

\* It is left without a signal, when inject_publish throws: a runtime_error is
\* printed and the adapters are stopped; anything else gets to main.
InjectThrows ==
  /\ \/ ControlGoes("loop", "stop") /\ Enter(Control, "line", NoName)
     \/ ControlGoes("loop", "fatal") /\ UNCHANGED stack
  /\ UNCHANGED <<alive, joining, aborting, stalled, mutex, output,
                 should_stop, signals>>

\* broker::stop stops an io_context, which then starts no handler, ...
StopAdapter ==
  /\ ControlGoes("stop", "join")
  /\ joining' \in alive
  /\ UNCHANGED <<alive, aborting, stalled, stack, mutex, output, should_stop, signals>>

\* A handler of a is not under way, or is between two of its steps.
Free(a) == stack[a] = <<>> /\ a \notin stalled /\ a # aborting

\* ... and joins the thread once that is out of its last handler.
JoinAdapter_Mutant ==
  /\ ControlGoes("join", IF alive = {joining} THEN "stopped" ELSE "stop")
  /\ alive' = alive \ {joining}
  /\ joining' = Nobody
  /\ UNCHANGED <<aborting, stalled, stack, mutex, output, should_stop, signals>>
JoinAdapter ==
  /\ ControlGoes("join", IF alive = {joining} THEN "stopped" ELSE "stop")
  /\ Free(joining)
  /\ alive' = alive \ {joining}
  /\ joining' = Nobody
  /\ UNCHANGED <<aborting, stalled, stack, mutex, output, should_stop, signals>>

\* main returns, and all threads are joined.
Return_Mutant ==
  /\ ControlGoes("end", "done")
  /\ UNCHANGED <<alive, joining, aborting, stalled, stack, mutex, output,
                 should_stop, signals>>
Return ==
  /\ alive = {}
  /\ ControlGoes("end", "done")
  /\ UNCHANGED <<alive, joining, aborting, stalled, stack, mutex, output,
                 should_stop, signals>>

\* main returns from its catch with broker threads running: the destructor of
\* the static pool destroys the first one's std::thread.  Its SIGABRT's handler
\* reads supported_signals, which was destroyed before the pool: it may print
\* its line, or end the process at once.
Destroy ==
  /\ ControlGoes("end", "end")
  /\ alive # {} /\ aborting = Nobody
  /\ aborting' = Control
  /\ Enter(Control, Abort, NoName) \/ UNCHANGED stack
  /\ UNCHANGED <<alive, joining, stalled, mutex, output, should_stop, signals>>

ControlStep ==
  \/ ControlLine \/ Initialize \/ RunAdapter \/ LoopEnds
  \/ StopAdapter \/ JoinAdapter \/ Return \/ Destroy

ControlFails == BuildFails \/ RunFails \/ InjectThrows

-----------------------------------------------------------------------------
(* The broker threads, the clients and the signals.                        *)

\* A handler of a prints an event, or a line ("connection closed.").  One
\* that runs when stop is called prints what it still has to print.
BrokerPrints(a) ==
  /\ a \in alive
  /\ Free(a)
  /\ Enter(a, "event", Name[a]) \/ Enter(a, "line", NoName)
  /\ UNCHANGED <<program, mutex, output, should_stop, signals>>

\* An exception leaves a handler of a, and with it the thread's function.
BrokerThrows(a) ==
  /\ a \in alive
  /\ Free(a)
  /\ aborting = Nobody
  /\ aborting' = a
  /\ Enter(a, Abort, NoName)
  /\ UNCHANGED <<ctl, alive, joining, stalled, mutex, output, should_stop, signals>>

\* The handler of the SIGABRT has returned, and abort ends the process.
Die ==
  /\ aborting # Nobody
  /\ stack[aborting] = <<>>
  /\ ctl' = "aborted"
  /\ UNCHANGED <<alive, joining, aborting, stalled, stack, mutex, output,
                 should_stop, signals>>

\* The client that t sends to stops reading, or reads again: between two of
\* t's calls of the log, in a handler or in the loop.
Stall(t) ==
  /\ t \in Stalling /\ stack[t] = <<>>
  /\ t \in alive \/ (t = Control /\ ctl = "loop")
  /\ stalled' = IF t \in stalled THEN stalled \ {t} ELSE stalled \cup {t}
  /\ UNCHANGED <<ctl, alive, joining, aborting, stack, mutex, output, should_stop,
                 signals>>

\* Signal s is delivered to t.  It is blocked on t while its handler runs.
Interrupt(t, s) ==
  /\ t = Control \/ t \in alive
  /\ signals < MaxSignals
  /\ \A d \in 1..Len(stack[t]) : stack[t][d].job # s
  /\ signals' = signals + 1
  /\ Enter(t, s, NoName)
  /\ UNCHANGED <<program, mutex, output, should_stop>>

\* Thread t waits for the mutex that it holds itself.
SelfBlocked(t) == At(t, "lock") /\ mutex = t

\* The process has ended, or a handler waits for the thread it interrupted.
Ended ==
  /\ ctl \in {"done", "aborted"} \/ \E t \in Thread : SelfBlocked(t)
  /\ UNCHANGED vars

Running == ctl \notin {"done", "aborted"}

Next ==
  \/ Running /\ \E t \in Thread : CallStep(t)
  \/ Running /\ (ControlStep \/ ControlFails \/ Die)
  \/ Running /\ \E a \in Adapter : InjectEvent(a) \/ BrokerPrints(a) \/ BrokerThrows(a)
  \/ Running /\ \E t \in Thread : Stall(t) \/ \E s \in Signal : Interrupt(t, s)
  \/ Ended

Spec == Init /\ [][Next]_vars

(***************************************************************************)
(* Every thread goes on inside its calls, and gets a mutex that is free    *)
(* again and again; abort ends the process.  So does the control thread go *)
(* on between its calls when no client holds it up: a drain of the queue   *)
(* gets nothing new (DrainNearsEnd of Relay), and a handler that stop      *)
(* waits for is the thread's last one and has finitely many steps          *)
(* (ShutdownNearsEnd), so that its thread can be joined unless it is in a  *)
(* call, or sends to a client that does not read.  Clients owe nothing:    *)
(* that they read again is a premise of the property that needs it.        *)
(***************************************************************************)
Fairness ==
  /\ \A t \in Thread : SF_vars(Running /\ CallStep(t))
  /\ SF_vars(Running /\ ControlStep)
  /\ SF_vars(Running /\ Die)

FairSpec == Spec /\ Fairness

-----------------------------------------------------------------------------
(* Properties.                                                             *)

\* Every variable holds a value of its type.
TypeOK ==
  /\ ctl \in ControlPc /\ alive \subseteq Adapter /\ joining \in Adapter \cup {Nobody}
  /\ aborting \in Thread \cup {Nobody} /\ stalled \subseteq Thread
  /\ stack \in [Thread -> Seq(Call)]
  /\ mutex \in Thread \cup {Nobody} /\ open \in Thread \cup {Nobody}
  /\ last \in AdapterName \cup {NoName} /\ shown \in AdapterName \cup {NoName}
  /\ should_stop \in BOOLEAN /\ signals \in 0..MaxSignals

(***************************************************************************)
(* Lines are whole: a thread that has written the time of a line finds the *)
(* output as it left it when it writes the text, although other threads    *)
(* print, and signal handlers print in the middle of its own calls.        *)
(***************************************************************************)
LinesWhole ==
  \A t \in Thread : \A d \in 1..Len(stack[t]) : stack[t][d].pc = "text" => open = t

(***************************************************************************)
(* print_event writes the name of the adapter only when it changes; still, *)
(* when an event is written the last header above it has its adapter's     *)
(* name, whichever threads wrote in between.                               *)
(***************************************************************************)
UnderOwnHeader ==
  \A t \in Thread : \A d \in 1..Len(stack[t]) :
    stack[t][d].job = "event" /\ stack[t][d].pc \in {"time", "text"} =>
      shown = stack[t][d].name

(***************************************************************************)
(* A thread that was joined is in no call, and nobody is when the process  *)
(* ends by the return of main: the log is not used by a thread that is     *)
(* gone, nor during the destruction of what it uses.  When main returns    *)
(* from its catch broker threads may be in the log; but that return, and   *)
(* any with a thread that was not joined, ends in abort.                   *)
(***************************************************************************)
GoneAreSilent ==
  /\ \A a \in Adapter : stack[a] # <<>> => a \in alive
  /\ ctl = "done" => \A t \in Thread : stack[t] = <<>>

(***************************************************************************)
(* Whoever holds the mutex is on its way to release it, in its innermost   *)
(* call, which waits for nothing; or it is in a signal handler that waits  *)
(* for the mutex on top of the call that has it.  No call returns, and no  *)
(* thread is joined, with the mutex held.                                  *)
(***************************************************************************)
HolderGoesOn ==
  \A t \in Thread : mutex = t =>
    \/ stack[t] # <<>> /\ Top(t).pc \in Writing
    \/ SelfBlocked(t) /\ Top(t).job \in Signal

(***************************************************************************)
(* A handler that waits for the thread it interrupted waits for ever: no   *)
(* other thread, no second signal and no shutdown releases it, the output  *)
(* ends in the middle of the line, and the process never comes to an end   *)
(* by the return of main.                                                  *)
(***************************************************************************)
HangIsFinal ==
  [][\A t \in Thread :
       SelfBlocked(t) => SelfBlocked(t)' /\ UNCHANGED output /\ ctl' # "done"]_vars

\* No client leaves what a thread sends it unread for ever.
StallsEnd == \A t \in Stalling : []<>(t \notin stalled)

(***************************************************************************)
(* "received %s signal, stopping...": once a handler has been entered the  *)
(* process comes to its end, whether the signal came during the start, the *)
(* loop, the shutdown or a failure, and whatever throws on the way; unless *)
(* a handler waits for the log's mutex on top of the very call that holds  *)
(* it, or a client never reads what a drain or a handler sends it.         *)
(* Nothing else can hang the log or the shutdown.                          *)
(***************************************************************************)
SignalStops ==
  StallsEnd =>
    ((\E t \in Thread : \E d \in 1..Len(stack[t]) : stack[t][d].job \in Signal)
       ~> (ctl \in {"done", "aborted"} \/ \E t \in Thread : SelfBlocked(t)))
=============================================================================
