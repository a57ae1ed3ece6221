----------------------------- MODULE RelayProofs -----------------------------
(***************************************************************************)
(* Proofs about Relay for any number of adapters, any topics and scopes    *)
(* and any bound on the messages.                                          *)
(***************************************************************************)
EXTENDS Relay, FiniteSetTheorems, TLAPS

-----------------------------------------------------------------------------
(* The inductive invariant.                                                *)

\* A publish handler holds a message until it has pushed it.
HandlerHasTopic ==
  \A a \in Adapter : th[a] \in {"pub_lock", "fanout", "push"} => cur[a] \in Topic

\* Who holds which mutex follows from where the threads are.
LocksFollowPc ==
  Running =>
    /\ qmutex = "control" <=> ctl \in Draining
    /\ \A a \in Adapter : smutex[a] = "broker" <=> th[a] \in {"fanout", "op"}
    /\ \A a \in Adapter : smutex[a] = "control" <=> ctl = "send" /\ at = a

\* While the control thread drains the queue, and after an exception made it
\* leave in the middle of that, there is a message at the front; and a call of
\* inject_publish is of an adapter of the pool.
FrontExists ==
  /\ ctl \in Draining \/ at > 0 => queue # <<>>
  /\ ctl \in {"inject", "send"} => at > 0

\* How far the start and the shutdown of the threads have come.
ThreadStages ==
  /\ ctl = "init" => \A a \in Adapter : th[a] = "none"
  /\ ctl = "run" => \A a \in Adapter : a > k => th[a] = "none"
  /\ ctl \in {"stop", "join"} => \A a \in Adapter : a <= k => th[a] = "joined"
  /\ ctl = "exited" => \A a \in Adapter : th[a] \in {"none", "joined"}
  /\ ctl \in {"loop", "enter", "wait"} \cup Draining => k = 0

\* Which threads there are from their start to their join, and for which of
\* them the io_context was stopped.
Started(a) == th[a] \notin {"none", "joined"}

ThreadsExist ==
  /\ ctl = "run" => \A a \in Adapter : a <= k => Started(a)
  /\ ctl \in {"loop", "enter", "wait"} \cup Draining => \A a \in Adapter : Started(a)
  /\ ctl \in {"stop", "join"} =>
       /\ \A a \in Adapter : a > k => Started(a)
       /\ \A a \in StoppedByNow : stopped[a]

\* The queue holds the last messages pushed, in order.
QueueIsRest ==
  /\ popped + Len(queue) = Len(msgs)
  /\ \A i \in 1..Len(queue) : queue[i] = popped + i

\* Every adapter was given its share of the messages up to its position.
RelayedTo(a) ==
  /\ \A j \in 1..Len(injected[a]) : injected[a][j] \in 1..Position(a)
  /\ \A i, j \in 1..Len(injected[a]) : i < j => injected[a][i] < injected[a][j]
  /\ \A i \in 1..Position(a) :
       IsFor(msgs[i], a) <=> \E j \in 1..Len(injected[a]) : injected[a][j] = i

RelayedSoFar == \A a \in Adapter : RelayedTo(a)

TypeInv == ProgramType /\ HandlerHasTopic

USE PoolSizeAssumption, ScopeAssumption, NoTopicAssumption, MaxMessagesAssumption,
    MaxEntriesAssumption

\* Facts about sequences.
LEMMA TailFacts ==
  ASSUME NEW S, NEW s \in Seq(S), s # <<>>
  PROVE  /\ Len(s) \in Nat /\ Len(s) > 0 /\ Head(s) = s[1] /\ Head(s) \in S
         /\ Tail(s) \in Seq(S) /\ Len(Tail(s)) = Len(s) - 1
         /\ \A i \in 1..(Len(s) - 1) : Tail(s)[i] = s[i + 1]
         /\ Len(s) # 1 => Tail(s) # <<>>
<1>1. Len(s) \in Nat /\ Len(s) > 0 /\ Head(s) = s[1] /\ Head(s) \in S
  OBVIOUS
<1>2. Tail(s) \in Seq(S) /\ Len(Tail(s)) = Len(s) - 1
  OBVIOUS
<1>3. \A i \in 1..(Len(s) - 1) : Tail(s)[i] = s[i + 1]
  OBVIOUS
<1>4. Len(s) # 1 => Tail(s) # <<>>
  <2>1. Len(<<>>) = 0
    OBVIOUS
  <2>2. Len(s) # 1 => Len(Tail(s)) # 0
    BY <1>1, <1>2
  <2> QED BY <2>1, <2>2, Zenon
<1> QED BY <1>1, <1>2, <1>3, <1>4

LEMMA TailIsShorter ==
  ASSUME NEW S, NEW s \in Seq(S), s # <<>>
  PROVE  Len(Tail(s)) < Len(s)
<1>1. Len(s) \in Nat /\ Len(Tail(s)) = Len(s) - 1
  BY TailFacts
<1> QED BY <1>1

LEMMA AppendFacts ==
  ASSUME NEW S, NEW s \in Seq(S), NEW e \in S
  PROVE  /\ Append(s, e) \in Seq(S) /\ Len(Append(s, e)) = Len(s) + 1
         /\ Append(s, e)[Len(s) + 1] = e
         /\ \A i \in 1..Len(s) : Append(s, e)[i] = s[i]
         /\ Append(s, e) # <<>>
<1>1. /\ Append(s, e) \in Seq(S) /\ Len(Append(s, e)) = Len(s) + 1
      /\ Append(s, e)[Len(s) + 1] = e
      /\ \A i \in 1..Len(s) : Append(s, e)[i] = s[i]
  OBVIOUS
<1>2. Append(s, e) # <<>>
  BY <1>1
<1> QED BY <1>1, <1>2

LEMMA InitType == Init => TypeInv
<1> SUFFICES ASSUME Init PROVE TypeInv
    OBVIOUS
<1> USE DEF Init
<1>1. /\ ctl \in ControlPc /\ qmutex \in {"free", "control"}
      /\ k \in 0..(PoolSize - 1) /\ at \in 0..PoolSize /\ popped \in Nat
  BY DEF ControlPc
<1>6. should_stop \in BOOLEAN /\ initialized \in BOOLEAN /\ woken \in BOOLEAN
  BY Zenon
<1>2. queue \in Seq(Nat) /\ msgs \in Seq(Message)
  OBVIOUS
<1>3. injected \in [Adapter -> Seq(Nat)]
  OBVIOUS
<1>4. /\ th \in [Adapter -> BrokerPc]
      /\ cur \in [Adapter -> Topic \cup {NoTopic}]
      /\ smutex \in [Adapter -> {"free", "control", "broker"}]
      /\ left \in [Adapter -> 0..MaxEntries]
      /\ stopped \in [Adapter -> BOOLEAN]
  BY DEF BrokerPc
<1>5. HandlerHasTopic
  BY DEF HandlerHasTopic
<1> QED BY <1>1, <1>2, <1>3, <1>4, <1>5, <1>6 DEF TypeInv, ProgramType

LEMMA StepType == TypeInv /\ FrontExists /\ [Next]_vars => TypeInv'
<1> SUFFICES ASSUME TypeInv, FrontExists, [Next]_vars PROVE TypeInv'
    OBVIOUS
<1> USE DEF TypeInv, ProgramType, HandlerHasTopic, ControlPc, BrokerPc, Adapter,
            control_vars, queue_vars, broker_vars
<1>1. CASE BuildAdapter BY <1>1 DEF BuildAdapter
<1>2. CASE BuildFails \/ RunFails \/ InjectEscapes
    BY <1>2 DEF BuildFails, RunFails, InjectEscapes
<1>3. CASE RunAdapter
  <2>1. k + 1 \in Adapter /\ k' \in 0..(PoolSize - 1) /\ ctl' \in ControlPc
    BY <1>3 DEF RunAdapter
  <2>2. th' \in [Adapter -> BrokerPc] /\ HandlerHasTopic'
    BY <1>3, <2>1 DEF RunAdapter
  <2>3. initialized' \in BOOLEAN
    BY <1>3, Zenon DEF RunAdapter
  <2> QED BY <1>3, <2>1, <2>2, <2>3 DEF RunAdapter
<1>4. CASE Signal BY <1>4 DEF Signal
<1>5. CASE LoopTest BY <1>5 DEF LoopTest
<1>6. CASE Enter BY <1>6 DEF Enter
<1>7. CASE Wake BY <1>7 DEF Wake
<1>8. CASE Timeout BY <1>8 DEF Timeout
<1>9. CASE Visit
  <2>1. at + 1 \in Adapter /\ at' \in 0..PoolSize /\ ctl' \in ControlPc
    BY <1>9 DEF Visit
  <2>2. Head(queue) \in Nat
    BY <1>9, TailFacts DEF Visit, FrontExists, Draining
  <2>3. injected' \in [Adapter -> Seq(Nat)]
    <3>1. Append(injected[at + 1], Head(queue)) \in Seq(Nat)
      BY <2>1, <2>2, AppendFacts
    <3> QED BY <1>9, <2>1, <3>1 DEF Visit
  <2> QED BY <1>9, <2>1, <2>3 DEF Visit
<1>10. CASE InjectLock BY <1>10 DEF InjectLock
<1>11. CASE InjectDone BY <1>11 DEF InjectDone
<1>12. CASE InjectThrows BY <1>12 DEF InjectThrows
<1>13. CASE Pop BY <1>13 DEF Pop, FrontExists, Draining
<1>14. CASE StopAdapter BY <1>14 DEF StopAdapter
<1>15. CASE JoinAdapter BY <1>15 DEF JoinAdapter
<1>16. ASSUME NEW a \in Adapter, Listen(a) PROVE TypeInv'
    BY <1>16 DEF Listen, Goto
<1>17. ASSUME NEW a \in Adapter, Return(a) PROVE TypeInv'
    BY <1>17 DEF Return, Goto
<1>18. ASSUME NEW a \in Adapter, NEW t \in Topic, OnPublish(a, t) PROVE TypeInv'
    BY <1>18 DEF OnPublish, Goto
<1>19. ASSUME NEW a \in Adapter, PublishLock(a) PROVE TypeInv'
    BY <1>19 DEF PublishLock, Goto
<1>20. ASSUME NEW a \in Adapter, PublishUnlock(a) PROVE TypeInv'
    BY <1>20 DEF PublishUnlock, Goto
<1>21. ASSUME NEW a \in Adapter, PublishThrows(a) \/ AcceptThrows(a) PROVE TypeInv'
    BY <1>21 DEF PublishThrows, AcceptThrows, Goto
<1>22. ASSUME NEW a \in Adapter, Push(a) PROVE TypeInv'
  <2> DEFINE m == [origin |-> a, topic |-> cur[a]]
             e == Len(msgs) + 1
  <2>1. m \in Message /\ e \in Nat
    BY <1>22 DEF Push, Goto, Message
  <2>2. msgs' = Append(msgs, m) /\ queue' = Append(queue, e)
    BY <1>22 DEF Push
  <2> HIDE DEF m, e
  <2>3. msgs' \in Seq(Message) /\ queue' \in Seq(Nat)
    BY <2>1, <2>2, AppendFacts
  <2> QED BY <1>22, <2>3 DEF Push, Goto
<1>23. ASSUME NEW a \in Adapter, Notify(a) PROVE TypeInv'
    BY <1>23 DEF Notify, Goto
<1>24. ASSUME NEW a \in Adapter, OnSession(a) PROVE TypeInv'
  <2>1. left' \in [Adapter -> 0..MaxEntries]
    BY <1>24 DEF OnSession
  <2> QED BY <1>24, <2>1 DEF OnSession, Goto
<1>28. ASSUME NEW a \in Adapter, OnRequest(a) \/ Answer(a) PROVE TypeInv'
    BY <1>28 DEF OnRequest, Answer, Goto
<1>25. ASSUME NEW a \in Adapter, SessionLock(a) PROVE TypeInv'
    BY <1>25 DEF SessionLock, Goto
<1>26. ASSUME NEW a \in Adapter, SessionUnlock(a) PROVE TypeInv'
  <2>3. left[a] \in 0..MaxEntries /\ MaxEntries \in Nat
    OBVIOUS
  <2>4. \/ UNCHANGED left
        \/ left[a] > 0 /\ left' = [left EXCEPT ![a] = left[a] - 1]
    BY <1>26, Zenon DEF SessionUnlock
  <2>5. left[a] > 0 => left[a] - 1 \in 0..MaxEntries
    BY <2>3
  <2>1. left' \in [Adapter -> 0..MaxEntries]
    BY <2>4, <2>5, Zenon
  <2>2. th' \in [Adapter -> BrokerPc] /\ HandlerHasTopic'
    BY <1>26 DEF SessionUnlock, Goto
  <2> QED BY <1>26, <2>1, <2>2 DEF SessionUnlock
<1>27. CASE UNCHANGED program BY <1>27 DEF program
<1> QED
  BY <1>1, <1>2, <1>3, <1>4, <1>5, <1>6, <1>7, <1>8, <1>9, <1>10, <1>11,
     <1>12, <1>13, <1>14, <1>15, <1>16, <1>17, <1>18, <1>19, <1>20, <1>21,
     <1>22, <1>23, <1>24, <1>25, <1>26, <1>27, <1>28
     DEF Next, ControlStep, BrokerStep, Environment, Stall, Ended, vars

LEMMA StepFront == TypeInv /\ FrontExists /\ [Next]_vars => FrontExists'
<1> SUFFICES ASSUME TypeInv, FrontExists, [Next]_vars PROVE FrontExists'
    OBVIOUS
<1> USE DEF FrontExists, Draining, TypeInv, ProgramType, control_vars, queue_vars
<1>1. CASE \/ BuildAdapter \/ BuildFails \/ RunFails \/ RunAdapter \/ LoopTest \/ Signal
           \/ InjectEscapes
    BY <1>1 DEF BuildAdapter, BuildFails, RunFails, RunAdapter, LoopTest, Signal,
                InjectEscapes
<1>2. CASE Enter \/ Wake \/ Timeout
    BY <1>2 DEF Enter, Wake, Timeout, QueueReady
<1>3. CASE Visit \/ InjectLock \/ InjectDone \/ InjectThrows
    BY <1>3 DEF Visit, InjectLock, InjectDone, InjectThrows
<1>4. CASE Pop
  <2>1. queue \in Seq(Nat) /\ queue # <<>>
    BY <1>4 DEF Pop
  <2>2. Len(queue) # 1 => Tail(queue) # <<>>
    BY <2>1, TailFacts
  <2> QED BY <1>4, <2>2 DEF Pop
<1>5. CASE StopAdapter \/ JoinAdapter
    BY <1>5 DEF StopAdapter, JoinAdapter
<1>6. ASSUME NEW a \in Adapter, Push(a) PROVE FrontExists'
  <2> DEFINE e == Len(msgs) + 1
  <2>1. queue \in Seq(Nat) /\ e \in Nat
    OBVIOUS
  <2>2. queue' = Append(queue, e)
    BY <1>6 DEF Push
  <2> HIDE DEF e
  <2>3. Len(queue') # 0
    BY <2>1, <2>2, AppendFacts
  <2>4. Len(<<>>) = 0
    OBVIOUS
  <2>5. queue' # <<>>
    BY <2>3, <2>4, Zenon
  <2>6. UNCHANGED <<ctl, at>>
    BY <1>6 DEF Push
  <2> QED BY <2>5, <2>6
<1>7. ASSUME NEW a \in Adapter,
             \/ Listen(a) \/ Return(a) \/ PublishLock(a) \/ PublishUnlock(a)
             \/ PublishThrows(a) \/ AcceptThrows(a) \/ Notify(a)
             \/ OnSession(a) \/ OnRequest(a)
             \/ SessionLock(a) \/ SessionUnlock(a) \/ Answer(a)
             \/ \E t \in Topic : OnPublish(a, t)
      PROVE  FrontExists'
    BY <1>7 DEF Listen, Return, PublishLock, PublishUnlock, PublishThrows,
                AcceptThrows, Notify,
                OnSession, OnRequest, SessionLock, SessionUnlock, Answer, OnPublish
<1>8. CASE UNCHANGED program BY <1>8 DEF program
<1> QED
  BY <1>1, <1>2, <1>3, <1>4, <1>5, <1>6, <1>7, <1>8
     DEF Next, ControlStep, BrokerStep, Environment, Stall, Ended, vars

-----------------------------------------------------------------------------
LEMMA StepThreads == TypeInv /\ ThreadStages /\ [Next]_vars => ThreadStages'
<1> SUFFICES ASSUME TypeInv, ThreadStages, [Next]_vars PROVE ThreadStages'
    OBVIOUS
<1> USE DEF ThreadStages, Running, Final, Draining, Adapter, TypeInv, ProgramType,
            control_vars, queue_vars, broker_vars
<1>0. CASE UNCHANGED program BY <1>0 DEF program
<1>1. CASE BuildAdapter
    BY <1>1 DEF BuildAdapter
<1>11. CASE BuildFails \/ RunFails \/ InjectEscapes
  <2>1. /\ ctl' \in Final /\ UNCHANGED <<k, th>>
        /\ ctl' = "exited" => ctl = "init" \/ (ctl = "run" /\ k = 0)
    BY <1>11 DEF BuildFails, RunFails, InjectEscapes
  <2>2. ctl' = "exited" => \A a \in Adapter : th[a] = "none"
    BY <2>1
  <2> QED BY <2>1, <2>2
<1>12. CASE LoopTest \/ Signal
  <2>1. /\ UNCHANGED <<k, th>>
        /\ ctl' = ctl \/ (ctl = "loop" /\ ctl' \in {"stop", "enter"})
    BY <1>12 DEF LoopTest, Signal
  <2> QED BY <2>1
<1>2. CASE RunAdapter
  <2>1. /\ k + 1 \in Adapter /\ ctl = "run"
        /\ \A a \in Adapter : a # k + 1 => th'[a] = th[a]
    BY <1>2 DEF RunAdapter
  <2>2. \/ k' = k + 1 /\ ctl' = ctl
        \/ k' = 0 /\ ctl' = "loop"
    BY <1>2 DEF RunAdapter
  <2> QED BY <2>1, <2>2
<1>3. CASE Enter \/ Wake \/ Timeout
    BY <1>3 DEF Enter, Wake, Timeout
<1>4. CASE Visit
    BY <1>4 DEF Visit
<1>5. CASE InjectLock \/ InjectDone \/ InjectThrows
    BY <1>5 DEF InjectLock, InjectDone, InjectThrows
<1>6. CASE Pop
    BY <1>6 DEF Pop
<1>7. CASE StopAdapter
    BY <1>7 DEF StopAdapter
<1>8. CASE JoinAdapter
    BY <1>8 DEF JoinAdapter
<1>9. ASSUME NEW a \in Adapter,
             \/ BrokerStep(a) \/ OnSession(a) \/ OnRequest(a)
             \/ \E t \in Topic : OnPublish(a, t)
      PROVE  ThreadStages'
  <2>1. th[a] \notin {"none", "joined"}
    BY <1>9 DEF BrokerStep, Listen, Return, PublishLock, PublishUnlock, Push,
                Notify, SessionLock, SessionUnlock, Answer, OnSession, OnRequest,
                OnPublish, Goto
  <2>2. /\ \A b \in Adapter : b # a => th'[b] = th[b]
        /\ UNCHANGED control_vars
    BY <1>9 DEF BrokerStep, Listen, Return, PublishLock, PublishUnlock, Push,
                Notify, SessionLock, SessionUnlock, Answer, OnSession, OnRequest,
                OnPublish, Goto
  <2> QED BY <2>1, <2>2
<1>10. ASSUME NEW a \in Adapter, PublishThrows(a) \/ AcceptThrows(a) PROVE ThreadStages'
    BY <1>10 DEF PublishThrows, AcceptThrows
<1> QED
  BY <1>0, <1>1, <1>2, <1>3, <1>4, <1>5, <1>6, <1>7, <1>8, <1>9, <1>10,
     <1>11, <1>12
     DEF Next, ControlStep, Environment, Stall, Ended, vars

LEMMA StepLocks == TypeInv /\ ThreadStages /\ LocksFollowPc /\ [Next]_vars => LocksFollowPc'
<1> SUFFICES ASSUME TypeInv, ThreadStages, LocksFollowPc, [Next]_vars PROVE LocksFollowPc'
    OBVIOUS
<1> USE DEF LocksFollowPc, Running, Final, Draining, TypeInv, ProgramType,
            control_vars, queue_vars, broker_vars
<1>0. CASE UNCHANGED program BY <1>0 DEF program
<1>1. CASE Running /\ (\/ BuildAdapter \/ BuildFails \/ RunFails \/ LoopTest \/ Signal
                       \/ InjectEscapes)
    BY <1>1 DEF BuildAdapter, BuildFails, RunFails, LoopTest, Signal, InjectEscapes
<1>2. CASE Running /\ RunAdapter
  <2>1. k + 1 \in Adapter
    BY <1>2 DEF RunAdapter, Adapter
  <2>2. th[k + 1] = "none"
    BY <1>2, <2>1 DEF RunAdapter, ThreadStages
  <2> QED BY <1>2, <2>1, <2>2 DEF RunAdapter
<1>3. CASE Running /\ (Enter \/ Wake \/ Timeout)
    BY <1>3 DEF Enter, Wake, Timeout
<1>4. CASE Running /\ Visit
    BY <1>4 DEF Visit
<1>5. CASE Running /\ InjectLock
    BY <1>5 DEF InjectLock
<1>6. CASE Running /\ (InjectDone \/ InjectThrows)
    BY <1>6 DEF InjectDone, InjectThrows
<1>7. CASE Running /\ Pop
    BY <1>7 DEF Pop
<1>8. CASE Running /\ StopAdapter
    BY <1>8 DEF StopAdapter
<1>9. CASE Running /\ JoinAdapter
    BY <1>9 DEF JoinAdapter, Adapter
<1>10. ASSUME NEW a \in Adapter, Running, PublishLock(a) \/ SessionLock(a)
       PROVE  LocksFollowPc'
    BY <1>10 DEF PublishLock, SessionLock, Goto
<1>11. ASSUME NEW a \in Adapter, Running, PublishUnlock(a) \/ SessionUnlock(a)
       PROVE  LocksFollowPc'
  <2>1. /\ th[a] \in {"fanout", "op"} /\ th'[a] \notin {"fanout", "op"}
        /\ \A b \in Adapter : b # a => th'[b] = th[b] /\ smutex'[b] = smutex[b]
        /\ smutex'[a] = "free" /\ UNCHANGED <<control_vars, qmutex>>
    BY <1>11 DEF PublishUnlock, SessionUnlock, Goto
  <2> QED BY <1>11, <2>1
<1>12. ASSUME NEW a \in Adapter, PublishThrows(a) \/ AcceptThrows(a) PROVE LocksFollowPc'
    BY <1>12 DEF PublishThrows, AcceptThrows
<1>13. ASSUME NEW a \in Adapter, Running,
              \/ Listen(a) \/ Return(a) \/ Push(a) \/ Notify(a) \/ OnSession(a) \/ OnRequest(a)
              \/ Answer(a) \/ \E t \in Topic : OnPublish(a, t)
       PROVE  LocksFollowPc'
    BY <1>13 DEF Listen, Return, Push, Notify, OnSession, OnRequest, Answer, OnPublish, Goto
<1> QED
  BY <1>0, <1>1, <1>2, <1>3, <1>4, <1>5, <1>6, <1>7, <1>8, <1>9, <1>10, <1>11,
     <1>12, <1>13
     DEF Next, ControlStep, BrokerStep, Environment, Stall, Ended, vars

LEMMA StepExist == TypeInv /\ ThreadStages /\ ThreadsExist /\ [Next]_vars => ThreadsExist'
<1> SUFFICES ASSUME TypeInv, ThreadStages, ThreadsExist, [Next]_vars PROVE ThreadsExist'
    OBVIOUS
<1> USE DEF ThreadsExist, Started, StoppedByNow, Draining, Adapter, TypeInv, ProgramType,
            control_vars, queue_vars, broker_vars
<1>0. CASE UNCHANGED program BY <1>0 DEF program
<1>1. CASE BuildAdapter
    BY <1>1 DEF BuildAdapter
<1>2. CASE BuildFails \/ RunFails \/ InjectEscapes
    BY <1>2 DEF BuildFails, RunFails, InjectEscapes
<1>3. CASE RunAdapter
    BY <1>3 DEF RunAdapter
<1>4. CASE LoopTest
    BY <1>4 DEF LoopTest, ThreadStages
<1>5. CASE Enter \/ Wake \/ Timeout \/ Signal
    BY <1>5 DEF Enter, Wake, Timeout, Signal
<1>6. CASE Visit \/ InjectLock \/ InjectDone \/ Pop
    BY <1>6 DEF Visit, InjectLock, InjectDone, Pop
<1>7. CASE InjectThrows
    BY <1>7 DEF InjectThrows, ThreadStages
<1>8. CASE StopAdapter
    BY <1>8 DEF StopAdapter
<1>9. CASE JoinAdapter
    BY <1>9 DEF JoinAdapter
<1>10. ASSUME NEW a \in Adapter,
             \/ BrokerStep(a) \/ OnSession(a) \/ OnRequest(a)
             \/ \E t \in Topic : OnPublish(a, t)
       PROVE  ThreadsExist'
  <2>1. th'[a] \notin {"none", "joined"}
    BY <1>10 DEF BrokerStep, Listen, Return, PublishLock, PublishUnlock, Push,
                 Notify, SessionLock, SessionUnlock, Answer, OnSession, OnRequest,
                OnPublish, Goto
  <2>2. /\ \A b \in Adapter : b # a => th'[b] = th[b]
        /\ UNCHANGED <<control_vars, stopped>>
    BY <1>10 DEF BrokerStep, Listen, Return, PublishLock, PublishUnlock, Push,
                 Notify, SessionLock, SessionUnlock, Answer, OnSession, OnRequest,
                OnPublish, Goto
  <2> QED BY <2>1, <2>2
<1>11. ASSUME NEW a \in Adapter, PublishThrows(a) \/ AcceptThrows(a) PROVE ThreadsExist'
    BY <1>11 DEF PublishThrows, AcceptThrows
<1> QED
  BY <1>0, <1>1, <1>2, <1>3, <1>4, <1>5, <1>6, <1>7, <1>8, <1>9, <1>10, <1>11
     DEF Next, ControlStep, Environment, Stall, Ended, vars

-----------------------------------------------------------------------------
(* The messages.                                                           *)

\* Only three kinds of steps touch the messages.
LEMMA MessageSteps ==
  ASSUME [Next]_vars
  PROVE  \/ Running /\ Visit
         \/ Running /\ Pop
         \/ Running /\ \E a \in Adapter : Push(a)
         \/ UNCHANGED <<at, queue, msgs, popped, injected>>
<1> USE DEF control_vars, queue_vars
<1>1. CASE UNCHANGED program BY <1>1 DEF program
<1>2. CASE Running /\ ControlStep
    BY <1>2 DEF ControlStep, BuildAdapter, RunAdapter, LoopTest, Enter, Wake,
                Timeout, InjectLock, InjectDone, StopAdapter, JoinAdapter
<1>3. CASE Running /\ \E a \in Adapter : BrokerStep(a)
    BY <1>3 DEF BrokerStep, Listen, Return, PublishLock, PublishUnlock, Notify,
                SessionLock, SessionUnlock, Answer
<1>4. CASE Running /\ Environment
    BY <1>4 DEF Environment, Signal, BuildFails, RunFails, InjectThrows, InjectEscapes,
                OnSession, OnRequest, PublishThrows, AcceptThrows, OnPublish
<1> QED BY <1>1, <1>2, <1>3, <1>4 DEF Next, Stall, Ended, vars

LEMMA StepQueue == TypeInv /\ FrontExists /\ QueueIsRest /\ [Next]_vars => QueueIsRest'
<1> SUFFICES ASSUME TypeInv, FrontExists, QueueIsRest, [Next]_vars PROVE QueueIsRest'
    OBVIOUS
<1> USE DEF QueueIsRest, TypeInv, ProgramType
<1>1. CASE Visit BY <1>1 DEF Visit
<1>2. CASE Pop
  <2>1. queue \in Seq(Nat) /\ queue # <<>>
    BY <1>2 DEF Pop, FrontExists, Draining
  <2>2. /\ Len(queue) \in Nat /\ Len(queue) > 0 /\ Len(Tail(queue)) = Len(queue) - 1
        /\ \A i \in 1..(Len(queue) - 1) : Tail(queue)[i] = queue[i + 1]
    BY <2>1, TailFacts
  <2>3. queue' = Tail(queue) /\ popped' = popped + 1 /\ msgs' = msgs
    BY <1>2 DEF Pop
  <2> QED BY <2>1, <2>2, <2>3
<1>3. ASSUME NEW a \in Adapter, Push(a) PROVE QueueIsRest'
  <2> DEFINE e == Len(msgs) + 1
             m == [origin |-> a, topic |-> cur[a]]
  <2>1. e \in Nat /\ m \in Message
    BY <1>3 DEF Push, Goto, HandlerHasTopic, Message
  <2>2. queue' = Append(queue, e) /\ msgs' = Append(msgs, m) /\ popped' = popped
    BY <1>3 DEF Push
  <2>3. e = popped + Len(queue) + 1
    OBVIOUS
  <2> HIDE DEF e, m
  <2>4. /\ Len(queue') = Len(queue) + 1 /\ queue'[Len(queue) + 1] = e
        /\ \A i \in 1..Len(queue) : queue'[i] = queue[i]
    BY <2>1, <2>2, AppendFacts
  <2>5. Len(msgs') = Len(msgs) + 1
    BY <2>1, <2>2, AppendFacts
  <2> QED BY <2>2, <2>3, <2>4, <2>5
<1>4. CASE UNCHANGED <<at, queue, msgs, popped, injected>> BY <1>4
<1> QED BY <1>1, <1>2, <1>3, <1>4, MessageSteps

\* No adapter is ahead of the messages.
LEMMA PositionBound ==
  ASSUME TypeInv, FrontExists, QueueIsRest, NEW a \in Adapter
  PROVE  Position(a) \in 0..Len(msgs)
<1> USE DEF TypeInv, ProgramType
<1>1. at > 0 => Len(queue) > 0
  BY TailFacts DEF FrontExists
<1> QED BY <1>1 DEF QueueIsRest, Position, Adapter

\* What a Visit does to the adapter b visited and to the others.
LEMMA VisitEffect ==
  ASSUME TypeInv, FrontExists, QueueIsRest, Visit, NEW b, b = at + 1
  PROVE  /\ b \in Adapter /\ UNCHANGED msgs
         /\ Position(b) = popped /\ Position(b)' = popped + 1
         /\ \A a \in Adapter : a # b =>
              Position(a)' = Position(a) /\ injected'[a] = injected[a]
         /\ injected' = IF IsFor(msgs[popped + 1], b)
                          THEN [injected EXCEPT ![b] = Append(@, popped + 1)]
                          ELSE injected
<1> USE DEF TypeInv, ProgramType
<1>1. b \in Adapter /\ UNCHANGED <<msgs, popped>> /\ at' = b /\ at = b - 1
  BY DEF Visit, Adapter
<1>2. Head(queue) = popped + 1
  <2>1. queue \in Seq(Nat) /\ queue # <<>>
    BY DEF Visit, FrontExists, Draining
  <2>2. Len(queue) \in Nat /\ Len(queue) > 0 /\ Head(queue) = queue[1]
    BY <2>1, TailFacts
  <2> QED BY <2>2 DEF QueueIsRest
<1>3. Position(b) = popped /\ Position(b)' = popped + 1
  BY <1>1 DEF Position, Adapter
<1>4. \A a \in Adapter : a # b => Position(a)' = Position(a)
  BY <1>1 DEF Position, Adapter
<1>5. injected' = IF IsFor(msgs[popped + 1], b)
                    THEN [injected EXCEPT ![b] = Append(@, popped + 1)]
                    ELSE injected
  BY <1>1, <1>2 DEF Visit
<1>6. \A a \in Adapter : a # b => injected'[a] = injected[a]
  BY <1>5
<1> QED BY <1>1, <1>3, <1>4, <1>5, <1>6

\* A Pop moves no adapter.
LEMMA PopEffect ==
  ASSUME TypeInv, Pop
  PROVE  UNCHANGED <<msgs, injected>> /\ \A a \in Adapter : Position(a)' = Position(a)
BY DEF TypeInv, ProgramType, Pop, Position, Adapter

\* A Push adds a message behind those there are.
LEMMA PushEffect ==
  ASSUME TypeInv, NEW b \in Adapter, Push(b)
  PROVE  /\ UNCHANGED <<at, popped, injected>>
         /\ cur[b] \in Topic
         /\ msgs' = Append(msgs, [origin |-> b, topic |-> cur[b]])
         /\ \A i \in 1..Len(msgs) : msgs'[i] = msgs[i]
<1> DEFINE m == [origin |-> b, topic |-> cur[b]]
<1>1. cur[b] \in Topic
  BY DEF Push, Goto, TypeInv, HandlerHasTopic
<1>2. m \in Message /\ msgs \in Seq(Message)
  BY <1>1 DEF Message, TypeInv, ProgramType
<1>3. msgs' = Append(msgs, m) /\ UNCHANGED <<at, popped, injected>>
  BY DEF Push, control_vars
<1> HIDE DEF m
<1>4. \A i \in 1..Len(msgs) : msgs'[i] = msgs[i]
  BY <1>2, <1>3, AppendFacts
<1> QED BY <1>1, <1>3, <1>4 DEF m

LEMMA StepRelayed ==
  TypeInv /\ FrontExists /\ QueueIsRest /\ RelayedSoFar /\ [Next]_vars => RelayedSoFar'
<1> SUFFICES ASSUME TypeInv, FrontExists, QueueIsRest, RelayedSoFar, [Next]_vars,
                    NEW a \in Adapter
             PROVE  RelayedTo(a)'
    BY DEF RelayedSoFar
<1>0. /\ RelayedTo(a) /\ Position(a) \in 0..Len(msgs)
      /\ injected[a] \in Seq(Nat) /\ popped \in Nat /\ Len(msgs) \in Nat
  BY PositionBound DEF RelayedSoFar, TypeInv, ProgramType
<1>1. CASE Visit
  <2>1. CASE a # at + 1
    <3>1. PICK b : b = at + 1
      OBVIOUS
    <3>2. UNCHANGED msgs /\ Position(a)' = Position(a) /\ injected'[a] = injected[a]
      BY <1>1, <2>1, <3>1, VisitEffect
    <3> QED BY <1>0, <3>2 DEF RelayedTo, IsFor
  <2>2. CASE a = at + 1 /\ ~IsFor(msgs[popped + 1], a)
    <3>1. /\ UNCHANGED <<msgs, injected>>
          /\ Position(a) = popped /\ Position(a)' = popped + 1
      BY <1>1, <2>2, VisitEffect
    <3>2. \A i \in 1..(popped + 1) : i \in 1..popped \/ i = popped + 1
      BY <1>0
    <3>3. \A j \in 1..Len(injected[a]) : injected[a][j] # popped + 1
      BY <1>0, <3>1 DEF RelayedTo
    <3>4. \A j \in 1..Len(injected[a]) : injected[a][j] \in 1..(popped + 1)
      BY <1>0, <3>1 DEF RelayedTo
    <3>5. \A i \in 1..(popped + 1) :
            IsFor(msgs[i], a) <=> \E j \in 1..Len(injected[a]) : injected[a][j] = i
      BY <1>0, <2>2, <3>1, <3>2, <3>3 DEF RelayedTo
    <3> QED BY <1>0, <3>1, <3>4, <3>5 DEF RelayedTo, IsFor
  <2>3. CASE a = at + 1 /\ IsFor(msgs[popped + 1], a)
    <3> DEFINE old == injected[a]
               e == popped + 1
    <3>1. /\ UNCHANGED msgs /\ injected'[a] = Append(old, e)
          /\ Position(a) = popped /\ Position(a)' = e
      BY <1>1, <2>3, VisitEffect DEF TypeInv, ProgramType
    <3>2. e \in Nat /\ e = popped + 1 /\ old \in Seq(Nat) /\ IsFor(msgs[e], a)
      BY <1>0, <2>3
    <3>3. /\ \A j \in 1..Len(old) : old[j] \in 1..popped
          /\ \A i, j \in 1..Len(old) : i < j => old[i] < old[j]
          /\ \A i \in 1..popped :
               IsFor(msgs[i], a) <=> \E j \in 1..Len(old) : old[j] = i
      BY <1>0, <3>1 DEF RelayedTo
    <3> HIDE DEF old, e
    <3> DEFINE new == Append(old, e)
    <3>4. /\ Len(new) = Len(old) + 1 /\ new[Len(old) + 1] = e /\ Len(old) \in Nat
          /\ \A i \in 1..Len(old) : new[i] = old[i]
      BY <3>2, AppendFacts
    <3> HIDE DEF new
    <3>5. \A j \in 1..Len(new) : new[j] \in 1..e
      <4> TAKE j \in 1..Len(new)
      <4>1. CASE j = Len(old) + 1
        BY <4>1, <1>0, <3>2, <3>4
      <4>2. CASE j # Len(old) + 1
        <5>1. j \in 1..Len(old)
          BY <4>2, <3>4
        <5>2. new[j] \in 1..popped
          BY <5>1, <3>3, <3>4
        <5> QED BY <5>2, <1>0, <3>2
      <4> QED BY <4>1, <4>2
    <3>6. \A i, j \in 1..Len(new) : i < j => new[i] < new[j]
      <4> SUFFICES ASSUME NEW i \in 1..Len(new), NEW j \in 1..Len(new), i < j
                   PROVE  new[i] < new[j]
        OBVIOUS
      <4>1. i \in 1..Len(old)
        BY <3>4
      <4>2. CASE j = Len(old) + 1
        <5>1. new[i] \in 1..popped
          BY <4>1, <3>3, <3>4
        <5> QED BY <4>2, <5>1, <1>0, <3>2, <3>4
      <4>3. CASE j # Len(old) + 1
        <5>1. j \in 1..Len(old)
          BY <4>3, <3>4
        <5> QED BY <4>1, <5>1, <3>3, <3>4
      <4> QED BY <4>2, <4>3
    <3>7. \A i \in 1..e : IsFor(msgs[i], a) <=> \E j \in 1..Len(new) : new[j] = i
      <4> TAKE i \in 1..e
      <4>1. CASE i = e
        BY <4>1, <3>2, <3>4
      <4>2. CASE i # e
        <5>1. i \in 1..popped
          BY <4>2, <1>0, <3>2
        <5>2. (\E j \in 1..Len(new) : new[j] = i) <=> \E j \in 1..Len(old) : old[j] = i
          BY <4>2, <3>4
        <5> QED BY <5>1, <5>2, <3>3
      <4> QED BY <4>1, <4>2
    <3>8. injected'[a] = new /\ Position(a)' = e /\ msgs' = msgs
      BY <3>1 DEF new
    <3> QED BY <3>5, <3>6, <3>7, <3>8 DEF RelayedTo, IsFor
  <2> QED BY <2>1, <2>2, <2>3
<1>2. CASE Pop
  BY <1>0, <1>2, PopEffect DEF RelayedTo, IsFor
<1>3. ASSUME NEW b \in Adapter, Push(b) PROVE RelayedTo(a)'
  <2>1. /\ UNCHANGED <<at, popped, injected>>
        /\ \A i \in 1..Len(msgs) : msgs'[i] = msgs[i]
    BY <1>3, PushEffect
  <2>2. Position(a)' = Position(a)
    BY <2>1 DEF Position
  <2>3. \A i \in 1..Position(a) : msgs'[i] = msgs[i]
    BY <1>0, <2>1
  <2> QED BY <1>0, <2>1, <2>2, <2>3 DEF RelayedTo, IsFor
<1>4. CASE UNCHANGED <<at, queue, msgs, popped, injected>>
  BY <1>0, <1>4 DEF RelayedTo, IsFor, Position
<1> QED BY <1>1, <1>2, <1>3, <1>4, MessageSteps

-----------------------------------------------------------------------------
(* The whole invariant, and what follows from it.                          *)

RelayInv ==
  /\ TypeInv /\ FrontExists /\ ThreadStages /\ ThreadsExist /\ LocksFollowPc
  /\ QueueIsRest /\ RelayedSoFar

(***************************************************************************)
(* The inductive invariant holds: where the threads are determines who     *)
(* holds which mutex and which threads exist, the queue is the part of the *)
(* pushed messages not yet popped, and every adapter was given exactly its *)
(* share of the messages up to its position.                               *)
(***************************************************************************)
THEOREM RelayInvariant == Spec => []RelayInv
<1>1. Init => RelayInv
  <2> SUFFICES ASSUME Init PROVE RelayInv
    OBVIOUS
  <2>1. TypeInv
    BY InitType
  <2>2. FrontExists /\ ThreadStages /\ ThreadsExist /\ LocksFollowPc
    BY DEF Init, FrontExists, ThreadStages, ThreadsExist, LocksFollowPc, Draining, Running, Final
  <2>3. QueueIsRest
    BY DEF Init, QueueIsRest
  <2>4. RelayedSoFar
    BY DEF Init, RelayedSoFar, RelayedTo, Position, Adapter
  <2> QED BY <2>1, <2>2, <2>3, <2>4 DEF RelayInv
<1>2. RelayInv /\ [Next]_vars => RelayInv'
  BY StepType, StepFront, StepThreads, StepExist, StepLocks, StepQueue, StepRelayed DEF RelayInv
<1> QED BY <1>1, <1>2, PTL DEF Spec

\* Every variable keeps its type, for any pool, scopes and bound.
THEOREM TypeCorrect == Spec => []TypeOK
<1>1. RelayInv => ProgramType
  BY DEF RelayInv, TypeInv
<1>2. Init => stalled \subseteq Adapter
  BY DEF Init
<1>3. stalled \subseteq Adapter /\ [Next]_vars => (stalled \subseteq Adapter)'
  <2> SUFFICES ASSUME stalled \subseteq Adapter, [Next]_vars
               PROVE  (stalled \subseteq Adapter)'
    OBVIOUS
  <2>1. CASE UNCHANGED stalled
    BY <2>1
  <2>2. ASSUME NEW a \in Adapter, Stall(a) PROVE (stalled \subseteq Adapter)'
    BY <2>2 DEF Stall
  <2> QED BY <2>1, <2>2 DEF Next, ControlStep, BrokerStep, Environment, Ended, vars
<1>4. ProgramType /\ stalled \subseteq Adapter => TypeOK
  BY DEF TypeOK
<1> QED BY <1>1, <1>2, <1>3, <1>4, RelayInvariant, PTL DEF Spec

(***************************************************************************)
(* No thread is stuck: the control thread, which holds _queue_mutex while  *)
(* it asks for one _subs_mutex after another and which joins the broker    *)
(* threads, waits for none that waits for it; and the waits of the broker  *)
(* threads are for the control thread.                                     *)
(***************************************************************************)
THEOREM DeadlockFree == Spec => []NeverStuck
<1>1. RelayInv => NeverStuck
  <2> SUFFICES ASSUME RelayInv, Running PROVE NeverStuck
    BY DEF NeverStuck
  <2> USE DEF RelayInv, TypeInv, ProgramType
  <2>1. /\ qmutex = "control" <=> ctl \in Draining
        /\ \A a \in Adapter : smutex[a] = "broker" <=> th[a] \in {"fanout", "op"}
        /\ \A a \in Adapter : smutex[a] = "control" <=> ctl = "send" /\ at = a
    BY DEF LocksFollowPc
  <2>2. \A a \in Adapter :
          \/ th[a] \in {"none", "idle", "returned", "joined"}
          \/ Unblocked(a) \/ WaitsForControl(a)
    BY <2>1 DEF Unblocked, BrokerCanGo, WaitsForControl, BrokerPc
  <2>3. CASE ctl = "inject"
    <3>1. CASE smutex[at] = "free"
      BY <2>2, <2>3, <3>1 DEF NeverStuck, ControlCanGo
    <3>2. CASE smutex[at] # "free" /\ at \in Adapter
      <4>1. ControlWaitsFor(at) /\ Unblocked(at)
        BY <2>1, <2>3, <3>2 DEF ControlWaitsFor, Unblocked, BrokerCanGo
      <4> QED BY <2>2, <3>2, <4>1 DEF NeverStuck
    <3>3. at \in Adapter
      BY <2>3 DEF FrontExists, Adapter
    <3> QED BY <3>1, <3>2, <3>3
  <2>4. CASE ctl = "join"
    <3>1. CASE th[k + 1] = "returned"
      BY <2>2, <2>4, <3>1 DEF NeverStuck, ControlCanGo
    <3>2. CASE th[k + 1] # "returned"
      <4>1. k + 1 \in Adapter
        BY DEF Adapter
      <4>2. Started(k + 1) /\ stopped[k + 1]
        BY <2>4, <4>1 DEF ThreadsExist, StoppedByNow
      <4>3. ControlWaitsFor(k + 1) /\ Unblocked(k + 1)
        BY <2>1, <2>4, <3>2, <4>1, <4>2
           DEF ControlWaitsFor, Unblocked, BrokerCanGo, Started, Draining
      <4> QED BY <2>2, <4>1, <4>3 DEF NeverStuck
    <3> QED BY <3>1, <3>2
  <2>5. CASE ctl \notin {"inject", "join"}
    BY <2>1, <2>2, <2>5 DEF NeverStuck, ControlCanGo, Draining
  <2> QED BY <2>3, <2>4, <2>5
<1> QED BY <1>1, RelayInvariant, PTL

\* The notification that push gives after its unlock is never lost.
THEOREM WakeupNotLost == Spec => []NoLostWakeup
<1>1. Init => NoLostWakeup
  BY DEF Init, NoLostWakeup
<1>2. TypeOK /\ NoLostWakeup /\ [Next]_vars => NoLostWakeup'
  <2> SUFFICES ASSUME ProgramType, NoLostWakeup, [Next]_vars PROVE NoLostWakeup'
    BY DEF TypeOK
  <2> USE DEF NoLostWakeup, control_vars, queue_vars, broker_vars
  <2>1. CASE UNCHANGED program BY <2>1 DEF program
  <2>2. CASE ControlStep
    BY <2>2 DEF ControlStep, BuildAdapter, RunAdapter, LoopTest, Enter, Wake,
                Timeout, Visit, InjectLock, InjectDone, Pop, StopAdapter,
                JoinAdapter, QueueReady
  <2>3. CASE Signal \/ BuildFails \/ RunFails \/ InjectThrows \/ InjectEscapes
    BY <2>3 DEF Signal, BuildFails, RunFails, InjectThrows, InjectEscapes
  <2>4. ASSUME NEW a \in Adapter, Push(a) PROVE NoLostWakeup'
    BY <2>4 DEF Push, Goto, ProgramType
  <2>5. ASSUME NEW a \in Adapter, Notify(a) PROVE NoLostWakeup'
    BY <2>5 DEF Notify
  <2>6. ASSUME NEW a \in Adapter, PublishThrows(a) \/ AcceptThrows(a) PROVE NoLostWakeup'
    BY <2>6 DEF PublishThrows, AcceptThrows
  <2>7. ASSUME NEW a \in Adapter,
               \/ Listen(a) \/ Return(a) \/ PublishLock(a) \/ PublishUnlock(a)
               \/ SessionLock(a) \/ SessionUnlock(a) \/ Answer(a)
               \/ OnSession(a) \/ OnRequest(a) \/ \E t \in Topic : OnPublish(a, t)
        PROVE  NoLostWakeup'
    <3>1. UNCHANGED <<ctl, queue, woken>>
      BY <2>7 DEF Listen, Return, PublishLock, PublishUnlock, SessionLock,
                  SessionUnlock, Answer, OnSession, OnRequest, OnPublish
    <3>2. \A b \in Adapter : th[b] = "notify" => th'[b] = "notify"
      BY <2>7 DEF Listen, Return, PublishLock, PublishUnlock, SessionLock,
                  SessionUnlock, Answer, OnSession, OnRequest, OnPublish, Goto, ProgramType
    <3> QED BY <3>1, <3>2
  <2> QED
    BY <2>1, <2>2, <2>3, <2>4, <2>5, <2>6, <2>7
       DEF Next, BrokerStep, Environment, Stall, Ended, vars
<1> QED BY <1>1, <1>2, TypeCorrect, PTL DEF Spec

(***************************************************************************)
(* Every adapter is given the messages in the order of their push, none    *)
(* twice, also when inject_publish throws with a message half relayed.     *)
(***************************************************************************)
THEOREM InOrder == Spec => []RelayedInOrder
<1>1. RelayInv => RelayedInOrder
  BY DEF RelayInv, RelayedSoFar, RelayedTo, RelayedInOrder
<1> QED BY <1>1, RelayInvariant, PTL

\* What has left the queue was given to exactly the adapters it is for.
THEOREM ToAll == Spec => []RelayedToAll
<1>1. RelayInv => RelayedToAll
  <2> SUFFICES ASSUME RelayInv, NEW i \in 1..popped, NEW a \in Adapter
               PROVE  IsFor(msgs[i], a)
                        <=> \E j \in 1..Len(injected[a]) : injected[a][j] = i
    BY DEF RelayedToAll
  <2>1. i \in 1..Position(a)
    BY DEF RelayInv, TypeInv, ProgramType, Position
  <2> QED BY <2>1 DEF RelayInv, RelayedSoFar, RelayedTo
<1> QED BY <1>1, RelayInvariant, PTL

\* main never returns with a broker thread that is running or joinable.
THEOREM NoThreadLeft == Spec => []ThreadsJoined
<1>1. RelayInv => ThreadsJoined
  BY DEF RelayInv, ThreadStages, ThreadsJoined
<1> QED BY <1>1, RelayInvariant, PTL

\* Nobody but the drain itself changes the queue during a drain.
THEOREM DrainAlone == Spec => DrainExclusive
<1>1. RelayInv /\ [Next]_vars => [(ctl \in Draining) => queue' \in {queue, Tail(queue)}]_vars
  <2> SUFFICES ASSUME RelayInv, [Next]_vars, ctl \in Draining
               PROVE  queue' \in {queue, Tail(queue)}
    OBVIOUS
  <2>1. CASE Visit BY <2>1 DEF Visit
  <2>2. CASE Pop BY <2>2 DEF Pop
  <2>3. ~ \E a \in Adapter : Running /\ Push(a)
    BY DEF RelayInv, LocksFollowPc, Push
  <2> QED BY <2>1, <2>2, <2>3, MessageSteps
<1> QED BY <1>1, RelayInvariant, PTL DEF Spec, DrainExclusive

(***************************************************************************)
(* Every step of the control thread in a drain is one of finitely many     *)
(* towards its end, and no step of another thread undoes one: with any     *)
(* number of adapters a drain ends unless a send in it does not.           *)
(***************************************************************************)
THEOREM DrainsGetOn == Spec => DrainNearsEnd
<1>1. RelayInv /\ [Next]_vars =>
        [({ctl, ctl'} \subseteq Draining) =>
           IF ControlStep THEN DrainGetsOn ELSE UNCHANGED <<ctl, at, queue>>]_vars
  <2> SUFFICES ASSUME RelayInv, Next, ctl \in Draining, ctl' \in Draining
               PROVE  IF ControlStep THEN DrainGetsOn ELSE UNCHANGED <<ctl, at, queue>>
    BY DEF vars, program, control_vars, queue_vars
  <2> USE DEF RelayInv, TypeInv, ProgramType
  <2>1. ASSUME ControlStep PROVE DrainGetsOn
    <3>1. ctl = "visit" \/ ctl = "inject" \/ ctl = "send"
      BY DEF Draining
    <3>2. Visit \/ InjectLock \/ InjectDone \/ Pop
      BY <2>1, <3>1 DEF ControlStep, BuildAdapter, RunAdapter, LoopTest, Enter, Wake,
                        Timeout, StopAdapter, JoinAdapter
    <3>3. CASE Visit
      BY <3>3 DEF Visit, DrainGetsOn
    <3>4. CASE InjectLock \/ InjectDone
      BY <3>4 DEF InjectLock, InjectDone, DrainGetsOn, CallStage, queue_vars
    <3>5. CASE Pop
      <4>1. queue \in Seq(Nat) /\ queue # <<>> /\ queue' = Tail(queue)
        BY <3>5 DEF FrontExists, Pop
      <4> QED BY <4>1, TailIsShorter, Zenon DEF DrainGetsOn
    <3> QED BY <3>2, <3>3, <3>4, <3>5
  <2>2. ASSUME ~ControlStep PROVE UNCHANGED <<ctl, at, queue>>
    <3>1. ASSUME NEW a \in Adapter, BrokerStep(a) PROVE UNCHANGED <<ctl, at, queue>>
      <4>1. ~Push(a)
        BY DEF LocksFollowPc, Running, Final, Draining, Push
      <4> QED BY <3>1, <4>1 DEF BrokerStep, Listen, Return, PublishLock, PublishUnlock,
                   Notify, SessionLock, SessionUnlock, Answer, control_vars, queue_vars
    <3>2. CASE Environment
      BY <3>2 DEF Environment, Signal, BuildFails, RunFails, InjectThrows, InjectEscapes,
                  OnSession, OnRequest, PublishThrows, AcceptThrows, OnPublish, Draining,
                  control_vars, queue_vars
    <3>3. CASE UNCHANGED program
      BY <3>3 DEF program, control_vars, queue_vars
    <3> QED BY <2>2, <3>1, <3>2, <3>3 DEF Next, Stall, Ended, vars
  <2> QED BY <2>1, <2>2
<1> QED BY <1>1, RelayInvariant, PTL DEF Spec, DrainNearsEnd

(***************************************************************************)
(* The shutdown gets on: the pool is gone over once, and a thread whose    *)
(* io_context was stopped is in its last handler.                          *)
(***************************************************************************)
THEOREM ShutdownGetsOn == Spec => ShutdownNearsEnd
<1> DEFINE ControlGetsOn ==
             \/ UNCHANGED <<ctl, k>> \/ ctl' \in Final
             \/ ctl = "stop" /\ ctl' = "join" /\ k' = k
             \/ ctl = "join" /\ ctl' = "stop" /\ k' = k + 1
<1>1. RelayInv /\ [Next]_vars =>
        [(ctl \in {"stop", "join"}) =>
           ControlGetsOn /\ \A a \in StoppedByNow : ThreadGetsOn(a)]_vars
  <2> SUFFICES ASSUME RelayInv, Next, ctl \in {"stop", "join"}
               PROVE  ControlGetsOn /\ \A a \in StoppedByNow : ThreadGetsOn(a)
    OBVIOUS
  <2> USE DEF RelayInv, TypeInv, ProgramType
  <2>0. StoppedByNow \subseteq Adapter /\ \A a \in StoppedByNow : stopped[a]
    BY DEF StoppedByNow, ThreadsExist
  <2>1. CASE ControlStep
    <3>1. StopAdapter \/ JoinAdapter
      BY <2>1 DEF ControlStep, BuildAdapter, RunAdapter, LoopTest, Enter, Wake,
                  Timeout, Visit, InjectLock, InjectDone, Pop
    <3>2. CASE StopAdapter
      BY <3>2 DEF StopAdapter, ThreadGetsOn
    <3>3. CASE JoinAdapter
      <4>1. ControlGetsOn
        BY <3>3 DEF JoinAdapter, Final
      <4>2. \A a \in Adapter : ThreadGetsOn(a)
        BY <3>3 DEF JoinAdapter, ThreadStage, ThreadGetsOn
      <4> QED BY <2>0, <4>1, <4>2
    <3> QED BY <3>1, <3>2, <3>3
  <2>2. ASSUME NEW b \in Adapter, BrokerStep(b)
        PROVE  ControlGetsOn /\ \A a \in StoppedByNow : ThreadGetsOn(a)
    <3>1. UNCHANGED <<ctl, k>>
      BY <2>2 DEF BrokerStep, Listen, Return, PublishLock, PublishUnlock, Push,
                  Notify, SessionLock, SessionUnlock, Answer, control_vars
    <3>2. \A a \in Adapter : a # b => th'[a] = th[a] /\ left'[a] = left[a]
      BY <2>2 DEF BrokerStep, Listen, Return, PublishLock, PublishUnlock, Push,
                  Notify, SessionLock, SessionUnlock, Answer, Goto
    <3>3. ThreadGetsOn(b)
      BY <2>2 DEF BrokerStep, Listen, Return, PublishLock, PublishUnlock, Push,
                  Notify, SessionLock, SessionUnlock, Answer, Goto, ThreadStage,
                  ThreadGetsOn
    <3> QED BY <2>0, <3>1, <3>2, <3>3 DEF ThreadGetsOn
  <2>3. CASE Environment
    <3>1. ASSUME NEW b \in Adapter,
                 OnSession(b) \/ OnRequest(b) \/ \E t \in Topic : OnPublish(b, t)
          PROVE  ControlGetsOn /\ \A a \in StoppedByNow : ThreadGetsOn(a)
      <4>2. /\ ~stopped[b] /\ UNCHANGED <<ctl, k>>
            /\ \A a \in Adapter : a # b => th'[a] = th[a] /\ left'[a] = left[a]
        BY <3>1 DEF OnSession, OnRequest, OnPublish, Goto, control_vars
      <4> QED BY <2>0, <4>2 DEF ThreadGetsOn
    <3>2. CASE \E b \in Adapter : PublishThrows(b) \/ AcceptThrows(b)
      BY <3>2, <2>0 DEF PublishThrows, AcceptThrows, Final, broker_vars, ThreadGetsOn
    <3>3. CASE Signal \/ BuildFails \/ RunFails \/ InjectThrows \/ InjectEscapes
      BY <3>3, <2>0 DEF Signal, BuildFails, RunFails, InjectThrows, InjectEscapes,
                        broker_vars, ThreadGetsOn
    <3> QED BY <2>3, <3>1, <3>2, <3>3 DEF Environment
  <2>4. CASE UNCHANGED program
    BY <2>4, <2>0 DEF program, control_vars, broker_vars, ThreadGetsOn
  <2> QED BY <2>1, <2>2, <2>3, <2>4 DEF Next, Stall, Ended, vars
<1> QED BY <1>1, RelayInvariant, PTL DEF Spec, ShutdownNearsEnd

-----------------------------------------------------------------------------
(* How far the code departs from FatalIsHandled.                           *)

(***************************************************************************)
(* std::terminate ends the process only while a broker thread runs: by an  *)
(* exception of that thread, in its publish handler or in the accept       *)
(* handler of an io_context not yet stopped; or by one that leaves the     *)
(* control thread's main function, because the thread of a further adapter *)
(* cannot be created or because inject_publish throws something that       *)
(* message_queue_manager does not catch.  In the shutdown, where the       *)
(* control thread throws nothing, a handler that was under way when the    *)
(* io_context was stopped can still do it by its sends.                    *)
(***************************************************************************)
AbortsWithThread ==
  [][ctl' = "aborted" /\ ctl # "aborted" =>
       \E a \in Adapter :
         \/ th[a] = "fanout"
         \/ th[a] = "idle" /\ ~stopped[a]
         \/ ctl \in {"run", "send"} /\ Started(a) /\ th[a] # "returned"]_vars

\* Before the shutdown no adapter is stopped, and no thread has returned.
NoneStopped ==
  ctl \notin {"stop", "join"} \cup Final =>
    \A a \in Adapter : ~stopped[a] /\ th[a] # "returned"

LEMMA StepNoneStopped ==
  TypeInv /\ ThreadStages /\ NoneStopped /\ [Next]_vars => NoneStopped'
<1> SUFFICES ASSUME TypeInv, ThreadStages, NoneStopped, [Next]_vars PROVE NoneStopped'
    OBVIOUS
<1> USE DEF NoneStopped, Final, TypeInv, ProgramType, control_vars, queue_vars, broker_vars
<1>1. CASE UNCHANGED program
  BY <1>1 DEF program
<1>2. CASE ControlStep
  BY <1>2 DEF ControlStep, BuildAdapter, RunAdapter, LoopTest, Enter, Wake, Timeout,
              Visit, InjectLock, InjectDone, Pop, StopAdapter, JoinAdapter
<1>3. CASE Signal \/ BuildFails \/ RunFails \/ InjectThrows \/ InjectEscapes
  BY <1>3 DEF Signal, BuildFails, RunFails, InjectThrows, InjectEscapes
<1>4. ASSUME NEW a \in Adapter,
             \/ BrokerStep(a) \/ OnSession(a) \/ OnRequest(a)
             \/ PublishThrows(a) \/ AcceptThrows(a)
             \/ \E t \in Topic : OnPublish(a, t)
      PROVE  NoneStopped'
  BY <1>4 DEF BrokerStep, Listen, Return, PublishLock, PublishUnlock, Push, Notify,
              SessionLock, SessionUnlock, Answer, OnSession, OnRequest, PublishThrows,
              AcceptThrows,
              OnPublish, Goto
<1> QED
  BY <1>1, <1>2, <1>3, <1>4 DEF Next, Environment, Stall, Ended, vars

LEMMA NoneStoppedInvariant == Spec => []NoneStopped
<1>1. Init => NoneStopped
  BY DEF Init, NoneStopped
<1>2. RelayInv /\ NoneStopped /\ [Next]_vars => NoneStopped'
  BY StepNoneStopped DEF RelayInv
<1> QED BY <1>1, <1>2, RelayInvariant, PTL DEF Spec

(***************************************************************************)
(* inject_publish is called of adapters only that were started and not yet *)
(* stopped: shutdown_adapters closes the server and destroys the interface *)
(* of one adapter after the other, and no call is under way or follows.    *)
(***************************************************************************)
InjectsIntoRunning ==
  ctl \in Draining => \A a \in Adapter : Started(a) /\ th[a] # "returned" /\ ~stopped[a]

(***************************************************************************)
(* However the loop was left, by a signal or by an exception half way      *)
(* through the pool, the control thread does not call into an adapter that *)
(* it has stopped.                                                         *)
(***************************************************************************)
THEOREM InjectBeforeStop == Spec => []InjectsIntoRunning
<1>1. RelayInv /\ NoneStopped => InjectsIntoRunning
  BY DEF RelayInv, ThreadsExist, NoneStopped, InjectsIntoRunning, Draining, Final
<1> QED BY <1>1, RelayInvariant, NoneStoppedInvariant, PTL

(***************************************************************************)
(* The deviation from FatalIsHandled needs a broker thread that runs, and  *)
(* in a shutdown one in its publish handler or not yet told to stop.       *)
(***************************************************************************)
THEOREM AbortsOnlyWithThread == Spec => AbortsWithThread
<1>1. RelayInv /\ NoneStopped /\ [Next]_vars =>
        (ctl' = "aborted" /\ ctl # "aborted" =>
           \E a \in Adapter :
             \/ th[a] = "fanout"
             \/ th[a] = "idle" /\ ~stopped[a]
             \/ ctl \in {"run", "send"} /\ Started(a) /\ th[a] # "returned")
  <2> SUFFICES ASSUME RelayInv, NoneStopped, [Next]_vars, ctl' = "aborted", ctl # "aborted"
               PROVE  \E a \in Adapter :
                        \/ th[a] = "fanout"
                        \/ th[a] = "idle" /\ ~stopped[a]
                        \/ ctl \in {"run", "send"} /\ Started(a) /\ th[a] # "returned"
    OBVIOUS
  <2>1. CASE RunFails
    <3>1. ctl = "run" /\ k # 0 /\ k \in 0..(PoolSize - 1)
      BY <2>1 DEF RunFails, RelayInv, TypeInv, ProgramType
    <3>2. 1 \in Adapter /\ 1 <= k
      BY <3>1 DEF Adapter
    <3>3. Started(1) /\ th[1] # "returned"
      BY <3>1, <3>2 DEF RelayInv, ThreadsExist, NoneStopped, Final
    <3> QED BY <3>1, <3>2, <3>3
  <2>5. CASE InjectEscapes
    <3>1. 1 \in Adapter /\ ctl = "send"
      BY <2>5 DEF Adapter, InjectEscapes
    <3>2. Started(1) /\ th[1] # "returned"
      BY <3>1 DEF RelayInv, ThreadsExist, NoneStopped, Draining, Final
    <3> QED BY <3>1, <3>2
  <2>2. ASSUME NEW a \in Adapter, PublishThrows(a) \/ AcceptThrows(a)
        PROVE  th[a] = "fanout" \/ (th[a] = "idle" /\ ~stopped[a])
    BY <2>2 DEF PublishThrows, AcceptThrows
  <2>3. CASE ControlStep \/ Signal \/ BuildFails \/ InjectThrows \/ UNCHANGED vars
    BY <2>3 DEF ControlStep, BuildAdapter, RunAdapter, LoopTest, Enter, Wake, Timeout,
                Visit, InjectLock, InjectDone, Pop, StopAdapter, JoinAdapter, Signal,
                BuildFails, InjectThrows, vars, program, control_vars
  <2>4. ASSUME NEW a \in Adapter,
               \/ BrokerStep(a) \/ OnSession(a) \/ OnRequest(a) \/ Stall(a)
               \/ \E t \in Topic : OnPublish(a, t)
        PROVE  FALSE
    BY <2>4 DEF BrokerStep, Listen, Return, PublishLock, PublishUnlock, Push, Notify,
                SessionLock, SessionUnlock, Answer, OnSession, OnRequest, OnPublish, Stall,
                program,
                control_vars
  <2> QED BY <2>1, <2>2, <2>3, <2>4, <2>5 DEF Next, Environment, Ended
<1> QED BY <1>1, RelayInvariant, NoneStoppedInvariant, PTL DEF Spec, AbortsWithThread

-----------------------------------------------------------------------------
(* How many messages there can be.                                         *)

\* The adapters whose publish handler has not yet pushed its message.
Publishing == {a \in Adapter : th[a] \in {"pub_lock", "fanout", "push"}}

(***************************************************************************)
(* EventuallyRelayed speaks of every message there can be: MaxMessages     *)
(* stops new handlers, and those under way push one message each.          *)
(***************************************************************************)
MessagesBound == Len(msgs) <= MaxMessages + PoolSize

PendingBound == Len(msgs) + Cardinality(Publishing) <= MaxMessages + PoolSize

LEMMA AdaptersFinite ==
  ASSUME NEW S \in SUBSET Adapter
  PROVE  /\ IsFiniteSet(S) /\ Cardinality(S) \in 0..PoolSize
         /\ \A R \in SUBSET S : Cardinality(R) \in Nat /\ Cardinality(R) <= Cardinality(S)
<1>1. IsFiniteSet(Adapter) /\ Cardinality(Adapter) = PoolSize
  BY FS_Interval DEF Adapter
<1>2. IsFiniteSet(S) /\ Cardinality(S) \in Nat /\ Cardinality(S) <= PoolSize
  BY <1>1, FS_Subset, FS_CardinalityType
<1> QED BY <1>2, FS_Subset, FS_CardinalityType

LEMMA StepPending == TypeInv /\ PendingBound /\ [Next]_vars => PendingBound'
<1> SUFFICES ASSUME TypeInv, PendingBound, [Next]_vars PROVE PendingBound'
    OBVIOUS
<1>a. Publishing \subseteq Adapter /\ Publishing' \subseteq Adapter
  BY DEF Publishing
<1>0. /\ Len(msgs) \in Nat /\ Cardinality(Publishing) \in Nat
      /\ Cardinality(Publishing') \in 0..PoolSize
  BY <1>a, AdaptersFinite DEF TypeInv, ProgramType
<1>1. CASE UNCHANGED msgs /\ Publishing' \subseteq Publishing
  <2>1. Cardinality(Publishing') <= Cardinality(Publishing)
    BY <1>1, <1>a, AdaptersFinite
  <2> QED BY <1>0, <1>1, <2>1 DEF PendingBound
<1>2. ASSUME NEW a \in Adapter, NEW t \in Topic, OnPublish(a, t) PROVE PendingBound'
  BY <1>0, <1>2 DEF OnPublish, queue_vars, PendingBound
<1>3. ASSUME NEW a \in Adapter, Push(a) PROVE PendingBound'
  <2>1. a \in Publishing /\ Publishing' = Publishing \ {a}
    BY <1>3 DEF Push, Goto, Publishing, TypeInv, ProgramType
  <2>2. Cardinality(Publishing') = Cardinality(Publishing) - 1
    BY <2>1, <1>a, AdaptersFinite, FS_RemoveElement
  <2>3. Len(msgs') = Len(msgs) + 1
    BY <1>3 DEF Push, TypeInv, ProgramType
  <2> QED BY <1>0, <2>2, <2>3 DEF PendingBound
<1>4. CASE \/ ControlStep \/ Signal \/ BuildFails \/ RunFails \/ InjectThrows
           \/ InjectEscapes
  <2>1. UNCHANGED msgs
    BY <1>4 DEF ControlStep, BuildAdapter, RunAdapter, LoopTest, Enter, Wake, Timeout,
                Visit, InjectLock, InjectDone, Pop, StopAdapter, JoinAdapter, Signal,
                BuildFails, RunFails, InjectThrows, InjectEscapes, queue_vars
  <2>2. \A b \in Adapter : th'[b] \in {th[b], "listen", "joined"}
    BY <1>4 DEF ControlStep, BuildAdapter, RunAdapter, LoopTest, Enter, Wake, Timeout,
                Visit, InjectLock, InjectDone, Pop, StopAdapter, JoinAdapter, Signal,
                BuildFails, RunFails, InjectThrows, InjectEscapes, broker_vars, TypeInv, ProgramType
  <2> QED BY <1>1, <2>1, <2>2 DEF Publishing
<1>5. ASSUME NEW a \in Adapter,
             \/ Listen(a) \/ Return(a) \/ PublishLock(a) \/ PublishUnlock(a) \/ Notify(a)
             \/ SessionLock(a) \/ SessionUnlock(a) \/ Answer(a)
             \/ OnSession(a) \/ OnRequest(a) \/ PublishThrows(a) \/ AcceptThrows(a)
      PROVE  PendingBound'
  <2>1. UNCHANGED msgs
    BY <1>5 DEF Listen, Return, PublishLock, PublishUnlock, Notify, SessionLock,
                SessionUnlock, Answer, OnSession, OnRequest, PublishThrows, AcceptThrows,
                queue_vars
  <2>2. Publishing' \subseteq Publishing
    BY <1>5 DEF Listen, Return, PublishLock, PublishUnlock, Notify, SessionLock,
                SessionUnlock, Answer, OnSession, OnRequest, PublishThrows, AcceptThrows,
                broker_vars,
                Goto, TypeInv, ProgramType, Publishing
  <2> QED BY <1>1, <2>1, <2>2
<1>6. CASE UNCHANGED program
  BY <1>1, <1>6 DEF program, queue_vars, broker_vars, Publishing
<1> QED
  BY <1>2, <1>3, <1>4, <1>5, <1>6
     DEF Next, BrokerStep, Environment, Stall, Ended, vars

(***************************************************************************)
(* No message is outside the range that EventuallyRelayed quantifies over, *)
(* whatever the pool and the bound.                                        *)
(***************************************************************************)
THEOREM AllMessagesMeant == Spec => []MessagesBound
<1>1. Init => PendingBound
  <2> SUFFICES ASSUME Init PROVE PendingBound
    OBVIOUS
  <2>1. Len(msgs) = 0
    BY DEF Init
  <2>2. Cardinality(Publishing) \in 0..PoolSize
    BY AdaptersFinite DEF Publishing
  <2> QED BY <2>1, <2>2 DEF PendingBound
<1>2. RelayInv /\ PendingBound /\ [Next]_vars => PendingBound'
  BY StepPending DEF RelayInv
<1>3. RelayInv /\ PendingBound => MessagesBound
  <2> SUFFICES ASSUME RelayInv, PendingBound PROVE MessagesBound
    OBVIOUS
  <2>1. Cardinality(Publishing) \in 0..PoolSize /\ Len(msgs) \in Nat
    BY AdaptersFinite DEF Publishing, RelayInv, TypeInv, ProgramType
  <2> QED BY <2>1 DEF PendingBound, MessagesBound
<1> QED BY <1>1, <1>2, <1>3, RelayInvariant, PTL DEF Spec

-----------------------------------------------------------------------------
(***************************************************************************)
(* Refinement: with their locks, queue and threads the adapters behave as  *)
(* Bridge says, for any number of them.                                    *)
(***************************************************************************)
THEOREM Refinement == Spec => ImplementsBridge
<1>1. Init => Abstract!Init
  BY DEF Init, Abstract!Init, Position, Adapter
<1>2. RelayInv /\ [Next]_vars => [Abstract!Next]_(Abstract!vars)
  <2> SUFFICES ASSUME RelayInv, [Next]_vars
               PROVE  Abstract!Next \/ UNCHANGED Abstract!vars
    OBVIOUS
  <2> DEFINE pos == [a \in Adapter |-> Position(a)]
  <2> USE DEF RelayInv
  <2>1. CASE Visit
    <3>1. PICK b : b = at + 1
      OBVIOUS
    <3>2. /\ b \in Adapter /\ UNCHANGED msgs
          /\ Position(b) = popped /\ Position(b)' = popped + 1
          /\ \A a \in Adapter : a # b => Position(a)' = Position(a)
          /\ injected' = IF IsFor(msgs[popped + 1], b)
                           THEN [injected EXCEPT ![b] = Append(@, popped + 1)]
                           ELSE injected
      BY <2>1, <3>1, VisitEffect
    <3>3. popped + 1 <= Len(msgs)
      <4>1. queue \in Seq(Nat) /\ queue # <<>> /\ popped \in Nat
        BY <2>1 DEF Visit, FrontExists, Draining, TypeInv, ProgramType
      <4>2. Len(queue) \in Nat /\ Len(queue) > 0
        BY <4>1, TailFacts
      <4> QED BY <4>1, <4>2 DEF QueueIsRest
    <3>4. pos' = [pos EXCEPT ![b] = @ + 1]
      BY <3>2
    <3>5. pos[b] < Len(msgs)
      BY <3>2, <3>3 DEF TypeInv, ProgramType
    <3>6. Abstract!Forward(b)
      BY <3>2, <3>4, <3>5 DEF Abstract!Forward, Abstract!ForwardedTo, IsFor
    <3> QED BY <3>2, <3>6 DEF Abstract!Next
  <2>2. CASE Pop
    BY <2>2, PopEffect DEF Abstract!vars
  <2>3. ASSUME NEW b \in Adapter, Push(b) PROVE Abstract!Next
    <3>1. /\ UNCHANGED <<at, popped, injected>> /\ cur[b] \in Topic
          /\ msgs' = Append(msgs, [origin |-> b, topic |-> cur[b]])
      BY <2>3, PushEffect
    <3>2. pos' = pos
      BY <3>1 DEF Position
    <3>3. Abstract!Share(b, cur[b])
      BY <3>1, <3>2 DEF Abstract!Share
    <3> QED BY <3>1, <3>3 DEF Abstract!Next
  <2>4. CASE UNCHANGED <<at, queue, msgs, popped, injected>>
    BY <2>4 DEF Abstract!vars, Position
  <2> QED BY <2>1, <2>2, <2>3, <2>4, MessageSteps
<1> QED BY <1>1, <1>2, RelayInvariant, PTL DEF Spec, ImplementsBridge, Abstract!Spec
=============================================================================
