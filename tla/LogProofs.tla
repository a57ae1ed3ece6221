------------------------------ MODULE LogProofs ------------------------------
(***************************************************************************)
(* Proofs about Log for any number of adapters and signals, and calls      *)
(* nested to any depth.                                                    *)
(***************************************************************************)
EXTENDS Log, Integers, TLAPS

USE ThreadAssumption, NameAssumption, SignalAssumption, MaxSignalsAssumption

-----------------------------------------------------------------------------
(* The inductive invariant.                                                *)

\* The call at depth d of thread t holds the mutex.
IsWriting(t, d) == stack[t][d].pc \in Writing

\* A thread that writes has the mutex, and it is in one call only that does:
\* a signal handler on top of it waits.
MutexInv ==
  \A t \in Thread : \A d \in 1..Len(stack[t]) :
    IsWriting(t, d) =>
      /\ mutex = t
      /\ \A e \in 1..Len(stack[t]) : IsWriting(t, e) => e = d

OutputInv == LinesWhole /\ UnderOwnHeader /\ last = shown

LogInv == TypeOK /\ MutexInv /\ OutputInv /\ GoneAreSilent

-----------------------------------------------------------------------------
(* What the three changes of a stack do.                                   *)

LEMMA EnterFacts ==
  ASSUME NEW t \in Thread, stack \in [Thread -> Seq(Call)],
         NEW job \in Job, NEW name \in AdapterName \cup {NoName},
         job = "event" <=> name # NoName, Enter(t, job, name)
  PROVE  /\ stack' \in [Thread -> Seq(Call)]
         /\ Len(stack'[t]) = Len(stack[t]) + 1
         /\ \A d \in 1..Len(stack[t]) : stack'[t][d] = stack[t][d]
         /\ stack'[t][Len(stack[t]) + 1].pc = "lock"
         /\ stack'[t][Len(stack[t]) + 1].job = job
         /\ \A u \in Thread \ {t} : stack'[u] = stack[u]
<1> DEFINE c == [job |-> job, name |-> name, pc |-> "lock"]
<1>1. c \in Call
  BY DEF Call, Pc
<1>2. stack' = [stack EXCEPT ![t] = Append(stack[t], c)]
  BY DEF Enter
<1>3. c.pc = "lock" /\ c.job = job
  OBVIOUS
<1> HIDE DEF c
<1>4. stack[t] \in Seq(Call) /\ stack'[t] = Append(stack[t], c)
  BY <1>2
<1>5. /\ Append(stack[t], c) \in Seq(Call)
      /\ Len(Append(stack[t], c)) = Len(stack[t]) + 1
      /\ \A d \in 1..Len(stack[t]) : Append(stack[t], c)[d] = stack[t][d]
      /\ Append(stack[t], c)[Len(stack[t]) + 1] = c
  BY <1>1, <1>4
<1> QED BY <1>2, <1>3, <1>4, <1>5

LEMMA TopFacts ==
  ASSUME NEW t \in Thread, stack \in [Thread -> Seq(Call)], NEW p, At(t, p)
  PROVE  /\ stack[t] \in Seq(Call)
         /\ Len(stack[t]) \in 1..Len(stack[t])
         /\ Top(t) = stack[t][Len(stack[t])]
         /\ Top(t) \in Call
         /\ Top(t).pc = p
<1>1. stack[t] \in Seq(Call) /\ stack[t] # <<>>
  BY DEF At
<1>2. Len(stack[t]) \in 1..Len(stack[t])
  BY <1>1
<1> QED BY <1>1, <1>2 DEF At, Top

LEMMA GotoFacts ==
  ASSUME NEW t \in Thread, stack \in [Thread -> Seq(Call)], stack[t] # <<>>,
         NEW p \in Pc, p = "header" => Top(t).job = "event",
         p = "flag" => Top(t).job \in Signal, Goto(t, p)
  PROVE  /\ stack' \in [Thread -> Seq(Call)]
         /\ Len(stack'[t]) = Len(stack[t])
         /\ \A d \in 1..Len(stack[t]) : d # Len(stack[t]) => stack'[t][d] = stack[t][d]
         /\ stack'[t][Len(stack[t])].pc = p
         /\ stack'[t][Len(stack[t])].job = Top(t).job
         /\ stack'[t][Len(stack[t])].name = Top(t).name
         /\ \A u \in Thread \ {t} : stack'[u] = stack[u]
<1> DEFINE c == [Top(t) EXCEPT !.pc = p]
<1>1. stack[t] \in Seq(Call) /\ Len(stack[t]) \in 1..Len(stack[t])
  OBVIOUS
<1>2. Top(t) \in Call
  BY <1>1 DEF Top
<1>3. c \in Call /\ c.pc = p /\ c.job = Top(t).job /\ c.name = Top(t).name
  BY <1>2 DEF Call
<1>4. stack' = [stack EXCEPT ![t] = [stack[t] EXCEPT ![Len(stack[t])] = c]]
  BY DEF Goto, Top
<1> HIDE DEF c
<1>5. stack'[t] = [stack[t] EXCEPT ![Len(stack[t])] = c]
  BY <1>4
<1>6. /\ stack'[t] \in Seq(Call) /\ Len(stack'[t]) = Len(stack[t])
      /\ \A d \in 1..Len(stack[t]) : d # Len(stack[t]) => stack'[t][d] = stack[t][d]
      /\ stack'[t][Len(stack[t])] = c
  BY <1>1, <1>3, <1>5
<1>7. stack' \in [Thread -> Seq(Call)] /\ \A u \in Thread \ {t} : stack'[u] = stack[u]
  BY <1>4, <1>6
<1> QED BY <1>3, <1>6, <1>7

LEMMA FrontFacts ==
  ASSUME NEW S, NEW s \in Seq(S), NEW n \in Int, 0 <= n, n <= Len(s)
  PROVE  /\ SubSeq(s, 1, n) \in Seq(S)
         /\ Len(SubSeq(s, 1, n)) = n
         /\ \A d \in 1..n : SubSeq(s, 1, n)[d] = s[d]
OBVIOUS

LEMMA LeaveFacts ==
  ASSUME NEW t \in Thread, stack \in [Thread -> Seq(Call)], stack[t] # <<>>, Leave(t)
  PROVE  /\ stack' \in [Thread -> Seq(Call)]
         /\ Len(stack'[t]) = Len(stack[t]) - 1
         /\ \A d \in 1..(Len(stack[t]) - 1) : stack'[t][d] = stack[t][d]
         /\ \A u \in Thread \ {t} : stack'[u] = stack[u]
<1>1. stack[t] \in Seq(Call)
  OBVIOUS
<1>2. stack' = [stack EXCEPT ![t] = SubSeq(stack[t], 1, Len(stack[t]) - 1)]
  BY DEF Leave
<1>3. PICK m \in Nat : m = Len(stack[t]) /\ m > 0
  BY <1>1
<1>. DEFINE n == m - 1
<1>4. n \in Int /\ 0 <= n /\ n <= Len(stack[t]) /\ n = Len(stack[t]) - 1
  BY <1>3
<1>5. stack'[t] = SubSeq(stack[t], 1, n)
  BY <1>2, <1>4
<1> HIDE DEF n
<1>6. /\ stack'[t] \in Seq(Call) /\ Len(stack'[t]) = n
      /\ \A d \in 1..n : stack'[t][d] = stack[t][d]
  BY <1>1, <1>4, <1>5, FrontFacts
<1> QED BY <1>2, <1>4, <1>6

LEMMA InitLog == Init => LogInv
<1> SUFFICES ASSUME Init PROVE LogInv
    OBVIOUS
<1> USE DEF Init
<1>1. \A t \in Thread : stack[t] = <<>> /\ Len(stack[t]) = 0
  OBVIOUS
<1>2. TypeOK
  <2>1. stack \in [Thread -> Seq(Call)]
    OBVIOUS
  <2>2. should_stop \in BOOLEAN
    BY Zenon
  <2> QED BY <2>1, <2>2 DEF TypeOK, ControlPc
<1>3. MutexInv /\ OutputInv
  BY <1>1 DEF MutexInv, OutputInv, LinesWhole, UnderOwnHeader
<1>4. GoneAreSilent
  BY <1>1, Zenon DEF GoneAreSilent, Thread
<1> QED BY <1>2, <1>3, <1>4 DEF LogInv

-----------------------------------------------------------------------------
(* The steps of a call: one lemma per action.                              *)

LEMMA NooneWrites ==
  ASSUME LogInv, mutex = Nobody
  PROVE  \A t \in Thread : \A d \in 1..Len(stack[t]) : ~IsWriting(t, d)
BY DEF LogInv, MutexInv

\* A thread that takes a step in a call has not been joined.
LEMMA ThreadsStay ==
  ASSUME LogInv, UNCHANGED program, NEW t \in Thread, stack[t] # <<>>,
         \A u \in Thread \ {t} : stack'[u] = stack[u]
  PROVE  GoneAreSilent'
BY DEF LogInv, GoneAreSilent, Thread, program

LEMMA LockStep ==
  ASSUME LogInv, NEW t \in Thread, Lock(t)
  PROVE  LogInv'
<1> DEFINE p == IF Top(t).job = "event" THEN "header" ELSE "time"
           n == Len(stack[t])
<1>1. /\ stack \in [Thread -> Seq(Call)] /\ stack[t] # <<>> /\ At(t, "lock")
      /\ mutex = Nobody /\ mutex' = t /\ Goto(t, p)
      /\ UNCHANGED <<program, output, should_stop, signals>>
  BY DEF Lock, At, LogInv, TypeOK
<1>2. p \in Pc /\ (p = "header" => Top(t).job = "event") /\ p # "flag"
  BY DEF Pc
<1>3. /\ stack' \in [Thread -> Seq(Call)] /\ Len(stack'[t]) = n
      /\ \A d \in 1..n : d # n => stack'[t][d] = stack[t][d]
      /\ stack'[t][n].pc = p
      /\ stack'[t][n].job = Top(t).job
      /\ \A u \in Thread \ {t} : stack'[u] = stack[u]
  BY <1>1, <1>2, GotoFacts
<1>4. TypeOK'
  BY <1>1, <1>3 DEF LogInv, TypeOK, program, output
<1>5. \A u \in Thread : \A d \in 1..Len(stack[u]) : ~IsWriting(u, d)
  BY <1>1, NooneWrites
<1>6. \A u \in Thread : \A d \in 1..Len(stack'[u]) :
        stack'[u][d].pc \in Writing => u = t /\ d = n
  BY <1>3, <1>5 DEF IsWriting
<1>7. MutexInv'
  BY <1>1, <1>6 DEF MutexInv, IsWriting
<1>8. OutputInv'
  <2>1. LinesWhole'
    BY <1>2, <1>3, <1>6 DEF LinesWhole, Writing
  <2>2. UnderOwnHeader'
    BY <1>2, <1>3, <1>6 DEF UnderOwnHeader, Writing
  <2> QED BY <1>1, <2>1, <2>2 DEF LogInv, OutputInv, output
<1>9. GoneAreSilent'
  BY <1>1, <1>3, ThreadsStay
<1> QED BY <1>4, <1>7, <1>8, <1>9 DEF LogInv

\* What a step in the innermost call of t, the one that writes, finds.
LEMMA WritingFacts ==
  ASSUME LogInv, NEW t \in Thread, NEW p \in Writing, At(t, p)
  PROVE  /\ stack \in [Thread -> Seq(Call)] /\ stack[t] # <<>>
         /\ Len(stack[t]) \in 1..Len(stack[t])
         /\ Top(t) = stack[t][Len(stack[t])] /\ Top(t) \in Call /\ Top(t).pc = p
         /\ mutex = t
         /\ \A u \in Thread : \A d \in 1..Len(stack[u]) :
              stack[u][d].pc \in Writing => u = t /\ d = Len(stack[t])
<1>1. stack \in [Thread -> Seq(Call)] /\ stack[t] # <<>>
  BY DEF LogInv, TypeOK, At
<1>2. /\ Len(stack[t]) \in 1..Len(stack[t])
      /\ Top(t) = stack[t][Len(stack[t])] /\ Top(t) \in Call /\ Top(t).pc = p
  BY <1>1, TopFacts
<1>3. /\ mutex = t
      /\ \A e \in 1..Len(stack[t]) : IsWriting(t, e) => e = Len(stack[t])
  BY <1>2 DEF LogInv, MutexInv, IsWriting
<1>4. \A u \in Thread : \A d \in 1..Len(stack[u]) : IsWriting(u, d) => mutex = u
  BY DEF LogInv, MutexInv
<1> QED BY <1>1, <1>2, <1>3, <1>4 DEF IsWriting

LEMMA HeaderStep ==
  ASSUME LogInv, NEW t \in Thread, Header(t)
  PROVE  LogInv'
<1> DEFINE n == Len(stack[t])
<1>1. /\ At(t, "header") /\ Goto(t, "time")
      /\ UNCHANGED <<program, mutex, open, should_stop, signals>>
  BY DEF Header
<1>2. /\ stack \in [Thread -> Seq(Call)] /\ stack[t] # <<>> /\ n \in 1..n
      /\ Top(t) = stack[t][n] /\ Top(t) \in Call /\ Top(t).pc = "header"
      /\ mutex = t
      /\ \A u \in Thread : \A d \in 1..Len(stack[u]) :
           stack[u][d].pc \in Writing => u = t /\ d = n
  BY <1>1, WritingFacts DEF Writing
<1>3. /\ stack' \in [Thread -> Seq(Call)] /\ Len(stack'[t]) = n
      /\ \A d \in 1..n : d # n => stack'[t][d] = stack[t][d]
      /\ stack'[t][n].pc = "time" /\ stack'[t][n].name = Top(t).name
      /\ \A u \in Thread \ {t} : stack'[u] = stack[u]
  BY <1>1, <1>2, GotoFacts DEF Pc
<1>4. last' = Top(t).name /\ shown' = Top(t).name
  BY DEF Header, LogInv, OutputInv
<1>5. TypeOK'
  <2>1. Top(t).name \in AdapterName \cup {NoName}
    BY <1>2 DEF Call
  <2> QED BY <1>1, <1>3, <1>4, <2>1 DEF LogInv, TypeOK, program
<1>6. \A u \in Thread : \A d \in 1..Len(stack'[u]) :
        stack'[u][d].pc \in Writing => u = t /\ d = n
  BY <1>2, <1>3
<1>7. MutexInv'
  BY <1>1, <1>2, <1>6 DEF MutexInv, IsWriting
<1>8. OutputInv'
  <2>1. LinesWhole'
    BY <1>3, <1>6 DEF LinesWhole, Writing
  <2>2. UnderOwnHeader'
    BY <1>3, <1>4, <1>6 DEF UnderOwnHeader, Writing
  <2> QED BY <1>4, <2>1, <2>2 DEF OutputInv
<1>9. GoneAreSilent'
  BY <1>1, <1>2, <1>3, ThreadsStay
<1> QED BY <1>5, <1>7, <1>8, <1>9 DEF LogInv

LEMMA TimeStep ==
  ASSUME LogInv, NEW t \in Thread, Time(t)
  PROVE  LogInv'
<1> DEFINE n == Len(stack[t])
<1>1. /\ At(t, "time") /\ Goto(t, "text") /\ open' = t
      /\ UNCHANGED <<program, mutex, last, shown, should_stop, signals>>
  BY DEF Time
<1>2. /\ stack \in [Thread -> Seq(Call)] /\ stack[t] # <<>> /\ n \in 1..n
      /\ Top(t) = stack[t][n] /\ Top(t).pc = "time"
      /\ mutex = t
      /\ \A u \in Thread : \A d \in 1..Len(stack[u]) :
           stack[u][d].pc \in Writing => u = t /\ d = n
  BY <1>1, WritingFacts DEF Writing
<1>3. /\ stack' \in [Thread -> Seq(Call)] /\ Len(stack'[t]) = n
      /\ \A d \in 1..n : d # n => stack'[t][d] = stack[t][d]
      /\ stack'[t][n].job = Top(t).job /\ stack'[t][n].name = Top(t).name
      /\ \A u \in Thread \ {t} : stack'[u] = stack[u]
  BY <1>1, <1>2, GotoFacts DEF Pc
<1>4. TypeOK'
  BY <1>1, <1>3 DEF LogInv, TypeOK, program
<1>5. \A u \in Thread : \A d \in 1..Len(stack'[u]) :
        stack'[u][d].pc \in Writing => u = t /\ d = n
  BY <1>2, <1>3
<1>6. MutexInv'
  BY <1>1, <1>2, <1>5 DEF MutexInv, IsWriting
<1>7. OutputInv'
  <2>1. LinesWhole'
    BY <1>1, <1>5 DEF LinesWhole, Writing
  <2>2. Top(t).job = "event" => shown = Top(t).name
    BY <1>2 DEF LogInv, OutputInv, UnderOwnHeader
  <2>3. UnderOwnHeader'
    BY <1>1, <1>3, <1>5, <2>2 DEF UnderOwnHeader, Writing
  <2> QED BY <1>1, <2>1, <2>3 DEF LogInv, OutputInv
<1>8. GoneAreSilent'
  BY <1>1, <1>2, <1>3, ThreadsStay
<1> QED BY <1>4, <1>6, <1>7, <1>8 DEF LogInv

LEMMA TextStep ==
  ASSUME LogInv, NEW t \in Thread, Text(t)
  PROVE  LogInv'
<1> DEFINE n == Len(stack[t])
<1>1. /\ At(t, "text") /\ open' = Nobody /\ mutex' = Nobody
      /\ Top(t).job \in Signal => Goto(t, "flag")
      /\ Top(t).job \notin Signal => Leave(t)
      /\ UNCHANGED <<program, last, shown, should_stop, signals>>
  BY DEF Text
<1>2. /\ stack \in [Thread -> Seq(Call)] /\ stack[t] # <<>> /\ n \in 1..n
      /\ \A u \in Thread : \A d \in 1..Len(stack[u]) :
           stack[u][d].pc \in Writing => u = t /\ d = n
  BY <1>1, WritingFacts DEF Writing
<1>3. /\ stack' \in [Thread -> Seq(Call)]
      /\ \A d \in 1..Len(stack'[t]) :
           \/ d \in 1..n /\ d # n /\ stack'[t][d] = stack[t][d]
           \/ stack'[t][d].pc = "flag"
      /\ \A u \in Thread \ {t} : stack'[u] = stack[u]
  <2>1. CASE Top(t).job \in Signal
    BY <1>1, <1>2, <2>1, GotoFacts DEF Pc
  <2>2. CASE Top(t).job \notin Signal
    BY <1>1, <1>2, <2>2, LeaveFacts
  <2> QED BY <2>1, <2>2
<1>4. TypeOK'
  BY <1>1, <1>3 DEF LogInv, TypeOK, program
<1>5. \A u \in Thread : \A d \in 1..Len(stack'[u]) : stack'[u][d].pc \notin Writing
  BY <1>2, <1>3 DEF Writing
<1>6. MutexInv'
  BY <1>5 DEF MutexInv, IsWriting
<1>7. OutputInv'
  BY <1>1, <1>5 DEF LogInv, OutputInv, LinesWhole, UnderOwnHeader, Writing
<1>8. GoneAreSilent'
  BY <1>1, <1>2, <1>3, ThreadsStay
<1> QED BY <1>4, <1>6, <1>7, <1>8 DEF LogInv

\* Calls that are left, or entered and not yet writing, disturb no output.
LEMMA OutputStays ==
  ASSUME OutputInv, UNCHANGED output,
         \A u \in Thread : \A d \in 1..Len(stack'[u]) :
           \/ d \in 1..Len(stack[u]) /\ stack'[u][d] = stack[u][d]
           \/ stack'[u][d].pc = "lock"
  PROVE  OutputInv'
<1>1. UNCHANGED <<last, shown, open>>
  BY DEF output
<1>2. LinesWhole'
  <2> SUFFICES ASSUME NEW u \in Thread, NEW d \in 1..Len(stack'[u]),
                      stack'[u][d].pc = "text"
               PROVE  open' = u
    BY DEF LinesWhole
  <2>1. d \in 1..Len(stack[u]) /\ stack[u][d].pc = "text"
    OBVIOUS
  <2> QED BY <1>1, <2>1 DEF OutputInv, LinesWhole
<1>3. UnderOwnHeader'
  <2> SUFFICES ASSUME NEW u \in Thread, NEW d \in 1..Len(stack'[u]),
                      stack'[u][d].job = "event", stack'[u][d].pc \in {"time", "text"}
               PROVE  shown' = stack'[u][d].name
    BY DEF UnderOwnHeader
  <2>1. d \in 1..Len(stack[u]) /\ stack'[u][d] = stack[u][d]
    OBVIOUS
  <2> QED BY <1>1, <2>1 DEF OutputInv, UnderOwnHeader
<1> QED BY <1>1, <1>2, <1>3 DEF OutputInv

LEMMA FlagStep ==
  ASSUME LogInv, NEW t \in Thread, Flag(t)
  PROVE  LogInv'
<1> DEFINE n == Len(stack[t])
<1>1. /\ stack \in [Thread -> Seq(Call)] /\ stack[t] # <<>> /\ Leave(t)
      /\ should_stop' = TRUE
      /\ UNCHANGED <<program, mutex, output, signals>>
  BY DEF Flag, At, LogInv, TypeOK
<1>2. /\ stack' \in [Thread -> Seq(Call)]
      /\ \A d \in 1..Len(stack'[t]) : d \in 1..n /\ stack'[t][d] = stack[t][d]
      /\ \A u \in Thread \ {t} : stack'[u] = stack[u]
  BY <1>1, LeaveFacts
<1>3. TypeOK'
  BY <1>1, <1>2 DEF LogInv, TypeOK, program, output
<1>4. MutexInv' /\ OutputInv'
  <2>1. \A u \in Thread : \A d \in 1..Len(stack'[u]) :
          d \in 1..Len(stack[u]) /\ stack'[u][d] = stack[u][d]
    BY <1>2
  <2>2. MutexInv'
    <3> SUFFICES ASSUME NEW u \in Thread, NEW d \in 1..Len(stack'[u]), IsWriting(u, d)',
                        NEW e \in 1..Len(stack'[u]), IsWriting(u, e)'
                 PROVE  mutex' = u /\ e = d
      BY DEF MutexInv
    <3>1. d \in 1..Len(stack[u]) /\ IsWriting(u, d)
      BY <2>1 DEF IsWriting
    <3>2. e \in 1..Len(stack[u]) /\ IsWriting(u, e)
      BY <2>1 DEF IsWriting
    <3> QED BY <1>1, <3>1, <3>2 DEF LogInv, MutexInv
  <2>3. OutputInv'
    BY <1>1, <2>1, OutputStays DEF LogInv
  <2> QED BY <2>2, <2>3
<1>5. GoneAreSilent'
  BY <1>1, <1>2, ThreadsStay
<1> QED BY <1>3, <1>4, <1>5 DEF LogInv

-----------------------------------------------------------------------------
(* The steps of the control thread, of the broker threads and of signals.  *)

\* A call that is entered does not write yet, whatever it interrupts.
LEMMA EnterKeeps ==
  ASSUME LogInv, NEW t \in Thread, NEW job \in Job,
         NEW name \in AdapterName \cup {NoName}, job = "event" <=> name # NoName,
         Enter(t, job, name), UNCHANGED <<mutex, output>>
  PROVE  /\ stack' \in [Thread -> Seq(Call)] /\ MutexInv' /\ OutputInv'
         /\ \A u \in Thread \ {t} : stack'[u] = stack[u]
<1> DEFINE n == Len(stack[t])
<1>1. stack \in [Thread -> Seq(Call)]
  BY DEF LogInv, TypeOK
<1>2. /\ stack' \in [Thread -> Seq(Call)] /\ Len(stack'[t]) = n + 1
      /\ \A d \in 1..n : stack'[t][d] = stack[t][d]
      /\ stack'[t][n + 1].pc = "lock"
      /\ \A u \in Thread \ {t} : stack'[u] = stack[u]
  BY <1>1, EnterFacts
<1>3. n \in Nat
  BY <1>1
<1>4. \A u \in Thread : \A d \in 1..Len(stack'[u]) :
        \/ d \in 1..Len(stack[u]) /\ stack'[u][d] = stack[u][d]
        \/ stack'[u][d].pc = "lock"
  BY <1>2, <1>3
<1>5. MutexInv'
  BY <1>4 DEF LogInv, MutexInv, IsWriting, Writing
<1>6. OutputInv'
  BY <1>4, OutputStays DEF LogInv
<1> QED BY <1>2, <1>5, <1>6

\* The callers' arguments.
LEMMA CallerFacts ==
  /\ Control \in Thread /\ Adapter = Thread \ {Control}
  /\ "event" \in Job /\ "line" \in Job /\ Signal \subseteq Job
  /\ NoName \in AdapterName \cup {NoName}
  /\ \A s \in Signal : s # "event"
  /\ \A a \in Adapter : Name[a] \in AdapterName /\ Name[a] # NoName
BY ThreadAssumption, NameAssumption, SignalAssumption DEF Thread, Job, AdapterName

\* A step that enters a call: on a thread in no call, or a signal handler's.
Enters ==
  \E t \in Thread, job \in Job, name \in AdapterName \cup {NoName} :
    /\ job = "event" <=> name # NoName
    /\ stack[t] = <<>> \/ job \in Signal
    /\ t = Control \/ t \in alive
    /\ Enter(t, job, name)
    /\ ctl' # "done"
    /\ UNCHANGED <<alive, mutex, output>>

\* A step that has nothing to do with the log.
Quiet == GoneAreSilent' /\ UNCHANGED <<stack, mutex, output>>

LEMMA EntersBy ==
  ASSUME NEW t \in Thread, NEW job \in Job, NEW name \in AdapterName \cup {NoName},
         job = "event" <=> name # NoName, stack[t] = <<>> \/ job \in Signal,
         t = Control \/ t \in alive, Enter(t, job, name), ctl' # "done",
         UNCHANGED <<alive, mutex, output>>
  PROVE  Enters
BY DEF Enters

\* The control thread's steps and failures.
LEMMA ControlKinds ==
  ASSUME LogInv, ControlStep \/ ControlFails \/ Die
  PROVE  Enters \/ Quiet
<1>1. ASSUME NEW job \in {"line", Abort}, Enter(Control, job, NoName),
             stack[Control] = <<>>, ctl' # "done", UNCHANGED <<alive, mutex, output>>
      PROVE  Enters
  <2>1. job \in Job /\ job # "event"
    BY <1>1, CallerFacts
  <2> QED BY <1>1, <2>1, CallerFacts, EntersBy
<1>2. ASSUME UNCHANGED <<stack, mutex, output>>, ctl' # "done",
             \A a \in Adapter : stack[a] # <<>> => a \in alive'
      PROVE  Quiet
  BY <1>2 DEF Quiet, GoneAreSilent
<1>3. \A a \in Adapter : stack[a] # <<>> => a \in alive
  BY DEF LogInv, GoneAreSilent
<1>4. CASE ControlLine
  BY <1>1, <1>4 DEF ControlLine, ControlGoes
<1>5. CASE Initialize \/ RunFails \/ LoopEnds \/ StopAdapter \/ Die
  BY <1>2, <1>3, <1>5
     DEF Initialize, RunFails, LoopEnds, StopAdapter, Die, ControlGoes
<1>6. CASE BuildFails
  BY <1>1, <1>2, <1>3, <1>6 DEF BuildFails, ControlGoes
<1>7. CASE RunAdapter
  <2>1. alive \subseteq alive' /\ ctl' # "done" /\ UNCHANGED <<stack, mutex, output>>
    BY <1>7 DEF RunAdapter, ControlGoes
  <2> QED BY <1>2, <1>3, <2>1
<1>8. CASE InjectThrows
  BY <1>1, <1>2, <1>3, <1>8 DEF InjectThrows, ControlGoes
<1>9. CASE JoinAdapter
  <2>1. /\ alive' = alive \ {joining} /\ stack[joining] = <<>>
        /\ ctl' # "done" /\ UNCHANGED <<stack, mutex, output>>
    BY <1>9 DEF JoinAdapter, ControlGoes, Free
  <2> QED BY <1>2, <1>3, <2>1
<1>10. CASE Return
  <2>1. /\ alive = {} /\ stack[Control] = <<>>
        /\ UNCHANGED <<alive, stack, mutex, output>>
    BY <1>10 DEF Return, ControlGoes
  <2> QED BY <1>3, <2>1 DEF Quiet, GoneAreSilent, Thread
<1>11. CASE Destroy
  BY <1>1, <1>2, <1>3, <1>11 DEF Destroy, ControlGoes
<1> QED BY <1>4, <1>5, <1>6, <1>7, <1>8, <1>9, <1>10, <1>11
            DEF ControlStep, ControlFails

\* Every step is one in a call, enters a call, or has nothing to do with the log.
LEMMA StepKinds ==
  ASSUME LogInv, [Next]_vars
  PROVE  (\E t \in Thread : CallStep(t)) \/ Enters \/ Quiet
<1>1. ASSUME NEW a \in Adapter, InjectEvent(a) PROVE Enters
  BY <1>1, CallerFacts, EntersBy DEF InjectEvent, ControlGoes
<1>2. ASSUME Running, NEW a \in Adapter, BrokerPrints(a) PROVE Enters
  BY <1>2, CallerFacts, EntersBy DEF BrokerPrints, Free, Running, program
<1>3. ASSUME Running, NEW a \in Adapter, BrokerThrows(a) PROVE Enters
  BY <1>3, CallerFacts, EntersBy DEF BrokerThrows, Free, Running
<1>4. ASSUME Running, NEW t \in Thread, NEW s \in Signal, Interrupt(t, s) PROVE Enters
  BY <1>4, CallerFacts, EntersBy DEF Interrupt, Running, program
<1>5. ASSUME Running, NEW t \in Thread, Stall(t) PROVE Quiet
  BY <1>5 DEF Stall, Quiet, LogInv, GoneAreSilent
<1>6. CASE UNCHANGED vars
  BY <1>6 DEF vars, output, Quiet, LogInv, GoneAreSilent
<1> QED BY <1>1, <1>2, <1>3, <1>4, <1>5, <1>6, ControlKinds DEF Next, Ended

\* The types of everything but the stack, the mutex and the output.
PlainTypes ==
  /\ ctl \in ControlPc /\ alive \subseteq Adapter /\ joining \in Adapter \cup {Nobody}
  /\ aborting \in Thread \cup {Nobody} /\ stalled \subseteq Thread
  /\ should_stop \in BOOLEAN /\ signals \in 0..MaxSignals

LEMMA PlainTyped ==
  ASSUME LogInv, [Next]_vars, ~\E t \in Thread : CallStep(t)
  PROVE  PlainTypes'
<1> USE DEF LogInv, TypeOK, PlainTypes, ControlPc, ControlGoes
<1>1. CASE ControlLine \/ Initialize \/ LoopEnds \/ Return
  BY <1>1 DEF ControlLine, Initialize, LoopEnds, Return
<1>2. CASE BuildFails
  BY <1>2, Zenon DEF BuildFails
<1>3. CASE RunAdapter
  BY <1>3 DEF RunAdapter
<1>4. CASE RunFails \/ InjectThrows
  BY <1>4 DEF RunFails, InjectThrows
<1>5. CASE StopAdapter
  BY <1>5 DEF StopAdapter
<1>6. CASE JoinAdapter
  BY <1>6 DEF JoinAdapter
<1>7. CASE Destroy
  BY <1>7, CallerFacts DEF Destroy
<1>8. CASE Die
  BY <1>8 DEF Die
<1>9. ASSUME NEW a \in Adapter, InjectEvent(a) PROVE PlainTypes'
  BY <1>9 DEF InjectEvent
<1>10. ASSUME NEW a \in Adapter, BrokerPrints(a) PROVE PlainTypes'
  BY <1>10 DEF BrokerPrints, program
<1>11. ASSUME NEW a \in Adapter, BrokerThrows(a) PROVE PlainTypes'
  BY <1>11, CallerFacts DEF BrokerThrows
<1>12. ASSUME NEW t \in Thread, NEW s \in Signal, Interrupt(t, s) PROVE PlainTypes'
  <2>1. signals' \in 0..MaxSignals
    BY <1>12 DEF Interrupt
  <2> QED BY <1>12, <2>1 DEF Interrupt, program
<1>13. ASSUME NEW t \in Thread, Stall(t) PROVE PlainTypes'
  BY <1>13 DEF Stall
<1>14. CASE UNCHANGED vars
  BY <1>14 DEF vars
<1> QED
  BY <1>1, <1>2, <1>3, <1>4, <1>5, <1>6, <1>7, <1>8, <1>9, <1>10, <1>11, <1>12, <1>13,
     <1>14 DEF Next, Ended, ControlStep, ControlFails

-----------------------------------------------------------------------------
LEMMA NextLog == LogInv /\ [Next]_vars => LogInv'
<1> SUFFICES ASSUME LogInv, [Next]_vars PROVE LogInv'
    OBVIOUS
<1>1. CASE \E t \in Thread : CallStep(t)
  BY <1>1, LockStep, HeaderStep, TimeStep, TextStep, FlagStep DEF CallStep
<1>2. CASE Enters /\ ~\E t \in Thread : CallStep(t)
  <2>1. PICK t \in Thread, job \in Job, name \in AdapterName \cup {NoName} :
          /\ job = "event" <=> name # NoName
          /\ t = Control \/ t \in alive
          /\ Enter(t, job, name)
          /\ ctl' # "done"
          /\ UNCHANGED <<alive, mutex, output>>
    BY <1>2 DEF Enters
  <2>2. /\ stack' \in [Thread -> Seq(Call)] /\ MutexInv' /\ OutputInv'
        /\ \A u \in Thread \ {t} : stack'[u] = stack[u]
    BY <2>1, EnterKeeps
  <2>3. TypeOK'
    BY <1>2, <2>1, <2>2, PlainTyped DEF LogInv, TypeOK, PlainTypes, output
  <2>4. GoneAreSilent'
    BY <2>1, <2>2, CallerFacts DEF LogInv, GoneAreSilent
  <2> QED BY <2>2, <2>3, <2>4 DEF LogInv
<1>3. CASE Quiet /\ ~\E t \in Thread : CallStep(t)
  <2>1. TypeOK'
    BY <1>3, PlainTyped DEF Quiet, LogInv, TypeOK, PlainTypes, output
  <2>2. MutexInv' /\ OutputInv'
    BY <1>3 DEF Quiet, LogInv, MutexInv, IsWriting, OutputInv, LinesWhole,
                UnderOwnHeader, output
  <2> QED BY <1>3, <2>1, <2>2 DEF Quiet, LogInv
<1> QED BY <1>1, <1>2, <1>3, StepKinds

(***************************************************************************)
(* The invariant of the calls, the mutex and the output, for any number of *)
(* threads and signals.                                                    *)
(***************************************************************************)
THEOREM LogInvariant == Spec => []LogInv
BY InitLog, NextLog, PTL DEF Spec

\* Type correctness.
THEOREM LogTypeCorrect == Spec => []TypeOK
<1>1. LogInv => TypeOK
  BY DEF LogInv
<1> QED BY <1>1, LogInvariant, PTL

\* No line is torn, with threads and signal handlers printing at any point.
THEOREM LinesNotTorn == Spec => []LinesWhole
<1>1. LogInv => LinesWhole
  BY DEF LogInv, OutputInv
<1> QED BY <1>1, LogInvariant, PTL

\* Every event stands under the header of its own adapter.
THEOREM HeadersRight == Spec => []UnderOwnHeader
<1>1. LogInv => UnderOwnHeader
  BY DEF LogInv, OutputInv
<1> QED BY <1>1, LogInvariant, PTL

(***************************************************************************)
(* No thread is in the log after it was joined, and none is when the       *)
(* process ends by the return of main.                                     *)
(***************************************************************************)
THEOREM GoneNotInLog == Spec => []GoneAreSilent
<1>1. LogInv => GoneAreSilent
  BY DEF LogInv
<1> QED BY <1>1, LogInvariant, PTL

-----------------------------------------------------------------------------
(* The holder of the mutex.                                                *)

\* The call at depth e of t is a signal handler's, which waits for the mutex.
IsWaiting(t, e) == stack[t][e].pc = "lock" /\ stack[t][e].job \in Signal

\* A thread that holds the mutex is in a call that writes, and on top of that
\* in nothing but handlers that wait.
HeldInv ==
  \A t \in Thread : mutex = t =>
    \E d \in 1..Len(stack[t]) :
      IsWriting(t, d) /\ \A e \in 1..Len(stack[t]) : e > d => IsWaiting(t, e)

\* A call that waits in a handler, or returns, does not have the mutex.
LEMMA HeldAtTop ==
  ASSUME LogInv, HeldInv, NEW t \in Thread, mutex = t
  PROVE  /\ stack[t] # <<>>
         /\ Top(t).pc \in Writing \/ (SelfBlocked(t) /\ Top(t).job \in Signal)
<1>1. stack[t] \in Seq(Call)
  BY DEF LogInv, TypeOK
<1>2. PICK d \in 1..Len(stack[t]) :
        IsWriting(t, d) /\ \A e \in 1..Len(stack[t]) : e > d => IsWaiting(t, e)
  BY DEF HeldInv
<1>3. stack[t] # <<>> /\ Len(stack[t]) \in 1..Len(stack[t]) /\ d \in Nat
  BY <1>1, <1>2
<1>4. CASE d = Len(stack[t])
  BY <1>2, <1>3, <1>4 DEF IsWriting, Top
<1>5. CASE d # Len(stack[t])
  <2>1. Len(stack[t]) > d
    BY <1>1, <1>2, <1>5
  <2>2. IsWaiting(t, Len(stack[t]))
    BY <1>2, <1>3, <2>1
  <2> QED BY <1>3, <2>2 DEF IsWaiting, SelfBlocked, At, Top
<1> QED BY <1>3, <1>4, <1>5

\* A call that is entered on top of the writing one is a signal handler's.
LEMMA EnterHeld ==
  ASSUME LogInv, HeldInv, NEW t \in Thread, NEW job \in Job,
         NEW name \in AdapterName \cup {NoName}, job = "event" <=> name # NoName,
         Enter(t, job, name), UNCHANGED mutex, stack[t] = <<>> \/ job \in Signal
  PROVE  HeldInv'
<1> SUFFICES ASSUME NEW u \in Thread, mutex' = u
             PROVE  \E d \in 1..Len(stack'[u]) :
                      /\ IsWriting(u, d)'
                      /\ \A e \in 1..Len(stack'[u]) : e > d => IsWaiting(u, e)'
  BY DEF HeldInv
<1>1. stack \in [Thread -> Seq(Call)]
  BY DEF LogInv, TypeOK
<1>2. /\ Len(stack'[t]) = Len(stack[t]) + 1
      /\ \A d \in 1..Len(stack[t]) : stack'[t][d] = stack[t][d]
      /\ stack'[t][Len(stack[t]) + 1].pc = "lock"
      /\ stack'[t][Len(stack[t]) + 1].job = job
      /\ \A v \in Thread \ {t} : stack'[v] = stack[v]
  BY <1>1, EnterFacts
<1>3. stack[u] # <<>>
  BY HeldAtTop
<1>4. PICK d \in 1..Len(stack[u]) :
        IsWriting(u, d) /\ \A e \in 1..Len(stack[u]) : e > d => IsWaiting(u, e)
  BY DEF HeldInv
<1>5. CASE u # t
  BY <1>2, <1>4, <1>5 DEF IsWriting, IsWaiting
<1>6. CASE u = t
  <2>1. job \in Signal /\ Len(stack[t]) \in Nat
    BY <1>1, <1>3, <1>6
  <2>2. d \in 1..Len(stack'[t]) /\ IsWriting(t, d)'
    BY <1>2, <1>4, <1>6, <2>1 DEF IsWriting
  <2>3. ASSUME NEW e \in 1..Len(stack'[t]), e > d PROVE IsWaiting(t, e)'
    <3>1. CASE e \in 1..Len(stack[t])
      BY <1>2, <1>4, <1>6, <2>3, <3>1 DEF IsWaiting
    <3>2. CASE e \notin 1..Len(stack[t])
      <4>1. e = Len(stack[t]) + 1
        BY <1>2, <2>1, <3>2
      <4> QED BY <1>2, <2>1, <4>1 DEF IsWaiting
    <3> QED BY <3>1, <3>2
  <2> QED BY <1>6, <2>2, <2>3
<1> QED BY <1>5, <1>6

\* The calls' own steps.
LEMMA CallStepHeld ==
  ASSUME LogInv, HeldInv, NEW t \in Thread, CallStep(t)
  PROVE  HeldInv'
<1> DEFINE n == Len(stack[t])
<1>1. stack \in [Thread -> Seq(Call)] /\ stack[t] # <<>> /\ n \in 1..n
  <2>1. stack \in [Thread -> Seq(Call)] /\ stack[t] # <<>>
    BY DEF CallStep, Lock, Header, Time, Text, Flag, At, LogInv, TypeOK
  <2> QED BY <2>1
<1>2. ASSUME mutex' = t, NEW p \in Writing, Goto(t, p),
             p = "header" => Top(t).job = "event"
      PROVE  HeldInv'
  <2>1. Len(stack'[t]) = n /\ stack'[t][n].pc = p
    BY <1>1, <1>2, GotoFacts DEF Writing, Pc
  <2>2. n \in 1..Len(stack'[t]) /\ IsWriting(t, n)'
    BY <1>1, <1>2, <2>1 DEF IsWriting
  <2>3. \A e \in 1..Len(stack'[t]) : ~(e > n)
    BY <1>1, <2>1
  <2> QED BY <1>2, <2>2, <2>3 DEF HeldInv
<1>3. CASE Lock(t)
  <2>1. mutex' = t /\ Goto(t, IF Top(t).job = "event" THEN "header" ELSE "time")
    BY <1>3 DEF Lock
  <2> QED BY <1>2, <2>1 DEF Writing
<1>4. CASE Header(t)
  <2>1. mutex' = t /\ Goto(t, "time")
    BY <1>4, WritingFacts DEF Header, Writing
  <2> QED BY <1>2, <2>1 DEF Writing
<1>5. CASE Time(t)
  <2>1. mutex' = t /\ Goto(t, "text")
    BY <1>5, WritingFacts DEF Time, Writing
  <2> QED BY <1>2, <2>1 DEF Writing
<1>6. CASE Text(t)
  BY <1>6 DEF Text, HeldInv
<1>7. CASE Flag(t)
  <2>1. Top(t).pc = "flag" /\ UNCHANGED mutex /\ Leave(t)
    BY <1>7 DEF Flag, At
  <2>2. mutex # t
    BY <2>1, HeldAtTop DEF Writing, SelfBlocked, At
  <2>3. \A u \in Thread \ {t} : stack'[u] = stack[u]
    BY <1>1, <2>1, LeaveFacts
  <2> QED BY <2>1, <2>2, <2>3 DEF HeldInv, IsWriting, IsWaiting
<1> QED BY <1>3, <1>4, <1>5, <1>6, <1>7 DEF CallStep

LEMMA NextHeld == LogInv /\ HeldInv /\ [Next]_vars => HeldInv'
<1> SUFFICES ASSUME LogInv, HeldInv, [Next]_vars PROVE HeldInv'
    OBVIOUS
<1>1. CASE \E t \in Thread : CallStep(t)
  BY <1>1, CallStepHeld
<1>2. CASE Enters
  BY <1>2, EnterHeld DEF Enters
<1>3. CASE Quiet
  BY <1>3 DEF Quiet, HeldInv, IsWriting, IsWaiting
<1> QED BY <1>1, <1>2, <1>3, StepKinds

LEMMA HeldInvariant == Spec => []HeldInv
<1>1. Init => HeldInv
  BY DEF Init, HeldInv
<1> QED BY <1>1, NextHeld, LogInvariant, PTL DEF Spec

(***************************************************************************)
(* Nobody keeps the mutex of the log but in a call that waits for nothing, *)
(* or in a signal handler that waits for the thread it interrupted.        *)
(***************************************************************************)
THEOREM OnlySignalsBlock == Spec => []HolderGoesOn
<1>1. LogInv /\ HeldInv => HolderGoesOn
  BY HeldAtTop DEF HolderGoesOn
<1> QED BY <1>1, LogInvariant, HeldInvariant, PTL

\* Nothing moves the handler that waits, or writes, when t blocks itself.
LEMMA BlockedStays ==
  ASSUME LogInv, [Next]_vars, NEW t \in Thread, SelfBlocked(t)
  PROVE  SelfBlocked(t)' /\ UNCHANGED output
<1>1. /\ stack \in [Thread -> Seq(Call)] /\ stack[t] # <<>> /\ mutex = t
      /\ Top(t).pc = "lock" /\ mutex # Nobody
  BY DEF SelfBlocked, At, LogInv, TypeOK
<1>2. ASSUME UNCHANGED <<mutex, output>>, stack'[t] = stack[t]
      PROVE  SelfBlocked(t)' /\ UNCHANGED output
  BY <1>2 DEF SelfBlocked, At, Top
<1>3. ASSUME NEW u \in Thread, CallStep(u)
      PROVE  SelfBlocked(t)' /\ UNCHANGED output
  <2>1. ASSUME NEW p \in Writing, At(u, p) PROVE FALSE
    <3>1. mutex = u /\ Top(u).pc = p
      BY <2>1, WritingFacts
    <3> QED BY <1>1, <3>1 DEF Writing
  <2>2. Flag(u)
    BY <1>1, <1>3, <2>1 DEF CallStep, Lock, Header, Time, Text, Writing
  <2>3. u # t /\ stack[u] # <<>> /\ UNCHANGED <<mutex, output>> /\ Leave(u)
    BY <1>1, <2>2 DEF Flag, At
  <2>4. stack'[t] = stack[t]
    BY <1>1, <2>3, LeaveFacts
  <2> QED BY <1>2, <2>3, <2>4
<1>4. ASSUME NEW u \in Thread, NEW job \in Job,
             NEW name \in AdapterName \cup {NoName}, job = "event" <=> name # NoName,
             Enter(u, job, name), UNCHANGED <<mutex, output>>
      PROVE  SelfBlocked(t)' /\ UNCHANGED output
  <2>1. /\ Len(stack'[u]) = Len(stack[u]) + 1
        /\ stack' \in [Thread -> Seq(Call)]
        /\ stack'[u][Len(stack[u]) + 1].pc = "lock"
        /\ \A v \in Thread \ {u} : stack'[v] = stack[v]
    BY <1>1, <1>4, EnterFacts
  <2>2. CASE u # t
    BY <1>2, <1>4, <2>1, <2>2
  <2>3. CASE u = t
    <3>1. stack'[t] # <<>>
      <4>1. Len(stack'[t]) > 0 /\ stack'[t] \in Seq(Call)
        BY <1>1, <2>1, <2>3
      <4> QED BY <4>1
    <3>2. stack'[t][Len(stack'[t])].pc = "lock"
      BY <2>1, <2>3
    <3> QED BY <1>1, <1>4, <3>1, <3>2 DEF SelfBlocked, At, Top
  <2> QED BY <2>2, <2>3
<1>5. CASE Enters
  BY <1>4, <1>5 DEF Enters
<1>6. CASE Quiet
  BY <1>2, <1>6 DEF Quiet
<1> QED BY <1>3, <1>5, <1>6, StepKinds

(***************************************************************************)
(* A handler that waits for the thread it interrupted waits for ever, and  *)
(* nothing is written any more.                                            *)
(***************************************************************************)
THEOREM HangsAreFinal == Spec => HangIsFinal
<1>1. ASSUME LogInv, [Next]_vars
      PROVE  \A t \in Thread :
               SelfBlocked(t) => SelfBlocked(t)' /\ UNCHANGED output /\ ctl' # "done"
  <2>1. LogInv'
    BY <1>1, NextLog
  <2>2. \A t \in Thread : SelfBlocked(t) => SelfBlocked(t)' /\ UNCHANGED output
    BY <1>1, BlockedStays
  <2>3. \A t \in Thread : SelfBlocked(t)' => ctl' # "done"
    BY <2>1 DEF LogInv, GoneAreSilent, SelfBlocked, At
  <2> QED BY <2>2, <2>3
<1> QED BY <1>1, LogInvariant, PTL DEF Spec, HangIsFinal
=============================================================================
