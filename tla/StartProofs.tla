----------------------------- MODULE StartProofs -----------------------------
(***************************************************************************)
(* Proofs about Start for any interfaces and ports, any number of          *)
(* arguments and any length of the adapters list.                          *)
(***************************************************************************)
EXTENDS Start, TLAPS

USE InterfaceAssumption, SizeAssumption, PortAssumption, BoundAssumption

-----------------------------------------------------------------------------
(* The inductive invariant.                                                *)

\* What was taken from the command line while no option was.
ArgumentsInv ==
  /\ pc \in {"args", "entries", "check"} /\ ~daemon =>
       args = IF loaded THEN <<"file">> ELSE <<>>
  /\ pc \in {"build", "run"} => args = <<"file">>
  /\ pc \in {"entries", "check", "build", "run"} => loaded

\* The pool follows the file, entry by entry.
PoolInv ==
  /\ Len(pool) <= Len(file)
  /\ pc # "end" => Len(pool) = Len(file)
  /\ ~loaded => Len(pool) = 0
  /\ pc = "args" /\ loaded => Len(pool) > 0
  /\ \A j \in 1..Len(pool) :
       /\ file[j].fault = "none"
       /\ pool[j] = [ip |-> file[j].interface, port |-> StoredPort(file[j].port)]

\* The adapters built are the first ones of the pool.
BoundInv ==
  /\ Len(bound) <= Len(pool)
  /\ pc \in {"args", "entries", "check"} => Len(bound) = 0
  /\ pc = "build" => Len(bound) < Len(pool)
  /\ pc = "run" => Len(bound) = Len(pool)
  /\ \A j \in 1..Len(bound) : bound[j] = pool[j] /\ pool[j].port < PortSize

\* The adapters of the pool were compared with each other, the last one up to
\* the position that check_bindings has reached.
ComparedInv ==
  /\ pc = "check" => c \in 1..(Len(pool) - 1)
  /\ pc # "end" =>
       \A i, j \in 1..Len(pool) :
         i < j /\ (pc = "check" /\ j = Len(pool) => i < c) =>
           ~compare_binding(pool[i], pool[j])

StartInv == TypeOK /\ ArgumentsInv /\ PoolInv /\ BoundInv /\ ComparedInv

-----------------------------------------------------------------------------
(* The operators.                                                          *)

LEMMA StoredPortFacts ==
  ASSUME NEW m \in Nat
  PROVE  /\ StoredPort(m) \in 0..(WordSize - 1)
         /\ m < WordSize => StoredPort(m) = m
  BY DEF StoredPort

LEMMA BindingOf ==
  ASSUME NEW e \in Entry
  PROVE  [ip |-> e.interface, port |-> StoredPort(e.port)] \in Binding
<1>1. e.interface \in Interface /\ e.port \in Nat
  BY DEF Entry
<1> QED BY <1>1, StoredPortFacts DEF Binding

LEMMA AppendFacts ==
  ASSUME NEW S, NEW s \in Seq(S), NEW e \in S
  PROVE  /\ Append(s, e) \in Seq(S) /\ Len(Append(s, e)) = Len(s) + 1
         /\ Append(s, e)[Len(s) + 1] = e
         /\ \A i \in 1..Len(s) : Append(s, e)[i] = s[i]
  OBVIOUS

LEMMA compare_binding_symmetric ==
  ASSUME NEW b, NEW d
  PROVE  compare_binding(b, d) <=> compare_binding(d, b)
  BY DEF compare_binding

-----------------------------------------------------------------------------
LEMMA InitStart == Init => StartInv
<1> SUFFICES ASSUME Init PROVE StartInv
    OBVIOUS
<1> USE DEF Init
<1>1. daemon \in BOOLEAN /\ loaded \in BOOLEAN
  BY Zenon
<1>2. TypeOK
  BY <1>1 DEF TypeOK
<1>3. ArgumentsInv /\ PoolInv /\ BoundInv /\ ComparedInv
  BY DEF ArgumentsInv, PoolInv, BoundInv, ComparedInv
<1> QED BY <1>2, <1>3 DEF StartInv

\* Steps that leave the file, the pool and the adapters as they are.
Outside ==
  Option \/ BadArgument \/ EndOfArguments \/ EndOfFile \/ BuildFails \/ UNCHANGED vars

LEMMA OutsideStep ==
  ASSUME StartInv, Outside
  PROVE  StartInv'
<1> USE DEF Take, End, Goto
<1>0. UNCHANGED <<file, pool, c, bound>>
  BY DEF Outside, Option, BadArgument, EndOfArguments, EndOfFile, BuildFails, vars
<1>1. TypeOK'
  <2>1. daemon' \in BOOLEAN /\ loaded' \in BOOLEAN
    BY Zenon DEF StartInv, TypeOK, Outside, Option, BadArgument, EndOfArguments,
                 EndOfFile, BuildFails, vars
  <2>2. args' \in Seq(Argument)
    <3>1. args \in Seq(Argument)
      BY DEF StartInv, TypeOK
    <3>2. args' = args \/ \E arg \in Argument : args' = Append(args, arg)
      BY DEF Argument, Outside, Option, BadArgument, EndOfArguments, EndOfFile,
             BuildFails, vars
    <3> QED BY <3>1, <3>2, AppendFacts
  <2>3. /\ pc' \in {"args", "entries", "check", "build", "run", "end"}
        /\ status' \in {"none", "success", "failure"}
    BY DEF StartInv, TypeOK, Outside, Option, BadArgument, EndOfArguments,
           EndOfFile, BuildFails, vars
  <2> QED BY <1>0, <2>1, <2>2, <2>3 DEF StartInv, TypeOK
<1>2. ArgumentsInv'
  <2>1. CASE Option \/ BadArgument
    <3>1. pc' = "end" \/ (pc' = "args" /\ daemon')
      BY <2>1, Zenon DEF Option, BadArgument
    <3> QED BY <3>1 DEF ArgumentsInv
  <2>2. CASE EndOfArguments
    <3>1. UNCHANGED <<args, daemon, loaded>>
      BY <2>2 DEF EndOfArguments
    <3>2. pc' = "end" \/ (pc' = "build" /\ pc = "args" /\ loaded /\ ~daemon)
      BY <2>2 DEF EndOfArguments
    <3>3. CASE pc' = "end"
      BY <3>3 DEF ArgumentsInv
    <3>4. CASE pc' = "build" /\ pc = "args" /\ loaded /\ ~daemon
      BY <3>1, <3>4 DEF StartInv, ArgumentsInv
    <3> QED BY <3>2, <3>3, <3>4
  <2>3. CASE EndOfFile \/ BuildFails
    <3>1. UNCHANGED <<args, daemon, loaded>>
      BY <2>3 DEF EndOfFile, BuildFails
    <3>2. pc' = "end" \/ (pc' = "args" /\ pc = "entries")
      BY <2>3 DEF EndOfFile, BuildFails
    <3> QED BY <3>1, <3>2 DEF StartInv, ArgumentsInv
  <2>4. CASE UNCHANGED vars
    BY <2>4 DEF StartInv, ArgumentsInv, vars
  <2> QED BY <2>1, <2>2, <2>3, <2>4 DEF Outside
<1>3. PoolInv'
  <2>1. /\ pc' # "end" => pc # "end"
        /\ ~loaded' => ~loaded
        /\ pc' = "args" /\ loaded' =>
             (pc = "args" /\ loaded) \/ (pc = "entries" /\ file # <<>>)
    <3>1. /\ loaded' = loaded
          /\ \/ pc' = "end" \/ pc' = pc
             \/ pc' = "build" /\ pc = "args"
             \/ pc' = "args" /\ pc = "entries" /\ file # <<>>
      BY DEF Outside, Option, BadArgument, EndOfArguments, EndOfFile, BuildFails, vars
    <3> QED BY <3>1
  <2>2. file # <<>> /\ pc = "entries" => Len(pool) > 0
    BY DEF StartInv, TypeOK, PoolInv
  <2> QED BY <1>0, <2>1, <2>2 DEF StartInv, PoolInv
<1>4. BoundInv'
  BY <1>0 DEF StartInv, BoundInv, PoolInv, TypeOK, Outside, Option, BadArgument,
              EndOfArguments, EndOfFile, BuildFails, vars
<1>5. ComparedInv'
  <2>1. pc' # "end" => pc # "end" /\ (pc = "check" <=> pc' = "check")
    BY DEF Outside, Option, BadArgument, EndOfArguments, EndOfFile, BuildFails, vars
  <2> QED BY <1>0, <2>1 DEF StartInv, ComparedInv
<1> QED BY <1>1, <1>2, <1>3, <1>4, <1>5 DEF StartInv

LEMMA FileArgumentStep ==
  ASSUME StartInv, FileArgument
  PROVE  StartInv'
<1> USE DEF FileArgument, Take, Goto
<1>0. UNCHANGED <<file, pool, c, bound>>
  OBVIOUS
<1>1. TypeOK'
  <2>1. daemon' \in BOOLEAN /\ loaded' \in BOOLEAN
    BY Zenon DEF StartInv, TypeOK
  <2>2. args' \in Seq(Argument)
    BY AppendFacts DEF StartInv, TypeOK, Argument
  <2> QED BY <2>1, <2>2 DEF StartInv, TypeOK
<1>2. ArgumentsInv'
  <2>1. ~daemon => args = <<>>
    BY DEF StartInv, ArgumentsInv
  <2>2. Append(<<>>, "file") = <<"file">>
    OBVIOUS
  <2>3. ~daemon => args' = <<"file">>
    BY <2>1, <2>2
  <2>4. pc' = "entries" /\ loaded' /\ daemon' = daemon
    BY Zenon
  <2> QED BY <2>3, <2>4 DEF ArgumentsInv
<1>3. PoolInv'
  BY DEF StartInv, PoolInv
<1>4. BoundInv'
  BY DEF StartInv, BoundInv
<1>5. ComparedInv'
  BY DEF StartInv, ComparedInv
<1> QED BY <1>1, <1>2, <1>3, <1>4, <1>5 DEF StartInv

LEMMA ReadEntryStep ==
  ASSUME StartInv, NEW e \in Entry, ReadEntry(e)
  PROVE  StartInv'
<1> DEFINE b == [ip |-> e.interface, port |-> StoredPort(e.port)]
<1>0. /\ file \in Seq(Entry) /\ pool \in Seq(Binding) /\ bound \in Seq(Binding)
      /\ pc = "entries" /\ loaded /\ Len(pool) = Len(file) /\ Len(bound) = 0
  BY DEF StartInv, TypeOK, ArgumentsInv, PoolInv, BoundInv, ReadEntry
<1>1. /\ file' = Append(file, e) /\ file' \in Seq(Entry) /\ Len(file') = Len(file) + 1
      /\ file'[Len(file) + 1] = e /\ \A j \in 1..Len(file) : file'[j] = file[j]
      /\ UNCHANGED <<args, daemon, loaded, bound>>
  BY <1>0, AppendFacts DEF ReadEntry
<1>2. CASE e.fault # "none"
  <2>1. pc' = "end" /\ status' = "failure" /\ UNCHANGED <<pool, c>>
    BY <1>2 DEF ReadEntry, End
  <2>2. TypeOK'
    BY <1>1, <2>1 DEF StartInv, TypeOK
  <2>3. ArgumentsInv'
    BY <2>1 DEF ArgumentsInv
  <2>4. PoolInv'
    BY <1>0, <1>1, <2>1 DEF StartInv, PoolInv
  <2>5. BoundInv' /\ ComparedInv'
    BY <1>0, <1>1, <2>1 DEF StartInv, BoundInv, ComparedInv
  <2> QED BY <2>2, <2>3, <2>4, <2>5 DEF StartInv
<1>3. CASE e.fault = "none"
  <2>1. /\ pool' = Append(pool, b) /\ c' = 1 /\ status' = status
        /\ pc' = IF pool = <<>> THEN "entries" ELSE "check"
    BY <1>3 DEF ReadEntry, Goto
  <2>2. b \in Binding
    BY BindingOf
  <2> HIDE DEF b
  <2>3. /\ pool' \in Seq(Binding) /\ Len(pool') = Len(pool) + 1
        /\ pool'[Len(pool) + 1] = b /\ \A j \in 1..Len(pool) : pool'[j] = pool[j]
    BY <1>0, <2>1, <2>2, AppendFacts
  <2>4. Len(pool) \in Nat /\ (pool = <<>> <=> Len(pool) = 0)
    BY <1>0
  <2>5. TypeOK'
    <3>1. daemon' \in BOOLEAN /\ loaded' \in BOOLEAN
      BY <1>1, Zenon DEF StartInv, TypeOK
    <3> QED BY <1>0, <1>1, <2>1, <2>3, <2>4, <3>1 DEF StartInv, TypeOK
  <2>6. ArgumentsInv'
    <3>1. pc' \in {"entries", "check"}
      BY <2>1
    <3> QED BY <1>0, <1>1, <3>1 DEF StartInv, ArgumentsInv
  <2>7. PoolInv'
    BY <1>0, <1>1, <1>3, <2>1, <2>3, <2>4 DEF StartInv, PoolInv, b
  <2>8. BoundInv'
    BY <1>0, <1>1, <2>1, <2>3, <2>4 DEF BoundInv
  <2>9. ComparedInv'
    <3>1. \A i, j \in 1..Len(pool) : i < j => ~compare_binding(pool[i], pool[j])
      BY <1>0 DEF StartInv, ComparedInv
    <3>2. pc' = "check" => 1 \in 1..(Len(pool') - 1)
      BY <2>1, <2>3, <2>4
    <3> SUFFICES ASSUME NEW i \in 1..Len(pool'), NEW j \in 1..Len(pool'), i < j,
                        pc' = "check" /\ j = Len(pool') => i < c'
                 PROVE  ~compare_binding(pool'[i], pool'[j])
      BY <2>1, <3>2 DEF ComparedInv
    <3>3. j # Len(pool')
      BY <2>1, <2>3, <2>4
    <3>4. i \in 1..Len(pool) /\ j \in 1..Len(pool)
      BY <2>3, <2>4, <3>3
    <3> QED BY <2>3, <3>1, <3>4
  <2> QED BY <2>5, <2>6, <2>7, <2>8, <2>9 DEF StartInv
<1> QED BY <1>2, <1>3

LEMMA CheckBindingStep ==
  ASSUME StartInv, CheckBinding
  PROVE  StartInv'
<1> USE DEF CheckBinding, End, Goto
<1>0. /\ c \in 1..(Len(pool) - 1) /\ Len(pool) \in Nat /\ pc = "check" /\ Len(bound) = 0
      /\ UNCHANGED <<args, daemon, loaded, file, pool, bound>>
  BY DEF StartInv, TypeOK, ComparedInv, BoundInv
<1>1. TypeOK'
  <2>1. daemon' \in BOOLEAN /\ loaded' \in BOOLEAN
    BY Zenon DEF StartInv, TypeOK
  <2> QED BY <1>0, <2>1 DEF StartInv, TypeOK
<1>2. ArgumentsInv'
  BY DEF StartInv, ArgumentsInv
<1>3. PoolInv'
  BY <1>0 DEF StartInv, PoolInv
<1>4. BoundInv'
  BY <1>0 DEF StartInv, BoundInv
<1>5. ComparedInv'
  <2>1. CASE compare_binding(pool[Len(pool)], pool[c])
    <3>1. pc' = "end"
      BY <2>1
    <3> QED BY <3>1 DEF ComparedInv
  <2>2. CASE ~compare_binding(pool[Len(pool)], pool[c])
    <3>1. /\ c' = c + 1 /\ pc' = IF c + 1 < Len(pool) THEN "check" ELSE "entries"
          /\ pool' = pool
      BY <2>2
    <3>2. ~compare_binding(pool[c], pool[Len(pool)])
      BY <2>2, compare_binding_symmetric
    <3>3. \A i, j \in 1..Len(pool) :
            i < j /\ (j = Len(pool) => i < c) => ~compare_binding(pool[i], pool[j])
      BY <1>0 DEF StartInv, ComparedInv
    <3> SUFFICES ASSUME NEW i \in 1..Len(pool), NEW j \in 1..Len(pool), i < j,
                        pc' = "check" /\ j = Len(pool) => i < c'
                 PROVE  ~compare_binding(pool[i], pool[j])
      BY <1>0, <3>1 DEF ComparedInv
    <3>4. j = Len(pool) => i <= c
      BY <1>0, <3>1
    <3>5. CASE j = Len(pool) /\ i = c
      BY <3>2, <3>5
    <3>6. CASE ~(j = Len(pool) /\ i = c)
      BY <1>0, <3>3, <3>4, <3>6
    <3> QED BY <3>5, <3>6
  <2> QED BY <2>1, <2>2
<1> QED BY <1>1, <1>2, <1>3, <1>4, <1>5 DEF StartInv

LEMMA BuildAdapterStep ==
  ASSUME StartInv, BuildAdapter
  PROVE  StartInv'
<1> DEFINE b == pool[Len(bound) + 1]
<1>0. /\ pool \in Seq(Binding) /\ bound \in Seq(Binding) /\ Len(bound) < Len(pool)
      /\ Len(pool) \in Nat /\ Len(bound) \in Nat /\ pc = "build"
      /\ UNCHANGED <<args, daemon, loaded, file, pool, c, status>>
  BY DEF StartInv, TypeOK, BoundInv, BuildAdapter, Goto
<1>1. b \in Binding /\ b.port < PortSize /\ bound' = Append(bound, b)
      /\ pc' = IF Len(bound) + 1 < Len(pool) THEN "build" ELSE "run"
  BY <1>0 DEF BuildAdapter, Goto
<1> HIDE DEF b
<1>2. /\ bound' \in Seq(Binding) /\ Len(bound') = Len(bound) + 1
      /\ bound'[Len(bound) + 1] = b /\ \A i \in 1..Len(bound) : bound'[i] = bound[i]
  BY <1>0, <1>1, AppendFacts
<1>3. TypeOK'
  <2>1. daemon' \in BOOLEAN /\ loaded' \in BOOLEAN
    BY <1>0, Zenon DEF StartInv, TypeOK
  <2> QED BY <1>0, <1>1, <1>2, <2>1 DEF StartInv, TypeOK
<1>4. ArgumentsInv'
  BY <1>0, <1>1 DEF StartInv, ArgumentsInv
<1>5. PoolInv'
  BY <1>0, <1>1 DEF StartInv, PoolInv
<1>6. BoundInv'
  BY <1>0, <1>1, <1>2 DEF StartInv, BoundInv, b
<1>7. ComparedInv'
  BY <1>0, <1>1 DEF StartInv, ComparedInv
<1> QED BY <1>3, <1>4, <1>5, <1>6, <1>7 DEF StartInv

-----------------------------------------------------------------------------
\* The invariant of the start.
THEOREM StartInvariant == Spec => []StartInv
<1>1. StartInv /\ [Next]_vars => StartInv'
  BY OutsideStep, FileArgumentStep, ReadEntryStep, CheckBindingStep, BuildAdapterStep
     DEF Next, Outside, Ended
<1> QED BY <1>1, InitStart, PTL DEF Spec

\* Type correctness: a port in the pool always fits port_int.
THEOREM StartTypeCorrect == Spec => []TypeOK
<1>1. StartInv => TypeOK
  BY DEF StartInv
<1> QED BY <1>1, StartInvariant, PTL

(***************************************************************************)
(* Comparing each adapter, when it is added, with the earlier ones         *)
(* compares every two adapters of the file.                                *)
(***************************************************************************)
THEOREM BindingsDistinct == Spec => []NoSharedBinding
<1>1. StartInv => NoSharedBinding
  <2> SUFFICES ASSUME StartInv, pc \in {"args", "build", "run"},
                      NEW i \in 1..Len(pool), NEW j \in 1..Len(pool), i # j
               PROVE  ~compare_binding(pool[i], pool[j])
    BY DEF NoSharedBinding
  <2>1. CASE i < j
    BY <2>1 DEF StartInv, ComparedInv
  <2>2. CASE j < i
    <3>1. ~compare_binding(pool[j], pool[i])
      BY <2>2 DEF StartInv, ComparedInv
    <3> QED BY <3>1, compare_binding_symmetric
  <2> QED BY <2>1, <2>2
<1> QED BY <1>1, StartInvariant, PTL

\* The brokers that run are those of one file without a fault.
THEOREM StartAsTold == Spec => []RunsAsTold
<1>1. StartInv => RunsAsTold
  <2> SUFFICES ASSUME StartInv, pc = "run" PROVE RunsAsTold
    BY DEF RunsAsTold
  <2>1. args = <<"file">>
    BY DEF StartInv, ArgumentsInv
  <2>2. Len(bound) = Len(file) /\ Len(pool) = Len(file)
    BY DEF StartInv, BoundInv, PoolInv
  <2>3. ASSUME NEW j \in 1..Len(file)
        PROVE  file[j].fault = "none" /\ bound[j].ip = file[j].interface
    <3>1. bound[j] = pool[j]
      BY <2>2 DEF StartInv, BoundInv
    <3>2. /\ file[j].fault = "none"
          /\ pool[j] = [ip |-> file[j].interface, port |-> StoredPort(file[j].port)]
      BY <2>2 DEF StartInv, PoolInv
    <3> QED BY <3>1, <3>2
  <2> QED BY <2>1, <2>2, <2>3 DEF RunsAsTold
<1> QED BY <1>1, StartInvariant, PTL

\* No adapter is bound to a port other than the configured one, as long as
\* the file's numbers fit port_int.
THEOREM PortsKept == Spec => []PortAsConfigured
<1>1. StartInv => PortAsConfigured
  <2> SUFFICES ASSUME StartInv, NEW j \in 1..Len(bound)
               PROVE  bound[j].port < PortSize
                      /\ (file[j].port < WordSize => bound[j].port = file[j].port)
    BY DEF PortAsConfigured
  <2>1. j \in 1..Len(pool) /\ j \in 1..Len(file) /\ file[j] \in Entry
    BY DEF StartInv, TypeOK, BoundInv, PoolInv
  <2>2. /\ bound[j] = pool[j] /\ pool[j].port < PortSize
        /\ pool[j].port = StoredPort(file[j].port)
    <3>1. bound[j] = pool[j] /\ pool[j].port < PortSize
      BY DEF StartInv, BoundInv
    <3>2. pool[j] = [ip |-> file[j].interface, port |-> StoredPort(file[j].port)]
      BY <2>1 DEF StartInv, PoolInv
    <3> QED BY <3>1, <3>2
  <2>3. file[j].port \in Nat
    BY <2>1 DEF Entry
  <2> QED BY <2>2, <2>3, StoredPortFacts
<1> QED BY <1>1, StartInvariant, PTL
-----------------------------------------------------------------------------
(* What is refused, and what is not.                                       *)

\* The arguments that led to where the process is, and why it ended.
RefusedInv ==
  /\ loaded => args # <<>>
  /\ daemon => \E j \in 1..Len(args) : args[j] = "--daemon"
  /\ pc = "end" => ~(args = <<"file">> /\ SoundFile /\ ~HarmlessShare)

LEMMA TakeFacts ==
  ASSUME StartInv, NEW arg \in Argument, Take(arg)
  PROVE  /\ args' # <<>>
         /\ \E j \in 1..Len(args') : args'[j] = arg
         /\ \A x : (\E j \in 1..Len(args) : args[j] = x)
                     => \E j \in 1..Len(args') : args'[j] = x
         /\ args' = <<"file">> => args = <<>> /\ arg = "file"
<1>1. args \in Seq(Argument) /\ args' = Append(args, arg)
  BY DEF StartInv, TypeOK, Take
<1>2. /\ Len(args') = Len(args) + 1 /\ args'[Len(args) + 1] = arg
      /\ \A i \in 1..Len(args) : args'[i] = args[i]
      /\ Len(args) \in Nat
  BY <1>1, AppendFacts
<1>3. args' # <<>>
  BY <1>1, <1>2
<1>4. Len(args) + 1 \in 1..Len(args') /\ 1..Len(args) \subseteq 1..Len(args')
  BY <1>2
<1>5. ASSUME args' = <<"file">> PROVE args = <<>> /\ arg = "file"
  <2>1. Len(args') = 1
    BY <1>5
  <2>2. Len(args) = 0
    BY <1>2, <2>1
  <2>3. args = <<>>
    BY <1>1, <2>2
  <2>4. arg = args'[1]
    BY <1>2, <2>2
  <2> QED BY <1>5, <2>3, <2>4
<1> QED BY <1>2, <1>3, <1>4, <1>5

\* An argument ends the process unless it is taken for what it is.
LEMMA ArgumentRefused ==
  ASSUME StartInv, RefusedInv, Option \/ FileArgument \/ BadArgument
  PROVE  RefusedInv'
<1>1. PICK arg \in Argument : /\ Take(arg)
                              /\ pc' = "end" => arg # "file" \/ loaded
                              /\ daemon' => daemon \/ arg = "--daemon"
  <2>1. CASE Option
    <3>1. /\ "--daemon" \in Argument /\ "--help" \in Argument /\ "unknown" \in Argument
          /\ "--daemon" # "file" /\ "--help" # "file" /\ "unknown" # "file"
      BY DEF Argument
    <3>2. CASE Take("--daemon") /\ pc' = "args"
      BY <3>1, <3>2, Zenon
    <3>3. CASE Take("--help") /\ daemon' = daemon /\ pc' = "end"
      <4>1. daemon' => daemon
        BY <3>3, Zenon
      <4> QED BY <3>1, <3>3, <4>1, Zenon
    <3>4. CASE Take("unknown") /\ daemon' = daemon /\ pc' = "end"
      <4>1. daemon' => daemon
        BY <3>4, Zenon
      <4> QED BY <3>1, <3>4, <4>1, Zenon
    <3> QED BY <2>1, <3>2, <3>3, <3>4, Zenon DEF Option, End, Goto
  <2>2. CASE FileArgument
    <3>1. "file" \in Argument /\ Take("file") /\ daemon' = daemon /\ pc' # "end"
      BY <2>2 DEF FileArgument, Goto, Argument
    <3> QED BY <3>1, Zenon
  <2>3. CASE BadArgument
    BY <2>3, Zenon DEF BadArgument, End, Argument
  <2> QED BY <2>1, <2>2, <2>3
<1>2. /\ args' # <<>>
      /\ args' = <<"file">> => args = <<>> /\ arg = "file"
      /\ \E j \in 1..Len(args') : args'[j] = arg
      /\ (\E j \in 1..Len(args) : args[j] = "--daemon")
            => \E j \in 1..Len(args') : args'[j] = "--daemon"
  BY <1>1, TakeFacts
<1>4. daemon' => \E j \in 1..Len(args') : args'[j] = "--daemon"
  BY <1>1, <1>2, Zenon DEF RefusedInv
<1>5. pc' = "end" => args' # <<"file">>
  BY <1>1, <1>2, Zenon DEF RefusedInv
<1> QED BY <1>2, <1>4, <1>5, Zenon DEF RefusedInv

\* How the pool and a sound file correspond.
LEMMA SoundPool ==
  ASSUME StartInv, SoundFile, NEW j \in 1..Len(pool)
  PROVE  /\ j \in 1..Len(file) /\ file[j].port < PortSize /\ file[j].port \in Nat
         /\ pool[j] = Configured(j) /\ Configured(j) \notin Refused
<1>1. j \in 1..Len(file) /\ file[j] \in Entry
  BY DEF StartInv, TypeOK, PoolInv
<1>2. /\ file[j].port \in Nat /\ file[j].port < PortSize
      /\ Configured(j) \notin Refused
  BY <1>1 DEF Entry, SoundFile
<1>3. StoredPort(file[j].port) = file[j].port
  BY <1>2, StoredPortFacts
<1> QED BY <1>1, <1>2, <1>3 DEF StartInv, PoolInv, Configured

\* Two of its entries that check_bindings takes to collide share harmlessly.
LEMMA SharedIsHarmless ==
  ASSUME SoundFile, NEW i \in 1..Len(file), NEW j \in 1..Len(file), i # j,
         compare_binding(Configured(i), Configured(j))
  PROVE  HarmlessShare
<1>1. ~Overlap(Configured(i), Configured(j))
  BY DEF SoundFile
<1>2. /\ file[i].port = file[j].port
      /\ file[i].interface = file[j].interface \/ file[i].interface = Lo
           \/ file[j].interface = Lo
  BY DEF compare_binding, Configured
<1>3. file[i].interface = file[j].interface => file[i].port = 0
  BY <1>1, <1>2 DEF Overlap, Configured
<1> QED BY <1>2, <1>3 DEF HarmlessShare

\* With a sound file, the only argument, no step ends the process.
LEMMA SoundGoesOn ==
  ASSUME StartInv, RefusedInv, SoundFile', ~HarmlessShare', args = <<"file">>,
         EndOfArguments \/ (\E e \in Entry : ReadEntry(e))
           \/ CheckBinding \/ EndOfFile \/ BuildAdapter \/ BuildFails
  PROVE  pc' # "end"
<1> DEFINE FileStays == UNCHANGED file
<1>0. FileStays => SoundFile /\ ~HarmlessShare
  BY DEF SoundFile, HarmlessShare, Overlap, Configured
<1> HIDE DEF FileStays
<1>1. CASE EndOfArguments
  <2>1. ~daemon
    BY DEF RefusedInv
  <2>2. loaded
    BY <1>1, <2>1 DEF EndOfArguments, StartInv, ArgumentsInv
  <2> QED BY <1>1, <2>1, <2>2 DEF EndOfArguments, Goto
<1>2. ASSUME NEW e \in Entry, ReadEntry(e) PROVE pc' # "end"
  <2>1. file' = Append(file, e) /\ file \in Seq(Entry)
    BY <1>2 DEF ReadEntry, StartInv, TypeOK
  <2>2. Len(file') = Len(file) + 1 /\ Len(file) \in Nat /\ file'[Len(file) + 1] = e
    BY <2>1, AppendFacts
  <2>3. e.fault = "none"
    <3>1. Len(file) + 1 \in 1..Len(file')
      BY <2>2
    <3> QED BY <2>2, <3>1 DEF SoundFile
  <2> QED BY <1>2, <2>3 DEF ReadEntry, Goto
<1>3. CASE CheckBinding
  <2>1. SoundFile /\ ~HarmlessShare
    BY <1>0, <1>3 DEF CheckBinding, FileStays
  <2>2. c \in 1..Len(pool) /\ Len(pool) \in 1..Len(pool) /\ c # Len(pool)
    BY <1>3 DEF CheckBinding, StartInv, TypeOK, ComparedInv
  <2>3. ~compare_binding(pool[Len(pool)], pool[c])
    <3>1. /\ Len(pool) \in 1..Len(file) /\ c \in 1..Len(file)
          /\ pool[Len(pool)] = Configured(Len(pool)) /\ pool[c] = Configured(c)
      BY <2>1, <2>2, SoundPool
    <3> QED BY <2>1, <2>2, <3>1, SharedIsHarmless
  <2> QED BY <1>3, <2>3 DEF CheckBinding, Goto
<1>4. CASE EndOfFile
  BY <1>4 DEF EndOfFile, SoundFile, End, Goto
<1>5. CASE BuildAdapter
  BY <1>5 DEF BuildAdapter, Goto
<1>6. CASE BuildFails
  <2> DEFINE n == Len(bound) + 1
  <2>1. SoundFile
    BY <1>0, <1>6 DEF BuildFails, FileStays
  <2>2. n \in 1..Len(pool) /\ \A j \in 1..Len(bound) : j \in 1..Len(pool) /\ j # n
    BY <1>6 DEF BuildFails, StartInv, TypeOK, BoundInv
  <2> HIDE DEF n
  <2>3. pool[n] = Configured(n) /\ n \in 1..Len(file) /\ pool[n] \notin Refused
        /\ pool[n].port < PortSize /\ pool[n].port \in Nat
    <3>1. /\ n \in 1..Len(file) /\ file[n].port < PortSize /\ file[n].port \in Nat
          /\ pool[n] = Configured(n) /\ Configured(n) \notin Refused
      BY <2>1, <2>2, SoundPool
    <3>2. Configured(n).port = file[n].port
      BY DEF Configured
    <3> QED BY <3>1, <3>2
  <2>4. ASSUME NEW j \in 1..Len(bound) PROVE ~Overlap(pool[n], bound[j])
    <3>1. bound[j] = pool[j]
      BY DEF StartInv, BoundInv
    <3>2. j \in 1..Len(file) /\ pool[j] = Configured(j) /\ j # n
      BY <2>1, <2>2, SoundPool
    <3> QED BY <2>1, <2>3, <3>1, <3>2 DEF SoundFile
  <2>5. Available(pool[n]) /\ ~(pool[n].port >= PortSize)
    BY <2>3, <2>4 DEF Available
  <2> QED BY <1>6, <2>5 DEF BuildFails, n
<1> QED BY <1>1, <1>2, <1>3, <1>4, <1>5, <1>6

LEMMA NextRefused == StartInv /\ RefusedInv /\ [Next]_vars => RefusedInv'
<1> SUFFICES ASSUME StartInv, RefusedInv, [Next]_vars PROVE RefusedInv'
    OBVIOUS
<1> DEFINE FileStep == EndOfArguments \/ (\E e \in Entry : ReadEntry(e))
                         \/ CheckBinding \/ EndOfFile \/ BuildAdapter \/ BuildFails
<1>1. CASE Option \/ FileArgument \/ BadArgument
  BY <1>1, ArgumentRefused
<1>2. CASE FileStep
  <2>1. UNCHANGED <<args, daemon, loaded>>
    BY <1>2 DEF EndOfArguments, ReadEntry, CheckBinding, EndOfFile, BuildAdapter,
                BuildFails
  <2>2. pc' = "end" => ~(args' = <<"file">> /\ SoundFile' /\ ~HarmlessShare')
    BY <1>2, <2>1, SoundGoesOn
  <2>3. /\ (loaded => args # <<>>)'
        /\ (daemon => \E j \in 1..Len(args) : args[j] = "--daemon")'
    BY <2>1, Zenon DEF RefusedInv
  <2> QED BY <2>2, <2>3, Zenon DEF RefusedInv
<1>3. CASE UNCHANGED vars
  BY <1>3 DEF vars, RefusedInv, SoundFile, HarmlessShare, Overlap, Configured
<1> QED BY <1>1, <1>2, <1>3 DEF Next, Ended

(***************************************************************************)
(* A file without a fault, whose bindings the system would give, gets its  *)
(* brokers, unless two of its adapters share a port in one of two ways     *)
(* that the system allows and check_bindings does not; whatever its length.*)
(***************************************************************************)
THEOREM SoundFilesRun == Spec => []SoundFileRuns
<1>1. Init => RefusedInv
  BY DEF Init, RefusedInv
<1>2. RefusedInv => SoundFileRuns
  BY DEF RefusedInv, SoundFileRuns
<1> QED BY <1>1, <1>2, NextRefused, StartInvariant, PTL DEF Spec

\* Of two adapters that collide, one is on all interfaces.
MissedCollisions ==
  pc = "build" =>
    \A i, j \in 1..Len(pool) :
      i # j /\ Overlap(pool[i], pool[j]) => pool[i].ip = Any \/ pool[j].ip = Any

(***************************************************************************)
(* How far check_bindings is wrong: the only collisions that it lets pass  *)
(* are those of "*" with an interface of the same port.                    *)
(***************************************************************************)
THEOREM OnlyAnyIsMissed == Spec => []MissedCollisions
<1>1. NoSharedBinding => MissedCollisions
  BY DEF NoSharedBinding, MissedCollisions, Overlap, compare_binding
<1> QED BY <1>1, BindingsDistinct, PTL
=============================================================================
