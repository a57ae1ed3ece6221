-------------------------------- MODULE Start --------------------------------
(***************************************************************************)
(* How an octopusMQ process comes up: control::run takes the arguments one *)
(* after another, settings::load reads the adapters of the configuration   *)
(* file and compares each new binding with the earlier ones, and the       *)
(* factory builds the brokers, which bind their sockets.  What happens     *)
(* once the brokers run is the subject of module Relay.                    *)
(***************************************************************************)
EXTENDS Naturals, Sequences

CONSTANTS Nic,         \* interfaces that have an address of their own
          Lo,          \* the loopback interface
          Any,         \* "*", every interface
          Port,        \* port numbers that a file may hold
          WordSize,    \* port_int holds the numbers below WordSize
          PortSize,    \* a socket's port is a number below PortSize
          Refused,     \* bindings that the operating system refuses the process
          MaxArgs,     \* bound: number of arguments
          MaxEntries   \* bound: entries of the adapters list of a file

ASSUME InterfaceAssumption == Lo \notin Nic /\ Any \notin Nic /\ Lo # Any
ASSUME SizeAssumption ==
  WordSize \in Nat /\ PortSize \in Nat /\ 0 < PortSize /\ PortSize <= WordSize
ASSUME PortAssumption == Port \subseteq Nat
ASSUME BoundAssumption == MaxArgs \in Nat /\ MaxEntries \in Nat

Interface == Nic \cup {Lo, Any}
Argument == {"--daemon", "--help", "unknown", "file", "bad path"}
Field == {"protocol", "interface", "port", "scope", "name", "role", "transport"}

\* fault: the first field that is missing, of a wrong type, or whose value is
\* refused: a protocol other than mqtt, an interface without an address, a
\* scope with an invalid filter, a role or a transport nobody knows.
Entry == [fault : Field \cup {"none"}, interface : Interface, port : Port]
Binding == [ip : Interface, port : 0..(WordSize - 1)]

ASSUME RefusedAssumption == Refused \subseteq Binding

VARIABLES
  pc,       \* "args", "entries", "check", "build", "run", "end"
  args,     \* the arguments taken so far
  daemon,   \* control::_daemon
  loaded,   \* config_file_name is not empty
  file,     \* the entries read so far
  pool,     \* the bindings in _adapter_pool
  c,        \* position of check_bindings in the pool
  bound,    \* the bindings of the adapters built so far
  status    \* exit status of main, "none" until it ends

vars == <<pc, args, daemon, loaded, file, pool, c, bound, status>>

Init ==
  /\ pc = "args" /\ args = <<>> /\ daemon = FALSE /\ loaded = FALSE
  /\ file = <<>> /\ pool = <<>> /\ c = 0 /\ bound = <<>>
  /\ status = "none"

End(s) == pc' = "end" /\ status' = s
Goto(p) == pc' = p /\ status' = status

-----------------------------------------------------------------------------
(* The arguments.                                                          *)

Take(arg) == pc = "args" /\ Len(args) < MaxArgs /\ args' = Append(args, arg)

\* "--daemon" is noted; "--help" ends the process; any other option throws.
Option ==
  /\ \/ Take("--daemon") /\ daemon' = TRUE /\ Goto("args")
     \/ Take("--help") /\ daemon' = daemon /\ End("success")
     \/ Take("unknown") /\ daemon' = daemon /\ End("failure")
  /\ UNCHANGED <<loaded, file, pool, c, bound>>

\* The path of a regular file: the settings are loaded at once.
FileArgument_Mutant ==
  /\ Take("file")
  /\ loaded' = TRUE
  /\ Goto("entries")
  /\ UNCHANGED <<daemon, file, pool, c, bound>>
FileArgument ==
  /\ Take("file")
  /\ ~loaded
  /\ loaded' = TRUE
  /\ Goto("entries")
  /\ UNCHANGED <<daemon, file, pool, c, bound>>

\* A path that is none, or a second one.
BadArgument ==
  /\ \/ Take("bad path")
     \/ Take("file") /\ loaded
  /\ End("failure")
  /\ UNCHANGED <<daemon, loaded, file, pool, c, bound>>

\* Without a file the help is printed; a daemon there is not.
EndOfArguments ==
  /\ pc = "args"
  /\ IF ~loaded THEN End("success")
     ELSE IF daemon THEN End("failure") ELSE Goto("build")
  /\ UNCHANGED <<args, daemon, loaded, file, pool, c, bound>>

-----------------------------------------------------------------------------
(* The configuration file.                                                 *)

\* get<port_int>() keeps the low bits of the number in the file.
StoredPort_Mutant(n) == n
StoredPort(n) == n % WordSize

\* The next adapter of the list is parsed, and goes into the pool if nothing
\* is wrong with it.
ReadEntry(e) ==
  /\ pc = "entries"
  /\ Len(file) < MaxEntries
  /\ file' = Append(file, e)
  /\ IF e.fault # "none"
       THEN End("failure") /\ UNCHANGED <<pool, c>>
       ELSE /\ pool' = Append(pool, [ip |-> e.interface, port |-> StoredPort(e.port)])
            /\ c' = 1
            /\ Goto(IF pool = <<>> THEN "entries" ELSE "check")
  /\ UNCHANGED <<args, daemon, loaded, bound>>

\* adapter_settings::compare_binding.
compare_binding(b, d) ==
  /\ b.port = d.port
  /\ b.ip = d.ip \/ b.ip = Lo \/ d.ip = Lo

\* check_bindings: the last binding is compared with the c-th.
CheckBinding_Mutant ==
  /\ pc = "check"
  /\ IF compare_binding(pool[Len(pool)], pool[c])
       THEN End("failure") /\ c' = c
       ELSE c' = c + 1 /\ Goto("entries")
  /\ UNCHANGED <<args, daemon, loaded, file, pool, bound>>
CheckBinding_Itself ==
  /\ pc = "check"
  /\ IF compare_binding(pool[Len(pool)], pool[c])
       THEN End("failure") /\ c' = c
       ELSE c' = c + 1 /\ Goto(IF c + 1 <= Len(pool) THEN "check" ELSE "entries")
  /\ UNCHANGED <<args, daemon, loaded, file, pool, bound>>
CheckBinding ==
  /\ pc = "check"
  /\ IF compare_binding(pool[Len(pool)], pool[c])
       THEN End("failure") /\ c' = c
       ELSE c' = c + 1 /\ Goto(IF c + 1 < Len(pool) THEN "check" ELSE "entries")
  /\ UNCHANGED <<args, daemon, loaded, file, pool, bound>>

\* The list is at its end.  An empty one is an error, and so is a file that
\* cannot be opened or parsed, or has no such list.
EndOfFile ==
  /\ pc = "entries"
  /\ IF file = <<>> THEN End("failure") ELSE Goto("args")
  /\ UNCHANGED <<args, daemon, loaded, file, pool, c, bound>>

-----------------------------------------------------------------------------
(* The adapters.                                                           *)

\* Two sockets cannot both listen on these bindings.  Port 0 lets the system
\* choose.
Overlap(b, d) ==
  /\ b.port = d.port /\ b.port # 0
  /\ b.ip = d.ip \/ b.ip = Any \/ d.ip = Any

\* Nothing is in the way of a socket that is to listen on b.
Available(b) == b \notin Refused /\ \A j \in 1..Len(bound) : ~Overlap(b, bound[j])

\* The broker of the next adapter is built: its acceptor binds the port.
BuildAdapter_Mutant ==
  /\ pc = "build"
  /\ LET b == [pool[Len(bound) + 1] EXCEPT !.port = @ % PortSize] IN
       Available(b) /\ bound' = Append(bound, b)
  /\ Goto(IF Len(bound) + 1 < Len(pool) THEN "build" ELSE "run")
  /\ UNCHANGED <<args, daemon, loaded, file, pool, c>>
BuildAdapter ==
  /\ pc = "build"
  /\ LET b == pool[Len(bound) + 1] IN
       b.port < PortSize /\ Available(b) /\ bound' = Append(bound, b)
  /\ Goto(IF Len(bound) + 1 < Len(pool) THEN "build" ELSE "run")
  /\ UNCHANGED <<args, daemon, loaded, file, pool, c>>

\* lexical_cast refuses a port that does not fit, with an exception that
\* only main catches.  A binding that is not available is an error that
\* initialize_adapters catches: run and main return.
BuildFails ==
  /\ pc = "build"
  /\ LET b == pool[Len(bound) + 1] IN
       \/ b.port >= PortSize /\ End("failure")
       \/ b.port < PortSize /\ ~Available(b) /\ End("success")
  /\ UNCHANGED <<args, daemon, loaded, file, pool, c, bound>>

\* The brokers run, or the process has ended.
Ended == pc \in {"run", "end"} /\ UNCHANGED vars

Next ==
  \/ Option \/ FileArgument \/ BadArgument \/ EndOfArguments
  \/ \E e \in Entry : ReadEntry(e)
  \/ CheckBinding \/ EndOfFile
  \/ BuildAdapter \/ BuildFails
  \/ Ended

Spec == Init /\ [][Next]_vars

-----------------------------------------------------------------------------
(* Properties.                                                             *)

\* Every variable holds a value of its type.
TypeOK ==
  /\ pc \in {"args", "entries", "check", "build", "run", "end"}
  /\ args \in Seq(Argument) /\ daemon \in BOOLEAN /\ loaded \in BOOLEAN
  /\ file \in Seq(Entry) /\ pool \in Seq(Binding) /\ bound \in Seq(Binding)
  /\ c \in Nat /\ c <= Len(pool)
  /\ status \in {"none", "success", "failure"}

(***************************************************************************)
(* check_bindings looks only at the last adapter of the pool; still, once  *)
(* the file is read no two adapters of it have the same address and port,  *)
(* and none has the port of an adapter on the loopback interface.          *)
(***************************************************************************)
NoSharedBinding ==
  pc \in {"args", "build", "run"} =>
    \A i, j \in 1..Len(pool) : i # j => ~compare_binding(pool[i], pool[j])

(***************************************************************************)
(* Brokers run only if the arguments were one file and nothing else, if    *)
(* nothing is wrong with any entry of that file, and if there is one       *)
(* adapter for each entry.                                                 *)
(***************************************************************************)
RunsAsTold ==
  pc = "run" =>
    /\ args = <<"file">>
    /\ Len(bound) = Len(file)
    /\ \A j \in 1..Len(file) : file[j].fault = "none" /\ bound[j].ip = file[j].interface

(***************************************************************************)
(* A port goes through a JSON number, port_int and uint16_t: an adapter is *)
(* never bound to another port than the file says, unless the number in    *)
(* the file is too large for port_int.                                     *)
(***************************************************************************)
PortAsConfigured ==
  \A j \in 1..Len(bound) :
    bound[j].port < PortSize /\ (file[j].port < WordSize => bound[j].port = file[j].port)

\* What entry j of the file asks for.
Configured(j) == [ip |-> file[j].interface, port |-> file[j].port]

\* Nothing is wrong with the file: no entry has a fault, a port too large for a
\* socket or a binding that the system refuses, and no two of them overlap.
SoundFile ==
  /\ file # <<>>
  /\ \A j \in 1..Len(file) :
       file[j].fault = "none" /\ file[j].port < PortSize /\ Configured(j) \notin Refused
  /\ \A i, j \in 1..Len(file) : i # j => ~Overlap(Configured(i), Configured(j))

\* An adapter has the port of one on the loopback interface; or two on one
\* interface leave the port to the system.
HarmlessShare ==
  \E i, j \in 1..Len(file) :
    /\ i # j /\ file[i].port = file[j].port
    /\ \/ file[i].interface = Lo
       \/ file[i].interface = file[j].interface /\ file[i].port = 0

(***************************************************************************)
(* A sound file, given as the only argument, gets its brokers: the process *)
(* does not end before they run, with either status.  No adapter is taken  *)
(* to collide with itself, or for a port changed on its way, and none that *)
(* check_bindings lets pass fails to be built.  Except for the two shares  *)
(* of HarmlessShare, which the system would allow and check_bindings does  *)
(* not: the code goes by "equal, or one is loopback", not by what overlaps.*)
(***************************************************************************)
SoundFileRuns ==
  args = <<"file">> /\ SoundFile /\ ~HarmlessShare => pc # "end"

(***************************************************************************)
(* What the error of check_bindings, "binding collision", stands for: the  *)
(* adapters that are left to build do not collide.                         *)
(***************************************************************************)
CollisionsFound ==
  pc = "build" => \A i, j \in 1..Len(pool) : i # j => ~Overlap(pool[i], pool[j])
=============================================================================
