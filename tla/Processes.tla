------------------------------ MODULE Processes ------------------------------
(***************************************************************************)
(* The processes of the program: the UDP port that lets one instance run   *)
(* (psingle.h, main.cpp), the tasks it forks and waits for (inst.cpp), and *)
(* the lock on a serial line (dserial.cpp).                                *)
(*                                                                         *)
(* A third argument lets a start pass although the port is taken; a task   *)
(* is started with one.  Sockets and files survive fork and exec, and so   *)
(* does a lock, which belongs to the open file.                            *)
(***************************************************************************)
EXTENDS Naturals, Sequences

CONSTANTS Proc, Nobody,
          MaxFiles,    \* bound: open files of the line at a time
          MaxKids      \* bound: calls of start_task by one process

ASSUME NobodyAssumption == Nobody \notin Proc
ASSUME BoundsAssumption == MaxFiles \in Nat /\ MaxKids \in Nat

VARIABLES
  st,        \* where each process stands
  kind,      \* how it was started
  parent,    \* the process that forked it
  kids,      \* Inst::_childrens; Nobody is a pid of 0 or -1
  reaped,    \* processes a waitpid has returned
  held,      \* the processes with a descriptor of the bound socket
  refs,      \* for each open file, the processes with a descriptor of it
  lock,      \* the file that has the lock, or 0
  port,      \* DvSerial::_port, or 0
  opened,    \* iopen opened the line and succeeded, until iclose
  root,      \* the process its line of descent began with (history)
  owner      \* the process that bound the socket (history)

procs == <<st, kind, parent, root>>
files == <<refs, lock, port, opened>>
single == <<held, owner>>
vars == <<procs, kids, reaped, single, files>>

Alive == {"forked", "run", "wait"}
Dead  == {"exit", "killed"}
Files == 1..MaxFiles

Living == {p \in Proc : st[p] \in Alive}
Kids(p) == {t \in Proc : parent[t] = p}

TypeOK ==
  /\ st \in [Proc -> Alive \cup Dead \cup {"none"}]
  /\ kind \in [Proc -> {"plain", "extra", "task", "copy"}]
  /\ parent \in [Proc -> Proc \cup {Nobody}] /\ root \in [Proc -> Proc]
  /\ kids \in [Proc -> Seq(Proc \cup {Nobody})] /\ reaped \subseteq Proc
  /\ held \subseteq Living /\ owner \in Proc \cup {Nobody}
  /\ refs \in [Files -> SUBSET Living]
  /\ lock \in 0..MaxFiles /\ port \in [Proc -> 0..MaxFiles] /\ opened \in [Proc -> BOOLEAN]
  /\ lock # 0 => refs[lock] # {}
  /\ \A p \in Proc : opened[p] => port[p] # 0

Init ==
  /\ st = [p \in Proc |-> "none"] /\ kind = [p \in Proc |-> "plain"]
  /\ parent = [p \in Proc |-> Nobody] /\ root = [p \in Proc |-> p]
  /\ kids = [p \in Proc |-> <<>>] /\ reaped = {}
  /\ held = {} /\ owner = Nobody
  /\ refs = [o \in Files |-> {}] /\ lock = 0
  /\ port = [p \in Proc |-> 0] /\ opened = [p \in Proc |-> FALSE]

-----------------------------------------------------------------------------
(* One instance.                                                           *)

(* OneProc::operator(): the port is free, or bind fails.                    *)
Bind(p) == IF held = {} THEN held' = {p} /\ owner' = p ELSE UNCHANGED single

(* main: the start of an instance, which ends at once when the port is      *)
(* taken and there is no third argument.                                    *)
Start(p, how) ==
  /\ st[p] = "none"
  /\ held = {} \/ how = "extra"
  /\ st' = [st EXCEPT ![p] = "run"] /\ kind' = [kind EXCEPT ![p] = how]
  /\ Bind(p)
  /\ UNCHANGED <<parent, root, kids, reaped, files>>

-----------------------------------------------------------------------------
(* Tasks.                                                                  *)

(* start_task: fork *)
Fork(p, t) ==
  /\ st[p] = "run" /\ st[t] = "none" /\ Len(kids[p]) < MaxKids
  /\ st' = [st EXCEPT ![t] = "forked"] /\ kind' = [kind EXCEPT ![t] = "copy"]
  /\ parent' = [parent EXCEPT ![t] = p] /\ root' = [root EXCEPT ![t] = root[p]]
  /\ kids' = [kids EXCEPT ![p] = Append(@, t), ![t] = kids[p]]
  /\ held' = IF p \in held THEN held \cup {t} ELSE held
  /\ refs' = [o \in Files |-> IF p \in refs[o] THEN refs[o] \cup {t} ELSE refs[o]]
  /\ port' = [port EXCEPT ![t] = port[p]]
  /\ UNCHANGED <<reaped, lock, opened, owner>>

ForkFails(p) ==
  /\ st[p] = "run" /\ Len(kids[p]) < MaxKids
  /\ kids' = [kids EXCEPT ![p] = Append(@, Nobody)]
  /\ UNCHANGED <<procs, reaped, single, files>>

(* execl in the child: the program starts anew and tries to bind, in vain   *)
(* or not; its third argument lets it pass.                                 *)
Exec_CloseOnExec(t) ==
  /\ st[t] = "forked"
  /\ st' = [st EXCEPT ![t] = "run"] /\ kind' = [kind EXCEPT ![t] = "task"]
  /\ kids' = [kids EXCEPT ![t] = <<>>] /\ port' = [port EXCEPT ![t] = 0]
  /\ held' = held \ {t}
  /\ UNCHANGED <<parent, root, reaped, refs, lock, opened, owner>>

Exec(t) ==
  /\ st[t] = "forked"
  /\ st' = [st EXCEPT ![t] = "run"] /\ kind' = [kind EXCEPT ![t] = "task"]
  /\ kids' = [kids EXCEPT ![t] = <<>>] /\ port' = [port EXCEPT ![t] = 0]
  /\ Bind(t)
  /\ UNCHANGED <<parent, root, reaped, refs, lock, opened>>

(* execl fails: the child goes on in the script, a copy of its parent.      *)
ExecFails(t) ==
  /\ st[t] = "forked"
  /\ st' = [st EXCEPT ![t] = "run"]
  /\ kids' = [kids EXCEPT ![t] = Append(@, Nobody)]
  /\ UNCHANGED <<kind, parent, root, reaped, single, files>>

-----------------------------------------------------------------------------
(* The end.                                                                *)

(* The process is gone, and the kernel closes what it had open.             *)
Gone(p, how) ==
  /\ st' = [st EXCEPT ![p] = how]
  /\ kids' = [kids EXCEPT ![p] = <<>>]
  /\ held' = held \ {p}
  /\ refs' = [o \in Files |-> refs[o] \ {p}]
  /\ lock' = IF lock # 0 /\ refs[lock] = {p} THEN 0 ELSE lock
  /\ port' = [port EXCEPT ![p] = 0] /\ opened' = [opened EXCEPT ![p] = FALSE]
  /\ UNCHANGED <<kind, parent, root, reaped, owner>>

(* The script returned: ~Inst begins. *)
EndScript(p) ==
  /\ st[p] = "run"
  /\ st' = [st EXCEPT ![p] = "wait"]
  /\ UNCHANGED <<kind, parent, root, kids, reaped, single, files>>

(* waitpid of the next pid in _childrens: of a child of its own that ended, *)
(* of any such child when the pid is 0 or -1, or in vain.                   *)
Waited(p, t) ==
  IF t \in Kids(p) THEN {t} ELSE IF t = Nobody THEN Kids(p) \ reaped ELSE {}

Reap(p) ==
  /\ st[p] = "wait" /\ kids[p] # <<>>
  /\ LET waited == Waited(p, Head(kids[p])) IN
       \/ waited = {} /\ UNCHANGED reaped
       \/ \E t \in waited : st[t] \in Dead /\ reaped' = reaped \cup {t}
  /\ kids' = [kids EXCEPT ![p] = Tail(@)]
  /\ UNCHANGED <<procs, single, files>>

Exit_OneTask(p) == st[p] = "wait" /\ Len(kids[p]) < 2 /\ Gone(p, "exit")

Exit(p) == st[p] = "wait" /\ kids[p] = <<>> /\ Gone(p, "exit")

(* A signal nothing catches. *)
Kill(p) == st[p] \in Alive /\ Gone(p, "killed")

-----------------------------------------------------------------------------
(* The serial line.                                                        *)

(* DvSerial::iopen, which does not look whether the line is open already.   *)
(* For an invalid mode or rate it returns before it opens anything, 1 in    *)
(* the first case (dserial.cpp:127-163): that changes nothing and is a      *)
(* stuttering step, and what was open before stays open.                    *)
IOpen(p) ==
  /\ st[p] = "run" /\ lock = 0
  /\ \E o \in Files :
       /\ refs[o] = {}
       /\ port' = [port EXCEPT ![p] = o] /\ opened' = [opened EXCEPT ![p] = TRUE]
       /\ lock' = o /\ refs' = [refs EXCEPT ![o] = {p}]
  /\ UNCHANGED <<procs, kids, reaped, single>>

(* open, flock, tcgetattr or tcsetattr fails: nothing is open, and a line   *)
(* that was open before is lost, its descriptor and its lock kept.          *)
IOpenFails_Accepted(p) ==
  /\ st[p] = "run"
  /\ port' = [port EXCEPT ![p] = 0] /\ opened' = [opened EXCEPT ![p] = TRUE]
  /\ UNCHANGED <<procs, kids, reaped, single, refs, lock>>

IOpenFails(p) ==
  /\ st[p] = "run"
  /\ port' = [port EXCEPT ![p] = 0] /\ opened' = [opened EXCEPT ![p] = FALSE]
  /\ UNCHANGED <<procs, kids, reaped, single, refs, lock>>

(* TIOCMGET or TIOCMSET fails: the lock is given back, the file is not.     *)
IOpenUnlocked_Accepted(p) ==
  /\ st[p] = "run" /\ lock = 0
  /\ \E o \in Files :
       /\ refs[o] = {}
       /\ port' = [port EXCEPT ![p] = o] /\ opened' = [opened EXCEPT ![p] = TRUE]
       /\ refs' = [refs EXCEPT ![o] = {p}]
  /\ UNCHANGED <<procs, kids, reaped, single, lock>>

IOpenUnlocked(p) ==
  /\ st[p] = "run" /\ lock = 0
  /\ \E o \in Files :
       /\ refs[o] = {}
       /\ port' = [port EXCEPT ![p] = o] /\ opened' = [opened EXCEPT ![p] = FALSE]
       /\ refs' = [refs EXCEPT ![o] = {p}]
  /\ UNCHANGED <<procs, kids, reaped, single, lock>>

(* DvSerial::iclose: the file is closed before LOCK_UN, which then fails.   *)
IClose(p) ==
  /\ st[p] = "run" /\ port[p] # 0
  /\ port' = [port EXCEPT ![p] = 0] /\ opened' = [opened EXCEPT ![p] = FALSE]
  /\ refs' = [refs EXCEPT ![port[p]] = @ \ {p}]
  /\ lock' = IF lock = port[p] /\ refs[lock] = {p} THEN 0 ELSE lock
  /\ UNCHANGED <<procs, kids, reaped, single>>

-----------------------------------------------------------------------------
Next ==
  \E p \in Proc :
     \/ \E how \in {"plain", "extra"} : Start(p, how)
     \/ \E t \in Proc : Fork(p, t)
     \/ ForkFails(p) \/ Exec(p) \/ ExecFails(p)
     \/ EndScript(p) \/ Reap(p) \/ Exit(p) \/ Kill(p)
     \/ IOpen(p) \/ IOpenFails(p) \/ IOpenUnlocked(p) \/ IClose(p)

Spec == Init /\ [][Next]_vars

-----------------------------------------------------------------------------
(* "limit this instance to 1" (main.cpp:49): instances started without a    *)
(* third argument, and what remains of them, never run side by side: a task *)
(* whose program was killed keeps the port.                                 *)
OneInstance ==
  \A p, q \in Living :
     kind[root[p]] = "plain" /\ kind[root[q]] = "plain" => root[p] = root[q]

(* A process that ended by itself has outlived the tasks it started         *)
(* (inst.cpp:57-75), whatever order they ended in.                          *)
TasksEndFirst == \A p \in Proc : st[p] = "exit" => \A t \in Kids(p) : st[t] \in Dead

(* Of two programs that opened the line with success, one has closed it     *)
(* (dserial.cpp:191), whoever else died, forked or failed in between.       *)
LockedAlone ==
  \A p, q \in Living :
     /\ opened[p] /\ kind[p] # "copy" /\ st[p] # "forked"
     /\ opened[q] /\ kind[q] # "copy" /\ st[q] # "forked"
     => p = q

(* dserial.cpp:394, "free the _port so that others can use it".             *)
ClosedLineFree ==
  [][\A p \in Proc : /\ IClose(p) /\ lock = port[p]
                     /\ \A q \in Proc : st[q] # "forked"
                     => lock' = 0]_vars

(* dserial.cpp:191, "so that another process can't also use the _port": no  *)
(* two programs have the line open.                                         *)
LineAlone ==
  \A p, q \in Living : st[p] = "run" /\ port[p] # 0 /\ st[q] = "run" /\ port[q] # 0 => p = q
=============================================================================
