--------------------------- MODULE ProcessesProofs ---------------------------
(***************************************************************************)
(* Proofs about Processes, for any number of processes and files.          *)
(***************************************************************************)
EXTENDS Processes, SequenceTheorems, TLAPS

(* The child of a fork is nobody's parent yet and has opened nothing.       *)
Fresh ==
  \A p \in Proc :
    /\ st[p] = "none" => root[p] = p
    /\ st[p] \in {"none", "forked"} => ~opened[p] /\ \A t \in Proc : parent[t] # p

(* A line of descent began with a program that was started.                 *)
Rooted == \A p \in Proc : st[p] # "none" => st[root[p]] \notin {"none", "forked"}

(* Whoever descends from a lone instance has its port.                      *)
PortHeld ==
  \A p \in Proc : st[p] \in Alive /\ kind[root[p]] = "plain" => p \in held /\ owner = root[p]

(* A task that lives is still in the list of its parent.                    *)
KidsKept ==
  \A p, t \in Proc :
    parent[t] = p /\ st[p] \in {"run", "wait"} =>
      st[t] \in Dead \/ \E i \in 1..Len(kids[p]) : kids[p][i] = t

(* A program that opened the line has its lock.                             *)
User(p) == st[p] \in Alive /\ opened[p] /\ kind[p] # "copy" /\ st[p] # "forked"
LineHeld ==
  \A p \in Proc : User(p) => port[p] # 0 /\ lock = port[p] /\ p \in refs[port[p]]

ProcInv ==
  /\ TypeOK /\ Fresh /\ Rooted /\ PortHeld
  /\ KidsKept /\ TasksEndFirst /\ LineHeld /\ LockedAlone

(* A step of Next is an action of one process. *)
Acts(p) ==
  \/ \E how \in {"plain", "extra"} : Start(p, how)
  \/ \E t \in Proc : Fork(p, t)
  \/ ForkFails(p) \/ Exec(p) \/ ExecFails(p)
  \/ EndScript(p) \/ Reap(p) \/ Exit(p) \/ Kill(p)
  \/ IOpen(p) \/ IOpenFails(p) \/ IOpenUnlocked(p) \/ IClose(p)

States == {"none", "forked", "run", "wait", "exit", "killed"}

(* The types of the variables, sets written out. *)
LEMMA Types ==
  ASSUME TypeOK
  PROVE  /\ st \in [Proc -> States] /\ kind \in [Proc -> {"plain", "extra", "task", "copy"}]
         /\ parent \in [Proc -> Proc \cup {Nobody}] /\ root \in [Proc -> Proc]
         /\ kids \in [Proc -> Seq(Proc \cup {Nobody})] /\ reaped \subseteq Proc
         /\ held \subseteq Proc /\ owner \in Proc \cup {Nobody}
         /\ refs \in [Files -> SUBSET Proc]
         /\ lock \in 0..MaxFiles /\ port \in [Proc -> 0..MaxFiles]
         /\ opened \in [Proc -> BOOLEAN]
BY DEF TypeOK, Alive, Dead, Living, States

-----------------------------------------------------------------------------
(* The start. *)
LEMMA InitInv == Init => ProcInv
<1> SUFFICES ASSUME Init PROVE ProcInv
  OBVIOUS
<1> USE NobodyAssumption, BoundsAssumption DEF Init
<1>1. TypeOK
  BY DEF TypeOK, Alive, Dead, Living, Files
<1>2. Fresh /\ Rooted /\ PortHeld /\ KidsKept /\ TasksEndFirst
  BY DEF Fresh, Rooted, PortHeld, KidsKept, TasksEndFirst, Kids, Alive
<1>3. LineHeld /\ LockedAlone
  BY DEF LineHeld, LockedAlone, User, Living, Alive
<1> QED BY <1>1, <1>2, <1>3 DEF ProcInv

-----------------------------------------------------------------------------
(* The types are kept: only the living have descriptors, and a file that    *)
(* has the lock is open somewhere.                                          *)
LEMMA TypeStep ==
  ASSUME ProcInv, NEW p \in Proc, Acts(p)
  PROVE  TypeOK'
<1> USE NobodyAssumption, BoundsAssumption, Types DEF ProcInv
<1>t. TypeOK
  OBVIOUS
<1>1. ASSUME NEW how \in {"plain", "extra"}, Start(p, how) PROVE TypeOK'
  BY <1>t, <1>1 DEF Start, Bind, TypeOK, Alive, Dead, Living, Files, files, single
<1>2. ASSUME NEW t \in Proc, Fork(p, t) PROVE TypeOK'
  <2>1. kids' \in [Proc -> Seq(Proc \cup {Nobody})]
    <3>1. Append(kids[p], t) \in Seq(Proc \cup {Nobody})
      OBVIOUS
    <3> QED BY <1>2, <3>1 DEF Fork
  <2>2. /\ st' \in [Proc -> Alive \cup Dead \cup {"none"}]
        /\ kind' \in [Proc -> {"plain", "extra", "task", "copy"}]
        /\ parent' \in [Proc -> Proc \cup {Nobody}] /\ root' \in [Proc -> Proc]
    BY <1>t, <1>2 DEF Fork, Alive, Dead, States
  <2>3. Living' = Living \cup {t} /\ p \in Living
    BY <1>2 DEF Fork, Living, Alive, States
  <2>4. held' \subseteq Living' /\ refs' \in [Files -> SUBSET Living']
    BY <1>t, <1>2, <2>3 DEF Fork, TypeOK
  <2>5. lock' # 0 => refs'[lock'] # {}
    BY <1>t, <1>2 DEF Fork, TypeOK, Files
  <2>6. port' \in [Proc -> 0..MaxFiles] /\ \A q \in Proc : opened'[q] => port'[q] # 0
    <3>1. ~opened[t]
      BY <1>2 DEF Fork, Fresh
    <3> QED BY <1>t, <1>2, <3>1 DEF Fork, TypeOK
  <2> QED BY <1>t, <1>2, <2>1, <2>2, <2>4, <2>5, <2>6 DEF Fork, TypeOK
<1>3. CASE ForkFails(p)
  BY <1>t, <1>3 DEF ForkFails, TypeOK, Living, procs, single, files
<1>4. CASE Exec(p)
  <2>1. Living' = Living /\ p \in Living
    BY <1>4 DEF Exec, Living, Alive, States
  <2>2. held' \subseteq Living' /\ owner' \in Proc \cup {Nobody}
    BY <1>t, <1>4, <2>1 DEF Exec, Bind, TypeOK, single
  <2>3. port' \in [Proc -> 0..MaxFiles] /\ \A q \in Proc : opened'[q] => port'[q] # 0
    <3>1. ~opened[p]
      BY <1>4 DEF Exec, Fresh
    <3> QED BY <1>t, <1>4, <3>1 DEF Exec, TypeOK
  <2>4. st' \in [Proc -> Alive \cup Dead \cup {"none"}]
    BY <1>4 DEF Exec, Alive, Dead, States
  <2>5. kind' \in [Proc -> {"plain", "extra", "task", "copy"}]
    BY <1>t, <1>4 DEF Exec, TypeOK
  <2>6. kids' \in [Proc -> Seq(Proc \cup {Nobody})]
    <3>1. <<>> \in Seq(Proc \cup {Nobody})
      OBVIOUS
    <3>2. QED
      BY <1>t, <1>4, <3>1 DEF Exec, TypeOK
  <2>7. /\ parent' = parent /\ root' = root /\ reaped' = reaped /\ refs' = refs
        /\ lock' = lock /\ opened' = opened
    BY <1>4 DEF Exec
  <2> QED BY <1>t, <2>1, <2>2, <2>3, <2>4, <2>5, <2>6, <2>7 DEF TypeOK
<1>5. CASE ExecFails(p)
  <2>1. Living' = Living /\ st' \in [Proc -> Alive \cup Dead \cup {"none"}]
    BY <1>5 DEF ExecFails, Living, Alive, Dead, States
  <2> QED BY <1>t, <1>5, <2>1 DEF ExecFails, TypeOK, single, files
<1>6. CASE EndScript(p)
  <2>1. Living' = Living /\ st' \in [Proc -> Alive \cup Dead \cup {"none"}]
    BY <1>6 DEF EndScript, Living, Alive, Dead, States
  <2> QED BY <1>t, <1>6, <2>1 DEF EndScript, TypeOK, single, files
<1>7. CASE Reap(p)
  <2>1. reaped' \subseteq Proc
    BY <1>7 DEF Reap, Waited, Kids
  <2>2. kids' \in [Proc -> Seq(Proc \cup {Nobody})]
    BY <1>7 DEF Reap
  <2> QED BY <1>t, <1>7, <2>1, <2>2 DEF Reap, TypeOK, Living, procs, single, files
<1>8. ASSUME NEW how \in Dead, Gone(p, how) PROVE TypeOK'
  <2>1. Living' = Living \ {p} /\ st' \in [Proc -> Alive \cup Dead \cup {"none"}]
    BY <1>8 DEF Gone, Living, Alive, Dead, States
  <2>2. held' \subseteq Living' /\ refs' \in [Files -> SUBSET Living']
    BY <1>t, <1>8, <2>1 DEF Gone, TypeOK
  <2>3. lock' \in 0..MaxFiles /\ (lock' # 0 => refs'[lock'] # {})
    BY <1>t, <1>8 DEF Gone, TypeOK, Files
  <2>4. kids' \in [Proc -> Seq(Proc \cup {Nobody})]
    BY <1>8 DEF Gone
  <2>5. /\ port' \in [Proc -> 0..MaxFiles] /\ opened' \in [Proc -> BOOLEAN]
        /\ \A q \in Proc : opened'[q] => port'[q] # 0
    BY <1>t, <1>8 DEF Gone, TypeOK
  <2> QED BY <1>t, <1>8, <2>1, <2>2, <2>3, <2>4, <2>5 DEF Gone, TypeOK
<1>9. CASE IOpen(p) \/ IOpenFails(p) \/ IOpenUnlocked(p) \/ IClose(p)
  <2>0. st[p] = "run" /\ p \in Living /\ Living' = Living /\ UNCHANGED <<procs, kids, reaped, single>>
    BY <1>9 DEF IOpen, IOpenFails, IOpenUnlocked, IClose, Living, Alive, procs
  <2> DEFINE FilesOK ==
        /\ refs' \in [Files -> SUBSET Living'] /\ lock' \in 0..MaxFiles
        /\ lock' # 0 => refs'[lock'] # {}
        /\ port' \in [Proc -> 0..MaxFiles] /\ opened' \in [Proc -> BOOLEAN]
        /\ \A q \in Proc : opened'[q] => port'[q] # 0
  <2>r. refs \in [Files -> SUBSET Living] /\ \A q \in Proc : opened[q] => port[q] # 0
    BY <1>t DEF TypeOK
  <2>1. ASSUME IOpen(p) PROVE FilesOK
    <3>1. PICK o \in Files :
            /\ port' = [port EXCEPT ![p] = o] /\ opened' = [opened EXCEPT ![p] = TRUE]
            /\ lock' = o /\ refs' = [refs EXCEPT ![o] = {p}]
      BY <2>1 DEF IOpen
    <3>2. o \in 1..MaxFiles
      BY DEF Files
    <3> QED BY <2>0, <2>r, <3>1, <3>2
  <2>2. ASSUME IOpenFails(p) PROVE FilesOK
    BY <2>0, <2>r, <2>2, <1>t DEF IOpenFails, TypeOK
  <2>3. ASSUME IOpenUnlocked(p) PROVE FilesOK
    <3>1. PICK o \in Files :
            /\ port' = [port EXCEPT ![p] = o] /\ opened' = [opened EXCEPT ![p] = FALSE]
            /\ lock' = lock /\ refs' = [refs EXCEPT ![o] = {p}]
      BY <2>3 DEF IOpenUnlocked
    <3>2. o \in 1..MaxFiles /\ lock = 0
      BY <2>3 DEF Files, IOpenUnlocked
    <3> QED BY <2>0, <2>r, <3>1, <3>2
  <2>4. ASSUME IClose(p) PROVE FilesOK
    <3>1. refs' \in [Files -> SUBSET Living']
      BY <2>0, <2>r, <2>4 DEF IClose
    <3>2. port[p] \in Files
      BY <2>4 DEF IClose, Files
    <3>3. lock' \in 0..MaxFiles /\ (lock' # 0 => refs'[lock'] # {})
      BY <1>t, <2>r, <2>4, <3>2 DEF IClose, TypeOK, Files
    <3> QED BY <2>r, <2>4, <3>1, <3>3 DEF IClose
  <2>5. FilesOK
    BY <1>9, <2>1, <2>2, <2>3, <2>4
  <2> QED BY <1>t, <2>0, <2>5 DEF TypeOK, procs, single
<1> QED BY <1>1, <1>2, <1>3, <1>4, <1>5, <1>6, <1>7, <1>8, <1>9 DEF Acts, Exit, Kill, Dead

-----------------------------------------------------------------------------
(* Lines of descent. *)
LEMMA FreshStep ==
  ASSUME ProcInv, NEW p \in Proc, Acts(p)
  PROVE  Fresh'
<1> USE Types, NobodyAssumption DEF ProcInv, Fresh, States
<1>1. ASSUME NEW how \in {"plain", "extra"}, Start(p, how) PROVE Fresh'
  BY <1>1 DEF Start, files
<1>2. ASSUME NEW t \in Proc, Fork(p, t) PROVE Fresh'
  BY <1>2 DEF Fork
<1>3. CASE ForkFails(p) \/ Reap(p)
  BY <1>3 DEF ForkFails, Reap, procs, files
<1>4. CASE Exec(p) \/ ExecFails(p) \/ EndScript(p)
  BY <1>4 DEF Exec, ExecFails, EndScript, files
<1>5. ASSUME NEW how \in Dead, Gone(p, how) PROVE Fresh'
  BY <1>5 DEF Gone, Dead
<1>6. CASE IOpen(p) \/ IOpenFails(p) \/ IOpenUnlocked(p) \/ IClose(p)
  BY <1>6 DEF IOpen, IOpenFails, IOpenUnlocked, IClose, procs
<1> QED BY <1>1, <1>2, <1>3, <1>4, <1>5, <1>6 DEF Acts, Exit, Kill, Dead

LEMMA RootedStep ==
  ASSUME ProcInv, NEW p \in Proc, Acts(p)
  PROVE  Rooted'
<1> USE Types DEF ProcInv, Rooted, States
<1>1. ASSUME NEW how \in {"plain", "extra"}, Start(p, how) PROVE Rooted'
  BY <1>1 DEF Start, Fresh
<1>2. ASSUME NEW t \in Proc, Fork(p, t) PROVE Rooted'
  BY <1>2 DEF Fork
<1>3. CASE ForkFails(p) \/ Reap(p)
  BY <1>3 DEF ForkFails, Reap, procs
<1>4. CASE Exec(p) \/ ExecFails(p) \/ EndScript(p)
  <2>1. PICK v \in {"run", "wait"} : st' = [st EXCEPT ![p] = v] /\ st[p] # "none" /\ root' = root
    BY <1>4 DEF Exec, ExecFails, EndScript
  <2> QED BY <2>1
<1>5. ASSUME NEW how \in Dead, Gone(p, how), st[p] # "none" PROVE Rooted'
  <2>1. st' = [st EXCEPT ![p] = how] /\ root' = root /\ how \notin {"none", "forked"}
    BY <1>5 DEF Gone, Dead
  <2> QED BY <1>5, <2>1
<1>6. CASE IOpen(p) \/ IOpenFails(p) \/ IOpenUnlocked(p) \/ IClose(p)
  BY <1>6 DEF IOpen, IOpenFails, IOpenUnlocked, IClose, procs
<1> QED BY <1>1, <1>2, <1>3, <1>4, <1>5, <1>6 DEF Acts, Exit, Kill, Dead, Alive

-----------------------------------------------------------------------------
(* The port: a start that finds it free finds no descendant of a lone       *)
(* instance, and fork and exec pass the descriptor on.                      *)
LEMMA PortStep ==
  ASSUME ProcInv, NEW p \in Proc, Acts(p)
  PROVE  PortHeld'
<1> USE Types DEF ProcInv, PortHeld, Rooted, States, Alive
<1>1. ASSUME NEW how \in {"plain", "extra"}, Start(p, how) PROVE PortHeld'
  <2>1. root[p] = p /\ root' = root /\ \A q \in Proc : st[q] # "none" => root[q] # p
    BY <1>1 DEF Start, Fresh
  <2> QED BY <1>1, <2>1 DEF Start, Bind, single
<1>2. ASSUME NEW t \in Proc, Fork(p, t) PROVE PortHeld'
  <2>1. \A q \in Proc : st[q] # "none" => root[q] # t
    BY <1>2 DEF Fork
  <2> QED BY <1>2, <2>1 DEF Fork
<1>3. CASE ForkFails(p) \/ Reap(p)
  BY <1>3 DEF ForkFails, Reap, procs, single
<1>4. CASE Exec(p)
  <2>1. \A q \in Proc : st[q] # "none" => root[q] # p
    BY <1>4 DEF Exec
  <2> QED BY <1>4, <2>1 DEF Exec, Bind, single
<1>5. CASE ExecFails(p) \/ EndScript(p)
  BY <1>5 DEF ExecFails, EndScript, single
<1>6. ASSUME NEW how \in Dead, Gone(p, how) PROVE PortHeld'
  BY <1>6 DEF Gone, Dead
<1>7. CASE IOpen(p) \/ IOpenFails(p) \/ IOpenUnlocked(p) \/ IClose(p)
  BY <1>7 DEF IOpen, IOpenFails, IOpenUnlocked, IClose, procs, single
<1> QED BY <1>1, <1>2, <1>3, <1>4, <1>5, <1>6, <1>7 DEF Acts, Exit, Kill, Dead

-----------------------------------------------------------------------------
(* The tasks: a child leaves the list of its parent only when it is dead,   *)
(* or when the entry was nobody's.                                          *)
Listed(p, t) == \E i \in 1..Len(kids[p]) : kids[p][i] = t

LEMMA HeadLeaves ==
  ASSUME NEW S, NEW s \in Seq(S), s # <<>>, NEW i \in 1..Len(s), s[i] # Head(s)
  PROVE  \E j \in 1..Len(Tail(s)) : Tail(s)[j] = s[i]
<1>1. i # 1 /\ i - 1 \in 1..Len(Tail(s))
  OBVIOUS
<1>2. Tail(s)[i - 1] = s[i]
  OBVIOUS
<1> QED BY <1>1, <1>2

LEMMA KidsStep ==
  ASSUME ProcInv, NEW p \in Proc, Acts(p)
  PROVE  KidsKept' /\ TasksEndFirst'
<1> USE Types, NobodyAssumption DEF ProcInv
<1> SUFFICES ASSUME NEW q \in Proc, NEW t \in Proc, parent'[t] = q
             PROVE  /\ st'[q] \in {"run", "wait"} => st'[t] \in Dead \/ Listed(q, t)'
                    /\ st'[q] = "exit" => st'[t] \in Dead
  <2>1. KidsKept'
    BY DEF KidsKept, Listed
  <2>2. TasksEndFirst'
    BY DEF TasksEndFirst, Kids
  <2> QED BY <2>1, <2>2
<1> DEFINE Goal == /\ st'[q] \in {"run", "wait"} => st'[t] \in Dead \/ Listed(q, t)'
                   /\ st'[q] = "exit" => st'[t] \in Dead
<1>old. /\ parent[t] = q /\ st[q] \in {"run", "wait"} => st[t] \in Dead \/ Listed(q, t)
        /\ parent[t] = q /\ st[q] = "exit" => st[t] \in Dead
  <2>1. parent[t] = q /\ st[q] \in {"run", "wait"} => st[t] \in Dead \/ Listed(q, t)
    BY DEF KidsKept, Listed
  <2>2. parent[t] = q /\ st[q] = "exit" => st[t] \in Dead
    BY DEF TasksEndFirst, Kids
  <2> QED BY <2>1, <2>2
<1>1. ASSUME NEW how \in {"plain", "extra"}, Start(p, how) PROVE Goal
  BY <1>1, <1>old DEF Start, Fresh, Dead, States, Listed
<1>2. ASSUME NEW u \in Proc, Fork(p, u) PROVE Goal
  <2>1. st' = [st EXCEPT ![u] = "forked"] /\ parent' = [parent EXCEPT ![u] = p] /\ st[u] = "none" /\ st[p] = "run"
    BY <1>2 DEF Fork
  <2>2. CASE t = u
    <3>1. q = p /\ p # u
      BY <2>1, <2>2
    <3>2. kids'[p] = Append(kids[p], u)
      BY <1>2, <3>1 DEF Fork
    <3>3. Len(kids'[p]) \in 1..Len(kids'[p]) /\ kids'[p][Len(kids'[p])] = u
      BY <3>2
    <3>4. Listed(q, t)'
      BY <3>1, <3>3, <2>2 DEF Listed
    <3> QED BY <2>1, <3>1, <3>4 DEF States
  <2>3. CASE t # u /\ q = p
    <3>1. kids'[p] = Append(kids[p], u)
      BY <1>2, <2>1 DEF Fork
    <3>2. ASSUME NEW i \in 1..Len(kids[p]), kids[p][i] = t PROVE i \in 1..Len(kids'[p]) /\ kids'[p][i] = t
      BY <3>1, <3>2
    <3>3. Listed(q, t) => Listed(q, t)'
      BY <3>2, <2>3 DEF Listed
    <3> QED BY <2>1, <2>3, <3>3, <1>old DEF Dead, States
  <2>4. CASE t # u /\ q # p
    <3>1. q # u
      BY <2>1, <2>4 DEF Fresh
    <3>2. kids'[q] = kids[q]
      BY <1>2, <2>4, <3>1 DEF Fork
    <3> QED BY <2>1, <2>4, <3>1, <3>2, <1>old DEF Dead, States, Listed
  <2> QED BY <2>2, <2>3, <2>4
<1>3. CASE ForkFails(p)
  <2>1. Listed(q, t) => Listed(q, t)'
    BY <1>3 DEF ForkFails, Listed
  <2> QED BY <1>3, <1>old, <2>1 DEF ForkFails, procs
<1>4. CASE Exec(p) \/ ExecFails(p)
  <2>1. st[p] = "forked" /\ st' = [st EXCEPT ![p] = "run"] /\ parent' = parent /\ q # p
    BY <1>4 DEF Exec, ExecFails, Fresh
  <2>2. kids'[q] = kids[q]
    BY <1>4, <2>1 DEF Exec, ExecFails
  <2> QED BY <2>1, <2>2, <1>old DEF Dead, States, Listed
<1>5. CASE EndScript(p)
  BY <1>5, <1>old DEF EndScript, Dead, States, Listed
<1>6. CASE Reap(p)
  <2>1. st' = st /\ parent' = parent /\ kids' = [kids EXCEPT ![p] = Tail(@)] /\ kids[p] # <<>> /\ st[p] = "wait"
    BY <1>6 DEF Reap, procs
  <2>2. ASSUME q = p, Listed(q, t) PROVE st[t] \in Dead \/ Listed(q, t)'
    <3>1. PICK i \in 1..Len(kids[p]) : kids[p][i] = t
      BY <2>2 DEF Listed
    <3>2. CASE kids[p][i] # Head(kids[p])
      <4>1. \E j \in 1..Len(Tail(kids[p])) : Tail(kids[p])[j] = kids[p][i]
        BY <2>1, <3>2, HeadLeaves
      <4> QED BY <2>1, <2>2, <3>1, <4>1 DEF Listed
    <3>3. CASE t = Head(kids[p])
      <4>1. Waited(p, t) = {t}
        BY <2>1, <2>2 DEF Waited, Kids
      <4> QED BY <1>6, <3>3, <4>1 DEF Reap
    <3> QED BY <3>1, <3>2, <3>3
  <2>3. q # p => Listed(q, t)' = Listed(q, t)
    BY <2>1 DEF Listed
  <2> QED BY <2>1, <2>2, <2>3, <1>old DEF Listed
<1>7. ASSUME NEW how \in Dead, Gone(p, how), how = "exit" => st[p] = "wait" /\ kids[p] = <<>>, st[p] \in Alive PROVE Goal
  <2>1. st' = [st EXCEPT ![p] = how] /\ kids' = [kids EXCEPT ![p] = <<>>] /\ parent' = parent
    BY <1>7 DEF Gone
  <2>2. CASE q = p
    <3>1. how = "exit" => ~Listed(q, t)
      BY <1>7, <2>2 DEF Listed
    <3> QED BY <1>7, <2>1, <2>2, <3>1, <1>old DEF Dead, States
  <2>3. CASE q # p
    BY <1>7, <2>1, <2>3, <1>old DEF Dead, States, Listed
  <2> QED BY <2>2, <2>3
<1>8. CASE IOpen(p) \/ IOpenFails(p) \/ IOpenUnlocked(p) \/ IClose(p)
  BY <1>8, <1>old DEF IOpen, IOpenFails, IOpenUnlocked, IClose, procs, Listed
<1> QED BY <1>1, <1>2, <1>3, <1>4, <1>5, <1>6, <1>7, <1>8 DEF Acts, Exit, Kill, Dead, Alive

-----------------------------------------------------------------------------
(* The line: a program opens it only while no file has the lock, and the    *)
(* lock is not given away while the program's descriptor is open.           *)
LEMMA LineStep ==
  ASSUME ProcInv, NEW p \in Proc, Acts(p)
  PROVE  LineHeld' /\ LockedAlone'
<1> USE Types DEF ProcInv
<1>0. (\A q, r \in Proc : User(q) /\ User(r) => q = r) <=> LockedAlone
  BY DEF LockedAlone, User, Living
<1>00. (\A q, r \in Proc : User(q)' /\ User(r)' => q = r) => LockedAlone'
  BY DEF LockedAlone, User, Living
<1> SUFFICES /\ \A q \in Proc : User(q)' => port'[q] # 0 /\ lock' = port'[q] /\ q \in refs'[port'[q]]
             /\ \A q, r \in Proc : User(q)' /\ User(r)' => q = r
  BY <1>00 DEF LineHeld
<1> DEFINE Held(q) == port'[q] # 0 /\ lock' = port'[q] /\ q \in refs'[port'[q]]
           Kept == (\A q \in Proc : User(q)' => Held(q)) /\ (\A q, r \in Proc : User(q)' /\ User(r)' => q = r)
<1>old. /\ \A q \in Proc : User(q) => port[q] # 0 /\ lock = port[q] /\ q \in refs[port[q]]
        /\ \A q, r \in Proc : User(q) /\ User(r) => q = r
        /\ \A q \in Proc : port[q] # 0 => port[q] \in Files
  BY <1>0 DEF LineHeld, Files
(* No new user, and the old ones keep what they have. *)
<1>same. ASSUME \A q \in Proc : User(q)' => User(q) /\ port'[q] = port[q] /\ lock' = lock /\ q \in refs'[port[q]]
         PROVE  Kept
  BY <1>same, <1>old
<1>1. ASSUME NEW how \in {"plain", "extra"}, Start(p, how) PROVE Kept
  <2>1. \A q \in Proc : User(q)' => User(q)
    BY <1>1 DEF Start, User, Fresh, Alive, States, files
  <2> QED BY <1>1, <2>1, <1>same, <1>old DEF Start, files
<1>2. ASSUME NEW t \in Proc, Fork(p, t) PROVE Kept
  <2>1. \A q \in Proc : User(q)' => q # t /\ User(q)
    BY <1>2 DEF Fork, User, Fresh, Alive, States
  <2>2. \A q \in Proc : q # t => port'[q] = port[q]
    BY <1>2 DEF Fork
  <2>3. \A o \in Files : refs[o] \subseteq refs'[o]
    BY <1>2 DEF Fork
  <2> QED BY <1>2, <2>1, <2>2, <2>3, <1>same, <1>old DEF Fork
<1>3. CASE ForkFails(p) \/ Reap(p)
  <2>1. \A q \in Proc : User(q)' => User(q)
    BY <1>3 DEF ForkFails, Reap, User, procs, files
  <2> QED BY <1>3, <2>1, <1>same, <1>old DEF ForkFails, Reap, files
<1>4. CASE Exec(p) \/ ExecFails(p) \/ EndScript(p)
  <2>1. \A q \in Proc : User(q)' => User(q) /\ port'[q] = port[q]
    BY <1>4 DEF Exec, ExecFails, EndScript, User, Fresh, Alive, States, files
  <2> QED BY <1>4, <2>1, <1>same, <1>old DEF Exec, ExecFails, EndScript, files
<1>5. ASSUME NEW how \in Dead, Gone(p, how) PROVE Kept
  <2>1. \A q \in Proc : User(q)' => q # p /\ User(q) /\ port'[q] = port[q]
    BY <1>5 DEF Gone, User, Alive, Dead, States
  <2>2. \A o \in Files : refs'[o] = refs[o] \ {p}
    BY <1>5 DEF Gone
  <2>3. \A q \in Proc : User(q)' => lock' = lock
    BY <1>5, <2>1, <1>old DEF Gone
  <2> QED BY <2>1, <2>2, <2>3, <1>same, <1>old
<1>6. CASE IOpen(p)
  <2>1. PICK o \in Files :
          /\ port' = [port EXCEPT ![p] = o] /\ opened' = [opened EXCEPT ![p] = TRUE]
          /\ lock' = o /\ refs' = [refs EXCEPT ![o] = {p}]
    BY <1>6 DEF IOpen
  <2>2. \A q \in Proc : User(q)' => q = p
    BY <1>6, <2>1, <1>old DEF IOpen, User, procs
  <2>3. Held(p)
    BY <2>1, BoundsAssumption DEF Files
  <2> QED BY <2>2, <2>3
<1>7. CASE IOpenFails(p)
  <2>1. \A q \in Proc : User(q)' => User(q) /\ q # p
    BY <1>7 DEF IOpenFails, User, procs
  <2> QED BY <1>7, <2>1, <1>same, <1>old DEF IOpenFails
<1>8. CASE IOpenUnlocked(p)
  <2>1. \A q \in Proc : User(q)' => User(q)
    BY <1>8 DEF IOpenUnlocked, User, procs
  <2>2. \A q \in Proc : ~User(q)
    BY <1>8, <1>old DEF IOpenUnlocked
  <2> QED BY <2>1, <2>2
<1>9. CASE IClose(p)
  <2>1. \A q \in Proc : User(q)' => q # p /\ User(q) /\ port'[q] = port[q]
    BY <1>9 DEF IClose, User, procs
  <2>2. \A o \in Files : refs[o] \ {p} \subseteq refs'[o]
    BY <1>9 DEF IClose, Files
  <2>3. \A q \in Proc : User(q)' => lock' = lock
    BY <1>9, <2>1, <1>old DEF IClose
  <2> QED BY <2>1, <2>2, <2>3, <1>same, <1>old
<1> QED BY <1>1, <1>2, <1>3, <1>4, <1>5, <1>6, <1>7, <1>8, <1>9 DEF Acts, Exit, Kill, Dead

-----------------------------------------------------------------------------
(* The invariant, and what follows from it. *)
LEMMA StepInv == ProcInv /\ [Next]_vars => ProcInv'
<1> SUFFICES ASSUME ProcInv, [Next]_vars PROVE ProcInv'
  OBVIOUS
<1>1. CASE Next
  <2>1. PICK p \in Proc : Acts(p)
    BY <1>1 DEF Next, Acts
  <2> QED BY <2>1, TypeStep, FreshStep, RootedStep, PortStep, KidsStep, LineStep DEF ProcInv
<1>2. CASE UNCHANGED vars
  <2> USE <1>2 DEF vars, procs, single, files, ProcInv
  <2>1. TypeOK' /\ Fresh' /\ Rooted' /\ PortHeld'
    BY DEF TypeOK, Living, Fresh, Rooted, PortHeld
  <2>2. KidsKept' /\ TasksEndFirst'
    BY DEF KidsKept, TasksEndFirst, Kids
  <2>3. LineHeld' /\ LockedAlone'
    BY DEF LineHeld, User, LockedAlone, Living
  <2> QED BY <2>1, <2>2, <2>3
<1> QED BY <1>1, <1>2

LEMMA PortAlone == ProcInv => OneInstance
BY DEF ProcInv, PortHeld, OneInstance, Living

(* main.cpp:49: instances started without a third argument, with all they   *)
(* forked and started, are one line of descent at a time, whoever is killed.*)
THEOREM Single == Spec => []OneInstance
BY InitInv, StepInv, PortAlone, PTL DEF Spec

(* inst.cpp:57-75: an instance that ends by itself ends after its tasks.    *)
THEOREM WaitsForTasks == Spec => []TasksEndFirst
<1>1. ProcInv => TasksEndFirst
  BY DEF ProcInv
<1> QED BY <1>1, InitInv, StepInv, PTL DEF Spec

(* dserial.cpp:192: no program opens a line that another one has opened.    *)
THEOREM LineLocked == Spec => []LockedAlone
<1>1. ProcInv => LockedAlone
  BY DEF ProcInv
<1> QED BY <1>1, InitInv, StepInv, PTL DEF Spec

(* Who is gone holds nothing, and a file with the lock is open somewhere.   *)
THEOREM ProcTypes == Spec => []TypeOK
<1>1. ProcInv => TypeOK
  BY DEF ProcInv
<1> QED BY <1>1, InitInv, StepInv, PTL DEF Spec
=============================================================================
