--------------------------- MODULE DatabaseProofs ---------------------------
(***************************************************************************)
(* Proofs about Database for any finite set of devices, any number of rows *)
(* that a trim takes away and any number of calls and crashes: types, the  *)
(* truth of what update() returns, and the refinement of DbRows.           *)
(***************************************************************************)
EXTENDS Database, FiniteSetTheorems, SequenceTheorems, TLAPS

(* A loop over _dbable is at an entry of it. *)
IndexOK ==
  /\ pc \in {"plugopen", "open", "begin", "trimopen"} => i = 1
  /\ pc \in {"create", "insert", "delete"} => i \in 1..Len(dbable)

(* Until its COMMIT an update has stored nothing and met no failure.        *)
ReportOK ==
  /\ pc \in {"open", "begin", "insert", "commit"} => rv = 0 /\ ~stored
  /\ pc = "close" => (rv = 0 <=> stored)

(* How often d is among the first n entries.                                *)
Seen(d, n) == Cardinality({j \in 1..n : dbable[j] = d})

(* The open transaction holds a row for every entry the loop is past.       *)
WorkOK ==
  /\ pc \notin {"insert", "commit", "close"} => work = Empty
  /\ pc = "insert" => \A d \in Devs : work[d] = Seen(d, i - 1)
  /\ pc = "commit" => \A d \in Devs : work[d] = Seen(d, Len(dbable))

DbInv == TypeOK /\ IndexOK /\ ReportOK /\ WorkOK

-----------------------------------------------------------------------------
(* Counting.                                                               *)

LEMMA SeenIsNat ==
  ASSUME NEW d, NEW n \in Nat
  PROVE  Seen(d, n) \in Nat
<1>1. IsFiniteSet(1..n)
  BY FS_Interval
<1>2. IsFiniteSet({j \in 1..n : dbable[j] = d})
  BY <1>1, FS_Subset
<1>3. QED
  BY <1>2, FS_CardinalityType DEF Seen

LEMMA SeenNone ==
  ASSUME NEW d
  PROVE  Seen(d, 0) = 0
<1>1. {j \in 1..0 : dbable[j] = d} = {}
  OBVIOUS
<1>2. QED
  BY <1>1, FS_EmptySet DEF Seen

(* One entry more. *)
LEMMA SeenNext ==
  ASSUME NEW d, NEW n \in Nat \ {0}
  PROVE  Seen(d, n) = IF dbable[n] = d THEN Seen(d, n - 1) + 1 ELSE Seen(d, n - 1)
<1> DEFINE S == {j \in 1..(n - 1) : dbable[j] = d}
<1>1. IsFiniteSet(S)
  <2>1. IsFiniteSet(1..(n - 1))
    BY FS_Interval
  <2>2. QED
    BY <2>1, FS_Subset
<1>2. n \notin S
  OBVIOUS
<1>3. CASE dbable[n] = d
  <2>1. {j \in 1..n : dbable[j] = d} = S \cup {n}
    BY <1>3
  <2>2. Cardinality(S \cup {n}) = Cardinality(S) + 1
    BY <1>1, <1>2, FS_AddElement, Zenon
  <2>3. QED
    BY <1>3, <2>1, <2>2 DEF Seen
<1>4. CASE dbable[n] # d
  <2>1. {j \in 1..n : dbable[j] = d} = S
    BY <1>4
  <2>2. QED
    BY <1>4, <2>1 DEF Seen
<1>5. QED
  BY <1>3, <1>4

-----------------------------------------------------------------------------
(* Types.                                                                  *)

LEMMA EmptyRows == Empty \in [Devs -> Nat]
BY DEF Empty

LEMMA CallTypes ==
  ASSUME TypeOK, NEW l \in PC, Call(l)
  PROVE  /\ pc' \in PC /\ i' \in Nat \ {0} /\ rv' \in {0, 1}
         /\ stored' \in BOOLEAN /\ calls' \in 0..MaxCalls
<1>1. calls' \in 0..MaxCalls
  BY DbdelAssumption DEF Call, TypeOK
<1>2. stored' \in BOOLEAN
  BY DEF Call
<1>3. QED
  BY <1>1, <1>2 DEF Call, Goto

LEMMA NextTypes ==
  ASSUME TypeOK, IndexOK, Next
  PROVE  TypeOK'
<1>0. /\ Len(dbable) \in Nat /\ <<>> \in Seq(Devs)
      /\ pc \in {"create", "insert", "delete"} => dbable[i] \in Devs
  BY EmptySeq, LenProperties, ElementOfSeq DEF TypeOK, IndexOK
<1>1. CASE Plug
  <2>1. PICK more \in UNION {[1..n -> Devs] : n \in 0..Cardinality(Devs)} :
          dbable' = dbable \o more
    BY <1>1 DEF Plug
  <2>2. PICK n \in 0..Cardinality(Devs) : more \in [1..n -> Devs]
    BY <2>1
  <2>3. more \in Seq(Devs)
    <3>1. Cardinality(Devs) \in Nat
      BY DevsAssumption, FS_CardinalityType
    <3>2. n \in Nat
      BY <3>1
    <3>3. QED
      BY <2>2, <3>2
  <2>4. dbable' \in Seq(Devs)
    BY <2>1, <2>3, ConcatProperties DEF TypeOK
  <2>5. Call("plugopen") /\ "plugopen" \in PC /\ UNCHANGED <<handle, tables, rows, work>>
    BY <1>1 DEF Plug, PC
  <2>6. QED
    BY <2>4, <2>5, CallTypes DEF TypeOK
<1>2. CASE Update \/ ToSpace
  <2>1. PICK l \in PC : Call(l) /\ UNCHANGED <<handle, dbable, tables, rows, work>>
    BY <1>2 DEF Update, ToSpace, PC
  <2>2. QED
    BY <2>1, CallTypes DEF TypeOK
<1>3. CASE PlugOpen \/ PlugCreate \/ PlugClose
  <2>1. CASE PlugOpen
    BY <2>1 DEF PlugOpen, Open, Return, Goto, TypeOK, PC
  <2>2. CASE PlugCreate
    BY <1>0, <2>2 DEF PlugCreate, NextEntry, Goto, TypeOK, PC
  <2>3. CASE PlugClose
    BY <2>3 DEF PlugClose, Return, Goto, TypeOK, PC
  <2>4. QED
    BY <1>3, <2>1, <2>2, <2>3
<1>4. CASE UpdateOpen \/ UpdateBegin
  <2>1. CASE UpdateOpen
    BY <2>1 DEF UpdateOpen, Open, Return, Goto, TypeOK, PC
  <2>2. CASE UpdateBegin
    BY <2>2 DEF UpdateBegin, Return, Goto, TypeOK, PC
  <2>3. QED
    BY <1>4, <2>1, <2>2
<1>5. CASE UpdateInsert
  <2>1. work' \in [Devs -> Nat] /\ rv' \in {0, 1}
    BY <1>0, <1>5 DEF UpdateInsert, InsertRow, InsertFails, TypeOK
  <2>2. pc' \in PC /\ i' \in Nat \ {0}
    BY <1>0, <1>5 DEF UpdateInsert, InsertRow, InsertFails, NextEntry, Goto, TypeOK, PC
  <2>3. QED
    BY <1>5, <2>1, <2>2 DEF UpdateInsert, TypeOK
<1>6. CASE UpdateCommit
  <2>1. rows' \in [Devs -> Nat] /\ work' \in [Devs -> Nat] /\ rv' \in {0, 1}
    <3>1. rows \in [Devs -> Nat] /\ work \in [Devs -> Nat] /\ rv \in {0, 1}
      BY DEF TypeOK
    <3>2. CASE CommitWorks
      <4>1. [d \in Devs |-> rows[d] + work[d]] \in [Devs -> Nat]
        BY <3>1
      <4>2. QED
        BY <3>1, <3>2, <4>1, EmptyRows DEF CommitWorks
    <3>3. CASE CommitFails
      BY <3>1, <3>3 DEF CommitFails
    <3>4. QED
      BY <1>6, <3>2, <3>3 DEF UpdateCommit
  <2>2. pc' \in PC
    BY <1>6 DEF UpdateCommit, Goto, PC
  <2>3. stored' \in BOOLEAN
    <3>1. CASE CommitWorks
      BY <3>1 DEF CommitWorks
    <3>2. CASE CommitFails
      BY <3>2 DEF CommitFails, TypeOK
    <3>3. QED
      BY <1>6, <3>1, <3>2 DEF UpdateCommit
  <2>4. QED
    BY <1>6, <2>1, <2>2, <2>3 DEF UpdateCommit, TypeOK
<1>7. CASE UpdateClose
  BY <1>7, EmptyRows DEF UpdateClose, Return, Goto, TypeOK, PC
<1>8. CASE TrimOpen
  BY <1>8 DEF TrimOpen, Open, Return, Goto, TypeOK, PC
<1>9. CASE TrimDelete
  <2>1. \A n \in Nat : Trimmed(n) \in Nat
    BY DbdelAssumption DEF Trimmed
  <2>2. rows' \in [Devs -> Nat]
    <3> DEFINE d == dbable[i]
    <3>1. d \in Devs /\ rows[d] \in Nat /\ rows \in [Devs -> Nat]
      BY <1>0, <1>9 DEF TrimDelete, TypeOK
    <3>2. rows' = [rows EXCEPT ![d] = Trimmed(rows[d])] \/ rows' = rows
      BY <1>9 DEF TrimDelete
    <3>3. Trimmed(rows[d]) \in Nat
      BY <2>1, <3>1
    <3> HIDE DEF d
    <3>4. QED
      BY <3>1, <3>2, <3>3
  <2>3. pc' \in PC /\ i' \in Nat \ {0}
    BY <1>0, <1>9 DEF TrimDelete, NextEntry, Goto, TypeOK, PC
  <2>4. QED
    BY <1>9, <2>2, <2>3 DEF TrimDelete, TypeOK
<1>10. CASE TrimClose
  BY <1>10 DEF TrimClose, Return, Goto, TypeOK, PC
<1>11. CASE Crash
  <2>1. calls' \in 0..MaxCalls
    BY <1>11, DbdelAssumption DEF Crash, TypeOK
  <2>2. handle' \in BOOLEAN /\ stored' \in BOOLEAN /\ pc' \in PC
    BY <1>11 DEF Crash, PC
  <2>3. dbable' \in Seq(Devs) /\ work' \in [Devs -> Nat] /\ rows' \in [Devs -> Nat]
    BY <1>0, <1>11, EmptyRows DEF Crash, TypeOK
  <2>4. QED
    BY <1>11, <2>1, <2>2, <2>3 DEF Crash, TypeOK
<1>12. CASE Quiet
  BY <1>12 DEF Quiet, vars, TypeOK
<1>13. QED
  BY <1>1, <1>2, <1>3, <1>4, <1>5, <1>6, <1>7, <1>8, <1>9, <1>10, <1>11, <1>12
  DEF Next, Statement

-----------------------------------------------------------------------------
(* The other parts of the invariant.                                       *)

Starts == PlugOpen \/ UpdateOpen \/ UpdateBegin \/ TrimOpen

LEMMA NextIndex ==
  ASSUME TypeOK, IndexOK, Next
  PROVE  IndexOK'
<1>0. Len(dbable) \in Nat /\ (dbable # <<>> => Len(dbable) > 0) /\ i \in Nat
  BY EmptySeq, LenProperties DEF TypeOK
<1>1. CASE Plug \/ Update \/ ToSpace
  BY <1>1 DEF Plug, Update, ToSpace, Call, Goto, IndexOK
<1>2. CASE Starts
  <2>1. ASSUME pc' \in {"create", "insert", "delete"} PROVE dbable # <<>>
    BY <1>2, <2>1 DEF Starts, PlugOpen, UpdateOpen, UpdateBegin, TrimOpen, Open, Return, Goto
  <2>2. i' = i /\ dbable' = dbable
    BY <1>2 DEF Starts, PlugOpen, UpdateOpen, UpdateBegin, TrimOpen
  <2>3. i = 1
    BY <1>2 DEF Starts, PlugOpen, UpdateOpen, UpdateBegin, TrimOpen, IndexOK
  <2>4. QED
    BY <1>0, <2>1, <2>2, <2>3 DEF IndexOK
<1>3. CASE PlugCreate \/ UpdateInsert \/ TrimDelete
  <2>1. dbable' = dbable /\ i \in 1..Len(dbable)
    BY <1>3 DEF PlugCreate, UpdateInsert, TrimDelete, IndexOK
  <2>2. \/ i < Len(dbable) /\ i' = i + 1 /\ pc' = pc
        \/ pc' \in {"plugclose", "commit", "trimclose", "close"}
    BY <1>3 DEF PlugCreate, UpdateInsert, InsertRow, InsertFails, TrimDelete, NextEntry, Goto
  <2>3. pc \in {"create", "insert", "delete"}
    BY <1>3 DEF PlugCreate, UpdateInsert, TrimDelete
  <2>4. QED
    BY <1>0, <2>1, <2>2, <2>3 DEF IndexOK
<1>4. CASE PlugClose \/ UpdateCommit \/ UpdateClose \/ TrimClose \/ Crash
  BY <1>4 DEF PlugClose, UpdateCommit, UpdateClose, TrimClose, Crash, Return, Goto, IndexOK
<1>5. CASE Quiet
  BY <1>5 DEF Quiet, vars, IndexOK
<1>6. QED
  BY <1>1, <1>2, <1>3, <1>4, <1>5 DEF Next, Statement, Starts

LEMMA NextReport ==
  ASSUME TypeOK, ReportOK, Next
  PROVE  ReportOK'
<1>1. CASE Plug \/ Update \/ ToSpace
  BY <1>1 DEF Plug, Update, ToSpace, Call, Goto, ReportOK
<1>2. CASE PlugOpen \/ PlugCreate \/ PlugClose \/ TrimOpen \/ TrimDelete \/ TrimClose
  BY <1>2 DEF PlugOpen, PlugCreate, PlugClose, TrimOpen, TrimDelete, TrimClose, Open, Return,
     NextEntry, Goto, ReportOK
<1>3. CASE UpdateOpen \/ UpdateBegin
  BY <1>3 DEF UpdateOpen, UpdateBegin, Open, Return, Goto, ReportOK
<1>4. CASE UpdateInsert
  BY <1>4 DEF UpdateInsert, InsertRow, InsertFails, NextEntry, Goto, ReportOK
<1>5. CASE UpdateCommit
  BY <1>5 DEF UpdateCommit, CommitWorks, CommitFails, Goto, ReportOK
<1>6. CASE UpdateClose
  BY <1>6 DEF UpdateClose, Return, Goto, ReportOK
<1>7. CASE Crash
  BY <1>7 DEF Crash, ReportOK
<1>8. CASE Quiet
  BY <1>8 DEF Quiet, vars, ReportOK
<1>9. QED
  BY <1>1, <1>2, <1>3, <1>4, <1>5, <1>6, <1>7, <1>8 DEF Next, Statement

LEMMA BeginWork ==
  ASSUME TypeOK, IndexOK, WorkOK, UpdateBegin
  PROVE  WorkOK'
<1>1. i = 1 /\ work = Empty /\ dbable \in Seq(Devs)
  BY DEF UpdateBegin, IndexOK, WorkOK, TypeOK
<1>2. i' = i /\ work' = work /\ dbable' = dbable
  BY DEF UpdateBegin
<1>3. \/ pc' = "insert"
      \/ pc' = "commit" /\ Len(dbable) = 0
      \/ pc' = "returned"
  <2>1. Len(<<>>) = 0
    BY EmptySeq
  <2>2. QED
    BY <2>1 DEF UpdateBegin, Return, Goto
<1>4. \A d \in Devs : work[d] = Seen(d, 0)
  BY <1>1, SeenNone DEF Empty
<1>5. \A d, n : Seen(d, n)' = Seen(d, n')
  BY <1>2 DEF Seen
<1>6. i - 1 = 0
  BY <1>1
<1>7. CASE pc' = "insert"
  <2>1. (\A d \in Devs : work[d] = Seen(d, i - 1))'
    BY <1>2, <1>4, <1>6 DEF Seen
  <2>2. QED
    BY <1>7, <2>1 DEF WorkOK
<1>8. CASE pc' = "commit" /\ Len(dbable) = 0
  <2>1. (\A d \in Devs : work[d] = Seen(d, Len(dbable)))'
    BY <1>2, <1>4, <1>8 DEF Seen
  <2>2. QED
    BY <1>8, <2>1 DEF WorkOK
<1>9. CASE pc' = "returned"
  BY <1>1, <1>2, <1>9 DEF WorkOK, Empty
<1>10. QED
  BY <1>3, <1>7, <1>8, <1>9

LEMMA InsertWork ==
  ASSUME TypeOK, IndexOK, WorkOK, UpdateInsert
  PROVE  WorkOK'
<1>1. /\ pc = "insert" /\ i \in 1..Len(dbable) /\ dbable \in Seq(Devs)
      /\ Len(dbable) \in Nat /\ dbable' = dbable
  BY LenProperties DEF UpdateInsert, IndexOK, TypeOK
<1>2. CASE InsertFails
  BY <1>2 DEF InsertFails, Goto, WorkOK
<1>3. CASE InsertRow
  <2>1. work' = [work EXCEPT ![dbable[i]] = work[dbable[i]] + 1] /\ work \in [Devs -> Nat]
    BY <1>3 DEF InsertRow, TypeOK
  <2>2. \A d \in Devs : work'[d] = Seen(d, i)
    <3> SUFFICES ASSUME NEW d \in Devs PROVE work'[d] = Seen(d, i)
      OBVIOUS
    <3>1. work[d] = Seen(d, i - 1)
      BY <1>1 DEF WorkOK
    <3>2. Seen(d, i) = IF dbable[i] = d THEN Seen(d, i - 1) + 1 ELSE Seen(d, i - 1)
      <4>1. i \in Nat \ {0}
        BY DEF TypeOK
      <4>2. QED
        BY <4>1, SeenNext
    <3>3. QED
      BY <2>1, <3>1, <3>2
  <2>3. \/ i < Len(dbable) /\ i' = i + 1 /\ pc' = "insert"
        \/ i = Len(dbable) /\ pc' = "commit"
    BY <1>1, <1>3 DEF InsertRow, NextEntry, Goto
  <2>4. CASE i < Len(dbable) /\ i' = i + 1 /\ pc' = "insert"
    <3>1. i' - 1 = i
      BY <1>1, <2>4
    <3>2. (\A d \in Devs : work[d] = Seen(d, i - 1))'
      BY <1>1, <2>2, <3>1 DEF Seen
    <3>3. QED
      BY <2>4, <3>2 DEF WorkOK
  <2>5. CASE i = Len(dbable) /\ pc' = "commit"
    <3>1. (\A d \in Devs : work[d] = Seen(d, Len(dbable)))'
      BY <1>1, <2>2, <2>5 DEF Seen
    <3>2. QED
      BY <2>5, <3>1 DEF WorkOK
  <2>6. QED
    BY <2>3, <2>4, <2>5
<1>4. QED
  BY <1>2, <1>3 DEF UpdateInsert

LEMMA NextWork ==
  ASSUME TypeOK, IndexOK, WorkOK, Next
  PROVE  WorkOK'
<1>1. CASE Plug \/ Update \/ ToSpace
  <2>1. pc \in {"idle", "returned"} /\ work' = work
    BY <1>1 DEF Plug, Update, ToSpace, Call
  <2>2. pc' \notin {"insert", "commit", "close"}
    BY <1>1 DEF Plug, Update, ToSpace, Call, Goto
  <2>3. QED
    BY <2>1, <2>2 DEF WorkOK, Empty
<1>2. CASE PlugOpen \/ PlugCreate \/ PlugClose \/ TrimOpen \/ TrimDelete \/ TrimClose \/ UpdateOpen
  <2>1. pc \notin {"insert", "commit", "close"} /\ work' = work
    BY <1>2 DEF PlugOpen, PlugCreate, PlugClose, TrimOpen, TrimDelete, TrimClose, UpdateOpen
  <2>2. pc' \notin {"insert", "commit", "close"}
    BY <1>2 DEF PlugOpen, PlugCreate, PlugClose, TrimOpen, TrimDelete, TrimClose, UpdateOpen,
       Open, Return, NextEntry, Goto
  <2>3. QED
    BY <2>1, <2>2 DEF WorkOK, Empty
<1>3. CASE UpdateCommit
  BY <1>3 DEF UpdateCommit, Goto, WorkOK
<1>4. CASE UpdateClose \/ Crash
  BY <1>4 DEF UpdateClose, Crash, Return, Goto, WorkOK, Empty
<1>5. CASE Quiet
  BY <1>5 DEF Quiet, vars, WorkOK, Seen, Empty
<1>6. QED
  BY <1>1, <1>2, <1>3, <1>4, <1>5, BeginWork, InsertWork DEF Next, Statement

LEMMA InitDb == Init => DbInv
<1> SUFFICES ASSUME Init PROVE DbInv
  OBVIOUS
<1>1. <<>> \in Seq(Devs)
  BY EmptySeq
<1>2. TypeOK
  <2>1. rows \in [Devs -> Nat] /\ work \in [Devs -> Nat]
    BY EmptyRows DEF Init
  <2>2. handle \in BOOLEAN /\ stored \in BOOLEAN /\ pc \in PC
    BY DEF Init, PC
  <2>3. calls \in 0..MaxCalls /\ i \in Nat \ {0} /\ rv \in {0, 1}
    BY DbdelAssumption DEF Init
  <2>4. dbable \in Seq(Devs) /\ tables \subseteq Devs
    BY <1>1 DEF Init
  <2>5. QED
    BY <2>1, <2>2, <2>3, <2>4 DEF TypeOK
<1>3. IndexOK /\ ReportOK /\ WorkOK
  BY DEF Init, IndexOK, ReportOK, WorkOK, Empty
<1>4. QED
  BY <1>2, <1>3 DEF DbInv

LEMMA DbInvariant == Spec => []DbInv
<1>1. DbInv /\ [Next]_vars => DbInv'
  <2>1. ASSUME DbInv, Next PROVE DbInv'
    BY <2>1, NextTypes, NextIndex, NextReport, NextWork DEF DbInv
  <2>2. ASSUME DbInv, UNCHANGED vars PROVE DbInv'
    <3>1. TypeOK' /\ IndexOK' /\ ReportOK'
      BY <2>2 DEF DbInv, vars, TypeOK, IndexOK, ReportOK
    <3>2. WorkOK'
      BY <2>2 DEF DbInv, vars, WorkOK, Seen, Empty
    <3>3. QED
      BY <3>1, <3>2 DEF DbInv
  <2>3. QED
    BY <2>1, <2>2
<1>2. QED
  BY InitDb, <1>1, PTL DEF Spec

-----------------------------------------------------------------------------
(* The variables keep their types: a trim never takes more rows than there  *)
(* are (database.cpp:208-224).                                              *)
THEOREM DbTypes == Spec => []TypeOK
BY DbInvariant, PTL DEF DbInv

(* update() returns 0 exactly when its snapshot is in the file.             *)
THEOREM HonestReports == Spec => []ReportHonest
<1>1. DbInv => ReportHonest
  BY DEF DbInv, ReportOK, ReportHonest
<1>2. QED
  BY DbInvariant, <1>1, PTL

(* What a statement does to the file is a whole snapshot, a trim or         *)
(* nothing, whatever failed before it.                                      *)
LEMMA StepRows ==
  ASSUME DbInv, Next
  PROVE  [Rows!Next]_(Rows!vars)
<1>0. TypeOK /\ IndexOK /\ WorkOK /\ TypeOK'
  BY NextTypes DEF DbInv
<1>1. CASE Plug \/ Crash
  <2>1. rows' = rows /\ dbable' \in Seq(Devs)
    BY <1>0, <1>1 DEF Plug, Crash, TypeOK
  <2>2. QED
    BY <2>1 DEF Rows!Next, Rows!Register
<1>2. CASE UpdateCommit
  <2>1. CASE CommitWorks
    <3>1. \A d \in Devs : work[d] = Rows!Times(d)
      <4>1. \A d \in Devs : work[d] = Seen(d, Len(dbable))
        BY <1>0, <1>2 DEF UpdateCommit, WorkOK
      <4>2. \A d \in Devs : Seen(d, Len(dbable)) = Rows!Times(d)
        BY Zenon DEF Seen, Rows!Times, Cardinality, Rows!Cardinality
      <4>3. QED
        BY <4>1, <4>2
    <3>2. rows' = [d \in Devs |-> rows[d] + Rows!Times(d)] /\ dbable' = dbable
      BY <1>2, <2>1, <3>1 DEF UpdateCommit, CommitWorks
    <3>3. QED
      BY <3>2 DEF Rows!Next, Rows!Snapshot
  <2>2. CASE CommitFails
    BY <1>2, <2>2 DEF UpdateCommit, CommitFails, Rows!vars
  <2>3. QED
    BY <1>2, <2>1, <2>2 DEF UpdateCommit
<1>3. CASE TrimDelete
  <2>1. dbable[i] \in Devs /\ dbable' = dbable
    BY <1>0, <1>3, ElementOfSeq DEF TrimDelete, IndexOK, TypeOK
  <2>2. CASE rows' = [rows EXCEPT ![dbable[i]] = Trimmed(rows[dbable[i]])]
    <3>1. \A n : Trimmed(n) = Rows!Trimmed(n)
      BY DEF Trimmed, Rows!Trimmed
    <3>2. Rows!Trim
      BY <2>1, <2>2, <3>1 DEF Rows!Trim
    <3>3. QED
      BY <3>2 DEF Rows!Next
  <2>3. CASE rows' = rows
    BY <2>1, <2>3 DEF Rows!vars
  <2>4. QED
    BY <1>3, <2>2, <2>3 DEF TrimDelete
<1>4. CASE \/ Update \/ ToSpace \/ Quiet
           \/ PlugOpen \/ PlugCreate \/ PlugClose
           \/ UpdateOpen \/ UpdateBegin \/ UpdateInsert \/ UpdateClose
           \/ TrimOpen \/ TrimClose
  <2>1. rows' = rows /\ dbable' = dbable
    BY <1>4 DEF Update, ToSpace, Quiet, vars, PlugOpen, PlugCreate, PlugClose, UpdateOpen,
       UpdateBegin, UpdateInsert, UpdateClose, TrimOpen, TrimClose
  <2>2. QED
    BY <2>1 DEF Rows!vars
<1>5. QED
  BY <1>1, <1>2, <1>3, <1>4 DEF Next, Statement

(* The statements implement DbRows: errors and crashes between them never   *)
(* leave a part of a snapshot in the file.                                  *)
THEOREM SnapshotsWhole == Spec => WholeSnapshots
<1>1. Init => Rows!Init
  BY DEF Init, Rows!Init, Empty
<1>2. DbInv /\ [Next]_vars => [Rows!Next]_(Rows!vars)
  <2>1. ASSUME DbInv, Next PROVE [Rows!Next]_(Rows!vars)
    BY <2>1, StepRows
  <2>2. ASSUME UNCHANGED vars PROVE UNCHANGED Rows!vars
    BY <2>2 DEF vars, Rows!vars
  <2>3. QED
    BY <2>1, <2>2
<1>3. QED
  BY <1>1, <1>2, DbInvariant, PTL DEF Spec, WholeSnapshots, Rows!Spec
=============================================================================
