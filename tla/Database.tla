------------------------------ MODULE Database ------------------------------
(***************************************************************************)
(* The database of device values (database.cpp): plug_it, update and       *)
(* to_space, called by the script on the main thread, statement by         *)
(* statement.  SQLite is external: opening may fail with or without        *)
(* leaving a handle, any statement may fail (the file is locked by a       *)
(* reader, the disk is full), closing a connection rolls its transaction   *)
(* back.  The program may be killed between any two statements and started *)
(* again.                                                                  *)
(*                                                                         *)
(* A value is a row, only their number matters.  The library was found     *)
(* (_present); without it every call returns at once.                      *)
(***************************************************************************)
EXTENDS Naturals, Sequences, FiniteSets

CONSTANTS Devs,      \* the devices that may be recorded
          Dbdel,     \* the constructor's argument clean
          MaxCalls   \* bound: calls of the script and crashes

ASSUME DevsAssumption == IsFiniteSet(Devs)
ASSUME DbdelAssumption == Dbdel \in Nat /\ MaxCalls \in Nat

VARIABLES
  handle,   \* _db # 0
  dbable,   \* _dbable
  tables,   \* the tables of the file
  rows,     \* rows[d]: committed rows in the table of d
  work,     \* work[d]: rows inserted by the open transaction
  pc,       \* the statement the call in progress is at
  i,        \* the entry of _dbable it is at
  rv,       \* what it returns: 0 or, for -1, 1
  stored,   \* the update in progress has committed (history)
  calls     \* calls and crashes so far

vars == <<handle, dbable, tables, rows, work, pc, i, rv, stored, calls>>

PC == {"idle", "plugopen", "create", "plugclose", "open", "begin", "insert",
       "commit", "close", "trimopen", "delete", "trimclose", "returned", "dead"}

Empty == [d \in Devs |-> 0]

TypeOK ==
  /\ handle \in BOOLEAN /\ dbable \in Seq(Devs) /\ tables \subseteq Devs
  /\ rows \in [Devs -> Nat] /\ work \in [Devs -> Nat]
  /\ pc \in PC /\ i \in Nat \ {0} /\ rv \in {0, 1} /\ stored \in BOOLEAN
  /\ calls \in 0..MaxCalls

Init ==
  /\ handle = FALSE /\ dbable = <<>> /\ tables = {}
  /\ rows = Empty /\ work = Empty
  /\ pc = "idle" /\ i = 1 /\ rv = 0 /\ stored = FALSE /\ calls = 0

Goto(l) == pc' = l

Call(l) ==
  /\ pc \in {"idle", "returned"}
  /\ calls < MaxCalls
  /\ calls' = calls + 1
  /\ Goto(l) /\ i' = 1 /\ rv' = 0 /\ stored' = FALSE

Return(r) == Goto("returned") /\ rv' = r

(* A statement of the loop over _dbable is done. *)
NextEntry(after) ==
  IF i < Len(dbable) THEN i' = i + 1 /\ UNCHANGED pc ELSE Goto(after) /\ UNCHANGED i

(* sqlite3_open: a failure may leave a handle behind *)
Open(next) ==
  \/ handle' = TRUE /\ Goto(next) /\ UNCHANGED rv
  \/ handle' \in BOOLEAN /\ Return(1)

-----------------------------------------------------------------------------
(* plug_it: record every device that has data now.                         *)
Plug ==
  /\ Call("plugopen")
  /\ \E more \in UNION {[1..n -> Devs] : n \in 0..Cardinality(Devs)} :
        /\ \A j, k \in DOMAIN more : more[j] = more[k] => j = k
        /\ dbable' = dbable \o more
  /\ UNCHANGED <<handle, tables, rows, work>>

PlugOpen ==
  /\ pc = "plugopen"
  /\ IF dbable = <<>> THEN Return(1) /\ UNCHANGED handle ELSE Open("create")
  /\ UNCHANGED <<dbable, tables, rows, work, i, stored, calls>>

PlugCreate ==
  /\ pc = "create"
  /\ \/ /\ tables' = tables \cup {dbable[i]}
        /\ NextEntry("plugclose")
        /\ UNCHANGED rv
     \/ /\ rv' = 1
        /\ Goto("plugclose")
        /\ UNCHANGED <<tables, i>>
  /\ UNCHANGED <<handle, dbable, rows, work, stored, calls>>

PlugClose ==
  /\ pc = "plugclose"
  /\ handle' = FALSE
  /\ Return(rv)
  /\ UNCHANGED <<dbable, tables, rows, work, i, stored, calls>>

-----------------------------------------------------------------------------
(* update: one transaction inserts a row for every entry.                  *)
Update ==
  /\ Call("open")
  /\ UNCHANGED <<handle, dbable, tables, rows, work>>

(* assert(_db==0), then sqlite3_open *)
UpdateOpen ==
  /\ pc = "open"
  /\ IF handle THEN Goto("dead") /\ UNCHANGED <<handle, rv>> ELSE Open("begin")
  /\ UNCHANGED <<dbable, tables, rows, work, i, stored, calls>>

(* BEGIN; a failure returns without closing *)
UpdateBegin ==
  /\ pc = "begin"
  /\ \/ Goto(IF dbable = <<>> THEN "commit" ELSE "insert") /\ UNCHANGED rv
     \/ Return(1)
  /\ UNCHANGED <<handle, dbable, tables, rows, work, i, stored, calls>>

InsertRow ==
  /\ dbable[i] \in tables
  /\ work' = [work EXCEPT ![dbable[i]] = @ + 1]
  /\ NextEntry("commit")
  /\ UNCHANGED rv

InsertFails_GoesOn == NextEntry("commit") /\ UNCHANGED <<work, rv>>

InsertFails == rv' = 1 /\ Goto("close") /\ UNCHANGED <<work, i>>

UpdateInsert ==
  /\ pc = "insert"
  /\ InsertRow \/ InsertFails
  /\ UNCHANGED <<handle, dbable, tables, rows, stored, calls>>

CommitFails_Unreported == UNCHANGED <<rows, work, stored, rv>>

CommitFails == rv' = 1 /\ UNCHANGED <<rows, work, stored>>

CommitWorks ==
  /\ rows' = [d \in Devs |-> rows[d] + work[d]]
  /\ work' = Empty
  /\ stored' = TRUE
  /\ UNCHANGED rv

UpdateCommit ==
  /\ pc = "commit"
  /\ CommitWorks \/ CommitFails
  /\ Goto("close")
  /\ UNCHANGED <<handle, dbable, tables, i, calls>>

(* sqlite3_close rolls back what is not committed *)
UpdateClose ==
  /\ pc = "close"
  /\ handle' = FALSE
  /\ work' = Empty
  /\ Return(rv)
  /\ UNCHANGED <<dbable, tables, rows, i, stored, calls>>

-----------------------------------------------------------------------------
(* to_space: HddRoom is never assigned, so every call trims every table.   *)
ToSpace ==
  /\ Call("trimopen")
  /\ UNCHANGED <<handle, dbable, tables, rows, work>>

TrimOpen ==
  /\ pc = "trimopen"
  /\ Open(IF dbable = <<>> THEN "trimclose" ELSE "delete")
  /\ UNCHANGED <<dbable, tables, rows, work, i, stored, calls>>

Trimmed_BelowZero(n) == 0 - Dbdel + n
Trimmed(n) == IF n > Dbdel THEN n - Dbdel ELSE 0

(* a failing DELETE is logged and the next table is tried *)
TrimDelete ==
  /\ pc = "delete"
  /\ \/ rows' = [rows EXCEPT ![dbable[i]] = Trimmed(rows[dbable[i]])]
     \/ UNCHANGED rows
  /\ NextEntry("trimclose")
  /\ UNCHANGED <<handle, dbable, tables, work, rv, stored, calls>>

TrimClose ==
  /\ pc = "trimclose"
  /\ handle' = FALSE
  /\ Return(0)
  /\ UNCHANGED <<dbable, tables, rows, work, i, stored, calls>>

-----------------------------------------------------------------------------
(* The process is killed and started again; the file keeps what was         *)
(* committed.                                                               *)
Crash ==
  /\ calls < MaxCalls
  /\ calls' = calls + 1
  /\ handle' = FALSE /\ dbable' = <<>> /\ work' = Empty
  /\ pc' = "idle" /\ i' = 1 /\ rv' = 0 /\ stored' = FALSE
  /\ UNCHANGED <<tables, rows>>

Statement ==
  \/ PlugOpen \/ PlugCreate \/ PlugClose
  \/ UpdateOpen \/ UpdateBegin \/ UpdateInsert \/ UpdateCommit \/ UpdateClose
  \/ TrimOpen \/ TrimDelete \/ TrimClose

(* The script calls nothing more, or the assert has ended the program.     *)
Quiet == pc \in {"idle", "returned", "dead"} /\ UNCHANGED vars

Next == Plug \/ Update \/ ToSpace \/ Statement \/ Crash \/ Quiet

Spec == Init /\ [][Next]_vars
-----------------------------------------------------------------------------
(* The file only ever shows whole snapshots and trims: an error or a crash  *)
(* between the statements of an update leaves no part of it behind.         *)
Rows == INSTANCE DbRows
WholeSnapshots == Rows!Spec

(* update() tells the truth: it returns 0 exactly when its snapshot is in   *)
(* the file, whatever statement failed.                                     *)
ReportHonest == pc = "close" => (rv = 0 <=> stored)

(* database.cpp:133 asserts that no handle is left over from an earlier     *)
(* call.                                                                    *)
AssertHolds == pc # "dead"
=============================================================================
