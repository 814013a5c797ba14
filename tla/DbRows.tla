------------------------------- MODULE DbRows -------------------------------
(***************************************************************************)
(* What the device database promises to whoever reads its file: the tables *)
(* grow by whole snapshots, one row for every entry of the list of         *)
(* recorded devices, and shrink by the oldest rows of one table at a time. *)
(***************************************************************************)
EXTENDS Naturals, Sequences, FiniteSets

CONSTANTS Devs,    \* the devices that may be recorded
          Dbdel    \* rows a trim removes from a table

VARIABLES rows,    \* rows[d]: committed rows in the table of device d
          dbable   \* the recorded devices, one entry per registration

vars == <<rows, dbable>>

Times(d) == Cardinality({j \in 1..Len(dbable) : dbable[j] = d})

Trimmed(n) == IF n > Dbdel THEN n - Dbdel ELSE 0

Init == rows = [d \in Devs |-> 0] /\ dbable = <<>>

Snapshot == rows' = [d \in Devs |-> rows[d] + Times(d)] /\ UNCHANGED dbable

Trim == /\ \E d \in Devs : rows' = [rows EXCEPT ![d] = Trimmed(rows[d])]
        /\ UNCHANGED dbable

Register == dbable' \in Seq(Devs) /\ UNCHANGED rows

Next == Snapshot \/ Trim \/ Register

Spec == Init /\ [][Next]_vars
=============================================================================
