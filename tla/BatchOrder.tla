----------------------------- MODULE BatchOrder -----------------------------
(***************************************************************************)
(* What the hand-over of device batches from the REST server to the main   *)
(* loop promises, seen from outside: every batch gets the next serial      *)
(* number when it is accepted (Inst::web_set_data), the main loop applies  *)
(* batches to the devices (Inst::comit_devs), never one that was not       *)
(* accepted, never one twice and never one older than one it has applied.  *)
(* A batch may stay unapplied for ever: the code overwrites batches.       *)
(***************************************************************************)
EXTENDS Naturals, FiniteSets

VARIABLES serial,   \* number of batches accepted so far
          applied,  \* serial numbers of the batches applied to the devices
          count     \* how often a batch was applied

vars == <<serial, applied, count>>

Init == serial = 0 /\ applied = {} /\ count = 0

Accept == serial' = serial + 1 /\ UNCHANGED <<applied, count>>

Newer(b) == \A c \in applied : c < b

Apply == \E s \in SUBSET (1..serial) :
            /\ s # {}
            /\ \A b \in s : Newer(b)
            /\ applied' = applied \cup s
            /\ count' = count + Cardinality(s)
            /\ UNCHANGED serial

Next == Accept \/ Apply

Spec == Init /\ [][Next]_vars
=============================================================================
