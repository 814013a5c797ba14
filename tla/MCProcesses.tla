----------------------------- MODULE MCProcesses -----------------------------
(* Processes have no names of their own.                                    *)
EXTENDS Processes, TLC

Renamings == Permutations(Proc)
=============================================================================
