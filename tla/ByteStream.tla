----------------------------- MODULE ByteStream -----------------------------
(***************************************************************************)
(* What a stream device promises its script: each piece of text the script *)
(* is handed came over the line as it is, whole and in one run, and the    *)
(* pieces come in the order of the line, no byte twice.  Bytes may be lost *)
(* to the script: read and thrown away.                                    *)
(***************************************************************************)
EXTENDS Naturals, Sequences

CONSTANT Bytes

VARIABLES input,   \* everything that came over the line
          seen,    \* how much of it the device has read or thrown away
          mark,    \* no byte up to here may be handed out any more
          piece    \* what the script was handed last

vars == <<input, seen, mark, piece>>

Init == input = <<>> /\ seen = 0 /\ mark = 0 /\ piece = <<>>

Arrive == /\ \E b \in Bytes : input' = Append(input, b)
          /\ UNCHANGED <<seen, mark, piece>>

Skip == seen' \in seen..Len(input) /\ UNCHANGED <<input, mark, piece>>

Deliver == \E n \in seen..Len(input) :
  /\ \E i \in (mark + 1)..n : \E j \in i..n : piece' = SubSeq(input, i, j)
  /\ seen' = n /\ mark' = n
  /\ UNCHANGED input

Next == Arrive \/ Skip \/ Deliver

Spec == Init /\ [][Next]_vars
=============================================================================
