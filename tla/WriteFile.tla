----------------------------- MODULE WriteFile ------------------------------
(***************************************************************************)
(* What a positioned output adapter promises: a file that grows to the     *)
(* largest position ever reached, in which a write overwrites and a        *)
(* position that was only jumped over holds nothing of the client's.       *)
(***************************************************************************)
EXTENDS Integers, Sequences

CONSTANTS Blocks,     \* the values and blocks a client writes, as sequences
          Positions,  \* where it moves the write position to
          Hole        \* stands for "never written"

VARIABLES file,  \* the bytes of the file
          pos    \* the write position

vars == <<file, pos>>

Extended(len) ==
  [ i \in 1 .. len |-> IF i <= Len(file) THEN file[i] ELSE Hole ]

Higher(m, n) == IF m > n THEN m ELSE n

Init == file = << >> /\ pos = 0

Write(data) ==
  /\ file' = [ i \in 1 .. Higher(Len(file), pos + Len(data)) |->
                 IF i \in pos + 1 .. pos + Len(data)
                   THEN data[i - pos] ELSE file[i] ]
  /\ pos' = pos + Len(data)

MoveTo(p) == /\ file' = Extended(Higher(Len(file), p))
             /\ pos' = p

Next == \/ \E data \in Blocks : Write(data)
        \/ \E p \in Positions : MoveTo(p)

Spec == Init /\ [][Next]_vars

=============================================================================
