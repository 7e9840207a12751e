----------------------------- MODULE OrderedLog -----------------------------
(***************************************************************************)
(* What an output adapter over a stream promises: the stream gets          *)
(* everything that is written, in the order in which it is written, sooner *)
(* or later, and no later than the next flush; all but the end of it when  *)
(* it is full.                                                             *)
(***************************************************************************)
EXTENDS Integers, Sequences

CONSTANTS WriteSizes,  \* sizes of the values and blocks a client writes
          MaxBytes     \* bound: bytes written

VARIABLES sent,  \* how much was written; every byte is its own number
          there, \* what is on the stream
          room   \* how much it takes

vars == <<sent, there, room>>

Init == sent = 0 /\ there = << >> /\ room \in Nat

Reaches(n)   == there' = [ i \in 1 .. n |-> i ]
Reachable(n) == IF n < room THEN n ELSE room

Write(n) == /\ sent' = sent + n /\ UNCHANGED room
            /\ \E k \in Len(there) .. Reachable(sent') : Reaches(k)

Flush == Reaches(Reachable(sent)) /\ UNCHANGED <<sent, room>>

Next == (\E n \in WriteSizes : Write(n)) \/ Flush

Spec == Init /\ [][Next]_vars

\* Whatever was written is on the stream some day.
SoonerOrLater ==
  \A n \in 1 .. MaxBytes : sent >= n ~> Len(there) >= Reachable(n)

=============================================================================
