----------------------------- MODULE ReadCursor -----------------------------
(***************************************************************************)
(* What an input adapter promises its client, with nothing encoded: a      *)
(* position, an optional read limit (0 when there is none), the first      *)
(* error, and the bytes the last read produced.  What it does not promise  *)
(* is to keep a position behind a limit from looking like an error.        *)
(***************************************************************************)
EXTENDS Integers, Sequences

CONSTANTS Data,       \* the bytes being read
          ReadSizes,  \* how many bytes a client may ask for
          Positions,  \* where it may seek to, or limit its reads
          Errors,     \* the codes it may raise
          Overflow    \* the code for running out of data

None == 0             \* no error; also: no read limit

VARIABLES pos, limit, err, out

vars == <<pos, limit, err, out>>

End   == Len(Data)
Until == IF limit = None THEN End ELSE limit
Blank(n) == [ i \in 1 .. n |-> 0 ]

Init == pos = 0 /\ limit = None /\ err = None /\ out = << >>

\* The first error is final: it hides both positions.
Stop(e) == err' = e /\ pos' = 0 /\ limit' = None

ReadAll(n) ==
  /\ err = None /\ pos + n <= Until
  /\ out' = SubSeq(Data, pos + 1, pos + n)
  /\ pos' = pos + n
  /\ UNCHANGED <<limit, err>>

\* Past a read limit a reader sees zeros and stays where it is.
ReadAbsent(n) ==
  /\ err = None /\ limit # None /\ pos + n > limit
  /\ out' = Blank(n)
  /\ UNCHANGED <<pos, limit, err>>

ReadPastEnd(n) ==
  /\ err = None /\ limit = None /\ pos + n > End
  /\ out' = Blank(n)
  /\ Stop(Overflow)

ReadFailed(n) ==
  /\ err # None
  /\ out' = Blank(n)
  /\ UNCHANGED <<pos, limit, err>>

Seek(p) ==
  /\ err = None /\ p <= Until
  /\ pos' = p
  /\ UNCHANGED <<limit, err, out>>

SetLimit(p) ==
  /\ err = None /\ (p = None \/ p \in pos .. End)
  /\ limit' = p
  /\ UNCHANGED <<pos, err, out>>

\* A position behind the limit, or a limit before the position, is an error
\* whose code is the distance.  The limit is still reported.
Cross(distance) == err' = distance /\ pos' = 0 /\ UNCHANGED out

SeekPastLimit(p) ==
  /\ err = None /\ limit # None /\ p \in limit + 1 .. End
  /\ Cross(p - limit)
  /\ UNCHANGED limit

LimitBeforePos(p) ==
  /\ err = None /\ p # None /\ p < pos
  /\ Cross(pos - p)
  /\ limit' = p

Fail(e) == err = None /\ Stop(e) /\ UNCHANGED out

Next == \/ \E n \in ReadSizes : \/ ReadAll(n) \/ ReadAbsent(n)
                                \/ ReadPastEnd(n) \/ ReadFailed(n)
        \/ \E p \in Positions : \/ Seek(p) \/ SetLimit(p)
                                \/ SeekPastLimit(p) \/ LimitBeforePos(p)
        \/ \E e \in Errors : Fail(e)

Spec == Init /\ [][Next]_vars

=============================================================================
