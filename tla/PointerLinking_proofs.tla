------------------------ MODULE PointerLinking_proofs ------------------------
(***************************************************************************)
(* Theorems about PointerLinking, for all programs, all graphs and every   *)
(* part of the stream that the reader may get.                             *)
(*                                                                         *)
(* When the reader begins, the writer is done, so an invariant that speaks *)
(* of the reader's state needs to know how the stream came about.  The     *)
(* invariant says that there is a history of the writer: its states after  *)
(* each step, each of which satisfies WriterInv.  The reader always is in  *)
(* step with one of them (Sync), or behind the end of what it got (Cut);   *)
(* in both cases ReaderInv holds, which says what the reader's objects     *)
(* stand for.  A step of the reader is followed by one of the history.     *)
(*                                                                         *)
(* The order: the writer's steps, the reader's state, each of its steps    *)
(* for ReaderInv, each for Sync, both together, the programs and graphs of *)
(* Init, the invariant, and what follows from it.                          *)
(***************************************************************************)
EXTENDS PointerLinking, SequenceTheorems, FiniteSetTheorems, WellFoundedInduction, TLAPS

(***************************************************************************)
(* What does not change in a run: the types of the pointers and the graph  *)
(* of the writer.                                                          *)
(***************************************************************************)
World ==
  [ objects |-> Objects, root |-> RootSlots, object |-> ObjectSlots, graph |-> graph,
    polymorphic |-> Polymorphic, existing |-> program.existing ]

Things(c) == c.objects \union {Root}

Shape(c, x)      == IF x = Root THEN c.root ELSE c.object
HasSlot(c, x, i) == i \in 1 .. Len(Shape(c, x))
Refers(c, x, i)  == Shape(c, x)[i] = "Reference"
Use(c, x, i)     == Ownership(Shape(c, x)[i])
Target(c, x, i)  == c.graph[<<x, i>>]

Uses == Kinds \ {"Reference"}

\* A pointer through which an object is written, or would be.
Holding(c, x, i) == HasSlot(c, x, i) /\ Use(c, x, i) # "Observer"

\* A path of objects each of which holds the next one.
Path(c, q, n) ==
  /\ \A k \in 1 .. n : q[k] \in Things(c)
  /\ \A j, k \in 1 .. n : q[j] = q[k] => j = k
  /\ \A k \in 1 .. n - 1 : \E i : Holding(c, q[k], i) /\ Target(c, q[k], i) = q[k + 1]

NoCycles(c) ==
  \A n \in Nat \ {0} : \A q : Path(c, q, n) => \A i : Holding(c, q[n], i) => Target(c, q[n], i) # q[1]

\* What the types and the assertions of the code give.
Owned(c) ==
  \A x, y \in Things(c) : \A i, j :
    /\ Holding(c, x, i) /\ Holding(c, y, j) /\ Use(c, x, i) = "Owner"
    /\ Target(c, x, i) = Target(c, y, j) /\ Target(c, x, i) # Null
    => x = y /\ i = j

Given(c) ==
  /\ IsFiniteSet(c.objects) /\ c.objects \subseteq Nat \ {0}
  /\ c.root \in Seq(Kinds) /\ c.object \in Seq(Uses)
  /\ \A x \in Things(c) : \A i : HasSlot(c, x, i) => Target(c, x, i) \in c.objects \union {Null}
  /\ \A i : HasSlot(c, Root, i) /\ Refers(c, Root, i) => Target(c, Root, i) # Null
  /\ Owned(c)
  /\ c.polymorphic \in BOOLEAN /\ c.existing \in BOOLEAN
  /\ c.polymorphic /\ c.existing => NoCycles(c)

-----------------------------------------------------------------------------
(***************************************************************************)
(* The writer, as a relation of its states.                                *)
(***************************************************************************)
SlotAhead(c, st) == st # << >> /\ HasSlot(c, Last(st).at, Last(st).slot)
NoneAhead(c, st) == st # << >> /\ ~HasSlot(c, Last(st).at, Last(st).slot)
Ahead(c, st)     == Target(c, Last(st).at, Last(st).slot)
UseAhead(c, st)  == Use(c, Last(st).at, Last(st).slot)

InfoIn(is, p, kind) ==
  IF p \in DOMAIN is
    THEN Update(is[p], kind)
    ELSE [ id |-> Cardinality(DOMAIN is) + 1, ownership |-> kind, isSharedProcessed |-> FALSE ]

NullStep(c, w, v) ==
  /\ SlotAhead(c, w.stack) /\ Ahead(c, w.stack) = Null
  /\ v.info = w.info /\ v.stack = Moved(w.stack) /\ v.stream = Append(w.stream, 0)

PointerStep(c, w, v) ==
  /\ SlotAhead(c, w.stack) /\ Ahead(c, w.stack) # Null
  /\ LET p    == Ahead(c, w.stack)
         kind == UseAhead(c, w.stack)
         info == InfoIn(w.info, p, kind)
     IN  /\ v.info = [ q \in DOMAIN w.info \union {p} |-> IF q = p THEN info ELSE w.info[q] ]
         /\ IF kind = "Observer" \/ info.isSharedProcessed
              THEN /\ v.stream = Append(w.stream, info.id)
                   /\ v.stack = Moved(w.stack)
              ELSE /\ v.stream = w.stream \o << info.id, ValueOf(p) >>
                   /\ v.stack = Append(Moved(w.stack), [ at |-> p, slot |-> 1 ])

ReturnStep(c, w, v) ==
  NoneAhead(c, w.stack) /\ v.info = w.info /\ v.stack = Front(w.stack) /\ v.stream = w.stream

WriterStep(c, w, v) == NullStep(c, w, v) \/ PointerStep(c, w, v) \/ ReturnStep(c, w, v)

-----------------------------------------------------------------------------
\* The objects in progress: each was found through the slot before the next
\* one of the object around it, and none twice.
Nested(c, st) ==
  /\ st \in Seq([ at : Things(c), slot : Nat \ {0} ])
  /\ \A k \in 1 .. Len(st) : st[k].slot <= Len(Shape(c, st[k].at)) + 1
  /\ st # << >> => st[1].at = Root
  /\ \A j, k \in 1 .. Len(st) : st[j].at = st[k].at => j = k
  /\ \A k \in 1 .. Len(st) - 1 : /\ Holding(c, st[k].at, st[k].slot - 1)
                                 /\ Target(c, st[k].at, st[k].slot - 1) = st[k + 1].at

\* Every object has an id of its own.
Numbered(c, is) ==
  /\ IsFiniteSet(DOMAIN is) /\ DOMAIN is \subseteq c.objects
  /\ Cardinality(DOMAIN is) \in Nat
  /\ is \in [ DOMAIN is -> [ id : 1 .. Cardinality(DOMAIN is), ownership : Uses,
                             isSharedProcessed : BOOLEAN ] ]
  /\ \A o, q \in DOMAIN is : is[o].id = is[q].id => o = q
  /\ \A o \in DOMAIN is : is[o].ownership = "Observer" => ~is[o].isSharedProcessed

\* The objects that were written, in part or completely.
Entered(is) == {Root} \union { o \in DOMAIN is : is[o].ownership # "Observer" }

\* The pointers the writer has passed.
Passed(c, w, x, i) ==
  /\ x \in Entered(w.info) /\ HasSlot(c, x, i)
  /\ \A k \in 1 .. Len(w.stack) : w.stack[k].at = x => i < w.stack[k].slot

\* An object is written exactly if a pointer that holds it was passed.
Covered(c, w) ==
  /\ \A k \in 1 .. Len(w.stack) : w.stack[k].at \in Entered(w.info)
  /\ \A o \in Entered(w.info) : o # Root =>
       \E x, i : Passed(c, w, x, i) /\ Holding(c, x, i) /\ Target(c, x, i) = o
  /\ \A x, i : Passed(c, w, x, i) /\ Target(c, x, i) # Null =>
       /\ Target(c, x, i) \in DOMAIN w.info
       /\ Holding(c, x, i) => Target(c, x, i) \in Entered(w.info)

WriterInv(c, w) ==
  Nested(c, w.stack) /\ Numbered(c, w.info) /\ Covered(c, w) /\ w.stream \in Seq(Int)

-----------------------------------------------------------------------------
(***************************************************************************)
(* Stacks of frames.                                                       *)
(***************************************************************************)
LEMMA NotEmpty ==
  ASSUME NEW F, NEW st \in Seq(F), st # << >>
  PROVE  /\ Len(st) \in Nat \ {0} /\ Len(st) \in 1 .. Len(st)
         /\ Last(st) = st[Len(st)] /\ Last(st) \in F
<1>1. Len(st) \in Nat /\ Len(st) # 0
  BY EmptySeq, LenProperties
<1>2. Len(st) \in 1 .. Len(st)
  BY <1>1
<1>. QED
  BY <1>1, <1>2, ElementOfSeq DEF Last

\* The frame that goes on, in a stack of the writer's and in one of the reader's.
LEMMA MovedFrames ==
  ASSUME NEW A, NEW st \in Seq([ at : A, slot : Nat \ {0} ]), st # << >>
  PROVE  /\ Moved(st) \in Seq([ at : A, slot : Nat \ {0} ]) /\ Len(Moved(st)) = Len(st)
         /\ Moved(st) # << >>
         /\ \A k \in 1 .. Len(st) : /\ Moved(st)[k].at = st[k].at
                                    /\ k # Len(st) => Moved(st)[k].slot = st[k].slot
         /\ Moved(st)[Len(st)].slot = st[Len(st)].slot + 1
<1>. DEFINE F == [ at : A, slot : Nat \ {0} ]
<1>1. Len(st) \in Nat \ {0} /\ Len(st) \in 1 .. Len(st) /\ st[Len(st)] \in F
  <2>1. st \in Seq(F)
    OBVIOUS
  <2>. HIDE DEF F
  <2>. QED
    BY <2>1, NotEmpty
<1>2. PICK n \in Nat \ {0} : n = Len(st)
  BY <1>1
<1>3. PICK f : f = [ st[n] EXCEPT !.slot = @ + 1 ]
  BY Zenon
<1>4. f \in F /\ f.at = st[n].at /\ f.slot = st[n].slot + 1
  BY <1>1, <1>2, <1>3
<1>5. PICK m : m = Moved(st)
  OBVIOUS
<1>6. m = [ st EXCEPT ![n] = f ]
  BY <1>2, <1>3, <1>5 DEF Moved
<1>. HIDE DEF F
<1>7. m \in Seq(F) /\ Len(m) = n /\ \A k \in 1 .. n : m[k] = IF k = n THEN f ELSE st[k]
  BY <1>2, <1>4, <1>6 DEF F
<1>8. m # << >>
  BY <1>2, <1>7
<1>. QED
  BY <1>2, <1>4, <1>5, <1>7, <1>8 DEF F

LEMMA MovedReader ==
  ASSUME NEW A, NEW st \in Seq([ at : A, slot : Nat \ {0}, id : Nat ]), st # << >>
  PROVE  /\ Moved(st) \in Seq([ at : A, slot : Nat \ {0}, id : Nat ]) /\ Len(Moved(st)) = Len(st)
         /\ Moved(st) # << >>
         /\ \A k \in 1 .. Len(st) : /\ Moved(st)[k].at = st[k].at /\ Moved(st)[k].id = st[k].id
                                    /\ k # Len(st) => Moved(st)[k].slot = st[k].slot
         /\ Moved(st)[Len(st)].slot = st[Len(st)].slot + 1
<1>. DEFINE F == [ at : A, slot : Nat \ {0}, id : Nat ]
<1>1. Len(st) \in Nat \ {0} /\ Len(st) \in 1 .. Len(st) /\ st[Len(st)] \in F
  BY NotEmpty, Zenon
<1>2. PICK n \in Nat \ {0} : n = Len(st)
  BY <1>1
<1>3. PICK f : f = [ st[n] EXCEPT !.slot = @ + 1 ]
  BY Zenon
<1>4. f \in F /\ f.at = st[n].at /\ f.id = st[n].id /\ f.slot = st[n].slot + 1
  <2>1. PICK g : g = st[n]
    BY Zenon
  <2>2. g \in F /\ f = [ g EXCEPT !.slot = @ + 1 ]
    BY <1>1, <1>2, <1>3, <2>1, Zenon
  <2>3. g.slot + 1 \in Nat \ {0}
    BY <2>2
  <2>4. f \in F
    BY <2>2, <2>3
  <2>5. f.at = g.at /\ f.id = g.id /\ f.slot = g.slot + 1
    BY <2>2
  <2>. QED
    BY <2>1, <2>4, <2>5, Zenon
<1>5. PICK m : m = Moved(st)
  OBVIOUS
<1>6. m = [ st EXCEPT ![n] = f ]
  BY <1>2, <1>3, <1>5 DEF Moved
<1>. HIDE DEF F
<1>7. m \in Seq(F) /\ Len(m) = n /\ \A k \in 1 .. n : m[k] = IF k = n THEN f ELSE st[k]
  BY <1>2, <1>4, <1>6 DEF F
<1>8. m # << >>
  BY <1>2, <1>7
<1>. QED
  BY <1>2, <1>4, <1>5, <1>7, <1>8, SMTT(30) DEF F

LEMMA FrontFrames ==
  ASSUME NEW F, NEW st \in Seq(F), st # << >>
  PROVE  /\ Front(st) \in Seq(F) /\ Len(Front(st)) = Len(st) - 1
         /\ \A k \in 1 .. Len(st) - 1 : Front(st)[k] = st[k]
<1>1. Len(st) \in Nat \ {0}
  BY NotEmpty
<1>2. PICK n \in Nat \ {0} : n = Len(st)
  BY <1>1
<1>3. Front(st) = [ k \in 1 .. n - 1 |-> st[k] ]
  BY <1>2 DEF Front, SubSeq
<1>4. \A k \in 1 .. n - 1 : st[k] \in F
  BY <1>2
<1>5. PICK g : g = Front(st)
  OBVIOUS
<1>. QED
  BY <1>2, <1>3, <1>4, <1>5, IsASeq

LEMMA Pushed ==
  ASSUME NEW F, NEW st \in Seq(F), NEW f \in F
  PROVE  /\ Append(st, f) \in Seq(F) /\ Len(Append(st, f)) = Len(st) + 1
         /\ Append(st, f)[Len(st) + 1] = f
         /\ \A k \in 1 .. Len(st) : Append(st, f)[k] = st[k]
  BY AppendProperties

LEMMA NestedFrame ==
  ASSUME NEW c, NEW st, Nested(c, st)
  PROVE  /\ Len(st) \in Nat
         /\ \A k \in 1 .. Len(st) : st[k].at \in Things(c) /\ st[k].slot \in Nat \ {0}
<1>. DEFINE F == [ at : Things(c), slot : Nat \ {0} ]
<1>1. st \in Seq(F)
  BY DEF Nested
<1>2. \A f \in F : f.at \in Things(c) /\ f.slot \in Nat \ {0}
  OBVIOUS
<1>. HIDE DEF F
<1>. QED
  BY <1>1, <1>2, ElementOfSeq, LenProperties

LEMMA ThingsAhead ==
  ASSUME NEW c, Given(c), NEW st, Nested(c, st), SlotAhead(c, st)
  PROVE  /\ Last(st) = st[Len(st)] /\ Len(st) \in Nat \ {0} /\ Len(st) \in 1 .. Len(st)
         /\ Last(st).at \in Things(c) /\ Last(st).slot \in Nat \ {0}
         /\ HasSlot(c, Last(st).at, Last(st).slot)
         /\ Ahead(c, st) \in c.objects \union {Null} /\ UseAhead(c, st) \in Uses
<1>1. Last(st) = st[Len(st)] /\ Len(st) \in Nat \ {0} /\ Len(st) \in 1 .. Len(st)
      /\ Last(st) \in [ at : Things(c), slot : Nat \ {0} ]
  BY NotEmpty, Zenon DEF Nested, SlotAhead
<1>2. Last(st).at \in Things(c) /\ Last(st).slot \in Nat \ {0} /\ HasSlot(c, Last(st).at, Last(st).slot)
  BY <1>1 DEF SlotAhead
<1>3. Ahead(c, st) \in c.objects \union {Null}
  BY <1>2 DEF Given, Ahead
<1>4. UseAhead(c, st) \in Uses
  BY <1>2 DEF Given, UseAhead, Use, Uses, Ownership, Kinds, Shape, HasSlot
<1>. QED
  BY <1>1, <1>2, <1>3, <1>4

\* A frame goes on.
LEMMA NestedMoved ==
  ASSUME NEW c, Given(c), NEW st, Nested(c, st), SlotAhead(c, st)
  PROVE  Nested(c, Moved(st))
<1>1. Last(st) = st[Len(st)] /\ Len(st) \in Nat \ {0} /\ Len(st) \in 1 .. Len(st)
      /\ Last(st).slot \in Nat \ {0} /\ HasSlot(c, Last(st).at, Last(st).slot)
  BY ThingsAhead
<1>2. PICK n \in Nat \ {0} : n = Len(st)
  BY <1>1
<1>3. PICK m : m = Moved(st)
  OBVIOUS
<1>4. /\ m \in Seq([ at : Things(c), slot : Nat \ {0} ]) /\ Len(m) = n
      /\ \A k \in 1 .. n : m[k].at = st[k].at /\ (k # n => m[k].slot = st[k].slot)
      /\ m[n].slot = st[n].slot + 1
  BY <1>2, <1>3, MovedFrames, Zenon DEF Nested, SlotAhead
<1>5. \A k \in 1 .. n : m[k].slot <= Len(Shape(c, m[k].at)) + 1
  <2>1. m[n].slot <= Len(Shape(c, m[n].at)) + 1
    BY <1>1, <1>2, <1>4 DEF HasSlot
  <2>2. \A k \in 1 .. n : k # n => m[k].slot <= Len(Shape(c, m[k].at)) + 1
    BY <1>2, <1>4, Zenon DEF Nested
  <2>. QED
    BY <2>1, <2>2
<1>6. m # << >> => m[1].at = Root
  <2>1. st[1].at = Root /\ 1 \in 1 .. n
    BY <1>2 DEF Nested, SlotAhead
  <2>. QED
    BY <1>4, <2>1
<1>7. \A j, k \in 1 .. n : m[j].at = m[k].at => j = k
  BY <1>2, <1>4 DEF Nested
<1>8. ASSUME NEW k \in 1 .. n - 1
      PROVE  Holding(c, m[k].at, m[k].slot - 1) /\ Target(c, m[k].at, m[k].slot - 1) = m[k + 1].at
  <2>1. k \in 1 .. n /\ k + 1 \in 1 .. n /\ k # n
    OBVIOUS
  <2>2. Holding(c, st[k].at, st[k].slot - 1) /\ Target(c, st[k].at, st[k].slot - 1) = st[k + 1].at
    BY <1>2 DEF Nested
  <2>. QED
    BY <1>4, <2>1, <2>2
<1>. QED
  BY <1>3, <1>4, <1>5, <1>6, <1>7, <1>8 DEF Nested

\* An object not in progress is entered.
LEMMA NestedPushed ==
  ASSUME NEW c, Given(c), NEW st, Nested(c, st), SlotAhead(c, st),
         Ahead(c, st) \in c.objects, UseAhead(c, st) # "Observer",
         \A k \in 1 .. Len(st) : st[k].at # Ahead(c, st)
  PROVE  Nested(c, Append(Moved(st), [ at |-> Ahead(c, st), slot |-> 1 ]))
<1>1. Last(st) = st[Len(st)] /\ Len(st) \in Nat \ {0} /\ Len(st) \in 1 .. Len(st)
      /\ Last(st).slot \in Nat \ {0} /\ HasSlot(c, Last(st).at, Last(st).slot)
  BY ThingsAhead
<1>2. PICK n \in Nat \ {0} : n = Len(st)
  BY <1>1
<1>3. PICK m : m = Moved(st)
  OBVIOUS
<1>4. /\ m \in Seq([ at : Things(c), slot : Nat \ {0} ]) /\ Len(m) = n /\ m # << >>
      /\ \A k \in 1 .. n : m[k].at = st[k].at /\ (k # n => m[k].slot = st[k].slot)
      /\ m[n].slot = st[n].slot + 1
  BY <1>2, <1>3, MovedFrames, Zenon DEF Nested, SlotAhead
<1>5. Nested(c, m)
  BY <1>3, NestedMoved
<1>6. PICK f : f = [ at |-> Ahead(c, st), slot |-> 1 ]
  BY Zenon
<1>7. f \in [ at : Things(c), slot : Nat \ {0} ] /\ f.at = Ahead(c, st) /\ f.slot = 1
  BY <1>6 DEF Things
<1>8. PICK s : s = Append(m, f)
  BY Zenon
<1>9. /\ s \in Seq([ at : Things(c), slot : Nat \ {0} ]) /\ Len(s) = n + 1 /\ s[n + 1] = f
      /\ \A k \in 1 .. n : s[k] = m[k]
  BY <1>4, <1>7, <1>8, Pushed
<1>10. \A k \in 1 .. n + 1 : s[k].slot <= Len(Shape(c, s[k].at)) + 1
  <2>1. \A k \in 1 .. n : m[k].slot <= Len(Shape(c, m[k].at)) + 1
    BY <1>4, <1>5 DEF Nested
  <2>2. Len(Shape(c, f.at)) \in Nat
    BY DEF Given, Shape
  <2>3. \A k \in 1 .. n + 1 : k \in 1 .. n \/ k = n + 1
    OBVIOUS
  <2>4. s[n + 1].slot <= Len(Shape(c, s[n + 1].at)) + 1
    BY <1>7, <1>9, <2>2
  <2>5. \A k \in 1 .. n : s[k].slot <= Len(Shape(c, s[k].at)) + 1
    BY <1>9, <2>1, Zenon
  <2>. QED
    BY <2>3, <2>4, <2>5
<1>11. s[1].at = Root
  <2>1. 1 \in 1 .. n /\ m[1].at = Root
    BY <1>4, <1>5 DEF Nested
  <2>. QED
    BY <1>9, <2>1
<1>12. ASSUME NEW j \in 1 .. n + 1, NEW k \in 1 .. n + 1, s[j].at = s[k].at PROVE j = k
  <2>1. \A i \in 1 .. n + 1 : i \in 1 .. n \/ i = n + 1
    OBVIOUS
  <2>2. \A i \in 1 .. n : s[i].at = st[i].at /\ s[i].at # Ahead(c, st)
    BY <1>2, <1>4, <1>9, Zenon
  <2>3. s[n + 1].at = Ahead(c, st)
    BY <1>7, <1>9
  <2>4. \A a, b \in 1 .. n : st[a].at = st[b].at => a = b
    BY <1>2 DEF Nested
  <2>. QED
    BY <1>12, <2>1, <2>2, <2>3, <2>4
<1>13. ASSUME NEW k \in 1 .. n
       PROVE  Holding(c, s[k].at, s[k].slot - 1) /\ Target(c, s[k].at, s[k].slot - 1) = s[k + 1].at
  <2>1. CASE k = n
    <3>1. s[n].at = Last(st).at /\ s[n].slot - 1 = Last(st).slot
      <4>1. n \in 1 .. n /\ s[n] = m[n]
        BY <1>9
      <4>2. s[n].at = st[n].at /\ s[n].slot = st[n].slot + 1
        BY <1>4, <4>1, Zenon
      <4>3. Last(st) = st[n] /\ st[n].slot \in Nat
        BY <1>1, <1>2
      <4>. QED
        BY <4>2, <4>3
    <3>2. Holding(c, Last(st).at, Last(st).slot)
      BY <1>1 DEF Holding, UseAhead
    <3>. QED
      BY <1>7, <1>9, <2>1, <3>1, <3>2 DEF Ahead
  <2>2. CASE k # n
    <3>1. k \in 1 .. n - 1 /\ k + 1 \in 1 .. n
      BY <2>2
    <3>2. Holding(c, m[k].at, m[k].slot - 1) /\ Target(c, m[k].at, m[k].slot - 1) = m[k + 1].at
      BY <1>4, <1>5, <3>1, Zenon DEF Nested
    <3>. QED
      BY <1>9, <3>1, <3>2, Zenon
  <2>. QED
    BY <2>1, <2>2
<1>14. \A k \in 1 .. Len(s) - 1 : k \in 1 .. n
  BY <1>9
<1>15. Nested(c, s)
  BY <1>9, <1>10, <1>11, <1>12, <1>13, <1>14 DEF Nested
<1>. QED
  BY <1>3, <1>6, <1>8, <1>15

LEMMA NestedReturned ==
  ASSUME NEW c, NEW st, Nested(c, st), st # << >>
  PROVE  Nested(c, Front(st))
<1>1. PICK n \in Nat \ {0} : n = Len(st)
  BY NotEmpty DEF Nested
<1>2. PICK m : m = Front(st)
  OBVIOUS
<1>3. /\ m \in Seq([ at : Things(c), slot : Nat \ {0} ]) /\ Len(m) = n - 1
      /\ \A k \in 1 .. n - 1 : m[k] = st[k]
  BY <1>1, <1>2, FrontFrames, Zenon DEF Nested
<1>4. m # << >> => 1 \in 1 .. n - 1
  <2>1. m # << >> => Len(m) \in Nat \ {0}
    BY <1>3, NotEmpty
  <2>. QED
    BY <1>3, <2>1
<1>5. \A k \in 1 .. n - 1 : k \in 1 .. n
  OBVIOUS
<1>6. \A k \in 1 .. Len(m) - 1 : k \in 1 .. n - 1 /\ k + 1 \in 1 .. n - 1
  BY <1>3
<1>. QED
  BY <1>1, <1>2, <1>3, <1>4, <1>5, <1>6, Zenon DEF Nested

-----------------------------------------------------------------------------
(***************************************************************************)
(* What the writer knows of the objects.                                   *)
(***************************************************************************)
\* The ownership after Update.
OwnershipNext(own, kind) ==
  IF kind = "Observer" THEN own
  ELSE IF own = "Observer" THEN kind
  ELSE IF kind = "SharedOwner" THEN kind ELSE own

\* is2 is what is known after a pointer of some kind to t.
Learned(is, is2, t, kind) ==
  /\ DOMAIN is2 = DOMAIN is \union {t}
  /\ \A q \in DOMAIN is : is2[q].id = is[q].id
  /\ \A q \in DOMAIN is : q # t => is2[q] = is[q]
  /\ is2[t].ownership = IF t \in DOMAIN is THEN OwnershipNext(is[t].ownership, kind) ELSE kind
  /\ Entered(is2) = IF kind = "Observer" THEN Entered(is) ELSE Entered(is) \union {t}

LEMMA InfoAhead ==
  ASSUME NEW c, Given(c), NEW is, Numbered(c, is), NEW t \in c.objects, NEW kind \in Uses,
         NEW info, info = InfoIn(is, t, kind)
  PROVE  /\ info.ownership = IF t \in DOMAIN is THEN OwnershipNext(is[t].ownership, kind) ELSE kind
         /\ info.ownership \in Uses /\ info.isSharedProcessed \in BOOLEAN
         /\ info.id = IF t \in DOMAIN is THEN is[t].id ELSE Cardinality(DOMAIN is) + 1
         /\ info.ownership = "Observer" => ~info.isSharedProcessed
         /\ kind # "Observer" => (info.isSharedProcessed <=> t \in Entered(is))
         /\ info = [ id |-> info.id, ownership |-> info.ownership,
                     isSharedProcessed |-> info.isSharedProcessed ]
<1>0. t # Root
  BY DEF Given, Root
<1>1. CASE t \notin DOMAIN is
  BY <1>0, <1>1 DEF InfoIn, Entered
<1>2. CASE t \in DOMAIN is
  <2>1. PICK x : x = is[t]
    OBVIOUS
  <2>2. /\ x.ownership \in Uses /\ x.isSharedProcessed \in BOOLEAN
        /\ x.ownership = "Observer" => ~x.isSharedProcessed
        /\ x \in [ id : 1 .. Cardinality(DOMAIN is), ownership : Uses, isSharedProcessed : BOOLEAN ]
    BY <1>2, <2>1 DEF Numbered
  <2>3. info = Update(x, kind)
    BY <1>2, <2>1 DEF InfoIn
  <2>4. t \in Entered(is) <=> x.ownership # "Observer"
    BY <1>0, <1>2, <2>1 DEF Entered
  <2>5. CASE kind = "Observer"
    BY <1>2, <2>1, <2>2, <2>3, <2>4, <2>5 DEF Update, OwnershipNext
  <2>6. CASE kind # "Observer" /\ x.ownership = "Observer"
    BY <1>2, <2>1, <2>2, <2>3, <2>4, <2>6 DEF Update, OwnershipNext, Uses
  <2>7. CASE kind # "Observer" /\ x.ownership # "Observer"
    BY <1>2, <2>1, <2>2, <2>3, <2>4, <2>7, Zenon DEF Update, OwnershipNext, Uses
  <2>. QED
    BY <2>5, <2>6, <2>7
<1>. QED
  BY <1>1, <1>2

LEMMA Learning ==
  ASSUME NEW c, Given(c), NEW is, Numbered(c, is), NEW t \in c.objects, NEW kind \in Uses,
         NEW info, info = InfoIn(is, t, kind), NEW is2,
         is2 = [ q \in DOMAIN is \union {t} |-> IF q = t THEN info ELSE is[q] ]
  PROVE  Numbered(c, is2) /\ Learned(is, is2, t, kind)
<1>1. /\ info.ownership = IF t \in DOMAIN is THEN OwnershipNext(is[t].ownership, kind) ELSE kind
      /\ info.ownership \in Uses /\ info.isSharedProcessed \in BOOLEAN
      /\ info.id = IF t \in DOMAIN is THEN is[t].id ELSE Cardinality(DOMAIN is) + 1
      /\ info.ownership = "Observer" => ~info.isSharedProcessed
      /\ info = [ id |-> info.id, ownership |-> info.ownership,
                  isSharedProcessed |-> info.isSharedProcessed ]
  BY InfoAhead
<1>2. PICK n \in Nat : n = Cardinality(DOMAIN is)
  BY DEF Numbered
<1>3. /\ DOMAIN is2 = DOMAIN is \union {t} /\ is2[t] = info
      /\ \A q \in DOMAIN is : q # t => is2[q] = is[q]
  OBVIOUS
<1>4. PICK m \in Nat : /\ m = Cardinality(DOMAIN is2)
                       /\ m = IF t \in DOMAIN is THEN n ELSE n + 1
  <2>1. IsFiniteSet(DOMAIN is)
    BY DEF Numbered
  <2>. QED
    BY <1>2, <1>3, <2>1, FS_AddElement
<1>5. IsFiniteSet(DOMAIN is2) /\ DOMAIN is2 \subseteq c.objects
  BY <1>3, FS_AddElement DEF Numbered
<1>6. \A o \in DOMAIN is : is[o].id \in 1 .. n
  BY <1>2 DEF Numbered
<1>7. info.id \in 1 .. m
  BY <1>1, <1>2, <1>4, <1>6
<1>8. \A o \in DOMAIN is2 : is2[o] \in [ id : 1 .. m, ownership : Uses, isSharedProcessed : BOOLEAN ]
  <2>1. info \in [ id : 1 .. m, ownership : Uses, isSharedProcessed : BOOLEAN ]
    BY <1>1, <1>7
  <2>2. \A o \in DOMAIN is : is[o] \in [ id : 1 .. n, ownership : Uses, isSharedProcessed : BOOLEAN ]
    BY <1>2 DEF Numbered
  <2>3. \A o \in DOMAIN is : is[o] \in [ id : 1 .. m, ownership : Uses, isSharedProcessed : BOOLEAN ]
    BY <1>4, <2>2
  <2>. QED
    BY <1>3, <2>1, <2>3
<1>9. \A o \in DOMAIN is : is2[o].id = is[o].id
  BY <1>1, <1>3
<1>10. \A o, q \in DOMAIN is2 : is2[o].id = is2[q].id => o = q
  <2>1. \A o, q \in DOMAIN is : is[o].id = is[q].id => o = q
    BY DEF Numbered
  <2>2. CASE t \in DOMAIN is
    BY <1>3, <1>9, <2>1, <2>2
  <2>3. CASE t \notin DOMAIN is
    <3>1. is2[t].id = n + 1
      BY <1>1, <1>2, <1>3, <2>3
    <3>2. \A o \in DOMAIN is : is2[o].id # n + 1
      BY <1>6, <1>9
    <3>. QED
      BY <1>3, <1>9, <2>1, <3>1, <3>2
  <2>. QED
    BY <2>2, <2>3
<1>11. \A o \in DOMAIN is2 : is2[o].ownership = "Observer" => ~is2[o].isSharedProcessed
  BY <1>1, <1>3 DEF Numbered
<1>12. Numbered(c, is2)
  <2>1. is2 \in [ DOMAIN is2 -> [ id : 1 .. m, ownership : Uses, isSharedProcessed : BOOLEAN ] ]
    BY <1>8
  <2>. QED
    BY <1>4, <1>5, <1>10, <1>11, <2>1, Zenon DEF Numbered
<1>13. Entered(is2) = IF kind = "Observer" THEN Entered(is) ELSE Entered(is) \union {t}
  <2>1. \A q \in DOMAIN is : q # t => is2[q].ownership = is[q].ownership
    BY <1>3
  <2>2. is2[t].ownership = info.ownership
    BY <1>3
  <2>3. kind # "Observer" => info.ownership # "Observer"
    BY <1>1 DEF OwnershipNext
  <2>4. kind = "Observer" => info.ownership = IF t \in DOMAIN is THEN is[t].ownership ELSE "Observer"
    BY <1>1 DEF OwnershipNext
  <2>. QED
    BY <1>3, <2>1, <2>2, <2>3, <2>4 DEF Entered
<1>14. Learned(is, is2, t, kind)
  BY <1>1, <1>3, <1>9, <1>13 DEF Learned
<1>. QED
  BY <1>12, <1>14

-----------------------------------------------------------------------------
(***************************************************************************)
(* The steps of the writer.                                                *)
(***************************************************************************)
\* A pointer to an object that is not written at it.
Mentions(c, w, v) ==
  /\ SlotAhead(c, w.stack) /\ Ahead(c, w.stack) \in c.objects
  /\ Learned(w.info, v.info, Ahead(c, w.stack), UseAhead(c, w.stack))
  /\ v.stream = Append(w.stream, v.info[Ahead(c, w.stack)].id)
  /\ v.stack = Moved(w.stack)
  /\ \/ UseAhead(c, w.stack) = "Observer"
     \/ UseAhead(c, w.stack) \in {"SharedOwner", "SharedObserver"} /\ Ahead(c, w.stack) \in Entered(w.info)

\* The first pointer that holds an object.
Enters(c, w, v) ==
  /\ SlotAhead(c, w.stack) /\ Ahead(c, w.stack) \in c.objects
  /\ Learned(w.info, v.info, Ahead(c, w.stack), UseAhead(c, w.stack))
  /\ v.stream = w.stream \o << v.info[Ahead(c, w.stack)].id, ValueOf(Ahead(c, w.stack)) >>
  /\ v.stack = Append(Moved(w.stack), [ at |-> Ahead(c, w.stack), slot |-> 1 ])
  /\ UseAhead(c, w.stack) # "Observer" /\ Ahead(c, w.stack) \notin Entered(w.info)

\* The pointer ahead was not passed.
LEMMA AheadNotPassed ==
  ASSUME NEW c, Given(c), NEW w, WriterInv(c, w), SlotAhead(c, w.stack)
  PROVE  ~Passed(c, w, Last(w.stack).at, Last(w.stack).slot)
  BY ThingsAhead DEF WriterInv, Passed

\* The owner ahead is the first pointer that holds its object.
LEMMA OwnerIsFirst ==
  ASSUME NEW c, Given(c), NEW w, WriterInv(c, w), SlotAhead(c, w.stack),
         Ahead(c, w.stack) \in c.objects, UseAhead(c, w.stack) = "Owner"
  PROVE  Ahead(c, w.stack) \notin Entered(w.info)
<1>. SUFFICES ASSUME Ahead(c, w.stack) \in Entered(w.info) PROVE FALSE
  OBVIOUS
<1>0. Ahead(c, w.stack) # Root /\ Ahead(c, w.stack) # Null
  BY DEF Given, Root, Null
<1>1. PICK x, i : Passed(c, w, x, i) /\ Holding(c, x, i) /\ Target(c, x, i) = Ahead(c, w.stack)
  BY <1>0 DEF WriterInv, Covered
<1>2. x \in Things(c)
  BY <1>1 DEF Passed, Entered, Things, WriterInv, Numbered
<1>3. PICK y, j : y = Last(w.stack).at /\ j = Last(w.stack).slot
  OBVIOUS
<1>4. y \in Things(c) /\ Holding(c, y, j) /\ Use(c, y, j) = "Owner" /\ Target(c, y, j) = Target(c, x, i)
  BY <1>1, <1>3, ThingsAhead DEF WriterInv, Holding, UseAhead, Ahead
<1>5. x = y /\ i = j
  BY <1>0, <1>1, <1>2, <1>4 DEF Given, Owned
<1>. QED
  BY <1>1, <1>3, <1>5, AheadNotPassed

LEMMA PointerSteps ==
  ASSUME NEW c, Given(c), NEW w, WriterInv(c, w), NEW v, PointerStep(c, w, v)
  PROVE  Numbered(c, v.info) /\ (Mentions(c, w, v) \/ Enters(c, w, v))
<1>. DEFINE t == Ahead(c, w.stack)
            kind == UseAhead(c, w.stack)
<1>1. t \in c.objects /\ kind \in Uses /\ SlotAhead(c, w.stack)
  BY ThingsAhead DEF WriterInv, PointerStep
<1>2. PICK info : info = InfoIn(w.info, t, kind)
  OBVIOUS
<1>3. /\ v.info = [ q \in DOMAIN w.info \union {t} |-> IF q = t THEN info ELSE w.info[q] ]
      /\ IF kind = "Observer" \/ info.isSharedProcessed
           THEN v.stream = Append(w.stream, info.id) /\ v.stack = Moved(w.stack)
           ELSE /\ v.stream = w.stream \o << info.id, ValueOf(t) >>
                /\ v.stack = Append(Moved(w.stack), [ at |-> t, slot |-> 1 ])
  BY <1>2, Zenon DEF PointerStep
<1>4. v.info[t] = info
  BY <1>3
<1>. HIDE DEF t, kind
<1>5. Numbered(c, v.info) /\ Learned(w.info, v.info, t, kind)
  <2>1. Numbered(c, w.info)
    BY DEF WriterInv
  <2>2. PICK is2 : is2 = v.info
    OBVIOUS
  <2>3. PICK is : is = w.info
    OBVIOUS
  <2>4. is2 = [ q \in DOMAIN is \union {t} |-> IF q = t THEN info ELSE is[q] ]
    BY <1>3, <2>2, <2>3
  <2>5. Numbered(c, is2) /\ Learned(is, is2, t, kind)
    BY <1>1, <1>2, <2>1, <2>3, <2>4, Learning
  <2>. QED
    BY <2>2, <2>3, <2>5
<1>6. kind # "Observer" => (info.isSharedProcessed <=> t \in Entered(w.info))
  BY <1>1, <1>2, InfoAhead DEF WriterInv
<1>7. CASE kind = "Observer"
  BY <1>1, <1>3, <1>4, <1>5, <1>7 DEF Mentions, t, kind
<1>8. CASE kind # "Observer" /\ t \in Entered(w.info)
  <2>1. kind # "Owner"
    BY <1>1, <1>8, OwnerIsFirst DEF t, kind
  <2>2. kind \in {"SharedOwner", "SharedObserver"}
    BY <1>1, <1>8, <2>1 DEF Uses, Kinds
  <2>. QED
    BY <1>1, <1>3, <1>4, <1>5, <1>6, <1>8, <2>2 DEF Mentions, t, kind
<1>9. CASE kind # "Observer" /\ t \notin Entered(w.info)
  BY <1>1, <1>3, <1>4, <1>5, <1>6, <1>9, Zenon DEF Enters, t, kind
<1>. QED
  BY <1>5, <1>7, <1>8, <1>9

\* What was passed when a frame goes on, and when an object is entered.
LEMMA PassedMoved ==
  ASSUME NEW c, Given(c), NEW w, WriterInv(c, w), SlotAhead(c, w.stack), NEW v,
         v.stack = Moved(w.stack), Entered(v.info) = Entered(w.info)
  PROVE  \A x, i : Passed(c, v, x, i) <=> \/ Passed(c, w, x, i)
                                          \/ x = Last(w.stack).at /\ i = Last(w.stack).slot
<1>. DEFINE st == w.stack
<1>1. Last(st) = st[Len(st)] /\ Len(st) \in Nat \ {0} /\ Len(st) \in 1 .. Len(st)
      /\ Last(st).slot \in Nat \ {0} /\ HasSlot(c, Last(st).at, Last(st).slot)
  BY ThingsAhead DEF WriterInv
<1>2. PICK n \in Nat \ {0} : n = Len(st)
  BY <1>1
<1>3. PICK m : m = Moved(st)
  OBVIOUS
<1>4. /\ Len(m) = n
      /\ \A k \in 1 .. n : m[k].at = st[k].at /\ (k # n => m[k].slot = st[k].slot)
      /\ m[n].slot = st[n].slot + 1
  BY <1>2, <1>3, MovedFrames, Zenon DEF WriterInv, Nested, SlotAhead
<1>5. \A j, k \in 1 .. n : st[j].at = st[k].at => j = k
  BY <1>2, Zenon DEF WriterInv, Nested
<1>6. st[n].at \in Entered(w.info)
  BY <1>1, <1>2 DEF WriterInv, Covered
<1>7. \A k \in 1 .. n : st[k].slot \in Nat \ {0}
  BY <1>2, NestedFrame DEF WriterInv
<1>. HIDE DEF st
<1>8. ASSUME NEW x, NEW i
      PROVE  Passed(c, v, x, i) <=> Passed(c, w, x, i) \/ (x = Last(st).at /\ i = Last(st).slot)
  <2>1. Passed(c, v, x, i) <=> /\ x \in Entered(w.info) /\ HasSlot(c, x, i)
                               /\ \A k \in 1 .. n : st[k].at = x => i < m[k].slot
    BY <1>3, <1>4 DEF Passed, st
  <2>2. Passed(c, w, x, i) <=> /\ x \in Entered(w.info) /\ HasSlot(c, x, i)
                               /\ \A k \in 1 .. n : st[k].at = x => i < st[k].slot
    BY <1>2 DEF Passed, st
  <2>3. HasSlot(c, x, i) => i \in Nat
    BY DEF HasSlot
  <2>4. CASE x = st[n].at
    <3>1. \A k \in 1 .. n : st[k].at = x => k = n
      BY <1>5, <2>4
    <3>2. Passed(c, v, x, i) <=> HasSlot(c, x, i) /\ i < st[n].slot + 1
      BY <1>4, <1>6, <2>1, <2>4, <3>1
    <3>3. Passed(c, w, x, i) <=> HasSlot(c, x, i) /\ i < st[n].slot
      BY <1>6, <2>2, <2>4, <3>1
    <3>. QED
      BY <1>1, <1>2, <1>7, <2>3, <2>4, <3>2, <3>3
  <2>5. CASE x # st[n].at
    BY <1>1, <1>2, <1>4, <2>1, <2>2, <2>5, Zenon
  <2>. QED
    BY <2>4, <2>5
<1>. QED
  BY <1>8 DEF st

LEMMA PassedEntered ==
  ASSUME NEW c, Given(c), NEW w, WriterInv(c, w), NEW v, Enters(c, w, v)
  PROVE  \A x, i : Passed(c, v, x, i) <=> \/ Passed(c, w, x, i)
                                          \/ x = Last(w.stack).at /\ i = Last(w.stack).slot
<1>. DEFINE st == w.stack
            t == Ahead(c, w.stack)
<1>1. PICK u : u = [ info |-> w.info, stack |-> Moved(st) ]
  BY Zenon
<1>2. u.stack = Moved(st) /\ Entered(u.info) = Entered(w.info) /\ u.info = w.info
  BY <1>1
<1>3. SlotAhead(c, st)
  BY DEF Enters
<1>4. \A x, i : Passed(c, u, x, i) <=> Passed(c, w, x, i) \/ (x = Last(st).at /\ i = Last(st).slot)
  BY <1>2, <1>3, PassedMoved
<1>5. PICK n \in Nat : n = Len(Moved(st)) /\ Moved(st) \in Seq([ at : Things(c), slot : Nat \ {0} ])
  <2>1. Moved(st) \in Seq([ at : Things(c), slot : Nat \ {0} ])
    BY <1>3, MovedFrames, Zenon DEF WriterInv, Nested, SlotAhead
  <2>. QED
    BY <2>1, LenProperties
<1>6. PICK f : f = [ at |-> t, slot |-> 1 ]
  BY Zenon
<1>7. f \in [ at : Things(c), slot : Nat \ {0} ] /\ f.at = t /\ f.slot = 1
  BY <1>6 DEF Things, Enters
<1>8. /\ Len(v.stack) = n + 1 /\ v.stack[n + 1] = f
      /\ \A k \in 1 .. n : v.stack[k] = u.stack[k]
  BY <1>2, <1>5, <1>6, <1>7, Pushed DEF Enters
<1>9. Entered(v.info) = Entered(w.info) \union {t} /\ t \notin Entered(w.info)
  BY DEF Enters, Learned
<1>10. \A k \in 1 .. n : u.stack[k].at \in Entered(w.info)
  <2>1. n = Len(st) /\ \A k \in 1 .. Len(st) : u.stack[k].at = st[k].at
    BY <1>2, <1>3, <1>5, MovedFrames, Zenon DEF WriterInv, Nested, SlotAhead
  <2>. QED
    BY <2>1 DEF WriterInv, Covered
<1>. HIDE DEF st, t
<1>11. ASSUME NEW x, NEW i PROVE Passed(c, v, x, i) <=> Passed(c, u, x, i)
  <2>1. Passed(c, v, x, i) <=> /\ x \in Entered(w.info) \union {t} /\ HasSlot(c, x, i)
                               /\ \A k \in 1 .. n : u.stack[k].at = x => i < u.stack[k].slot
                               /\ t = x => i < 1
    <3>1. \A k \in 1 .. n + 1 : k \in 1 .. n \/ k = n + 1
      OBVIOUS
    <3>2. n + 1 \in 1 .. n + 1 /\ \A k \in 1 .. n : k \in 1 .. n + 1
      OBVIOUS
    <3>. QED
      BY <1>7, <1>8, <1>9, <3>1, <3>2 DEF Passed
  <2>2. Passed(c, u, x, i) <=> /\ x \in Entered(w.info) /\ HasSlot(c, x, i)
                               /\ \A k \in 1 .. n : u.stack[k].at = x => i < u.stack[k].slot
    BY <1>2, <1>5 DEF Passed
  <2>3. HasSlot(c, x, i) => i \in Nat /\ i >= 1
    BY DEF HasSlot
  <2>. QED
    BY <1>9, <2>1, <2>2, <2>3
<1>. QED
  BY <1>4, <1>11 DEF st

LEMMA PassedReturned ==
  ASSUME NEW c, Given(c), NEW w, WriterInv(c, w), NEW v, ReturnStep(c, w, v)
  PROVE  \A x, i : Passed(c, v, x, i) <=> Passed(c, w, x, i)
<1>1. PICK n \in Nat \ {0} : n = Len(w.stack)
  BY NotEmpty DEF WriterInv, Nested, ReturnStep, NoneAhead
<1>2. /\ v.info = w.info /\ Len(v.stack) = n - 1
      /\ \A k \in 1 .. n - 1 : v.stack[k] = w.stack[k]
  BY <1>1, FrontFrames, SMTT(30) DEF WriterInv, Nested, ReturnStep, NoneAhead
<1>3. Last(w.stack) = w.stack[n]
  BY <1>1 DEF Last
<1>4. w.stack[n].slot \in Nat \ {0} /\ ~HasSlot(c, w.stack[n].at, w.stack[n].slot)
  <2>1. w.stack[n].slot \in Nat \ {0}
    BY <1>1, NestedFrame DEF WriterInv
  <2>. QED
    BY <1>3, <2>1 DEF ReturnStep, NoneAhead
<1>5. ASSUME NEW i, HasSlot(c, w.stack[n].at, i) PROVE i < w.stack[n].slot
  <2>1. Len(Shape(c, w.stack[n].at)) \in Nat
    BY DEF Shape, Given
  <2>. QED
    BY <1>4, <1>5, <2>1 DEF HasSlot
<1>6. \A k \in 1 .. n : k \in 1 .. n - 1 \/ k = n
  OBVIOUS
<1>. QED
  BY <1>1, <1>2, <1>5, <1>6, SMTT(30) DEF Passed

-----------------------------------------------------------------------------
(***************************************************************************)
(* The invariant of the writer.                                            *)
(***************************************************************************)
\* The pointer ahead was passed, and its object is known.
LEMMA CoveredNext ==
  ASSUME NEW c, NEW w, Covered(c, w), NEW v, NEW x0, NEW i0,
         \A x, i : Passed(c, v, x, i) <=> Passed(c, w, x, i) \/ (x = x0 /\ i = i0),
         \A k \in 1 .. Len(v.stack) : v.stack[k].at \in Entered(v.info),
         DOMAIN w.info \subseteq DOMAIN v.info, Entered(w.info) \subseteq Entered(v.info),
         \A o \in Entered(v.info) : o \in Entered(w.info) \/ (Holding(c, x0, i0) /\ Target(c, x0, i0) = o),
         Target(c, x0, i0) # Null =>
           /\ Target(c, x0, i0) \in DOMAIN v.info
           /\ Holding(c, x0, i0) => Target(c, x0, i0) \in Entered(v.info)
  PROVE  Covered(c, v)
<1>1. ASSUME NEW o \in Entered(v.info), o # Root
      PROVE  \E x, i : Passed(c, v, x, i) /\ Holding(c, x, i) /\ Target(c, x, i) = o
  <2>1. CASE o \in Entered(w.info)
    <3>1. PICK x, i : Passed(c, w, x, i) /\ Holding(c, x, i) /\ Target(c, x, i) = o
      BY <1>1, <2>1 DEF Covered
    <3>2. Passed(c, v, x, i)
      BY <3>1
    <3>. QED
      BY <3>1, <3>2
  <2>2. CASE Holding(c, x0, i0) /\ Target(c, x0, i0) = o
    BY <2>2
  <2>. QED
    BY <2>1, <2>2
<1>2. ASSUME NEW x, NEW i, Passed(c, v, x, i), Target(c, x, i) # Null
      PROVE  /\ Target(c, x, i) \in DOMAIN v.info
             /\ Holding(c, x, i) => Target(c, x, i) \in Entered(v.info)
  <2>1. CASE Passed(c, w, x, i)
    BY <1>2, <2>1 DEF Covered
  <2>2. CASE x = x0 /\ i = i0
    BY <1>2, <2>2
  <2>. QED
    BY <1>2, <2>1, <2>2
<1>. QED
  BY <1>1, <1>2 DEF Covered

LEMMA MovedEntered ==
  ASSUME NEW c, Given(c), NEW w, WriterInv(c, w), SlotAhead(c, w.stack)
  PROVE  \A k \in 1 .. Len(Moved(w.stack)) : Moved(w.stack)[k].at \in Entered(w.info)
<1>1. Len(Moved(w.stack)) = Len(w.stack) /\ \A k \in 1 .. Len(w.stack) : Moved(w.stack)[k].at = w.stack[k].at
  BY MovedFrames, Zenon DEF WriterInv, Nested, SlotAhead
<1>. QED
  BY <1>1 DEF WriterInv, Covered

\* What a writer knew and wrote before stays.
Precedes(w, z) ==
  /\ Len(w.stream) \in Nat /\ Len(z.stream) \in Nat /\ Len(w.stream) <= Len(z.stream)
  /\ \A k \in 1 .. Len(w.stream) : z.stream[k] = w.stream[k]
  /\ \A o \in DOMAIN w.info : o \in DOMAIN z.info /\ z.info[o].id = w.info[o].id

LEMMA PrecedesTransitive ==
  ASSUME NEW u, NEW w, NEW z, Precedes(u, w), Precedes(w, z)
  PROVE  Precedes(u, z)
  BY DEF Precedes

LEMMA NullNext ==
  ASSUME NEW c, Given(c), NEW w, WriterInv(c, w), NEW v, NullStep(c, w, v)
  PROVE  /\ WriterInv(c, v) /\ Precedes(w, v)
         /\ Len(v.stream) = Len(w.stream) + 1 /\ v.stream[Len(w.stream) + 1] = 0
<1>1. SlotAhead(c, w.stack) /\ Ahead(c, w.stack) = Null /\ v.info = w.info
      /\ v.stack = Moved(w.stack) /\ v.stream = Append(w.stream, 0)
  BY DEF NullStep
<1>2. Nested(c, v.stack)
  BY <1>1, NestedMoved DEF WriterInv
<1>3. /\ v.stream \in Seq(Int) /\ Len(v.stream) = Len(w.stream) + 1
      /\ v.stream[Len(w.stream) + 1] = 0
      /\ \A k \in 1 .. Len(w.stream) : v.stream[k] = w.stream[k]
  <2>1. 0 \in Int /\ w.stream \in Seq(Int)
    BY DEF WriterInv
  <2>. QED
    BY <1>1, <2>1, Pushed
<1>4. Covered(c, v)
  <2>1. \A x, i : Passed(c, v, x, i) <=> \/ Passed(c, w, x, i)
                                         \/ x = Last(w.stack).at /\ i = Last(w.stack).slot
    BY <1>1, PassedMoved
  <2>2. \A k \in 1 .. Len(v.stack) : v.stack[k].at \in Entered(v.info)
    BY <1>1, MovedEntered
  <2>3. Target(c, Last(w.stack).at, Last(w.stack).slot) = Null
    BY <1>1 DEF Ahead
  <2>4. Covered(c, w)
    BY DEF WriterInv
  <2>. QED
    BY <1>1, <2>1, <2>2, <2>3, <2>4, CoveredNext
<1>5. Precedes(w, v)
  <2>1. Len(w.stream) \in Nat
    BY LenProperties DEF WriterInv
  <2>. QED
    BY <1>1, <1>3, <2>1 DEF Precedes
<1>. QED
  BY <1>1, <1>2, <1>3, <1>4, <1>5 DEF WriterInv

LEMMA ReturnNext ==
  ASSUME NEW c, Given(c), NEW w, WriterInv(c, w), NEW v, ReturnStep(c, w, v)
  PROVE  WriterInv(c, v) /\ Precedes(w, v) /\ v.stream = w.stream
<1>1. w.stack # << >> /\ v.info = w.info /\ v.stack = Front(w.stack) /\ v.stream = w.stream
  BY DEF ReturnStep, NoneAhead
<1>2. Nested(c, v.stack)
  BY <1>1, NestedReturned DEF WriterInv
<1>3. Covered(c, v)
  <2>1. PICK n \in Nat \ {0} : n = Len(w.stack)
    BY <1>1, NotEmpty DEF WriterInv, Nested
  <2>2. Len(v.stack) = n - 1 /\ \A k \in 1 .. n - 1 : v.stack[k] = w.stack[k]
    BY <1>1, <2>1, FrontFrames, SMTT(30) DEF WriterInv, Nested
  <2>3. \A k \in 1 .. n : w.stack[k].at \in Entered(w.info)
    BY <2>1 DEF WriterInv, Covered
  <2>4. \A k \in 1 .. Len(v.stack) : v.stack[k].at \in Entered(v.info)
    BY <1>1, <2>2, <2>3
  <2>5. \A x, i : Passed(c, v, x, i) <=> Passed(c, w, x, i)
    BY PassedReturned
  <2>. QED
    BY <1>1, <2>4, <2>5 DEF WriterInv, Covered
<1>4. Precedes(w, v)
  <2>1. Len(w.stream) \in Nat
    BY LenProperties DEF WriterInv
  <2>. QED
    BY <1>1, <2>1 DEF Precedes
<1>. QED
  BY <1>1, <1>2, <1>3, <1>4 DEF WriterInv

LEMMA MentionsNext ==
  ASSUME NEW c, Given(c), NEW w, WriterInv(c, w), NEW v, Numbered(c, v.info), Mentions(c, w, v)
  PROVE  /\ WriterInv(c, v) /\ Precedes(w, v) /\ Entered(v.info) = Entered(w.info)
         /\ v.info[Ahead(c, w.stack)].id \in Nat \ {0}
         /\ Len(v.stream) = Len(w.stream) + 1
         /\ v.stream[Len(w.stream) + 1] = v.info[Ahead(c, w.stack)].id
<1>. DEFINE t == Ahead(c, w.stack)
<1>1. SlotAhead(c, w.stack) /\ v.stack = Moved(w.stack) /\ t \in c.objects
  BY DEF Mentions
<1>2. Nested(c, v.stack)
  BY <1>1, NestedMoved DEF WriterInv
<1>3. Entered(v.info) = Entered(w.info) /\ DOMAIN v.info = DOMAIN w.info \union {t}
  BY Zenon DEF Mentions, Learned
<1>4. v.info[t].id \in Nat \ {0}
  <2>1. v.info[t] \in [ id : 1 .. Cardinality(DOMAIN v.info), ownership : Uses, isSharedProcessed : BOOLEAN ]
    BY <1>3, Zenon DEF Numbered
  <2>. QED
    BY <2>1 DEF Numbered
<1>5. /\ v.stream \in Seq(Int) /\ Len(v.stream) = Len(w.stream) + 1
      /\ v.stream[Len(w.stream) + 1] = v.info[t].id
      /\ \A k \in 1 .. Len(w.stream) : v.stream[k] = w.stream[k]
  <2>1. v.info[t].id \in Int /\ w.stream \in Seq(Int) /\ v.stream = Append(w.stream, v.info[t].id)
    BY <1>4 DEF WriterInv, Mentions
  <2>. HIDE DEF t
  <2>. QED
    BY <2>1, Pushed
<1>6. Covered(c, v)
  <2>1. \A x, i : Passed(c, v, x, i) <=> \/ Passed(c, w, x, i)
                                         \/ x = Last(w.stack).at /\ i = Last(w.stack).slot
    BY <1>1, <1>3, PassedMoved
  <2>2. \A k \in 1 .. Len(v.stack) : v.stack[k].at \in Entered(v.info)
    BY <1>1, <1>3, MovedEntered, Zenon
  <2>3. Target(c, Last(w.stack).at, Last(w.stack).slot) = t
    BY DEF Ahead
  <2>4. Covered(c, w)
    BY DEF WriterInv
  <2>5. Holding(c, Last(w.stack).at, Last(w.stack).slot) => t \in Entered(v.info)
    BY <1>3 DEF Mentions, Holding, UseAhead
  <2>. HIDE DEF t
  <2>. QED
    BY <1>3, <2>1, <2>2, <2>3, <2>4, <2>5, CoveredNext
<1>7. Precedes(w, v)
  <2>1. Len(w.stream) \in Nat
    BY LenProperties DEF WriterInv
  <2>2. \A o \in DOMAIN w.info : o \in DOMAIN v.info /\ v.info[o].id = w.info[o].id
    BY DEF Mentions, Learned
  <2>. QED
    BY <1>5, <2>1, <2>2 DEF Precedes
<1>. QED
  BY <1>2, <1>3, <1>4, <1>5, <1>6, <1>7 DEF WriterInv

LEMMA EntersNext ==
  ASSUME NEW c, Given(c), NEW w, WriterInv(c, w), NEW v, Numbered(c, v.info), Enters(c, w, v)
  PROVE  /\ WriterInv(c, v) /\ Precedes(w, v)
         /\ Entered(v.info) = Entered(w.info) \union {Ahead(c, w.stack)}
         /\ v.info[Ahead(c, w.stack)].id \in Nat \ {0}
         /\ Len(v.stream) = Len(w.stream) + 2
         /\ v.stream[Len(w.stream) + 1] = v.info[Ahead(c, w.stack)].id
         /\ v.stream[Len(w.stream) + 2] = ValueOf(Ahead(c, w.stack))
<1>. DEFINE t == Ahead(c, w.stack)
<1>1. SlotAhead(c, w.stack) /\ v.stack = Append(Moved(w.stack), [ at |-> t, slot |-> 1 ])
      /\ t \in c.objects /\ UseAhead(c, w.stack) # "Observer" /\ t \notin Entered(w.info)
  BY DEF Enters
<1>2. Nested(c, v.stack)
  <2>1. \A k \in 1 .. Len(w.stack) : w.stack[k].at # t
    BY <1>1 DEF WriterInv, Covered
  <2>. QED
    BY <1>1, <2>1, NestedPushed DEF WriterInv
<1>3. Entered(v.info) = Entered(w.info) \union {t} /\ DOMAIN v.info = DOMAIN w.info \union {t}
  BY DEF Enters, Learned
<1>4. v.info[t].id \in Nat \ {0}
  <2>1. v.info[t] \in [ id : 1 .. Cardinality(DOMAIN v.info), ownership : Uses, isSharedProcessed : BOOLEAN ]
    BY <1>3, Zenon DEF Numbered
  <2>. QED
    BY <2>1 DEF Numbered
<1>5. /\ v.stream \in Seq(Int) /\ Len(v.stream) = Len(w.stream) + 2
      /\ v.stream[Len(w.stream) + 1] = v.info[t].id
      /\ v.stream[Len(w.stream) + 2] = ValueOf(t)
      /\ \A k \in 1 .. Len(w.stream) : v.stream[k] = w.stream[k]
  <2>1. PICK a, b : a = v.info[t].id /\ b = ValueOf(t)
    OBVIOUS
  <2>2. a \in Int /\ b \in Int
    BY <1>1, <1>4, <2>1 DEF ValueOf, Given
  <2>3. w.stream \in Seq(Int) /\ v.stream = w.stream \o << a, b >>
    BY <2>1 DEF WriterInv, Enters
  <2>. HIDE DEF t
  <2>4. << a, b >> \in Seq(Int) /\ Len(<< a, b >>) = 2 /\ << a, b >>[1] = a /\ << a, b >>[2] = b
    BY <2>2
  <2>5. Len(w.stream) \in Nat
    BY <2>3, LenProperties
  <2>6. /\ v.stream \in Seq(Int) /\ Len(v.stream) = Len(w.stream) + 2
        /\ \A k \in 1 .. Len(w.stream) + 2 :
             v.stream[k] = IF k <= Len(w.stream) THEN w.stream[k] ELSE << a, b >>[k - Len(w.stream)]
    BY <2>3, <2>4, <2>5, ConcatProperties
  <2>7. PICK n \in Nat : n = Len(w.stream)
    BY <2>5
  <2>8. /\ n + 1 \in 1 .. n + 2 /\ n + 2 \in 1 .. n + 2 /\ (n + 1) - n = 1 /\ (n + 2) - n = 2
        /\ ~(n + 1 <= n) /\ ~(n + 2 <= n) /\ \A k \in 1 .. n : k \in 1 .. n + 2 /\ k <= n
    OBVIOUS
  <2>. QED
    BY <2>1, <2>4, <2>6, <2>7, <2>8, Zenon
<1>6. Covered(c, v)
  <2>1. \A x, i : Passed(c, v, x, i) <=> \/ Passed(c, w, x, i)
                                         \/ x = Last(w.stack).at /\ i = Last(w.stack).slot
    BY PassedEntered
  <2>2. \A k \in 1 .. Len(v.stack) : v.stack[k].at \in Entered(v.info)
    <3>1. PICK n \in Nat : n = Len(Moved(w.stack)) /\ Moved(w.stack) \in Seq([ at : Things(c), slot : Nat \ {0} ])
      <4>1. Moved(w.stack) \in Seq([ at : Things(c), slot : Nat \ {0} ])
        BY <1>1, MovedFrames, Zenon DEF WriterInv, Nested, SlotAhead
      <4>. QED
        BY <4>1, LenProperties
    <3>2. PICK f : f = [ at |-> t, slot |-> 1 ]
      BY Zenon
    <3>3. f \in [ at : Things(c), slot : Nat \ {0} ] /\ f.at = t
      BY <1>1, <3>2 DEF Things
    <3>4. Len(v.stack) = n + 1 /\ v.stack[n + 1] = f /\ \A k \in 1 .. n : v.stack[k] = Moved(w.stack)[k]
      BY <1>1, <3>1, <3>2, <3>3, Pushed
    <3>5. \A k \in 1 .. n : Moved(w.stack)[k].at \in Entered(w.info)
      BY <1>1, <3>1, MovedEntered, Zenon
    <3>6. \A k \in 1 .. n + 1 : k \in 1 .. n \/ k = n + 1
      OBVIOUS
    <3>. QED
      BY <1>3, <3>3, <3>4, <3>5, <3>6
  <2>3. Target(c, Last(w.stack).at, Last(w.stack).slot) = t
    BY DEF Ahead
  <2>4. Covered(c, w)
    BY DEF WriterInv
  <2>5. Holding(c, Last(w.stack).at, Last(w.stack).slot)
    BY <1>1 DEF Holding, SlotAhead, UseAhead
  <2>. HIDE DEF t
  <2>. QED
    BY <1>3, <2>1, <2>2, <2>3, <2>4, <2>5, CoveredNext
<1>7. Precedes(w, v)
  <2>1. Len(w.stream) \in Nat
    BY LenProperties DEF WriterInv
  <2>2. \A o \in DOMAIN w.info : o \in DOMAIN v.info /\ v.info[o].id = w.info[o].id
    BY DEF Enters, Learned
  <2>. QED
    BY <1>5, <2>1, <2>2 DEF Precedes
<1>. QED
  BY <1>2, <1>3, <1>4, <1>5, <1>6, <1>7 DEF WriterInv

LEMMA WriterNext ==
  ASSUME NEW c, Given(c), NEW w, WriterInv(c, w), NEW v, WriterStep(c, w, v)
  PROVE  WriterInv(c, v) /\ Precedes(w, v)
<1>1. CASE NullStep(c, w, v)
  BY <1>1, NullNext
<1>2. CASE PointerStep(c, w, v)
  BY <1>2, PointerSteps, MentionsNext, EntersNext
<1>3. CASE ReturnStep(c, w, v)
  BY <1>3, ReturnNext
<1>. QED
  BY <1>1, <1>2, <1>3 DEF WriterStep

\* The states of the writer, from the first to w.
WriterStart ==
  [ info |-> [ o \in {} |-> 0 ], stack |-> << [ at |-> Root, slot |-> 1 ] >>, stream |-> << >> ]

History(c, hist, m, w) ==
  /\ hist[0] = WriterStart /\ hist[m] = w
  /\ \A k \in 0 .. m : WriterInv(c, hist[k]) /\ Precedes(hist[k], w)
  /\ \A k \in 0 .. m - 1 : WriterStep(c, hist[k], hist[k + 1])

LEMMA WriterStarts ==
  ASSUME NEW c, Given(c)
  PROVE  /\ WriterInv(c, WriterStart) /\ Precedes(WriterStart, WriterStart)
         /\ Entered(WriterStart.info) = {Root} /\ \A x, i : ~Passed(c, WriterStart, x, i)
<1>1. PICK w : w = WriterStart
  OBVIOUS
<1>2. PICK f : f = [ at |-> Root, slot |-> 1 ]
  BY Zenon
<1>3. w.stack = << f >> /\ w.stream = << >> /\ DOMAIN w.info = {} /\ f.at = Root /\ f.slot = 1
  BY <1>1, <1>2 DEF WriterStart
<1>4. f \in [ at : Things(c), slot : Nat \ {0} ]
  BY <1>2 DEF Things
<1>5. w.stack \in Seq([ at : Things(c), slot : Nat \ {0} ]) /\ Len(w.stack) = 1 /\ w.stack[1] = f
  BY <1>3, <1>4
<1>6. \A k \in 1 .. 1 : k = 1
  OBVIOUS
<1>7. Nested(c, w.stack)
  <2>1. Len(c.root) \in Nat
    BY DEF Given
  <2>2. \A k \in 1 .. 1 : w.stack[k].slot <= Len(Shape(c, w.stack[k].at)) + 1
    BY <1>3, <1>5, <1>6, <2>1 DEF Shape
  <2>3. w.stack[1].at = Root
    BY <1>3, <1>5
  <2>4. PICK st : st = w.stack
    OBVIOUS
  <2>5. st \in Seq([ at : Things(c), slot : Nat \ {0} ]) /\ Len(st) = 1
    BY <1>5, <2>4
  <2>6. \A k \in 1 .. Len(st) : st[k].slot <= Len(Shape(c, st[k].at)) + 1
    BY <2>2, <2>4, <2>5
  <2>7. \A j, k \in 1 .. Len(st) : st[j].at = st[k].at => j = k
    BY <1>6, <2>5
  <2>8. \A k \in 1 .. Len(st) - 1 : FALSE
    BY <2>5
  <2>9. Nested(c, st)
    BY <2>3, <2>4, <2>5, <2>6, <2>7, <2>8 DEF Nested
  <2>. QED
    BY <2>4, <2>9
<1>8. Numbered(c, w.info)
  <2>1. w.info = [ o \in {} |-> 0 ]
    BY <1>1 DEF WriterStart
  <2>2. PICK is : is = w.info
    OBVIOUS
  <2>3. is \in [ {} -> [ id : 1 .. Cardinality({}), ownership : Uses, isSharedProcessed : BOOLEAN ] ]
    BY <2>1, <2>2
  <2>4. DOMAIN is = {}
    BY <2>1, <2>2
  <2>5. Numbered(c, is)
    BY <2>3, <2>4, FS_EmptySet DEF Numbered
  <2>. QED
    BY <2>2, <2>5
<1>9. Entered(w.info) = {Root}
  BY <1>3 DEF Entered
<1>10. \A x, i : ~Passed(c, w, x, i)
  <2>1. 1 \in 1 .. 1
    OBVIOUS
  <2>. QED
    BY <1>3, <1>5, <1>9, <2>1 DEF Passed, HasSlot
<1>11. Covered(c, w)
  BY <1>3, <1>5, <1>6, <1>9, <1>10 DEF Covered
<1>12. w.stream \in Seq(Int) /\ Len(w.stream) = 0
  BY <1>3
<1>. QED
  BY <1>1, <1>3, <1>7, <1>8, <1>9, <1>10, <1>11, <1>12 DEF WriterInv, Precedes

LEMMA HistoryNext ==
  ASSUME NEW c, Given(c), NEW hist, NEW m \in Nat, NEW w, History(c, hist, m, w),
         NEW v, WriterStep(c, w, v)
  PROVE  \E h : History(c, h, m + 1, v)
<1>1. PICK h : h = [ k \in 0 .. m + 1 |-> IF k = m + 1 THEN v ELSE hist[k] ]
  BY Zenon
<1>2. h[m + 1] = v /\ \A k \in 0 .. m : h[k] = hist[k]
  BY <1>1
<1>3. WriterInv(c, w) /\ Precedes(w, w)
  <2>1. m \in 0 .. m
    OBVIOUS
  <2>. QED
    BY <2>1 DEF History
<1>4. WriterInv(c, v) /\ Precedes(w, v)
  BY <1>3, WriterNext
<1>5. Precedes(v, v)
  BY <1>4 DEF Precedes
<1>6. ASSUME NEW k \in 0 .. m + 1 PROVE WriterInv(c, h[k]) /\ Precedes(h[k], v)
  <2>1. CASE k = m + 1
    BY <1>2, <1>4, <1>5, <2>1
  <2>2. CASE k # m + 1
    <3>1. k \in 0 .. m
      BY <2>2
    <3>2. WriterInv(c, hist[k]) /\ Precedes(hist[k], w)
      BY <3>1 DEF History
    <3>. QED
      BY <1>2, <1>4, <3>1, <3>2, PrecedesTransitive
  <2>. QED
    BY <2>1, <2>2
<1>7. ASSUME NEW k \in 0 .. m PROVE WriterStep(c, h[k], h[k + 1])
  <2>1. CASE k = m
    <3>1. hist[m] = w
      BY DEF History
    <3>. QED
      BY <1>2, <2>1, <3>1
  <2>2. CASE k # m
    <3>1. k \in 0 .. m - 1 /\ k + 1 \in 0 .. m
      BY <2>2
    <3>. QED
      BY <1>2, <3>1 DEF History
  <2>. QED
    BY <2>1, <2>2
<1>8. h[0] = WriterStart
  BY <1>2 DEF History
<1>9. (m + 1) - 1 = m
  OBVIOUS
<1>. QED
  BY <1>2, <1>6, <1>7, <1>8, <1>9 DEF History

-----------------------------------------------------------------------------
(***************************************************************************)
(* The reader.  Its state is a record r of the heap, the infos and the     *)
(* stack, with two functions that are not in the code: r.of tells which    *)
(* object of the writer an object of the reader stands for, and r.place    *)
(* where the reader has an object of the writer.                           *)
(***************************************************************************)
Ptr(c, h, j, i) == j \in DOMAIN h /\ HasSlot(c, j, i)

Heaped(c, h) ==
  /\ \E n \in Nat : n > Len(c.root) /\ DOMAIN h = 0 .. n - 1
  /\ \A j \in DOMAIN h : h[j] \in [ value : Int, to : [ 1 .. Len(Shape(c, j)) -> Int ] ]
  /\ \A j, i : Ptr(c, h, j, i) => h[j].to[i] \in DOMAIN h \union {Null}

\* Only the root stands for the root, and what was not read yet is empty.
Placed(c, h, of) ==
  /\ of \in [ DOMAIN h -> Things(c) \union {Null} ]
  /\ \A j \in DOMAIN h : of[j] = Root <=> j = Root
  /\ \A j \in DOMAIN h : of[j] = Null =>
       h[j].value = 0 /\ \A i : HasSlot(c, j, i) => h[j].to[i] = Null
  /\ \A j \in DOMAIN h : h[j].value \in {0, ValueOf(of[j])}

\* The pointers the reader has not come to.
Open(st, j, i) == \E k \in 1 .. Len(st) : st[k].at = j /\ i >= st[k].slot

\* Before, a pointer holds what it held; after, null or what corresponds to
\* the writer's pointer.
Early(c, r, j, i) ==
  /\ r.heap[j].to[i] = Null \/ (j = Root /\ r.heap[j].to[i] = i /\ r.of[i] = Null)
  /\ Refers(c, j, i) => r.heap[j].to[i] = i
  /\ ~c.existing /\ ~Refers(c, j, i) => r.heap[j].to[i] = Null

Right(c, r, j, i) ==
  r.heap[j].to[i] # Null =>
    /\ r.of[j] # Null /\ Target(c, r.of[j], i) # Null
    /\ r.of[r.heap[j].to[i]] = Target(c, r.of[j], i)

Links(c, r) ==
  \A j, i : Ptr(c, r.heap, j, i) =>
    IF Open(r.stack, j, i) THEN Early(c, r, j, i) ELSE Right(c, r, j, i)

ReaderFrames == [ at : Nat, slot : Nat \ {0}, id : Nat ]

\* wi is what the writer knew in the end.
Framed(c, r, wi) ==
  /\ r.stack \in Seq(ReaderFrames)
  /\ \A k \in 1 .. Len(r.stack) :
       /\ r.stack[k].at \in DOMAIN r.heap /\ r.of[r.stack[k].at] # Null
       /\ r.stack[k].slot <= Len(Shape(c, r.stack[k].at)) + 1
  /\ r.stack # << >> => r.stack[1].at = Root /\ r.stack[1].id = 0
  /\ \A j, k \in 1 .. Len(r.stack) : r.of[r.stack[j].at] = r.of[r.stack[k].at] => j = k
  /\ \A k \in 2 .. Len(r.stack) :
       r.of[r.stack[k].at] \in DOMAIN wi /\ wi[r.of[r.stack[k].at]].id = r.stack[k].id
  /\ \A k \in 1 .. Len(r.stack) - 1 :
       /\ HasSlot(c, r.stack[k].at, r.stack[k].slot - 1)
       /\ Target(c, r.of[r.stack[k].at], r.stack[k].slot - 1) = r.of[r.stack[k + 1].at]

\* x is what the reader knows of the writer's object o.
About(c, r, o, x) ==
  /\ x \in [ ownership : Uses, isSharedProcessed : BOOLEAN, ownerPtr : DOMAIN r.heap \union {Null},
             observers : SUBSET (Nat \X Nat), sharedState : DOMAIN r.heap \union {Null} ]
  /\ x.ownerPtr # Null => r.of[x.ownerPtr] = o
  /\ x.sharedState # Null => r.of[x.sharedState] = o
  /\ x.ownerPtr # Null /\ x.sharedState # Null => x.ownerPtr = x.sharedState
  /\ \A j, i : <<j, i>> \in x.observers =>
       /\ Ptr(c, r.heap, j, i) /\ r.of[j] # Null /\ ~Open(r.stack, j, i)
       /\ Target(c, r.of[j], i) = o

Informed(c, r, wi) ==
  /\ \A id \in DOMAIN r.info : \E o \in DOMAIN wi : wi[o].id = id
  /\ \A o \in DOMAIN wi : wi[o].id \in DOMAIN r.info => About(c, r, o, r.info[wi[o].id])
  /\ \A k \in 2 .. Len(r.stack) :
       /\ r.stack[k].id \in DOMAIN r.info
       /\ r.info[r.stack[k].id].ownerPtr \in {Null, r.stack[k].at}
       /\ r.info[r.stack[k].id].sharedState \in {Null, r.stack[k].at}

ReaderInv(c, r, wi) ==
  Heaped(c, r.heap) /\ Placed(c, r.heap, r.of) /\ Links(c, r) /\ Framed(c, r, wi) /\ Informed(c, r, wi)

-----------------------------------------------------------------------------
(***************************************************************************)
(* The reader's stack.                                                     *)
(***************************************************************************)
LEMMA ShapeLength ==
  ASSUME NEW c, Given(c)
  PROVE  \A x : Len(Shape(c, x)) \in Nat
  BY DEF Given, Shape

LEMMA ReaderFrame ==
  ASSUME NEW c, NEW r, NEW wi, Framed(c, r, wi)
  PROVE  /\ Len(r.stack) \in Nat
         /\ \A k \in 1 .. Len(r.stack) :
              r.stack[k].at \in Nat /\ r.stack[k].slot \in Nat \ {0} /\ r.stack[k].id \in Nat
<1>1. r.stack \in Seq(ReaderFrames)
  BY DEF Framed
<1>2. \A f \in ReaderFrames : f.at \in Nat /\ f.slot \in Nat \ {0} /\ f.id \in Nat
  BY DEF ReaderFrames
<1>. QED
  BY <1>1, <1>2, ElementOfSeq, LenProperties

LEMMA ReaderTop ==
  ASSUME NEW c, NEW r, NEW wi, Framed(c, r, wi), r.stack # << >>
  PROVE  /\ Len(r.stack) \in Nat \ {0} /\ Len(r.stack) \in 1 .. Len(r.stack)
         /\ Last(r.stack) = r.stack[Len(r.stack)]
         /\ Last(r.stack).at \in DOMAIN r.heap /\ r.of[Last(r.stack).at] # Null
         /\ Last(r.stack).slot \in Nat \ {0}
<1>1. Len(r.stack) \in Nat \ {0} /\ Len(r.stack) \in 1 .. Len(r.stack) /\ Last(r.stack) = r.stack[Len(r.stack)]
  BY NotEmpty DEF Framed
<1>2. Last(r.stack).at \in DOMAIN r.heap /\ r.of[Last(r.stack).at] # Null
  BY <1>1 DEF Framed
<1>3. Last(r.stack).slot \in Nat \ {0}
  BY <1>1, ReaderFrame
<1>. QED
  BY <1>1, <1>2, <1>3

LEMMA MovedStack ==
  ASSUME NEW c, NEW r, NEW wi, Framed(c, r, wi), r.stack # << >>
  PROVE  /\ Moved(r.stack) \in Seq(ReaderFrames)
         /\ Len(Moved(r.stack)) = Len(r.stack) /\ Moved(r.stack) # << >>
         /\ \A k \in 1 .. Len(r.stack) :
              /\ Moved(r.stack)[k].at = r.stack[k].at /\ Moved(r.stack)[k].id = r.stack[k].id
              /\ k # Len(r.stack) => Moved(r.stack)[k].slot = r.stack[k].slot
         /\ Moved(r.stack)[Len(r.stack)].slot = Last(r.stack).slot + 1
<1>1. r.stack \in Seq(ReaderFrames)
  BY DEF Framed
<1>2. Last(r.stack) = r.stack[Len(r.stack)]
  BY ReaderTop
<1>. QED
  BY <1>1, <1>2, MovedReader, Zenon DEF ReaderFrames

LEMMA OpenMoved ==
  ASSUME NEW c, NEW r, NEW wi, Framed(c, r, wi), r.stack # << >>
  PROVE  \A j, i : HasSlot(c, j, i) =>
           (Open(Moved(r.stack), j, i) <=> Open(r.stack, j, i) /\ ~(j = Last(r.stack).at /\ i = Last(r.stack).slot))
<1>1. PICK n \in Nat \ {0} : n = Len(r.stack) /\ Last(r.stack) = r.stack[n] /\ n \in 1 .. n
  BY ReaderTop
<1>2. PICK m : m = Moved(r.stack)
  OBVIOUS
<1>3. /\ Len(m) = n /\ m[n].slot = r.stack[n].slot + 1
      /\ \A k \in 1 .. n : m[k].at = r.stack[k].at /\ (k # n => m[k].slot = r.stack[k].slot)
  BY <1>1, <1>2, MovedStack
<1>4. \A k \in 1 .. n : r.stack[k].slot \in Nat \ {0}
  BY <1>1, ReaderFrame
<1>5. \A j, k \in 1 .. n : r.stack[j].at = r.stack[k].at => j = k
  BY <1>1, Zenon DEF Framed
<1>6. ASSUME NEW j, NEW i, HasSlot(c, j, i)
      PROVE  Open(m, j, i) <=> Open(r.stack, j, i) /\ ~(j = r.stack[n].at /\ i = r.stack[n].slot)
  <2>1. i \in Nat
    BY <1>6 DEF HasSlot
  <2>2. CASE j = r.stack[n].at
    <3>1. \A k \in 1 .. n : r.stack[k].at = j => k = n
      BY <1>5, <2>2
    <3>2. Open(m, j, i) <=> i >= r.stack[n].slot + 1
      BY <1>1, <1>3, <2>2, <3>1 DEF Open
    <3>3. Open(r.stack, j, i) <=> i >= r.stack[n].slot
      BY <1>1, <2>2, <3>1 DEF Open
    <3>4. r.stack[n].slot \in Nat
      BY <1>1, <1>4
    <3>. QED
      BY <2>1, <2>2, <3>2, <3>3, <3>4
  <2>3. CASE j # r.stack[n].at
    <3>1. \A k \in 1 .. n : r.stack[k].at = j => k # n
      BY <2>3
    <3>. QED
      BY <1>1, <1>3, <2>3, <3>1 DEF Open
  <2>. QED
    BY <2>2, <2>3
<1>. QED
  BY <1>1, <1>2, <1>6

\* r goes on to s.
Evolves(c, r, s) ==
  /\ DOMAIN r.heap \subseteq DOMAIN s.heap
  /\ \A j \in DOMAIN r.heap : r.of[j] # Null => s.of[j] = r.of[j]
  /\ \A j, i : Ptr(c, r.heap, j, i) /\ r.of[j] # Null /\ Open(s.stack, j, i) => Open(r.stack, j, i)

LEMMA FramedMoved ==
  ASSUME NEW c, Given(c), NEW r, NEW wi, Framed(c, r, wi), r.stack # << >>,
         HasSlot(c, Last(r.stack).at, Last(r.stack).slot),
         NEW s, s.stack = Moved(r.stack), Evolves(c, r, s)
  PROVE  Framed(c, s, wi)
<1>1. PICK n \in Nat \ {0} : n = Len(r.stack) /\ Last(r.stack) = r.stack[n] /\ n \in 1 .. n
  BY ReaderTop
<1>2. PICK m : m = s.stack
  OBVIOUS
<1>3. /\ m \in Seq(ReaderFrames)
      /\ Len(m) = n /\ m[n].slot = r.stack[n].slot + 1 /\ m # << >>
      /\ \A k \in 1 .. n : /\ m[k].at = r.stack[k].at /\ m[k].id = r.stack[k].id
                           /\ k # n => m[k].slot = r.stack[k].slot
  BY <1>1, <1>2, MovedStack
<1>4. \A k \in 1 .. n : r.stack[k].at \in DOMAIN r.heap /\ r.of[r.stack[k].at] # Null
  BY <1>1, Zenon DEF Framed
<1>5. \A k \in 1 .. n : s.of[m[k].at] = r.of[r.stack[k].at] /\ m[k].at \in DOMAIN s.heap
  BY <1>3, <1>4 DEF Evolves
<1>11. \A k \in 1 .. n : s.of[m[k].at] # Null
  BY <1>4, <1>5
<1>6. ASSUME NEW k \in 1 .. n PROVE m[k].slot <= Len(Shape(c, m[k].at)) + 1
  <2>1. CASE k = n
    <3>1. Len(Shape(c, r.stack[n].at)) \in Nat
      BY ShapeLength
    <3>2. r.stack[n].slot \in 1 .. Len(Shape(c, r.stack[n].at))
      BY <1>1 DEF HasSlot
    <3>3. r.stack[n].slot + 1 <= Len(Shape(c, r.stack[n].at)) + 1
      BY <3>1, <3>2
    <3>. QED
      BY <1>1, <1>3, <2>1, <3>3
  <2>2. CASE k # n
    BY <1>1, <1>3, <2>2, Zenon DEF Framed
  <2>. QED
    BY <2>1, <2>2
<1>7. m[1].at = Root /\ m[1].id = 0
  <2>1. 1 \in 1 .. n /\ r.stack[1].at = Root /\ r.stack[1].id = 0
    BY <1>1 DEF Framed
  <2>. QED
    BY <1>3, <2>1
<1>8. \A j, k \in 1 .. n : s.of[m[j].at] = s.of[m[k].at] => j = k
  BY <1>1, <1>5 DEF Framed
<1>9. ASSUME NEW k \in 2 .. n PROVE s.of[m[k].at] \in DOMAIN wi /\ wi[s.of[m[k].at]].id = m[k].id
  <2>1. k \in 1 .. n
    OBVIOUS
  <2>2. r.of[r.stack[k].at] \in DOMAIN wi /\ wi[r.of[r.stack[k].at]].id = r.stack[k].id
    BY <1>1, Zenon DEF Framed
  <2>. QED
    BY <1>3, <1>5, <2>1, <2>2, Zenon
<1>10. ASSUME NEW k \in 1 .. n - 1
       PROVE  /\ HasSlot(c, m[k].at, m[k].slot - 1)
              /\ Target(c, s.of[m[k].at], m[k].slot - 1) = s.of[m[k + 1].at]
  <2>1. k \in 1 .. n /\ k + 1 \in 1 .. n /\ k # n
    OBVIOUS
  <2>2. /\ HasSlot(c, r.stack[k].at, r.stack[k].slot - 1)
        /\ Target(c, r.of[r.stack[k].at], r.stack[k].slot - 1) = r.of[r.stack[k + 1].at]
    BY <1>1, Zenon DEF Framed
  <2>. QED
    BY <1>3, <1>5, <2>1, <2>2
<1>. QED
  BY <1>2, <1>3, <1>4, <1>5, <1>6, <1>7, <1>8, <1>9, <1>10, <1>11, Zenon DEF Framed

Push(st, p, id) == Append(Moved(st), [ at |-> p, slot |-> 1, id |-> id ])

LEMMA PushedStack ==
  ASSUME NEW c, NEW r, NEW wi, Framed(c, r, wi), r.stack # << >>, NEW p \in Nat, NEW id \in Nat,
         NEW st, st = Push(r.stack, p, id)
  PROVE  /\ st \in Seq(ReaderFrames) /\ Len(st) = Len(r.stack) + 1
         /\ \A k \in 1 .. Len(r.stack) : st[k] = Moved(r.stack)[k]
         /\ st[Len(r.stack) + 1].at = p /\ st[Len(r.stack) + 1].slot = 1 /\ st[Len(r.stack) + 1].id = id
<1>1. PICK f : f = [ at |-> p, slot |-> 1, id |-> id ]
  BY Zenon
<1>2. f \in ReaderFrames /\ f.at = p /\ f.slot = 1 /\ f.id = id
  BY <1>1 DEF ReaderFrames
<1>3. PICK m : m = Moved(r.stack)
  OBVIOUS
<1>4. m \in Seq(ReaderFrames) /\ Len(m) = Len(r.stack)
  BY <1>3, MovedStack
<1>5. st = Append(m, f)
  BY <1>1, <1>3 DEF Push
<1>6. st \in Seq(ReaderFrames) /\ Len(st) = Len(m) + 1
      /\ st[Len(m) + 1] = f /\ \A k \in 1 .. Len(m) : st[k] = m[k]
  <2>1. m \in Seq(ReaderFrames) /\ f \in ReaderFrames
    BY <1>2, <1>4
  <2>2. /\ Append(m, f) \in Seq(ReaderFrames) /\ Len(Append(m, f)) = Len(m) + 1
        /\ Append(m, f)[Len(m) + 1] = f
        /\ \A k \in 1 .. Len(m) : Append(m, f)[k] = m[k]
    BY <2>1, Pushed
  <2>. QED
    BY <1>5, <2>2
<1>. QED
  BY <1>2, <1>3, <1>4, <1>6

LEMMA OpenPushed ==
  ASSUME NEW c, NEW r, NEW wi, Framed(c, r, wi), r.stack # << >>, NEW p \in Nat, NEW id \in Nat,
         NEW st, st = Push(r.stack, p, id)
  PROVE  \A j, i : HasSlot(c, j, i) => (Open(st, j, i) <=> Open(Moved(r.stack), j, i) \/ j = p)
<1>1. PICK n \in Nat \ {0} : n = Len(r.stack)
  BY ReaderTop
<1>2. PICK m : m = Moved(r.stack)
  OBVIOUS
<1>3. Len(m) = n
  BY <1>1, <1>2, MovedStack
<1>4. /\ Len(st) = n + 1 /\ st[n + 1].at = p /\ st[n + 1].slot = 1
      /\ \A k \in 1 .. n : st[k] = m[k]
  BY <1>1, <1>2, PushedStack, SMTT(30)
<1>5. \A k \in 1 .. n + 1 : k \in 1 .. n \/ k = n + 1
  OBVIOUS
<1>6. n + 1 \in 1 .. n + 1 /\ \A k \in 1 .. n : k \in 1 .. n + 1
  OBVIOUS
<1>7. ASSUME NEW j, NEW i, HasSlot(c, j, i) PROVE Open(st, j, i) <=> Open(m, j, i) \/ j = p
  <2>1. i >= 1
    BY <1>7 DEF HasSlot
  <2>2. Open(m, j, i) => Open(st, j, i)
    BY <1>3, <1>4, <1>6 DEF Open
  <2>3. j = p => Open(st, j, i)
    BY <1>4, <1>6, <2>1 DEF Open
  <2>4. Open(st, j, i) => Open(m, j, i) \/ j = p
    BY <1>3, <1>4, <1>5 DEF Open
  <2>. QED
    BY <2>2, <2>3, <2>4
<1>. QED
  BY <1>2, <1>7

LEMMA OpenReturned ==
  ASSUME NEW c, Given(c), NEW r, NEW wi, Framed(c, r, wi), r.stack # << >>,
         ~HasSlot(c, Last(r.stack).at, Last(r.stack).slot)
  PROVE  \A j, i : HasSlot(c, j, i) => (Open(Front(r.stack), j, i) <=> Open(r.stack, j, i))
<1>1. PICK n \in Nat \ {0} : n = Len(r.stack) /\ Last(r.stack) = r.stack[n] /\ n \in 1 .. n
  BY ReaderTop
<1>2. PICK m : m = Front(r.stack)
  OBVIOUS
<1>3. Len(m) = n - 1 /\ \A k \in 1 .. n - 1 : m[k] = r.stack[k]
  BY <1>1, <1>2, FrontFrames DEF Framed
<1>4. \A k \in 1 .. n : k \in 1 .. n - 1 \/ k = n
  OBVIOUS
<1>5. \A k \in 1 .. n - 1 : k \in 1 .. n
  OBVIOUS
<1>6. ASSUME NEW j, NEW i, HasSlot(c, j, i) PROVE Open(m, j, i) <=> Open(r.stack, j, i)
  <2>1. ~(r.stack[n].at = j /\ i >= r.stack[n].slot)
    <3>1. r.stack[n].slot \in Nat \ {0} /\ ~HasSlot(c, r.stack[n].at, r.stack[n].slot)
      BY <1>1, ReaderTop
    <3>2. Len(Shape(c, j)) \in Nat
      BY ShapeLength
    <3>. QED
      BY <1>6, <3>1, <3>2 DEF HasSlot
  <2>2. Open(m, j, i) => Open(r.stack, j, i)
    BY <1>1, <1>3, <1>5, Zenon DEF Open
  <2>3. Open(r.stack, j, i) => Open(m, j, i)
    BY <1>1, <1>3, <1>4, <2>1 DEF Open
  <2>. QED
    BY <2>2, <2>3
<1>. QED
  BY <1>2, <1>6

LEMMA FramedPushed ==
  ASSUME NEW c, Given(c), NEW r, NEW wi, Framed(c, r, wi), r.stack # << >>,
         HasSlot(c, Last(r.stack).at, Last(r.stack).slot),
         NEW p \in Nat, NEW id \in Nat,
         NEW s, s.stack = Push(r.stack, p, id),
         Evolves(c, r, s), p \in DOMAIN s.heap, s.of[p] \in DOMAIN wi, wi[s.of[p]].id = id, s.of[p] # Null,
         s.of[p] = Target(c, r.of[Last(r.stack).at], Last(r.stack).slot),
         \A k \in 1 .. Len(r.stack) : r.of[r.stack[k].at] # s.of[p]
  PROVE  Framed(c, s, wi)
<1>1. PICK n \in Nat \ {0} : n = Len(r.stack) /\ Last(r.stack) = r.stack[n] /\ n \in 1 .. n
  BY ReaderTop
<1>2. PICK u : u = [ heap |-> s.heap, of |-> s.of, stack |-> Moved(r.stack) ]
  BY Zenon
<1>3. u.heap = s.heap /\ u.of = s.of /\ u.stack = Moved(r.stack)
  BY <1>2
<1>4. Evolves(c, r, u)
  BY <1>3, OpenMoved DEF Evolves, Ptr
<1>5. Framed(c, u, wi)
  BY <1>3, <1>4, FramedMoved
<1>6. Len(u.stack) = n /\ u.stack # << >> /\ \A k \in 1 .. n : u.stack[k].at = r.stack[k].at
      /\ u.stack[n].slot = r.stack[n].slot + 1
  BY <1>1, <1>3, MovedStack, SMTT(30)
<1>7. PICK m : m = s.stack
  OBVIOUS
<1>8. /\ m \in Seq(ReaderFrames) /\ Len(m) = n + 1
      /\ m[n + 1].at = p /\ m[n + 1].slot = 1 /\ m[n + 1].id = id
      /\ \A k \in 1 .. n : m[k] = u.stack[k]
  <2>1. m = Push(r.stack, p, id)
    BY <1>7
  <2>2. /\ m \in Seq(ReaderFrames) /\ Len(m) = Len(r.stack) + 1
        /\ \A k \in 1 .. Len(r.stack) : m[k] = Moved(r.stack)[k]
        /\ m[Len(r.stack) + 1].at = p /\ m[Len(r.stack) + 1].slot = 1 /\ m[Len(r.stack) + 1].id = id
    BY <2>1, PushedStack, SMTT(30)
  <2>4. Len(m) = n + 1 /\ m[n + 1].at = p /\ m[n + 1].slot = 1 /\ m[n + 1].id = id
    BY <1>1, <2>2, Zenon
  <2>5. \A k \in 1 .. n : m[k] = u.stack[k]
    BY <1>1, <1>3, <2>2, Zenon
  <2>. QED
    BY <2>2, <2>4, <2>5
<1>9. \A k \in 1 .. n + 1 : k \in 1 .. n \/ k = n + 1
  OBVIOUS
<1>10. \A k \in 1 .. n : /\ m[k].at \in DOMAIN s.heap /\ s.of[m[k].at] # Null
                         /\ m[k].slot <= Len(Shape(c, m[k].at)) + 1
  <2>1. \A k \in 1 .. n : /\ u.stack[k].at \in DOMAIN s.heap /\ s.of[u.stack[k].at] # Null
                          /\ u.stack[k].slot <= Len(Shape(c, u.stack[k].at)) + 1
    BY <1>3, <1>5, <1>6, Zenon DEF Framed
  <2>. QED
    BY <1>8, <2>1
<1>11. ASSUME NEW k \in 1 .. n + 1
       PROVE  /\ m[k].at \in DOMAIN s.heap /\ s.of[m[k].at] # Null
              /\ m[k].slot <= Len(Shape(c, m[k].at)) + 1
  <2>1. CASE k \in 1 .. n
    BY <1>10, <2>1, Zenon
  <2>2. CASE k = n + 1
    <3>1. Len(Shape(c, p)) \in Nat
      BY ShapeLength
    <3>. QED
      BY <1>8, <2>2, <3>1
  <2>. QED
    BY <1>9, <2>1, <2>2
<1>12. m[1].at = Root /\ m[1].id = 0
  <2>1. 1 \in 1 .. n /\ u.stack[1].at = Root /\ u.stack[1].id = 0
    BY <1>5, <1>6, SMTT(30) DEF Framed
  <2>. QED
    BY <1>8, <2>1
<1>13. \A k \in 1 .. n : s.of[m[k].at] # s.of[p]
  <2>1. \A k \in 1 .. n : s.of[r.stack[k].at] = r.of[r.stack[k].at]
    BY <1>1, Zenon DEF Framed, Evolves
  <2>2. \A k \in 1 .. n : m[k].at = r.stack[k].at
    BY <1>6, <1>8
  <2>3. \A k \in 1 .. n : r.of[r.stack[k].at] # s.of[p]
    BY <1>1, Zenon
  <2>. QED
    BY <2>1, <2>2, <2>3, Zenon
<1>14. \A j, k \in 1 .. n + 1 : s.of[m[j].at] = s.of[m[k].at] => j = k
  <2>1. \A j, k \in 1 .. n : s.of[m[j].at] = s.of[m[k].at] => j = k
    <3>1. \A j, k \in 1 .. Len(u.stack) : u.of[u.stack[j].at] = u.of[u.stack[k].at] => j = k
      BY <1>5 DEF Framed
    <3>3. \A j, k \in 1 .. n : s.of[u.stack[j].at] = s.of[u.stack[k].at] => j = k
      BY <1>3, <1>6, <3>1
    <3>2. \A k \in 1 .. n : m[k].at = u.stack[k].at
      BY <1>8
    <3>. QED
      BY <3>2, <3>3, Zenon
  <2>. QED
    BY <1>8, <1>9, <1>13, <2>1
<1>15. ASSUME NEW k \in 2 .. n + 1 PROVE s.of[m[k].at] \in DOMAIN wi /\ wi[s.of[m[k].at]].id = m[k].id
  <2>1. CASE k \in 2 .. n
    <3>1. k \in 1 .. n
      BY <2>1
    <3>2. s.of[u.stack[k].at] \in DOMAIN wi /\ wi[s.of[u.stack[k].at]].id = u.stack[k].id
      BY <1>3, <1>5, <1>6, <2>1, Zenon DEF Framed
    <3>. QED
      BY <1>8, <3>1, <3>2, Zenon
  <2>2. CASE k = n + 1
    BY <1>8, <2>2
  <2>. QED
    BY <2>1, <2>2
<1>16. ASSUME NEW k \in 1 .. n
       PROVE  /\ HasSlot(c, m[k].at, m[k].slot - 1)
              /\ Target(c, s.of[m[k].at], m[k].slot - 1) = s.of[m[k + 1].at]
  <2>1. CASE k \in 1 .. n - 1
    <3>1. k + 1 \in 1 .. n
      BY <2>1
    <3>2. /\ HasSlot(c, u.stack[k].at, u.stack[k].slot - 1)
          /\ Target(c, s.of[u.stack[k].at], u.stack[k].slot - 1) = s.of[u.stack[k + 1].at]
      BY <1>3, <1>5, <1>6, <2>1, Zenon DEF Framed
    <3>. QED
      BY <1>8, <3>1, <3>2, Zenon
  <2>2. CASE k = n
    <3>1. m[n].at = r.stack[n].at /\ m[n].slot - 1 = r.stack[n].slot
      <4>1. r.stack[n].slot \in Nat
        BY <1>1, ReaderFrame, Zenon
      <4>2. m[n] = u.stack[n] /\ u.stack[n].at = r.stack[n].at /\ u.stack[n].slot = r.stack[n].slot + 1
        BY <1>1, <1>6, <1>8
      <4>. QED
        BY <4>1, <4>2
    <3>2. s.of[r.stack[n].at] = r.of[r.stack[n].at]
      BY <1>1, Zenon DEF Framed, Evolves
    <3>. QED
      BY <1>1, <1>8, <2>2, <3>1, <3>2, SMTT(30)
  <2>. QED
    BY <2>1, <2>2
<1>17. Len(m) - 1 = n
  BY <1>8
<1>. QED
  BY <1>7, <1>8, <1>11, <1>12, <1>14, <1>15, <1>16, <1>17, Zenon DEF Framed

LEMMA FramedReturned ==
  ASSUME NEW c, NEW r, NEW wi, Framed(c, r, wi), r.stack # << >>,
         NEW s, s.stack = Front(r.stack), Evolves(c, r, s)
  PROVE  Framed(c, s, wi)
<1>1. PICK n \in Nat \ {0} : n = Len(r.stack)
  BY ReaderTop
<1>2. PICK m : m = s.stack
  OBVIOUS
<1>3. /\ m \in Seq(ReaderFrames) /\ Len(m) = n - 1
      /\ \A k \in 1 .. n - 1 : m[k] = r.stack[k]
  BY <1>1, <1>2, FrontFrames DEF Framed
<1>4. m # << >> => 1 \in 1 .. n - 1
  <2>1. m # << >> => Len(m) \in Nat \ {0}
    BY <1>3, NotEmpty
  <2>. QED
    BY <1>3, <2>1
<1>5. \A k \in 1 .. n - 1 : k \in 1 .. n
  OBVIOUS
<1>6. \A k \in 1 .. n : r.stack[k].at \in DOMAIN r.heap /\ r.of[r.stack[k].at] # Null
                        /\ r.stack[k].slot <= Len(Shape(c, r.stack[k].at)) + 1
  BY <1>1 DEF Framed
<1>7. \A k \in 1 .. n : s.of[r.stack[k].at] = r.of[r.stack[k].at] /\ r.stack[k].at \in DOMAIN s.heap
  BY <1>6 DEF Evolves
<1>8. \A k \in 1 .. n - 1 : m[k].at \in DOMAIN s.heap /\ s.of[m[k].at] # Null
                            /\ m[k].slot <= Len(Shape(c, m[k].at)) + 1
  BY <1>3, <1>5, <1>6, <1>7, Zenon
<1>9. m # << >> => m[1].at = Root /\ m[1].id = 0
  BY <1>1, <1>3, <1>4 DEF Framed
<1>10. \A j, k \in 1 .. n - 1 : s.of[m[j].at] = s.of[m[k].at] => j = k
  <2>1. \A j, k \in 1 .. n : r.of[r.stack[j].at] = r.of[r.stack[k].at] => j = k
    BY <1>1, Zenon DEF Framed
  <2>2. \A k \in 1 .. n - 1 : s.of[m[k].at] = r.of[r.stack[k].at]
    BY <1>3, <1>5, <1>7
  <2>. QED
    BY <1>5, <2>1, <2>2
<1>11. ASSUME NEW k \in 2 .. n - 1 PROVE s.of[m[k].at] \in DOMAIN wi /\ wi[s.of[m[k].at]].id = m[k].id
  <2>1. k \in 2 .. n /\ k \in 1 .. n /\ k \in 1 .. n - 1
    OBVIOUS
  <2>2. r.of[r.stack[k].at] \in DOMAIN wi /\ wi[r.of[r.stack[k].at]].id = r.stack[k].id
    BY <1>1, <2>1, Zenon DEF Framed
  <2>. QED
    BY <1>3, <1>7, <2>1, <2>2, Zenon
<1>12. ASSUME NEW k \in 1 .. (n - 1) - 1
       PROVE  /\ HasSlot(c, m[k].at, m[k].slot - 1)
              /\ Target(c, s.of[m[k].at], m[k].slot - 1) = s.of[m[k + 1].at]
  <2>1. k \in 1 .. n - 1 /\ k + 1 \in 1 .. n - 1 /\ k \in 1 .. n /\ k + 1 \in 1 .. n
    OBVIOUS
  <2>2. /\ HasSlot(c, r.stack[k].at, r.stack[k].slot - 1)
        /\ Target(c, r.of[r.stack[k].at], r.stack[k].slot - 1) = r.of[r.stack[k + 1].at]
    BY <1>1, <2>1 DEF Framed
  <2>. QED
    BY <1>3, <1>7, <2>1, <2>2
<1>. QED
  BY <1>2, <1>3, <1>8, <1>9, <1>10, <1>11, <1>12, Zenon DEF Framed

-----------------------------------------------------------------------------
(***************************************************************************)
(* The reader's heap.                                                      *)
(***************************************************************************)
\* g is h with the pointers of S turned to p.
Pointed(c, h, g, S, p) ==
  /\ DOMAIN g = DOMAIN h
  /\ \A j \in DOMAIN h : g[j].value = h[j].value
  /\ \A j, i : Ptr(c, h, j, i) => g[j].to[i] = IF <<j, i>> \in S THEN p ELSE h[j].to[i]

LEMMA PointTyped ==
  ASSUME NEW c, Heaped(c, heap), NEW S, NEW p \in Int
  PROVE  /\ \A j \in DOMAIN heap : Point(S, p)[j] \in [ value : Int, to : [ 1 .. Len(Shape(c, j)) -> Int ] ]
         /\ Pointed(c, heap, Point(S, p), S, p)
<1>1. PICK g : g = Point(S, p)
  OBVIOUS
<1>2. DOMAIN g = DOMAIN heap
  BY <1>1 DEF Point
<1>3. ASSUME NEW j \in DOMAIN heap
      PROVE  /\ g[j] \in [ value : Int, to : [ 1 .. Len(Shape(c, j)) -> Int ] ]
             /\ g[j].value = heap[j].value
             /\ \A i \in 1 .. Len(Shape(c, j)) : g[j].to[i] = IF <<j, i>> \in S THEN p ELSE heap[j].to[i]
  <2>1. heap[j] \in [ value : Int, to : [ 1 .. Len(Shape(c, j)) -> Int ] ]
    BY DEF Heaped
  <2>2. PICK f : f = [ i \in DOMAIN heap[j].to |-> IF <<j, i>> \in S THEN p ELSE heap[j].to[i] ]
    BY Zenon
  <2>3. g[j] = [ heap[j] EXCEPT !.to = f ]
    BY <1>1, <2>2 DEF Point
  <2>4. DOMAIN heap[j].to = 1 .. Len(Shape(c, j)) /\ \A i \in 1 .. Len(Shape(c, j)) : heap[j].to[i] \in Int
    BY <2>1
  <2>5. f \in [ 1 .. Len(Shape(c, j)) -> Int ]
    BY <2>2, <2>4
  <2>6. g[j].value = heap[j].value /\ g[j].to = f
    BY <2>1, <2>3
  <2>7. g[j] \in [ value : Int, to : [ 1 .. Len(Shape(c, j)) -> Int ] ]
    BY <2>1, <2>3, <2>5, Zenon
  <2>. QED
    BY <2>2, <2>4, <2>6, <2>7
<1>4. \A j, i : Ptr(c, heap, j, i) => g[j].to[i] = IF <<j, i>> \in S THEN p ELSE heap[j].to[i]
  BY <1>3 DEF Ptr, HasSlot
<1>5. Pointed(c, heap, g, S, p)
  BY <1>2, <1>3, <1>4 DEF Pointed
<1>. QED
  BY <1>1, <1>3, <1>5

LEMMA PointHeap ==
  ASSUME NEW c, Heaped(c, heap), NEW S, NEW p \in DOMAIN heap \union {Null}
  PROVE  Heaped(c, Point(S, p)) /\ Pointed(c, heap, Point(S, p), S, p)
<1>1. PICK n \in Nat : n > Len(c.root) /\ DOMAIN heap = 0 .. n - 1
  BY DEF Heaped
<1>2. PICK g : g = Point(S, p)
  OBVIOUS
<1>3. p \in Int
  BY <1>1 DEF Null
<1>4. /\ \A j \in DOMAIN heap : g[j] \in [ value : Int, to : [ 1 .. Len(Shape(c, j)) -> Int ] ]
      /\ Pointed(c, heap, g, S, p)
  BY <1>2, <1>3, PointTyped
<1>5. DOMAIN g = DOMAIN heap /\ \A j, i : Ptr(c, heap, j, i) => g[j].to[i] = IF <<j, i>> \in S THEN p ELSE heap[j].to[i]
  BY <1>4 DEF Pointed
<1>6. \A j, i : Ptr(c, g, j, i) => g[j].to[i] \in DOMAIN g \union {Null}
  BY <1>5, Zenon DEF Heaped, Ptr
<1>7. Heaped(c, g)
  BY <1>1, <1>4, <1>5, <1>6 DEF Heaped
<1>. QED
  BY <1>2, <1>4, <1>7

\* Pointers that were passed are turned to an object that corresponds, and
\* pointers that are passed now are among them or null.
Relinks(c, r, s, S, p) ==
  /\ Pointed(c, r.heap, s.heap, S, p) /\ s.of = r.of
  /\ p \in DOMAIN r.heap \union {Null} /\ (p # Null => r.of[p] # Null)
  /\ \A j, i : <<j, i>> \in S /\ Ptr(c, r.heap, j, i) =>
       /\ r.of[j] # Null /\ ~Open(s.stack, j, i)
       /\ p # Null => r.of[p] = Target(c, r.of[j], i)
  /\ \A j, i : Ptr(c, r.heap, j, i) /\ Open(r.stack, j, i) /\ ~Open(s.stack, j, i) =>
       <<j, i>> \in S \/ r.heap[j].to[i] = Null
  /\ \A j, i : Ptr(c, r.heap, j, i) /\ Open(s.stack, j, i) => Open(r.stack, j, i)

LEMMA RelinksLinks ==
  ASSUME NEW c, NEW r, Heaped(c, r.heap), Placed(c, r.heap, r.of), Links(c, r),
         NEW s, NEW S, NEW p, Relinks(c, r, s, S, p)
  PROVE  Placed(c, s.heap, s.of) /\ Links(c, s) /\ Evolves(c, r, s)
<1>1. /\ DOMAIN s.heap = DOMAIN r.heap /\ s.of = r.of
      /\ \A j \in DOMAIN r.heap : s.heap[j].value = r.heap[j].value
      /\ \A j, i : Ptr(c, r.heap, j, i) =>
           s.heap[j].to[i] = IF <<j, i>> \in S THEN p ELSE r.heap[j].to[i]
  BY DEF Relinks, Pointed
<1>2. Evolves(c, r, s)
  BY <1>1 DEF Relinks, Evolves
<1>3. \A j, i : <<j, i>> \in S /\ Ptr(c, r.heap, j, i) =>
        /\ r.of[j] # Null /\ ~Open(s.stack, j, i)
        /\ p # Null => r.of[p] = Target(c, r.of[j], i) /\ r.of[p] # Null
  BY DEF Relinks
<1>4. Placed(c, s.heap, s.of)
  <2>1. ASSUME NEW j \in DOMAIN r.heap, r.of[j] = Null
        PROVE  s.heap[j].value = 0 /\ \A i : HasSlot(c, j, i) => s.heap[j].to[i] = Null
    <3>1. r.heap[j].value = 0 /\ \A i : HasSlot(c, j, i) => r.heap[j].to[i] = Null
      BY <2>1 DEF Placed
    <3>2. \A i : HasSlot(c, j, i) => Ptr(c, r.heap, j, i)
      BY DEF Ptr
    <3>3. \A i : HasSlot(c, j, i) => <<j, i>> \notin S
      BY <1>3, <2>1, <3>2
    <3>. QED
      BY <1>1, <3>1, <3>2, <3>3, Zenon
  <2>. QED
    BY <1>1, <2>1 DEF Placed
<1>5. ASSUME NEW j, NEW i, Ptr(c, r.heap, j, i)
      PROVE  IF Open(s.stack, j, i) THEN Early(c, s, j, i) ELSE Right(c, s, j, i)
  <2>1. CASE <<j, i>> \in S
    <3>1. ~Open(s.stack, j, i) /\ s.heap[j].to[i] = p
      BY <1>1, <1>3, <1>5, <2>1
    <3>2. Right(c, s, j, i)
      BY <1>1, <1>3, <1>5, <2>1, <3>1 DEF Right
    <3>. QED
      BY <3>1, <3>2
  <2>2. CASE <<j, i>> \notin S /\ Open(s.stack, j, i)
    <3>1. Early(c, r, j, i)
      BY <1>5, <2>2 DEF Relinks, Links
    <3>2. Early(c, s, j, i)
      BY <1>1, <1>5, <2>2, <3>1 DEF Early
    <3>. QED
      BY <2>2, <3>2
  <2>3. CASE <<j, i>> \notin S /\ ~Open(s.stack, j, i)
    <3>1. s.heap[j].to[i] = r.heap[j].to[i]
      BY <1>1, <1>5, <2>3
    <3>2. Right(c, r, j, i) \/ r.heap[j].to[i] = Null
      BY <1>5, <2>3 DEF Relinks, Links
    <3>3. Right(c, s, j, i)
      BY <1>1, <3>1, <3>2 DEF Right
    <3>. QED
      BY <2>3, <3>3
  <2>. QED
    BY <2>1, <2>2, <2>3
<1>6. \A j, i : Ptr(c, s.heap, j, i) => Ptr(c, r.heap, j, i)
  BY <1>1 DEF Ptr
<1>7. Links(c, s)
  BY <1>5, <1>6 DEF Links
<1>. QED
  BY <1>2, <1>4, <1>7

\* The pointer ahead is left as it is, and what it holds is taken to stand
\* for the writer's object.
Claims(c, r, s) ==
  /\ r.stack # << >> /\ HasSlot(c, Last(r.stack).at, Last(r.stack).slot)
  /\ s.heap = r.heap /\ s.stack = Moved(r.stack)
  /\ LET held == r.heap[Last(r.stack).at].to[Last(r.stack).slot]
         t    == Target(c, r.of[Last(r.stack).at], Last(r.stack).slot)
     IN  /\ held # Null /\ t # Null
         /\ s.of = [ j \in DOMAIN r.heap |-> IF j = held THEN t ELSE r.of[j] ]

LEMMA OpenAhead ==
  ASSUME NEW c, NEW r, NEW wi, Framed(c, r, wi), r.stack # << >>
  PROVE  Open(r.stack, Last(r.stack).at, Last(r.stack).slot)
<1>1. Len(r.stack) \in 1 .. Len(r.stack) /\ Last(r.stack) = r.stack[Len(r.stack)] /\ Last(r.stack).slot \in Nat \ {0}
  BY ReaderTop
<1>. QED
  BY <1>1 DEF Open

LEMMA TargetAhead ==
  ASSUME NEW c, Given(c), NEW r, NEW wi, Placed(c, r.heap, r.of), Framed(c, r, wi), r.stack # << >>,
         HasSlot(c, Last(r.stack).at, Last(r.stack).slot)
  PROVE  /\ Ptr(c, r.heap, Last(r.stack).at, Last(r.stack).slot)
         /\ Target(c, r.of[Last(r.stack).at], Last(r.stack).slot) \in c.objects \union {Null}
<1>1. Last(r.stack).at \in DOMAIN r.heap /\ r.of[Last(r.stack).at] # Null
  BY ReaderTop
<1>2. r.of[Last(r.stack).at] \in Things(c)
  BY <1>1 DEF Placed
<1>3. HasSlot(c, r.of[Last(r.stack).at], Last(r.stack).slot)
  BY <1>1 DEF Placed, HasSlot, Shape
<1>. QED
  BY <1>1, <1>2, <1>3 DEF Given, Ptr

LEMMA ClaimsLinks ==
  ASSUME NEW c, Given(c), NEW r, NEW wi,
         Heaped(c, r.heap), Placed(c, r.heap, r.of), Links(c, r), Framed(c, r, wi),
         NEW s, Claims(c, r, s)
  PROVE  Placed(c, s.heap, s.of) /\ Links(c, s) /\ Evolves(c, r, s)
<1>1. PICK a, b : a = Last(r.stack).at /\ b = Last(r.stack).slot
  OBVIOUS
<1>2. PICK k, t : k = r.heap[a].to[b] /\ t = Target(c, r.of[a], b)
  OBVIOUS
<1>3. /\ r.stack # << >> /\ HasSlot(c, a, b) /\ k # Null /\ t # Null /\ s.heap = r.heap
      /\ s.of = [ j \in DOMAIN r.heap |-> IF j = k THEN t ELSE r.of[j] ] /\ s.stack = Moved(r.stack)
  BY <1>1, <1>2, Zenon DEF Claims
<1>4. Ptr(c, r.heap, a, b) /\ t \in c.objects /\ t # Root
  <2>1. Ptr(c, r.heap, a, b) /\ t \in c.objects
    BY <1>1, <1>2, <1>3, TargetAhead, Zenon
  <2>. QED
    BY <2>1 DEF Given, Root
<1>5. Early(c, r, a, b)
  BY <1>1, <1>3, <1>4, OpenAhead DEF Links
<1>6. a = Root /\ k = b /\ r.of[k] = Null /\ k \in DOMAIN r.heap
  BY <1>2, <1>3, <1>4, <1>5 DEF Early, Heaped
<1>7. \A j, i : HasSlot(c, j, i) => (Open(s.stack, j, i) <=> Open(r.stack, j, i) /\ ~(j = a /\ i = b))
  BY <1>1, <1>3, OpenMoved
<1>8. \A j \in DOMAIN r.heap : s.of[j] = IF j = k THEN t ELSE r.of[j]
  BY <1>3
<1>9. Evolves(c, r, s)
  BY <1>3, <1>6, <1>7, <1>8 DEF Evolves, Ptr
<1>10. Placed(c, s.heap, s.of)
  <2>1. s.of \in [ DOMAIN s.heap -> Things(c) \union {Null} ]
    BY <1>3, <1>4 DEF Placed, Things
  <2>2. \A j \in DOMAIN s.heap : s.of[j] = Root <=> j = Root
    <3>1. r.of[k] # Root
      BY <1>6 DEF Null, Root
    <3>. QED
      BY <1>3, <1>4, <1>6, <1>8, <3>1 DEF Placed
  <2>3. r.heap[k].value = 0
    BY <1>6 DEF Placed
  <2>4. \A j \in DOMAIN s.heap : s.of[j] = Null =>
          s.heap[j].value = 0 /\ \A i : HasSlot(c, j, i) => s.heap[j].to[i] = Null
    BY <1>3, <1>8 DEF Placed
  <2>5. \A j \in DOMAIN s.heap : s.heap[j].value \in {0, ValueOf(s.of[j])}
    BY <1>3, <1>8, <2>3 DEF Placed
  <2>. QED
    BY <2>1, <2>2, <2>4, <2>5 DEF Placed
<1>11. ASSUME NEW j, NEW i, Ptr(c, r.heap, j, i)
       PROVE  IF Open(s.stack, j, i) THEN Early(c, s, j, i) ELSE Right(c, s, j, i)
  <2>0. j \in DOMAIN r.heap /\ HasSlot(c, j, i)
    BY <1>11 DEF Ptr
  <2>1. CASE Open(s.stack, j, i)
    <3>1. Early(c, r, j, i) /\ ~(j = a /\ i = b)
      BY <1>7, <1>11, <2>0, <2>1 DEF Links
    <3>2. j = Root => i # k
      BY <1>6, <3>1
    <3>3. r.heap[j].to[i] # Null => j = Root /\ r.heap[j].to[i] = i /\ i \in DOMAIN r.heap /\ r.of[i] = Null
      BY <1>11, <3>1 DEF Early, Heaped
    <3>4. Early(c, s, j, i)
      BY <1>3, <1>8, <3>1, <3>2, <3>3 DEF Early
    <3>. QED
      BY <2>1, <3>4
  <2>2. CASE ~Open(s.stack, j, i) /\ j = a /\ i = b
    <3>1. s.of[a] = r.of[a] /\ r.of[a] # Null
      <4>1. r.of[a] # Null /\ a \in DOMAIN r.heap
        BY <1>1, <1>3, ReaderTop
      <4>. QED
        BY <1>6, <1>8, <4>1
    <3>2. Right(c, s, j, i)
      BY <1>2, <1>3, <1>6, <1>8, <2>2, <3>1 DEF Right
    <3>. QED
      BY <2>2, <3>2
  <2>3. CASE ~Open(s.stack, j, i) /\ ~(j = a /\ i = b)
    <3>1. Right(c, r, j, i)
      BY <1>7, <1>11, <2>0, <2>3 DEF Links
    <3>2. r.heap[j].to[i] \in DOMAIN r.heap \union {Null}
      BY <1>11 DEF Heaped
    <3>3. Right(c, s, j, i)
      BY <1>3, <1>6, <1>8, <2>0, <3>1, <3>2 DEF Right
    <3>. QED
      BY <2>3, <3>3
  <2>. QED
    BY <2>1, <2>2, <2>3
<1>12. Links(c, s)
  BY <1>3, <1>11 DEF Links
<1>. QED
  BY <1>9, <1>10, <1>12

\* The object p, new or held by the pointer ahead, is entered as the writer's
\* object t, with a value.
EntersObject(c, r, s, p, t, id, x) ==
  /\ r.stack # << >> /\ HasSlot(c, Last(r.stack).at, Last(r.stack).slot)
  /\ p \in Nat /\ id \in Nat
  /\ p \notin DOMAIN r.heap \/ (p = r.heap[Last(r.stack).at].to[Last(r.stack).slot] /\ p # Null)
  /\ Heaped(c, s.heap) /\ DOMAIN s.heap = DOMAIN r.heap \union {p}
  /\ s.heap[p].value = x /\ x \in {0, ValueOf(t)}
  /\ p \notin DOMAIN r.heap => \A i : HasSlot(c, p, i) => s.heap[p].to[i] = Null
  /\ p \in DOMAIN r.heap => \A i : HasSlot(c, p, i) => s.heap[p].to[i] = r.heap[p].to[i]
  /\ \A j \in DOMAIN r.heap : j # p => s.heap[j].value = r.heap[j].value
  /\ \A j, i : Ptr(c, r.heap, j, i) /\ j # p =>
       s.heap[j].to[i] = IF j = Last(r.stack).at /\ i = Last(r.stack).slot THEN p ELSE r.heap[j].to[i]
  /\ s.of = [ j \in DOMAIN r.heap \union {p} |-> IF j = p THEN t ELSE r.of[j] ]
  /\ s.stack = Push(r.stack, p, id)
  /\ t = Target(c, r.of[Last(r.stack).at], Last(r.stack).slot) /\ t # Null

LEMMA EntersLinks ==
  ASSUME NEW c, Given(c), NEW r, NEW wi,
         Heaped(c, r.heap), Placed(c, r.heap, r.of), Links(c, r), Framed(c, r, wi),
         NEW s, NEW p, NEW t, NEW id, NEW x, EntersObject(c, r, s, p, t, id, x)
  PROVE  /\ Placed(c, s.heap, s.of) /\ Links(c, s) /\ Evolves(c, r, s)
         /\ t \in c.objects /\ s.of[p] = t /\ (p \in DOMAIN r.heap => r.of[p] = Null)
<1>1. PICK a, b : a = Last(r.stack).at /\ b = Last(r.stack).slot
  OBVIOUS
<1>2. /\ r.stack # << >> /\ HasSlot(c, a, b) /\ p \in Nat /\ id \in Nat
      /\ p \notin DOMAIN r.heap \/ (p = r.heap[a].to[b] /\ p # Null)
      /\ DOMAIN s.heap = DOMAIN r.heap \union {p}
      /\ s.heap[p].value = x /\ x \in {0, ValueOf(t)}
      /\ p \notin DOMAIN r.heap => \A i : HasSlot(c, p, i) => s.heap[p].to[i] = Null
      /\ p \in DOMAIN r.heap => \A i : HasSlot(c, p, i) => s.heap[p].to[i] = r.heap[p].to[i]
      /\ s.of = [ j \in DOMAIN r.heap \union {p} |-> IF j = p THEN t ELSE r.of[j] ]
      /\ s.stack = Push(r.stack, p, id)
      /\ t = Target(c, r.of[a], b) /\ t # Null
  BY <1>1, Zenon DEF EntersObject
<1>3. /\ \A j \in DOMAIN r.heap : j # p => s.heap[j].value = r.heap[j].value
      /\ \A j, i : Ptr(c, r.heap, j, i) /\ j # p =>
           s.heap[j].to[i] = IF j = a /\ i = b THEN p ELSE r.heap[j].to[i]
  BY <1>1, SMTT(30) DEF EntersObject
<1>4. Ptr(c, r.heap, a, b) /\ t \in c.objects /\ t # Root
  <2>1. Ptr(c, r.heap, a, b) /\ t \in c.objects
    BY <1>1, <1>2, TargetAhead, SMTT(30)
  <2>. QED
    BY <2>1 DEF Given, Root
<1>5. Early(c, r, a, b)
  BY <1>1, <1>2, <1>4, OpenAhead, Zenon DEF Links
<1>6. p \in DOMAIN r.heap => a = Root /\ p = b /\ r.of[p] = Null
  BY <1>2, <1>5 DEF Early
<1>7. p # Root /\ a # p /\ r.of[a] # Null
  <2>1. Root \in DOMAIN r.heap /\ r.of[Root] = Root
    <3>1. Root \in DOMAIN r.heap
      BY DEF Heaped, Root
    <3>. QED
      BY <3>1 DEF Placed
  <2>2. r.of[a] # Null /\ a \in DOMAIN r.heap
    BY <1>1, <1>2, ReaderTop, Zenon
  <2>. QED
    BY <1>6, <2>1, <2>2 DEF Root, Null
<1>8. \A j \in DOMAIN s.heap : s.of[j] = IF j = p THEN t ELSE r.of[j]
  BY <1>2
<1>9. \A i : HasSlot(c, p, i) => s.heap[p].to[i] = Null
  <2>1. CASE p \in DOMAIN r.heap
    <3>1. \A i : HasSlot(c, p, i) => r.heap[p].to[i] = Null
      BY <1>6, <2>1 DEF Placed
    <3>. QED
      BY <1>2, <2>1, <3>1
  <2>2. CASE p \notin DOMAIN r.heap
    BY <1>2, <2>2
  <2>. QED
    BY <2>1, <2>2
<1>10. \A j, i : HasSlot(c, j, i) =>
         (Open(s.stack, j, i) <=> (Open(r.stack, j, i) /\ ~(j = a /\ i = b)) \/ j = p)
  <2>1. \A j, i : HasSlot(c, j, i) => (Open(s.stack, j, i) <=> Open(Moved(r.stack), j, i) \/ j = p)
    BY <1>2, OpenPushed
  <2>2. \A j, i : HasSlot(c, j, i) =>
          (Open(Moved(r.stack), j, i) <=> Open(r.stack, j, i) /\ ~(j = a /\ i = b))
    BY <1>1, <1>2, OpenMoved, Zenon
  <2>. QED
    BY <2>1, <2>2
<1>11. Evolves(c, r, s)
  BY <1>2, <1>6, <1>8, <1>10 DEF Evolves, Ptr
<1>12. Placed(c, s.heap, s.of)
  <2>1. s.of \in [ DOMAIN s.heap -> Things(c) \union {Null} ]
    BY <1>2, <1>4 DEF Placed, Things
  <2>2. \A j \in DOMAIN s.heap : s.of[j] = Root <=> j = Root
    BY <1>2, <1>4, <1>7, <1>8 DEF Placed
  <2>3. \A j \in DOMAIN s.heap : s.of[j] = Null =>
          s.heap[j].value = 0 /\ \A i : HasSlot(c, j, i) => s.heap[j].to[i] = Null
    <3>1. ASSUME NEW j \in DOMAIN s.heap, s.of[j] = Null
          PROVE  s.heap[j].value = 0 /\ \A i : HasSlot(c, j, i) => s.heap[j].to[i] = Null
      <4>1. j # p /\ j \in DOMAIN r.heap /\ r.of[j] = Null /\ j # a
        BY <1>2, <1>7, <1>8, <3>1
      <4>2. r.heap[j].value = 0 /\ \A i : HasSlot(c, j, i) => r.heap[j].to[i] = Null
        BY <4>1 DEF Placed
      <4>. QED
        BY <1>3, <4>1, <4>2 DEF Ptr
    <3>. QED
      BY <3>1
  <2>4. \A j \in DOMAIN s.heap : s.heap[j].value \in {0, ValueOf(s.of[j])}
    BY <1>2, <1>3, <1>8 DEF Placed
  <2>. QED
    BY <2>1, <2>2, <2>3, <2>4 DEF Placed
<1>13. ASSUME NEW j, NEW i, Ptr(c, s.heap, j, i)
       PROVE  IF Open(s.stack, j, i) THEN Early(c, s, j, i) ELSE Right(c, s, j, i)
  <2>0. j \in DOMAIN r.heap \union {p} /\ HasSlot(c, j, i)
    BY <1>2, <1>13 DEF Ptr
  <2>1. CASE j = p
    <3>1. Open(s.stack, j, i) /\ s.heap[j].to[i] = Null
      BY <1>9, <1>10, <2>0, <2>1
    <3>2. ~Refers(c, j, i)
      <4>1. Shape(c, j) = c.object /\ c.object \in Seq(Uses) /\ i \in 1 .. Len(c.object)
        BY <1>7, <2>0, <2>1 DEF Shape, HasSlot, Given
      <4>2. c.object[i] \in Uses
        BY <4>1, ElementOfSeq
      <4>. QED
        BY <4>1, <4>2 DEF Refers, Uses
    <3>3. Early(c, s, j, i)
      BY <3>1, <3>2 DEF Early
    <3>. QED
      BY <3>1, <3>3
  <2>2. CASE j # p /\ Open(s.stack, j, i)
    <3>1. j \in DOMAIN r.heap /\ Ptr(c, r.heap, j, i)
      BY <2>0, <2>2 DEF Ptr
    <3>2. Open(r.stack, j, i) /\ ~(j = a /\ i = b)
      BY <1>10, <2>0, <2>2
    <3>3. Early(c, r, j, i) /\ s.heap[j].to[i] = r.heap[j].to[i]
      BY <1>3, <2>2, <3>1, <3>2 DEF Links
    <3>4. r.heap[j].to[i] # Null => j = Root /\ r.heap[j].to[i] = i /\ i \in DOMAIN r.heap /\ r.of[i] = Null
      BY <3>1, <3>3 DEF Early, Heaped
    <3>5. r.heap[j].to[i] # Null => i # p
      BY <1>6, <3>2, <3>4
    <3>6. Early(c, s, j, i)
      BY <1>2, <1>8, <3>3, <3>4, <3>5, Zenon DEF Early
    <3>. QED
      BY <2>2, <3>6
  <2>3. CASE j # p /\ ~Open(s.stack, j, i) /\ j = a /\ i = b
    <3>1. s.heap[j].to[i] = p
      BY <1>3, <1>4, <2>3
    <3>2. s.of[p] = t /\ s.of[a] = r.of[a]
      BY <1>2, <1>4, <1>7, <1>8 DEF Ptr
    <3>3. Right(c, s, j, i)
      BY <1>2, <1>7, <2>3, <3>1, <3>2 DEF Right
    <3>. QED
      BY <2>3, <3>3
  <2>4. CASE j # p /\ ~Open(s.stack, j, i) /\ ~(j = a /\ i = b)
    <3>1. j \in DOMAIN r.heap /\ Ptr(c, r.heap, j, i)
      BY <2>0, <2>4 DEF Ptr
    <3>2. ~Open(r.stack, j, i)
      BY <1>10, <2>0, <2>4
    <3>3. Right(c, r, j, i) /\ s.heap[j].to[i] = r.heap[j].to[i]
      BY <1>3, <2>4, <3>1, <3>2 DEF Links
    <3>4. r.heap[j].to[i] \in DOMAIN r.heap \union {Null}
      BY <3>1 DEF Heaped
    <3>5. r.heap[j].to[i] # Null => r.heap[j].to[i] # p
      <4>1. r.heap[j].to[i] # Null => r.of[r.heap[j].to[i]] # Null
        BY <3>3 DEF Right
      <4>. QED
        BY <1>6, <3>4, <4>1
    <3>6. Right(c, s, j, i)
      BY <1>2, <1>8, <2>4, <3>1, <3>3, <3>4, <3>5 DEF Right
    <3>. QED
      BY <2>4, <3>6
  <2>. QED
    BY <2>1, <2>2, <2>3, <2>4
<1>14. Links(c, s)
  BY <1>13 DEF Links
<1>. QED
  BY <1>2, <1>4, <1>6, <1>8, <1>11, <1>12, <1>14

-----------------------------------------------------------------------------
(***************************************************************************)
(* What the reader knows of the ids.                                       *)
(***************************************************************************)
LEMMA AboutEvolves ==
  ASSUME NEW c, Given(c), NEW r, NEW s, Evolves(c, r, s), NEW o \in c.objects, NEW x, About(c, r, o, x)
  PROVE  About(c, s, o, x)
<1>1. o # Null
  BY DEF Given, Null
<1>2. /\ x.ownerPtr \in DOMAIN r.heap \union {Null} /\ x.sharedState \in DOMAIN r.heap \union {Null}
      /\ x.ownerPtr # Null => r.of[x.ownerPtr] = o
      /\ x.sharedState # Null => r.of[x.sharedState] = o
  BY DEF About
<1>3. /\ x.ownerPtr # Null => s.of[x.ownerPtr] = o
      /\ x.sharedState # Null => s.of[x.sharedState] = o
  BY <1>1, <1>2 DEF Evolves
<1>4. x \in [ ownership : Uses, isSharedProcessed : BOOLEAN, ownerPtr : DOMAIN s.heap \union {Null},
              observers : SUBSET (Nat \X Nat), sharedState : DOMAIN s.heap \union {Null} ]
  BY DEF About, Evolves
<1>5. ASSUME NEW j, NEW i, <<j, i>> \in x.observers
      PROVE  /\ Ptr(c, s.heap, j, i) /\ s.of[j] # Null /\ ~Open(s.stack, j, i)
             /\ Target(c, s.of[j], i) = o
  <2>1. Ptr(c, r.heap, j, i) /\ r.of[j] # Null /\ ~Open(r.stack, j, i) /\ Target(c, r.of[j], i) = o
    BY <1>5 DEF About
  <2>. QED
    BY <2>1 DEF Evolves, Ptr
<1>. QED
  BY <1>3, <1>4, <1>5 DEF About

\* One id is learned of, and the others stay.
LEMMA InformedNext ==
  ASSUME NEW c, Given(c), NEW wi, Numbered(c, wi), NEW r, Informed(c, r, wi), NEW s, Evolves(c, r, s),
         NEW o \in DOMAIN wi, NEW id, wi[o].id = id,
         DOMAIN s.info = DOMAIN r.info \union {id},
         \A i \in DOMAIN r.info : i # id => s.info[i] = r.info[i],
         About(c, s, o, s.info[id]),
         \A k \in 2 .. Len(s.stack) :
           \/ s.stack[k].id # id /\ \E l \in 2 .. Len(r.stack) : s.stack[k].id = r.stack[l].id
                                                              /\ s.stack[k].at = r.stack[l].at
           \/ /\ s.stack[k].id = id /\ s.info[id].ownerPtr \in {Null, s.stack[k].at}
              /\ s.info[id].sharedState \in {Null, s.stack[k].at}
  PROVE  Informed(c, s, wi)
<1>1. \A i \in DOMAIN s.info : \E q \in DOMAIN wi : wi[q].id = i
  BY DEF Informed
<1>2. ASSUME NEW q \in DOMAIN wi, wi[q].id \in DOMAIN s.info
      PROVE  About(c, s, q, s.info[wi[q].id])
  <2>1. CASE q = o
    BY <2>1
  <2>2. CASE q # o
    <3>1. wi[q].id # id
      BY <2>2 DEF Numbered
    <3>2. wi[q].id \in DOMAIN r.info /\ s.info[wi[q].id] = r.info[wi[q].id]
      BY <1>2, <3>1
    <3>3. About(c, r, q, r.info[wi[q].id]) /\ q \in c.objects
      BY <3>2, Zenon DEF Informed, Numbered
    <3>. QED
      BY <3>2, <3>3, AboutEvolves
  <2>. QED
    BY <2>1, <2>2
<1>3. ASSUME NEW k \in 2 .. Len(s.stack)
      PROVE  /\ s.stack[k].id \in DOMAIN s.info
             /\ s.info[s.stack[k].id].ownerPtr \in {Null, s.stack[k].at}
             /\ s.info[s.stack[k].id].sharedState \in {Null, s.stack[k].at}
  <2>1. CASE s.stack[k].id = id
    BY <2>1
  <2>2. CASE s.stack[k].id # id
    <3>1. PICK l \in 2 .. Len(r.stack) : s.stack[k].id = r.stack[l].id /\ s.stack[k].at = r.stack[l].at
      BY <2>2
    <3>2. /\ r.stack[l].id \in DOMAIN r.info
          /\ r.info[r.stack[l].id].ownerPtr \in {Null, r.stack[l].at}
          /\ r.info[r.stack[l].id].sharedState \in {Null, r.stack[l].at}
      BY Zenon DEF Informed
    <3>3. s.info[r.stack[l].id] = r.info[r.stack[l].id]
      BY <2>2, <3>1, <3>2, Zenon
    <3>. QED
      BY <3>1, <3>2, <3>3, Zenon
  <2>. QED
    BY <2>1, <2>2, Zenon
<1>. QED
  BY <1>1, <1>2, <1>3, Zenon DEF Informed

LEMMA InformedSame ==
  ASSUME NEW c, Given(c), NEW wi, Numbered(c, wi), NEW r, Informed(c, r, wi), NEW s, Evolves(c, r, s),
         s.info = r.info,
         \A k \in 2 .. Len(s.stack) : \E l \in 2 .. Len(r.stack) : s.stack[k].id = r.stack[l].id
                                                                /\ s.stack[k].at = r.stack[l].at
  PROVE  Informed(c, s, wi)
<1>1. ASSUME NEW q \in DOMAIN wi, wi[q].id \in DOMAIN s.info
      PROVE  About(c, s, q, s.info[wi[q].id])
  <2>1. About(c, r, q, r.info[wi[q].id]) /\ q \in c.objects
    BY <1>1, Zenon DEF Informed, Numbered
  <2>. QED
    BY <2>1, AboutEvolves
<1>2. ASSUME NEW k \in 2 .. Len(s.stack)
      PROVE  /\ s.stack[k].id \in DOMAIN s.info
             /\ s.info[s.stack[k].id].ownerPtr \in {Null, s.stack[k].at}
             /\ s.info[s.stack[k].id].sharedState \in {Null, s.stack[k].at}
  <2>1. PICK l \in 2 .. Len(r.stack) : s.stack[k].id = r.stack[l].id /\ s.stack[k].at = r.stack[l].at
    OBVIOUS
  <2>2. /\ r.stack[l].id \in DOMAIN r.info
        /\ r.info[r.stack[l].id].ownerPtr \in {Null, r.stack[l].at}
        /\ r.info[r.stack[l].id].sharedState \in {Null, r.stack[l].at}
    BY Zenon DEF Informed
  <2>. QED
    BY <2>1, <2>2, Zenon
<1>3. \A i \in DOMAIN s.info : \E q \in DOMAIN wi : wi[q].id = i
  BY DEF Informed
<1>. QED
  BY <1>1, <1>2, <1>3, Zenon DEF Informed

LEMMA AboutUpdated ==
  ASSUME NEW c, NEW r, NEW o, NEW x, About(c, r, o, x), NEW kind \in Uses
  PROVE  /\ About(c, r, o, Update(x, kind))
         /\ Update(x, kind).ownership = OwnershipNext(x.ownership, kind)
         /\ Update(x, kind).ownerPtr = x.ownerPtr /\ Update(x, kind).observers = x.observers
         /\ Update(x, kind).sharedState = x.sharedState
<1>. DEFINE T == [ ownership : Uses, isSharedProcessed : BOOLEAN, ownerPtr : DOMAIN r.heap \union {Null},
                   observers : SUBSET (Nat \X Nat), sharedState : DOMAIN r.heap \union {Null} ]
<1>1. x \in T
  BY DEF About
<1>2. PICK y : y = Update(x, kind)
  OBVIOUS
<1>3. /\ y \in T /\ y.ownership = OwnershipNext(x.ownership, kind) /\ y.ownerPtr = x.ownerPtr
      /\ y.observers = x.observers /\ y.sharedState = x.sharedState
  <2>1. CASE kind = "Observer"
    BY <1>1, <1>2, <2>1 DEF Update, OwnershipNext
  <2>2. CASE kind # "Observer" /\ x.ownership = "Observer"
    BY <1>1, <1>2, <2>2 DEF Update, OwnershipNext
  <2>3. CASE kind # "Observer" /\ x.ownership # "Observer"
    BY <1>1, <1>2, <2>3, Zenon DEF Update, OwnershipNext
  <2>. QED
    BY <2>1, <2>2, <2>3
<1>4. About(c, r, o, y)
  BY <1>3 DEF About
<1>. QED
  BY <1>2, <1>3, <1>4

Fresh(kind) ==
  [ ownership |-> kind, isSharedProcessed |-> FALSE, ownerPtr |-> Null, observers |-> {},
    sharedState |-> Null ]

\* What the reader knows after a pointer of some kind with an id.
InfoIdIn(is, id, kind) == IF id \in DOMAIN is THEN Update(is[id], kind) ELSE Fresh(kind)

FoundAs(is, id, kind, x) ==
  /\ id \in DOMAIN is =>
       /\ x.ownership = OwnershipNext(is[id].ownership, kind)
       /\ x.ownerPtr = is[id].ownerPtr /\ x.observers = is[id].observers
       /\ x.sharedState = is[id].sharedState
  /\ id \notin DOMAIN is =>
       x.ownership = kind /\ x.ownerPtr = Null /\ x.observers = {} /\ x.sharedState = Null

LEMMA AboutFound ==
  ASSUME NEW c, NEW r, NEW wi, Informed(c, r, wi), NEW o \in DOMAIN wi, NEW kind \in Uses
  PROVE  /\ About(c, r, o, InfoIdIn(r.info, wi[o].id, kind))
         /\ FoundAs(r.info, wi[o].id, kind, InfoIdIn(r.info, wi[o].id, kind))
<1>. PICK id, x : id = wi[o].id /\ x = InfoIdIn(r.info, id, kind)
  OBVIOUS
<1>1. CASE id \in DOMAIN r.info
  <2>1. About(c, r, o, r.info[id])
    BY <1>1 DEF Informed
  <2>. QED
    BY <1>1, <2>1, AboutUpdated DEF InfoIdIn, FoundAs
<1>2. CASE id \notin DOMAIN r.info
  <2>1. x = Fresh(kind)
    BY <1>2 DEF InfoIdIn
  <2>2. /\ x.ownership = kind /\ x.ownerPtr = Null /\ x.observers = {} /\ x.sharedState = Null
        /\ x \in [ ownership : Uses, isSharedProcessed : BOOLEAN, ownerPtr : DOMAIN r.heap \union {Null},
                   observers : SUBSET (Nat \X Nat), sharedState : DOMAIN r.heap \union {Null} ]
    BY <2>1 DEF Fresh
  <2>. QED
    BY <1>2, <2>2 DEF About, FoundAs
<1>. QED
  BY <1>1, <1>2

SavedAt(x, p) == [ x EXCEPT !.sharedState = p ]
LinkedTo(x, p) == [ x EXCEPT !.ownerPtr = p, !.observers = {} ]

LEMMA AboutShared ==
  ASSUME NEW c, NEW r, NEW o, NEW x, About(c, r, o, x), NEW p \in DOMAIN r.heap, r.of[p] = o,
         x.ownerPtr \in {Null, p}, NEW y, y = SavedAt(x, p)
  PROVE  /\ About(c, r, o, y) /\ y.sharedState = p /\ y.ownerPtr = x.ownerPtr
         /\ y.observers = x.observers /\ y.ownership = x.ownership
<1>. DEFINE T == [ ownership : Uses, isSharedProcessed : BOOLEAN, ownerPtr : DOMAIN r.heap \union {Null},
                   observers : SUBSET (Nat \X Nat), sharedState : DOMAIN r.heap \union {Null} ]
<1>1. x \in T
  BY DEF About
<1>2. /\ y \in T /\ y.sharedState = p /\ y.ownerPtr = x.ownerPtr
      /\ y.observers = x.observers /\ y.ownership = x.ownership
  BY <1>1 DEF SavedAt
<1>. QED
  BY <1>2 DEF About

LEMMA AboutLinked ==
  ASSUME NEW c, NEW r, NEW o, NEW x, About(c, r, o, x), NEW p \in DOMAIN r.heap, r.of[p] = o,
         x.sharedState \in {Null, p}, NEW y, y = LinkedTo(x, p)
  PROVE  /\ About(c, r, o, y) /\ y.sharedState = x.sharedState /\ y.ownerPtr = p
         /\ y.observers = {} /\ y.ownership = x.ownership
<1>. DEFINE T == [ ownership : Uses, isSharedProcessed : BOOLEAN, ownerPtr : DOMAIN r.heap \union {Null},
                   observers : SUBSET (Nat \X Nat), sharedState : DOMAIN r.heap \union {Null} ]
<1>1. x \in T
  BY DEF About
<1>2. /\ y \in T /\ y.sharedState = x.sharedState /\ y.ownerPtr = p
      /\ y.observers = {} /\ y.ownership = x.ownership
  BY <1>1, Zenon DEF LinkedTo
<1>. QED
  BY <1>2 DEF About

LEMMA AboutWaits ==
  ASSUME NEW c, NEW r, NEW o, NEW x, About(c, r, o, x), x.ownerPtr = Null, NEW a, NEW b,
         Ptr(c, r.heap, a, b), a \in Nat, r.of[a] # Null, ~Open(r.stack, a, b), Target(c, r.of[a], b) = o,
         NEW y, y = ProcessObserver(x, <<a, b>>)
  PROVE  /\ About(c, r, o, y) /\ y.sharedState = x.sharedState /\ y.ownerPtr = Null
         /\ y.observers = x.observers \union {<<a, b>>} /\ y.ownership = x.ownership
<1>. DEFINE T == [ ownership : Uses, isSharedProcessed : BOOLEAN, ownerPtr : DOMAIN r.heap \union {Null},
                   observers : SUBSET (Nat \X Nat), sharedState : DOMAIN r.heap \union {Null} ]
<1>1. x \in T
  BY DEF About
<1>2. b \in Nat
  BY DEF Ptr, HasSlot
<1>6. y = [ x EXCEPT !.observers = x.observers \union {<<a, b>>} ]
  BY <1>1 DEF ProcessObserver
<1>3. /\ y.sharedState = x.sharedState /\ y.ownerPtr = Null
      /\ y.observers = x.observers \union {<<a, b>>} /\ y.ownership = x.ownership
  BY <1>1, <1>6
<1>4. y \in T
  <2>1. x.observers \union {<<a, b>>} \in SUBSET (Nat \X Nat)
    BY <1>1, <1>2
  <2>. QED
    BY <1>1, <1>6, <2>1
<1>5. ASSUME NEW j, NEW i, <<j, i>> \in y.observers
      PROVE  /\ Ptr(c, r.heap, j, i) /\ r.of[j] # Null /\ ~Open(r.stack, j, i)
             /\ Target(c, r.of[j], i) = o
  <2>1. CASE <<j, i>> \in x.observers
    BY <2>1 DEF About
  <2>2. CASE <<j, i>> = <<a, b>>
    <3>1. j = a /\ i = b
      BY <2>2
    <3>. QED
      BY <3>1
  <2>. QED
    BY <1>3, <1>5, <2>1, <2>2
<1>. QED
  BY <1>3, <1>4, <1>5 DEF About

-----------------------------------------------------------------------------
(***************************************************************************)
(* The steps of the reader.                                                *)
(***************************************************************************)
\* r is the reader's state, and the next one.
Is(r)   == r.heap = heap /\ r.info = rinfo /\ r.stack = rstack
After(r) == r.heap = heap' /\ r.info = rinfo' /\ r.stack = rstack'

LEMMA WorldKinds ==
  ASSUME NEW c, c = World
  PROVE  /\ \A x : KindsOf(x) = Shape(c, x)
         /\ \A a, b : Kind(<<a, b>>) = Shape(c, a)[b]
         /\ c.objects = Objects /\ c.graph = graph /\ c.root = RootSlots /\ c.object = ObjectSlots
         /\ c.polymorphic = Polymorphic /\ c.existing = program.existing
<1>1. /\ c.objects = Objects /\ c.graph = graph /\ c.root = RootSlots /\ c.object = ObjectSlots
      /\ c.polymorphic = Polymorphic /\ c.existing = program.existing
  BY DEF World
<1>2. \A x : KindsOf(x) = Shape(c, x)
  BY <1>1 DEF KindsOf, Shape
<1>3. \A a, b : <<a, b>>[1] = a /\ <<a, b>>[2] = b
  OBVIOUS
<1>. QED
  BY <1>1, <1>2, <1>3 DEF Kind

LEMMA UsesOf ==
  ASSUME NEW c, Given(c), NEW a, NEW b, HasSlot(c, a, b)
  PROVE  Use(c, a, b) \in Uses
  BY DEF Given, Use, Uses, Ownership, Kinds, Shape, HasSlot

\* The pointer the reader is at, as in the code.
LEMMA ReaderAhead ==
  ASSUME NEW c, c = World, Given(c), NEW r, Is(r), Framed(c, r, winfo), AtSlot(rstack),
         NEW a, NEW b, a = Last(r.stack).at, b = Last(r.stack).slot
  PROVE  /\ r.stack # << >> /\ HasSlot(c, a, b) /\ Here(rstack) = <<a, b>>
         /\ Kind(Here(rstack)) = Shape(c, a)[b] /\ Ownership(Kind(Here(rstack))) = Use(c, a, b)
         /\ Held = r.heap[a].to[b]
         /\ a \in Nat /\ b \in Nat /\ a \in DOMAIN r.heap /\ r.of[a] # Null
<1>1. r.stack # << >> /\ b <= Len(Shape(c, a))
  BY WorldKinds DEF AtSlot, Is
<1>2. b \in Nat \ {0} /\ a \in DOMAIN r.heap /\ r.of[a] # Null
  BY <1>1, ReaderTop
<1>3. a \in Nat
  BY <1>1, ReaderTop, ReaderFrame
<1>4. HasSlot(c, a, b)
  BY <1>1, <1>2, ShapeLength DEF HasSlot
<1>5. Here(rstack) = <<a, b>> /\ <<a, b>>[1] = a /\ <<a, b>>[2] = b
  BY DEF Here, Is
<1>. QED
  BY <1>1, <1>2, <1>3, <1>4, <1>5, WorldKinds DEF Held, Is, Use

LEMMA MovedIds ==
  ASSUME NEW c, NEW r, NEW wi, Framed(c, r, wi), r.stack # << >>
  PROVE  \A k \in 2 .. Len(Moved(r.stack)) :
           /\ k \in 2 .. Len(r.stack)
           /\ Moved(r.stack)[k].id = r.stack[k].id /\ Moved(r.stack)[k].at = r.stack[k].at
<1>1. PICK n \in Nat \ {0} : n = Len(r.stack)
  BY ReaderTop
<1>2. PICK m : m = Moved(r.stack)
  OBVIOUS
<1>3. Len(m) = n /\ \A k \in 1 .. n : m[k].id = r.stack[k].id /\ m[k].at = r.stack[k].at
  BY <1>1, <1>2, MovedStack
<1>4. \A k \in 2 .. n : k \in 1 .. n
  OBVIOUS
<1>. QED
  BY <1>1, <1>2, <1>3, <1>4

\* A null pointer, whether it was written or the input has ended.
LEMMA ReadNullGoes ==
  ASSUME NEW c, c = World, Given(c), Numbered(c, winfo), NEW r, Is(r), ReaderInv(c, r, winfo), ReadNull
  PROVE  \E s : /\ After(s) /\ s.place = r.place /\ ReaderInv(c, s, winfo) /\ Evolves(c, r, s)
                /\ ~Refers(c, Last(r.stack).at, Last(r.stack).slot) =>
                     Pointed(c, r.heap, s.heap, {<<Last(r.stack).at, Last(r.stack).slot>>}, Null)
<1>1. PICK a, b : a = Last(r.stack).at /\ b = Last(r.stack).slot
  OBVIOUS
<1>2. AtSlot(rstack) /\ rstack' = Moved(rstack) /\ rinfo' = rinfo
  BY DEF ReadNull, Reading
<1>3. /\ r.stack # << >> /\ HasSlot(c, a, b) /\ Here(rstack) = <<a, b>>
      /\ Kind(Here(rstack)) = Shape(c, a)[b] /\ a \in DOMAIN r.heap /\ r.of[a] # Null
  BY <1>1, <1>2, ReaderAhead DEF ReaderInv
<1>4. Heaped(c, r.heap) /\ Placed(c, r.heap, r.of) /\ Links(c, r) /\ Framed(c, r, winfo) /\ Informed(c, r, winfo)
  BY DEF ReaderInv
<1>5. Ptr(c, r.heap, a, b) /\ Open(r.stack, a, b)
  BY <1>1, <1>3, <1>4, OpenAhead DEF Ptr
<1>6. \A j, i : HasSlot(c, j, i) => (Open(Moved(r.stack), j, i) <=> Open(r.stack, j, i) /\ ~(j = a /\ i = b))
  BY <1>1, <1>3, <1>4, OpenMoved
<1>7. ASSUME NEW s, s.stack = Moved(r.stack), s.info = r.info, Heaped(c, s.heap),
             Placed(c, s.heap, s.of), Links(c, s), Evolves(c, r, s)
      PROVE  ReaderInv(c, s, winfo)
  <2>1. Framed(c, s, winfo)
    BY <1>1, <1>3, <1>4, <1>7, FramedMoved
  <2>2. \A k \in 2 .. Len(s.stack) : \E l \in 2 .. Len(r.stack) : s.stack[k].id = r.stack[l].id
                                                               /\ s.stack[k].at = r.stack[l].at
    BY <1>3, <1>4, <1>7, MovedIds
  <2>3. Informed(c, s, winfo)
    BY <1>4, <1>7, <2>2, InformedSame, Zenon
  <2>. QED
    BY <1>7, <2>1, <2>3 DEF ReaderInv
<1>8. CASE Refers(c, a, b)
  <2>1. heap' = heap
    BY <1>3, <1>8 DEF ReadNull, Refers
  <2>2. a = Root
    <3>1. SUFFICES ASSUME a # Root PROVE FALSE
      OBVIOUS
    <3>2. c.object \in Seq(Uses) /\ b \in 1 .. Len(c.object) /\ c.object[b] = "Reference"
      BY <1>3, <1>8, <3>1 DEF Given, Shape, HasSlot, Refers
    <3>3. c.object[b] \in Uses
      BY <3>2, ElementOfSeq
    <3>. QED
      BY <3>2, <3>3 DEF Uses
  <2>3. r.of[a] = Root
    BY <1>3, <1>4, <2>2 DEF Placed
  <2>4. Target(c, r.of[a], b) # Null
    BY <1>3, <1>8, <2>2, <2>3 DEF Given
  <2>5. r.heap[a].to[b] # Null
    <3>1. Early(c, r, a, b)
      BY <1>4, <1>5 DEF Links
    <3>2. b \in Nat
      BY <1>3 DEF HasSlot
    <3>. QED
      BY <1>8, <3>1, <3>2 DEF Early, Null
  <2>6. PICK s : s = [ heap |-> heap', info |-> rinfo', stack |-> rstack', place |-> r.place,
                       of |-> [ j \in DOMAIN r.heap |->
                                  IF j = r.heap[a].to[b] THEN Target(c, r.of[a], b) ELSE r.of[j] ] ]
    BY Zenon
  <2>7. After(s) /\ s.place = r.place
    BY <2>6 DEF After
  <2>8. s.heap = r.heap /\ s.stack = Moved(r.stack) /\ s.info = r.info
    BY <1>2, <2>1, <2>7 DEF After, Is
  <2>9. s.of = [ j \in DOMAIN r.heap |-> IF j = r.heap[a].to[b] THEN Target(c, r.of[a], b) ELSE r.of[j] ]
    BY <2>6
  <2>10. Claims(c, r, s)
    BY <1>1, <1>3, <2>4, <2>5, <2>8, <2>9, Zenon DEF Claims
  <2>11. Placed(c, s.heap, s.of) /\ Links(c, s) /\ Evolves(c, r, s)
    BY <1>4, <2>10, ClaimsLinks
  <2>12. ReaderInv(c, s, winfo)
    BY <1>4, <1>7, <2>8, <2>11
  <2>. QED
    BY <1>1, <1>8, <2>7, <2>11, <2>12
<1>9. CASE ~Refers(c, a, b)
  <2>1. heap' = Point({<<a, b>>}, Null)
    BY <1>3, <1>9 DEF ReadNull, Refers
  <2>2. PICK s : s = [ heap |-> heap', info |-> rinfo', stack |-> rstack', place |-> r.place, of |-> r.of ]
    BY Zenon
  <2>3. After(s) /\ s.place = r.place /\ s.of = r.of
    BY <2>2 DEF After
  <2>4. s.stack = Moved(r.stack) /\ s.info = r.info
    BY <1>2, <2>3 DEF After, Is
  <2>5. Heaped(c, heap) /\ r.heap = heap /\ s.heap = Point({<<a, b>>}, Null)
    BY <1>4, <2>1, <2>3 DEF After, Is
  <2>6. Heaped(c, s.heap) /\ Pointed(c, r.heap, s.heap, {<<a, b>>}, Null)
    BY <2>5, PointHeap
  <2>7. Relinks(c, r, s, {<<a, b>>}, Null)
    <3>1. \A j, i : <<j, i>> \in {<<a, b>>} <=> j = a /\ i = b
      OBVIOUS
    <3>2. \A j, i : HasSlot(c, j, i) => (Open(s.stack, j, i) <=> Open(r.stack, j, i) /\ ~(j = a /\ i = b))
      BY <1>6, <2>4
    <3>. QED
      BY <1>3, <2>3, <2>6, <3>1, <3>2 DEF Relinks, Ptr
  <2>8. Placed(c, s.heap, s.of) /\ Links(c, s) /\ Evolves(c, r, s)
    BY <1>4, <2>7, RelinksLinks
  <2>9. ReaderInv(c, s, winfo)
    BY <1>7, <2>4, <2>6, <2>8
  <2>. QED
    BY <1>1, <2>3, <2>6, <2>8, <2>9
<1>. QED
  BY <1>8, <1>9, Zenon

\* Only what is known of one id changes.
LearnsOf(r, s, id) ==
  /\ DOMAIN s.info = DOMAIN r.info \union {id}
  /\ \A i \in DOMAIN r.info : i # id => s.info[i] = r.info[i]

LEMMA WithInfo ==
  ASSUME NEW r, Is(r), NEW s, After(s), NEW id, NEW x, rinfo' = With(id, x)
  PROVE  LearnsOf(r, s, id) /\ s.info[id] = x
<1>1. /\ DOMAIN rinfo' = DOMAIN rinfo \union {id} /\ rinfo'[id] = x
      /\ \A i \in DOMAIN rinfo : i # id => rinfo'[i] = rinfo[i]
  BY DEF With
<1>. QED
  BY <1>1 DEF LearnsOf, Is, After

LEMMA InfoByIdIn ==
  ASSUME NEW r, Is(r), NEW id, NEW kind
  PROVE  InfoById(id, kind) = InfoIdIn(r.info, id, kind)
  BY DEF InfoById, InfoIdIn, Fresh, Is

\* Frames keep the owner they wait for when one id is learned of.
LEMMA MovedInformed ==
  ASSUME NEW c, Given(c), Numbered(c, winfo), NEW r, ReaderInv(c, r, winfo), r.stack # << >>,
         HasSlot(c, Last(r.stack).at, Last(r.stack).slot),
         NEW s, s.stack = Moved(r.stack), Evolves(c, r, s), Heaped(c, s.heap),
         Placed(c, s.heap, s.of), Links(c, s),
         NEW t \in DOMAIN winfo, NEW id, id = winfo[t].id, LearnsOf(r, s, id),
         About(c, s, t, s.info[id]),
         \A k \in 2 .. Len(r.stack) : r.stack[k].id = id =>
           s.info[id].ownerPtr \in {Null, r.stack[k].at} /\ s.info[id].sharedState \in {Null, r.stack[k].at}
  PROVE  ReaderInv(c, s, winfo)
<1>1. Framed(c, r, winfo) /\ Informed(c, r, winfo)
  BY Zenon DEF ReaderInv
<1>2. Framed(c, s, winfo)
  BY <1>1, FramedMoved
<1>3. \A k \in 2 .. Len(s.stack) :
        k \in 2 .. Len(r.stack) /\ s.stack[k].id = r.stack[k].id /\ s.stack[k].at = r.stack[k].at
  BY <1>1, MovedIds
<1>4. \A k \in 2 .. Len(s.stack) :
        \/ s.stack[k].id # id /\ \E l \in 2 .. Len(r.stack) : s.stack[k].id = r.stack[l].id
                                                           /\ s.stack[k].at = r.stack[l].at
        \/ /\ s.stack[k].id = id /\ s.info[id].ownerPtr \in {Null, s.stack[k].at}
           /\ s.info[id].sharedState \in {Null, s.stack[k].at}
  BY <1>3, Zenon
<1>5. DOMAIN s.info = DOMAIN r.info \union {id} /\ \A i \in DOMAIN r.info : i # id => s.info[i] = r.info[i]
  BY DEF LearnsOf
<1>6. Informed(c, s, winfo)
  BY <1>1, <1>4, <1>5, InformedNext, SMTT(30)
<1>. QED
  BY <1>2, <1>6 DEF ReaderInv

LEMMA Unpointed ==
  ASSUME NEW c, NEW h
  PROVE  Pointed(c, h, h, {}, Null)
  BY DEF Pointed

\* An observer, whether its owner is known or not.
ObserverEffect(c, r, s, a, b, id) ==
  LET y == InfoIdIn(r.info, id, "Observer")
      x == s.info[id]
  IN  /\ LearnsOf(r, s, id)
      /\ x.ownership = y.ownership /\ x.ownerPtr = y.ownerPtr /\ x.sharedState = y.sharedState
      /\ IF y.ownerPtr = Null
           THEN s.heap = r.heap /\ x.observers = y.observers \union {<<a, b>>}
           ELSE x.observers = y.observers /\ Pointed(c, r.heap, s.heap, {<<a, b>>}, y.ownerPtr)

LEMMA ReadObserverGoes ==
  ASSUME NEW c, c = World, Given(c), Numbered(c, winfo), NEW r, Is(r), ReaderInv(c, r, winfo), ReadObserver,
         NEW a, NEW b, a = Last(r.stack).at, b = Last(r.stack).slot,
         NEW t \in DOMAIN winfo, t = Target(c, r.of[a], b), Token(pos + 1) = winfo[t].id
  PROVE  \E s : /\ After(s) /\ s.place = r.place /\ ReaderInv(c, s, winfo) /\ Evolves(c, r, s)
                /\ ObserverEffect(c, r, s, a, b, winfo[t].id)
<1>1. AtSlot(rstack) /\ rstack' = Moved(rstack)
  BY DEF ReadObserver, Reading
<1>2. /\ r.stack # << >> /\ HasSlot(c, a, b) /\ Here(rstack) = <<a, b>> /\ a \in Nat
      /\ a \in DOMAIN r.heap /\ r.of[a] # Null
  BY <1>1, ReaderAhead DEF ReaderInv
<1>3. Heaped(c, r.heap) /\ Placed(c, r.heap, r.of) /\ Links(c, r) /\ Framed(c, r, winfo) /\ Informed(c, r, winfo)
  BY DEF ReaderInv
<1>4. PICK id : id = winfo[t].id
  OBVIOUS
<1>5. PICK y : y = InfoIdIn(r.info, id, "Observer")
  OBVIOUS
<1>6. /\ rinfo' = With(id, ProcessObserver(y, <<a, b>>))
      /\ heap' = IF y.ownerPtr = Null THEN heap ELSE Point({<<a, b>>}, y.ownerPtr)
  BY <1>2, <1>4, <1>5, InfoByIdIn, Zenon DEF ReadObserver
<1>7. /\ About(c, r, t, y)
      /\ y.ownerPtr = IF id \in DOMAIN r.info THEN r.info[id].ownerPtr ELSE Null
      /\ y.sharedState = IF id \in DOMAIN r.info THEN r.info[id].sharedState ELSE Null
  <2>1. "Observer" \in Uses
    BY DEF Uses, Kinds
  <2>2. About(c, r, t, y) /\ FoundAs(r.info, id, "Observer", y)
    BY <1>3, <1>4, <1>5, <2>1, AboutFound, Zenon
  <2>. QED
    BY <2>2 DEF FoundAs
<1>8. Ptr(c, r.heap, a, b) /\ Open(r.stack, a, b) /\ t \in c.objects /\ t # Null
  <2>1. t \in c.objects
    BY DEF Numbered
  <2>2. Ptr(c, r.heap, a, b) /\ Open(r.stack, a, b)
    BY <1>2, <1>3, OpenAhead DEF Ptr
  <2>. QED
    BY <2>1, <2>2 DEF Given, Null
<1>9. \A j, i : HasSlot(c, j, i) => (Open(Moved(r.stack), j, i) <=> Open(r.stack, j, i) /\ ~(j = a /\ i = b))
  BY <1>2, <1>3, OpenMoved
<1>10. \A k \in 2 .. Len(r.stack) : r.stack[k].id = id =>
         y.ownerPtr \in {Null, r.stack[k].at} /\ y.sharedState \in {Null, r.stack[k].at}
  BY <1>3, <1>7, Zenon DEF Informed
<1>11. ASSUME NEW s, After(s), s.stack = Moved(r.stack), Heaped(c, s.heap),
              Placed(c, s.heap, s.of), Links(c, s), Evolves(c, r, s)
       PROVE  /\ ReaderInv(c, s, winfo) /\ LearnsOf(r, s, id)
              /\ s.info[id].ownership = y.ownership /\ s.info[id].ownerPtr = y.ownerPtr
              /\ s.info[id].sharedState = y.sharedState
              /\ y.ownerPtr = Null => s.info[id].observers = y.observers \union {<<a, b>>}
              /\ y.ownerPtr # Null => s.info[id].observers = y.observers
  <2>1. PICK x : x = ProcessObserver(y, <<a, b>>)
    OBVIOUS
  <2>2. LearnsOf(r, s, id) /\ s.info[id] = x
    BY <1>6, <1>11, <2>1, WithInfo
  <2>3. About(c, s, t, y)
    BY <1>7, <1>8, <1>11, AboutEvolves
  <2>4. /\ About(c, s, t, x) /\ x.sharedState = y.sharedState /\ x.ownerPtr = y.ownerPtr
        /\ x.ownership = y.ownership
        /\ y.ownerPtr = Null => x.observers = y.observers \union {<<a, b>>}
        /\ y.ownerPtr # Null => x.observers = y.observers
    <3>1. CASE y.ownerPtr = Null
      <4>2. /\ Ptr(c, s.heap, a, b) /\ s.of[a] # Null /\ ~Open(s.stack, a, b)
            /\ Target(c, s.of[a], b) = t
        BY <1>2, <1>8, <1>9, <1>11, Zenon DEF Evolves, Ptr
      <4>3. /\ About(c, s, t, x) /\ x.sharedState = y.sharedState /\ x.ownerPtr = Null
            /\ x.observers = y.observers \union {<<a, b>>} /\ x.ownership = y.ownership
        BY <1>2, <2>3, <3>1, <2>1, <4>2, AboutWaits, SMTT(30)
      <4>. QED
        BY <3>1, <4>3
    <3>2. CASE y.ownerPtr # Null
      <4>1. y \in [ ownership : Uses, isSharedProcessed : BOOLEAN, ownerPtr : DOMAIN s.heap \union {Null},
                    observers : SUBSET (Nat \X Nat), sharedState : DOMAIN s.heap \union {Null} ]
        BY <2>3, Zenon DEF About
      <4>2. x = y
        BY <2>1, <3>2, <4>1 DEF ProcessObserver
      <4>. QED
        BY <2>3, <3>2, <4>2
    <3>. QED
      BY <3>1, <3>2
  <2>5. \A k \in 2 .. Len(r.stack) : r.stack[k].id = id =>
          s.info[id].ownerPtr \in {Null, r.stack[k].at} /\ s.info[id].sharedState \in {Null, r.stack[k].at}
    BY <1>10, <2>2, <2>4, Zenon
  <2>6. ReaderInv(c, s, winfo)
    BY <1>2, <1>4, <1>11, <2>2, <2>4, <2>5, MovedInformed, Zenon
  <2>. QED
    BY <2>2, <2>4, <2>6
<1>12. ASSUME NEW s, After(s), s.place = r.place, s.stack = Moved(r.stack), Heaped(c, s.heap),
              Placed(c, s.heap, s.of), Links(c, s), Evolves(c, r, s),
              y.ownerPtr = Null => s.heap = r.heap,
              y.ownerPtr # Null => Pointed(c, r.heap, s.heap, {<<a, b>>}, y.ownerPtr)
       PROVE  \E z : /\ After(z) /\ z.place = r.place /\ ReaderInv(c, z, winfo) /\ Evolves(c, r, z)
                     /\ ObserverEffect(c, r, z, a, b, id)
  <2>1. /\ ReaderInv(c, s, winfo) /\ LearnsOf(r, s, id)
        /\ s.info[id].ownership = y.ownership /\ s.info[id].ownerPtr = y.ownerPtr
        /\ s.info[id].sharedState = y.sharedState
        /\ y.ownerPtr = Null => s.info[id].observers = y.observers \union {<<a, b>>}
        /\ y.ownerPtr # Null => s.info[id].observers = y.observers
    BY <1>11, <1>12, Zenon
  <2>2. ObserverEffect(c, r, s, a, b, id)
    BY <1>5, <1>12, <2>1 DEF ObserverEffect
  <2>. QED
    BY <1>12, <2>1, <2>2
<1>13. \A s : After(s) => s.stack = Moved(r.stack)
  BY <1>1 DEF After, Is
<1>14. CASE y.ownerPtr = Null /\ r.heap[a].to[b] # Null
  <2>1. PICK s : s = [ heap |-> heap', info |-> rinfo', stack |-> rstack', place |-> r.place,
                       of |-> [ j \in DOMAIN r.heap |->
                                  IF j = r.heap[a].to[b] THEN Target(c, r.of[a], b) ELSE r.of[j] ] ]
    BY Zenon
  <2>2. After(s) /\ s.place = r.place
    BY <2>1, Zenon DEF After
  <2>3. s.heap = r.heap
    BY <1>6, <1>14, <2>2 DEF After, Is
  <2>4. s.of = [ j \in DOMAIN r.heap |-> IF j = r.heap[a].to[b] THEN Target(c, r.of[a], b) ELSE r.of[j] ]
    BY <2>1, Zenon
  <2>5. Claims(c, r, s)
    BY <1>2, <1>8, <1>13, <1>14, <2>2, <2>3, <2>4, Zenon DEF Claims
  <2>6. Placed(c, s.heap, s.of) /\ Links(c, s) /\ Evolves(c, r, s)
    BY <1>3, <2>5, ClaimsLinks
  <2>. QED
    BY <1>3, <1>4, <1>12, <1>13, <1>14, <2>2, <2>3, <2>6, Zenon
<1>15. CASE ~(y.ownerPtr = Null /\ r.heap[a].to[b] # Null)
  <2>1. PICK s : s = [ heap |-> heap', info |-> rinfo', stack |-> rstack', place |-> r.place, of |-> r.of ]
    BY Zenon
  <2>2. After(s) /\ s.place = r.place /\ s.of = r.of /\ s.stack = Moved(r.stack)
    BY <1>13, <2>1 DEF After
  <2>3. PICK S, p : S = (IF y.ownerPtr = Null THEN {} ELSE {<<a, b>>}) /\ p = y.ownerPtr
    BY Zenon
  <2>4. /\ Heaped(c, s.heap) /\ Pointed(c, r.heap, s.heap, S, p)
        /\ y.ownerPtr = Null => s.heap = r.heap
    <3>1. CASE y.ownerPtr = Null
      <4>1. s.heap = r.heap
        BY <1>6, <2>2, <3>1 DEF After, Is
      <4>. QED
        BY <1>3, <2>3, <3>1, <4>1, Unpointed
    <3>2. CASE y.ownerPtr # Null
      <4>1. s.heap = Point({<<a, b>>}, y.ownerPtr) /\ r.heap = heap /\ Heaped(c, heap)
        BY <1>3, <1>6, <2>2, <3>2 DEF After, Is
      <4>2. y.ownerPtr \in DOMAIN heap \union {Null}
        BY <1>7, <4>1, Zenon DEF About
      <4>. QED
        BY <2>3, <3>2, <4>1, <4>2, PointHeap
    <3>. QED
      BY <3>1, <3>2
  <2>5. Relinks(c, r, s, S, p)
    <3>1. p \in DOMAIN r.heap \union {Null} /\ (p # Null => r.of[p] = t)
      BY <1>7, <2>3, Zenon DEF About
    <3>2. \A j, i : <<j, i>> \in S => j = a /\ i = b
      BY <2>3
    <3>3. p # Null => <<a, b>> \in S
      BY <2>3
    <3>4. p = Null => r.heap[a].to[b] = Null
      BY <1>15, <2>3
    <3>5. \A j, i : HasSlot(c, j, i) => (Open(s.stack, j, i) <=> Open(r.stack, j, i) /\ ~(j = a /\ i = b))
      BY <1>9, <2>2
    <3>. QED
      BY <1>2, <1>8, <2>2, <2>4, <3>1, <3>2, <3>3, <3>4, <3>5 DEF Relinks, Ptr
  <2>6. Placed(c, s.heap, s.of) /\ Links(c, s) /\ Evolves(c, r, s)
    BY <1>3, <2>5, RelinksLinks
  <2>7. y.ownerPtr # Null => Pointed(c, r.heap, s.heap, {<<a, b>>}, y.ownerPtr)
    BY <2>3, <2>4
  <2>. QED
    BY <1>4, <1>12, <2>2, <2>4, <2>6, <2>7, Zenon
<1>. QED
  BY <1>14, <1>15, Zenon

\* A shared pointer to an object that is there.
KnownEffect(c, r, s, a, b, id) ==
  LET y == InfoIdIn(r.info, id, Use(c, a, b))
      x == s.info[id]
  IN  /\ LearnsOf(r, s, id)
      /\ x.ownership = y.ownership /\ x.ownerPtr = y.sharedState /\ x.sharedState = y.sharedState
      /\ x.observers = {}
      /\ Pointed(c, r.heap, s.heap, {<<a, b>>} \union y.observers, y.sharedState)

\* The pointer ahead, as the types have it.
LEMMA AheadShared ==
  ASSUME NEW c, Given(c), NEW a, NEW b, HasSlot(c, a, b)
  PROVE  /\ IsShared(Shape(c, a)[b]) <=> IsShared(Use(c, a, b))
         /\ IsShared(Use(c, a, b)) => Use(c, a, b) = Shape(c, a)[b]
         /\ IsShared(Use(c, a, b)) <=> Use(c, a, b) \notin {"Observer", "Owner"}
<1>1. Use(c, a, b) \in Uses
  BY UsesOf
<1>. QED
  BY <1>1 DEF IsShared, Use, Ownership, Uses, Kinds

LEMMA ReadKnownGoes ==
  ASSUME NEW c, c = World, Given(c), Numbered(c, winfo), NEW r, Is(r), ReaderInv(c, r, winfo), ReadShared,
         NEW a, NEW b, a = Last(r.stack).at, b = Last(r.stack).slot,
         NEW t \in DOMAIN winfo, t = Target(c, r.of[a], b), Token(pos + 1) = winfo[t].id,
         InfoIdIn(r.info, winfo[t].id, Use(c, a, b)).sharedState # Null
  PROVE  \E s : /\ After(s) /\ s.place = r.place /\ ReaderInv(c, s, winfo) /\ Evolves(c, r, s)
                /\ KnownEffect(c, r, s, a, b, winfo[t].id)
                /\ pos' = pos + 1 /\ failed' = failed /\ s.stack = Moved(r.stack)
<1>1. AtSlot(rstack) /\ Ownership(Kind(Here(rstack))) \in {"SharedOwner", "SharedObserver"}
  BY DEF ReadShared, Reading
<1>2. /\ r.stack # << >> /\ HasSlot(c, a, b) /\ Here(rstack) = <<a, b>> /\ a \in Nat
      /\ a \in DOMAIN r.heap /\ r.of[a] # Null
      /\ Kind(Here(rstack)) = Shape(c, a)[b] /\ Ownership(Kind(Here(rstack))) = Use(c, a, b)
  BY <1>1, ReaderAhead DEF ReaderInv
<1>3. Heaped(c, r.heap) /\ Placed(c, r.heap, r.of) /\ Links(c, r) /\ Framed(c, r, winfo) /\ Informed(c, r, winfo)
  BY DEF ReaderInv
<1>4. PICK id : id = winfo[t].id
  OBVIOUS
<1>5. PICK y, p : y = InfoIdIn(r.info, id, Use(c, a, b)) /\ p = y.sharedState
  OBVIOUS
<1>6. y = InfoById(id, Kind(Here(rstack))) /\ Use(c, a, b) \in Uses
  BY <1>1, <1>2, <1>5, AheadShared, UsesOf, InfoByIdIn DEF IsShared
<1>7. p # Null
  BY <1>4, <1>5, Zenon
<1>8. /\ Linked(id, y, {<<a, b>>}, p)
      /\ pos' = pos + 1 /\ rstack' = Moved(rstack) /\ failed' = failed
  BY <1>2, <1>4, <1>5, <1>6, <1>7, Zenon DEF ReadShared
<1>9. /\ rinfo' = With(id, LinkedTo(y, p))
      /\ heap' = Point({<<a, b>>} \union y.observers, p)
  BY <1>8, Zenon DEF Linked, LinkedTo
<1>10. About(c, r, t, y) /\ FoundAs(r.info, id, Use(c, a, b), y)
  BY <1>3, <1>4, <1>5, <1>6, AboutFound, Zenon
<1>11. /\ p \in DOMAIN r.heap /\ r.of[p] = t
       /\ \A k \in 2 .. Len(r.stack) : r.stack[k].id = id => p = r.stack[k].at
  <2>1. p \in DOMAIN r.heap /\ r.of[p] = t
    BY <1>5, <1>7, <1>10, Zenon DEF About
  <2>2. id \in DOMAIN r.info /\ p = r.info[id].sharedState
    BY <1>5, <1>7, <1>10, Zenon DEF FoundAs
  <2>. QED
    BY <1>3, <1>7, <2>1, <2>2, Zenon DEF Informed
<1>12. Ptr(c, r.heap, a, b) /\ t \in c.objects /\ t # Null
  <2>1. t \in c.objects
    BY DEF Numbered
  <2>. QED
    BY <1>2, <2>1 DEF Given, Null, Ptr
<1>13. \A j, i : HasSlot(c, j, i) => (Open(Moved(r.stack), j, i) <=> Open(r.stack, j, i) /\ ~(j = a /\ i = b))
  BY <1>2, <1>3, OpenMoved, Zenon
<1>14. PICK s : s = [ heap |-> heap', info |-> rinfo', stack |-> rstack', place |-> r.place, of |-> r.of ]
  BY Zenon
<1>15. After(s) /\ s.place = r.place /\ s.of = r.of /\ s.stack = Moved(r.stack)
  BY <1>8, <1>14 DEF After, Is
<1>16. PICK S : S = {<<a, b>>} \union y.observers
  BY Zenon
<1>17. Heaped(c, s.heap) /\ Pointed(c, r.heap, s.heap, S, p)
  <2>1. s.heap = Point(S, p) /\ r.heap = heap /\ Heaped(c, heap)
    BY <1>3, <1>9, <1>15, <1>16 DEF After, Is
  <2>2. p \in DOMAIN heap \union {Null}
    BY <1>11, <2>1
  <2>. QED
    BY <2>1, <2>2, PointHeap
<1>18. Relinks(c, r, s, S, p)
  <2>1. ASSUME NEW j, NEW i, <<j, i>> \in S, Ptr(c, r.heap, j, i)
        PROVE  r.of[j] # Null /\ ~Open(s.stack, j, i) /\ r.of[p] = Target(c, r.of[j], i)
    <3>1. CASE <<j, i>> \in y.observers
      <4>1. r.of[j] # Null /\ ~Open(r.stack, j, i) /\ Target(c, r.of[j], i) = t
        BY <1>10, <3>1 DEF About
      <4>. QED
        BY <1>11, <1>13, <1>15, <2>1, <4>1, Zenon DEF Ptr
    <3>2. CASE <<j, i>> \notin y.observers
      <4>1. j = a /\ i = b
        BY <1>16, <2>1, <3>2
      <4>. QED
        BY <1>2, <1>11, <1>13, <1>15, <4>1, Zenon
    <3>. QED
      BY <3>1, <3>2
  <2>2. \A j, i : HasSlot(c, j, i) => (Open(s.stack, j, i) <=> Open(r.stack, j, i) /\ ~(j = a /\ i = b))
    BY <1>13, <1>15
  <2>3. <<a, b>> \in S
    BY <1>16
  <2>. QED
    BY <1>11, <1>12, <1>15, <1>17, <2>1, <2>2, <2>3, Zenon DEF Relinks, Ptr
<1>19. Placed(c, s.heap, s.of) /\ Links(c, s) /\ Evolves(c, r, s)
  BY <1>3, <1>18, RelinksLinks
<1>20. PICK x : x = LinkedTo(y, p)
  OBVIOUS
<1>21. LearnsOf(r, s, id) /\ s.info[id] = x
  BY <1>9, <1>15, <1>20, WithInfo
<1>22. /\ About(c, s, t, x) /\ x.sharedState = p /\ x.ownerPtr = p
       /\ x.observers = {} /\ x.ownership = y.ownership
  <2>1. About(c, s, t, y)
    BY <1>10, <1>12, <1>19, AboutEvolves, Zenon
  <2>2. p \in DOMAIN s.heap /\ s.of[p] = t /\ y.sharedState \in {Null, p}
    BY <1>5, <1>11, <1>15, <1>17, Zenon DEF Pointed
  <2>3. /\ About(c, s, t, x) /\ x.sharedState = y.sharedState /\ x.ownerPtr = p
        /\ x.observers = {} /\ x.ownership = y.ownership
    BY <1>20, <2>1, <2>2, AboutLinked
  <2>. QED
    BY <1>5, <2>3, Zenon
<1>23. ReaderInv(c, s, winfo)
  BY <1>2, <1>4, <1>11, <1>15, <1>17, <1>19, <1>21, <1>22, MovedInformed, Zenon
<1>24. KnownEffect(c, r, s, a, b, id)
  BY <1>5, <1>16, <1>17, <1>21, <1>22, Zenon DEF KnownEffect
<1>. QED
  BY <1>4, <1>8, <1>15, <1>19, <1>23, <1>24, Zenon
-----------------------------------------------------------------------------
(***************************************************************************)
(* The reader enters an object.                                            *)
(***************************************************************************)
\* g is q with an object at p.
Placing(g, h, p, v, f, q) ==
  /\ DOMAIN g = DOMAIN h \union {p}
  /\ g[p] = [ value |-> v, to |-> f ]
  /\ \A j \in DOMAIN h : j # p => g[j] = q[j]

\* The object that is entered is new or the one that the pointer holds.
Chosen(h, a, b, creates, p) ==
  IF creates THEN p = Cardinality(DOMAIN h) ELSE p = h[a].to[b] /\ p # Null /\ p # Root

LEMMA ChosenPlace ==
  ASSUME NEW c, Given(c), NEW h, Heaped(c, h), NEW a, NEW b, Ptr(c, h, a, b),
         NEW p, NEW creates \in BOOLEAN, Chosen(h, a, b, creates, p)
  PROVE  /\ p \in Nat /\ p # Root
         /\ creates => p \notin DOMAIN h /\ \A n \in Nat : DOMAIN h = 0 .. n - 1 => p = n
         /\ ~creates => p \in DOMAIN h
<1>1. PICK m \in Nat : m > Len(c.root) /\ DOMAIN h = 0 .. m - 1
  BY Zenon DEF Heaped
<1>2. Len(c.root) \in Nat
  BY DEF Given
<1>3. \A n \in Nat : DOMAIN h = 0 .. n - 1 => Cardinality(DOMAIN h) = n
  <2>1. ASSUME NEW n \in Nat PROVE Cardinality(0 .. n - 1) = n
    <3>1. Cardinality(0 .. n - 1) = IF 0 > n - 1 THEN 0 ELSE (n - 1) - 0 + 1
      BY FS_Interval
    <3>. QED
      BY <3>1
  <2>. QED
    BY <2>1
<1>4. CASE creates
  BY <1>1, <1>2, <1>3, <1>4 DEF Root, Chosen
<1>5. CASE ~creates
  <2>1. p = h[a].to[b] /\ p # Null /\ p # Root
    BY <1>5 DEF Chosen
  <2>2. p \in DOMAIN h
    BY <2>1 DEF Heaped
  <2>. QED
    BY <1>1, <1>5, <2>1, <2>2
<1>. QED
  BY <1>4, <1>5

\* S has the one pointer, and f is what the object that is entered points to.
OnlySlot(S, a, b) == \A j, i : <<j, i>> \in S <=> j = a /\ i = b
Filled(h, creates, p, f) == IF creates THEN f = NewObject.to ELSE f = h[p].to

\* g is h with the object p entered through the pointer.
Grown(c, h, g, a, b, p, v) ==
  /\ Heaped(c, g) /\ DOMAIN g = DOMAIN h \union {p} /\ g[p].value = v
  /\ p \notin DOMAIN h => \A i : HasSlot(c, p, i) => g[p].to[i] = Null
  /\ p \in DOMAIN h => \A i : HasSlot(c, p, i) => g[p].to[i] = h[p].to[i]
  /\ \A j \in DOMAIN h : j # p => g[j].value = h[j].value
  /\ \A j, i : Ptr(c, h, j, i) /\ j # p =>
       g[j].to[i] = IF j = a /\ i = b THEN p ELSE h[j].to[i]

LEMMA EnterHeap ==
  ASSUME NEW c, c = World, Given(c), Heaped(c, heap), NEW a, NEW b, Ptr(c, heap, a, b),
         NEW p, NEW creates \in BOOLEAN, Chosen(heap, a, b, creates, p),
         NEW v \in Int, NEW f, Filled(heap, creates, p, f), NEW S, OnlySlot(S, a, b),
         NEW g, Placing(g, heap, p, v, f, Point(S, p))
  PROVE  Grown(c, heap, g, a, b, p, v)
<1>1. PICK n \in Nat : n > Len(c.root) /\ DOMAIN heap = 0 .. n - 1
  BY DEF Heaped
<1>2. Len(c.root) \in Nat /\ Len(c.object) \in Nat
  BY DEF Given
<1>4. /\ p \in Nat /\ p # Root
      /\ creates => p = n /\ p \notin DOMAIN heap
      /\ ~creates => p \in DOMAIN heap
  BY <1>1, ChosenPlace
<1>5. PICK q : q = Point(S, p)
  OBVIOUS
<1>6. /\ \A j \in DOMAIN heap : q[j] \in [ value : Int, to : [ 1 .. Len(Shape(c, j)) -> Int ] ]
      /\ \A j \in DOMAIN heap : q[j].value = heap[j].value
      /\ \A j, i : Ptr(c, heap, j, i) => q[j].to[i] = IF j = a /\ i = b THEN p ELSE heap[j].to[i]
  <2>1. p \in Int
    BY <1>4
  <2>2. /\ \A j \in DOMAIN heap : q[j] \in [ value : Int, to : [ 1 .. Len(Shape(c, j)) -> Int ] ]
        /\ Pointed(c, heap, q, S, p)
    BY <1>5, <2>1, PointTyped
  <2>. QED
    BY <2>2, Zenon DEF Pointed, OnlySlot
<1>7. DOMAIN g = DOMAIN heap \union {p} /\ \A j \in DOMAIN heap : j # p => g[j] = q[j]
  BY <1>5 DEF Placing
<1>9. PICK x : x = [ value |-> v, to |-> f ]
  BY Zenon
<1>10. x.value = v /\ x.to = f /\ g[p] = x
  BY <1>9 DEF Placing
<1>8. Shape(c, p) = c.object /\ c.object = ObjectSlots
  BY <1>4, WorldKinds DEF Shape
<1>11. /\ f \in [ 1 .. Len(Shape(c, p)) -> Int ]
       /\ creates => \A i \in 1 .. Len(Shape(c, p)) : f[i] = Null
       /\ ~creates => \A i \in 1 .. Len(Shape(c, p)) : f[i] = heap[p].to[i]
  <2>1. CASE creates
    <3>1. f = [ i \in 1 .. Len(ObjectSlots) |-> Null ]
      BY <2>1 DEF NewObject, Filled
    <3>. QED
      BY <1>8, <2>1, <3>1 DEF Null
  <2>2. CASE ~creates
    <3>1. heap[p] \in [ value : Int, to : [ 1 .. Len(Shape(c, p)) -> Int ] ]
      BY <1>4, <2>2 DEF Heaped
    <3>. QED
      BY <2>2, <3>1 DEF Filled
  <2>. QED
    BY <2>1, <2>2
<1>12. \A j \in DOMAIN g : g[j] \in [ value : Int, to : [ 1 .. Len(Shape(c, j)) -> Int ] ]
  <2>1. x \in [ value : Int, to : [ 1 .. Len(Shape(c, p)) -> Int ] ]
    BY <1>9, <1>11
  <2>. QED
    BY <1>6, <1>7, <1>10, <2>1
<1>13. ASSUME NEW i, HasSlot(c, p, i)
       PROVE  g[p].to[i] = IF creates THEN Null ELSE heap[p].to[i]
  <2>1. i \in 1 .. Len(Shape(c, p))
    BY <1>13 DEF HasSlot
  <2>. QED
    BY <1>10, <1>11, <2>1
<1>14. ASSUME NEW j, NEW i, Ptr(c, heap, j, i), j # p
       PROVE  g[j].to[i] = IF j = a /\ i = b THEN p ELSE heap[j].to[i]
  <2>1. j \in DOMAIN heap
    BY <1>14 DEF Ptr
  <2>2. g[j] = q[j]
    BY <1>7, <1>14, <2>1
  <2>. QED
    BY <1>6, <1>14, <2>2
<1>15. ASSUME NEW j, NEW i, Ptr(c, g, j, i) PROVE g[j].to[i] \in DOMAIN g \union {Null}
  <2>1. CASE j = p
    <3>1. HasSlot(c, p, i)
      BY <1>15, <2>1 DEF Ptr
    <3>2. ~creates => Ptr(c, heap, p, i)
      BY <1>4, <3>1 DEF Ptr
    <3>. QED
      BY <1>7, <1>13, <2>1, <3>1, <3>2 DEF Heaped
  <2>2. CASE j # p
    <3>1. Ptr(c, heap, j, i)
      BY <1>7, <1>15, <2>2 DEF Ptr
    <3>2. heap[j].to[i] \in DOMAIN heap \union {Null}
      BY <3>1 DEF Heaped
    <3>. QED
      BY <1>7, <1>14, <2>2, <3>1, <3>2
  <2>. QED
    BY <2>1, <2>2
<1>16. \E m \in Nat : m > Len(c.root) /\ DOMAIN g = 0 .. m - 1
  <2>1. CASE creates
    <3>1. DOMAIN g = 0 .. (n + 1) - 1
      BY <1>1, <1>4, <1>7, <2>1
    <3>2. n + 1 \in Nat /\ n + 1 > Len(c.root)
      BY <1>1, <1>2
    <3>. QED
      BY <3>1, <3>2
  <2>2. CASE ~creates
    BY <1>1, <1>4, <1>7, <2>2
  <2>. QED
    BY <2>1, <2>2
<1>17. Heaped(c, g)
  BY <1>12, <1>15, <1>16 DEF Heaped
<1>. QED
  BY <1>4, <1>6, <1>7, <1>10, <1>13, <1>14, <1>17 DEF Grown

EnterEffect(c, r, s, a, b, id, t, p) ==
  LET y == InfoIdIn(r.info, id, Use(c, a, b))
      x == s.info[id]
  IN  /\ LearnsOf(r, s, id) /\ EntersObject(c, r, s, p, t, id, Token(pos + 2))
      /\ s.place = [ o \in DOMAIN r.place \union {t} |-> IF o = t THEN p ELSE r.place[o] ]
      /\ x.ownership = y.ownership /\ x.ownerPtr = Null /\ x.observers = y.observers
      /\ x.sharedState \in {Null, p}
      /\ IsShared(Use(c, a, b)) /\ ~(c.polymorphic /\ c.existing) => x.sharedState = p

\* What ReadOwner and ReadShared do with an object that is not there yet.
LEMMA EnterChoice ==
  ASSUME NEW c, c = World, Given(c), Numbered(c, winfo), NEW r, Is(r), ReaderInv(c, r, winfo),
         ReadOwner \/ ReadShared,
         NEW a, NEW b, a = Last(r.stack).at, b = Last(r.stack).slot,
         NEW id, id = Token(pos + 1), NEW y, y = InfoIdIn(r.info, id, Use(c, a, b)), y.sharedState = Null
  PROVE  /\ AtSlot(rstack) /\ Use(c, a, b) # "Observer"
         /\ \E creates \in BOOLEAN, save \in BOOLEAN :
              /\ ~creates => Held # Null
              /\ Enter(id, y, creates, save)
              /\ IsShared(Use(c, a, b)) => save = SavesEarly(creates)
<1>1. AtSlot(rstack)
  BY Zenon DEF ReadOwner, ReadShared, Reading
<1>2. /\ HasSlot(c, a, b) /\ Kind(Here(rstack)) = Shape(c, a)[b]
      /\ Ownership(Kind(Here(rstack))) = Use(c, a, b)
  BY <1>1, ReaderAhead DEF ReaderInv
<1>3. y = InfoById(id, Use(c, a, b))
  BY InfoByIdIn
<1>4. CASE ReadOwner
  <2>1. Use(c, a, b) = "Owner"
    BY <1>2, <1>4 DEF ReadOwner, Reading
  <2>2. PICK creates \in BOOLEAN : (~creates => Held # Null) /\ Enter(id, y, creates, FALSE)
    BY <1>3, <1>4, <2>1, Zenon DEF ReadOwner
  <2>. QED
    BY <1>1, <2>1, <2>2, Zenon DEF IsShared
<1>5. CASE ReadShared
  <2>1. Use(c, a, b) \in {"SharedOwner", "SharedObserver"}
    BY <1>2, <1>5, Zenon DEF ReadShared, Reading
  <2>2. Kind(Here(rstack)) = Use(c, a, b)
    BY <1>2, <2>1, AheadShared DEF IsShared
  <2>3. PICK creates \in BOOLEAN : (~creates => Held # Null) /\ Enter(id, y, creates, SavesEarly(creates))
    BY <1>3, <1>5, <2>2 DEF ReadShared
  <2>4. SavesEarly(creates) \in BOOLEAN
    BY DEF SavesEarly
  <2>. QED
    BY <1>1, <2>1, <2>3, <2>4
<1>. QED
  BY <1>4, <1>5
\* Entering, as a change of the heap and of what is known.
LEMMA EnterChange ==
  ASSUME NEW c, c = World, Given(c), NEW r, Is(r), ReaderInv(c, r, winfo),
         NEW a, NEW b, a = Last(r.stack).at, b = Last(r.stack).slot, AtSlot(rstack),
         NEW id, NEW y, NEW creates \in BOOLEAN, NEW save \in BOOLEAN, ~creates => Held # Null,
         Enter(id, y, creates, save), Token(pos + 2) \in Int
  PROVE  \E p : /\ Chosen(heap, a, b, creates, p)
                /\ \E S, f : /\ OnlySlot(S, a, b) /\ Filled(heap, creates, p, f)
                             /\ Placing(heap', heap, p, Token(pos + 2), f, Point(S, p))
                /\ rinfo' = With(id, SavedAt(y, IF save THEN p ELSE y.sharedState))
                /\ rstack' = Push(rstack, p, id) /\ pos' = pos + 2 /\ failed' = failed
<1>1. /\ HasSlot(c, a, b) /\ Here(rstack) = <<a, b>> /\ a \in DOMAIN r.heap /\ r.of[a] # Null
      /\ Held = r.heap[a].to[b] /\ r.stack # << >>
  BY ReaderAhead DEF ReaderInv
<1>2. PICK p : p = IF creates THEN Cardinality(DOMAIN heap) ELSE Held
  OBVIOUS
<1>3. Chosen(heap, a, b, creates, p)
  <2>1. Held # Null => Held # Root
    <3>1. Early(c, r, a, b)
      BY <1>1, OpenAhead DEF ReaderInv, Links, Ptr
    <3>. QED
      BY <1>1, <3>1, Zenon DEF Early, HasSlot, Root
  <2>2. r.heap = heap
    BY DEF Is
  <2>. QED
    BY <1>1, <1>2, <2>1, <2>2 DEF Chosen
<1>4. PICK S, f : S = {<<a, b>>} /\ f = IF creates THEN NewObject.to ELSE heap[p].to
  BY Zenon
<1>5. OnlySlot(S, a, b)
  BY <1>4 DEF OnlySlot
<1>6. PICK q, x : q = Point(S, p) /\ x = [ value |-> Token(pos + 2), to |-> f ]
  BY Zenon
<1>7. /\ heap' = [ h \in DOMAIN heap \union {p} |-> IF h = p THEN x ELSE q[h] ]
      /\ rinfo' = With(id, [ y EXCEPT !.sharedState = IF save THEN p ELSE @ ])
      /\ rstack' = Append(Moved(rstack), [ at |-> p, slot |-> 1, id |-> id ])
      /\ pos' = pos + 2 /\ failed' = failed
  BY <1>1, <1>2, <1>4, <1>6, Zenon DEF Enter
<1>8. DOMAIN heap' = DOMAIN heap \union {p} /\ heap'[p] = x /\ \A j \in DOMAIN heap : j # p => heap'[j] = q[j]
  BY <1>7
<1>9. Placing(heap', heap, p, Token(pos + 2), f, q)
  BY <1>6, <1>8 DEF Placing
<1>10. Filled(heap, creates, p, f)
  BY <1>4 DEF Filled
<1>11. \E S1, f1 : /\ OnlySlot(S1, a, b) /\ Filled(heap, creates, p, f1)
                   /\ Placing(heap', heap, p, Token(pos + 2), f1, Point(S1, p))
  BY <1>5, <1>6, <1>9, <1>10
<1>12. rinfo' = With(id, SavedAt(y, IF save THEN p ELSE y.sharedState))
  BY <1>7 DEF SavedAt
<1>13. rstack' = Push(rstack, p, id)
  BY <1>7 DEF Push
<1>. QED
  BY <1>3, <1>7, <1>11, <1>12, <1>13, Zenon

\* The frame of the object that is entered is the only one with its id.
LEMMA EnteredInformed ==
  ASSUME NEW c, Given(c), NEW wi, Numbered(c, wi), NEW r, Framed(c, r, wi), Informed(c, r, wi),
         r.stack # << >>, NEW p \in Nat, NEW id \in Nat,
         NEW s, s.stack = Push(r.stack, p, id), Evolves(c, r, s),
         NEW t \in DOMAIN wi, wi[t].id = id, LearnsOf(r, s, id), About(c, s, t, s.info[id]),
         \A k \in 1 .. Len(r.stack) : r.of[r.stack[k].at] # t,
         s.info[id].ownerPtr = Null, s.info[id].sharedState \in {Null, p}
  PROVE  Informed(c, s, wi)
<1>1. \A k \in 2 .. Len(s.stack) :
        \/ s.stack[k].id # id /\ \E l \in 2 .. Len(r.stack) : s.stack[k].id = r.stack[l].id
                                                           /\ s.stack[k].at = r.stack[l].at
        \/ /\ s.stack[k].id = id /\ s.info[id].ownerPtr \in {Null, s.stack[k].at}
           /\ s.info[id].sharedState \in {Null, s.stack[k].at}
  <2>1. PICK n \in Nat \ {0} : n = Len(r.stack)
    BY ReaderTop
  <2>2. /\ Len(s.stack) = n + 1 /\ \A k \in 1 .. n : s.stack[k] = Moved(r.stack)[k]
        /\ s.stack[n + 1].at = p /\ s.stack[n + 1].id = id
    <3>1. PICK st : st = s.stack
      OBVIOUS
    <3>2. st = Push(r.stack, p, id)
      BY <3>1
    <3>3. /\ Len(st) = Len(r.stack) + 1
          /\ \A k \in 1 .. Len(r.stack) : st[k] = Moved(r.stack)[k]
          /\ st[Len(r.stack) + 1].at = p /\ st[Len(r.stack) + 1].id = id
      BY <3>2, PushedStack, SMTT(30)
    <3>. QED
      BY <2>1, <3>1, <3>3
  <2>3. \A k \in 1 .. n : Moved(r.stack)[k].at = r.stack[k].at /\ Moved(r.stack)[k].id = r.stack[k].id
    BY <2>1, MovedStack
  <2>4. ASSUME NEW k \in 2 .. n PROVE r.stack[k].id # id
    <3>1. k \in 1 .. n
      OBVIOUS
    <3>2. /\ r.of[r.stack[k].at] \in DOMAIN wi /\ wi[r.of[r.stack[k].at]].id = r.stack[k].id
          /\ r.of[r.stack[k].at] # t
      BY <2>1, <3>1, Zenon DEF Framed
    <3>. QED
      BY <3>2, Zenon DEF Numbered
  <2>5. \A k \in 2 .. n + 1 : k \in 2 .. n \/ k = n + 1
    OBVIOUS
  <2>6. \A k \in 2 .. n : k \in 1 .. n
    OBVIOUS
  <2>8. ASSUME NEW k \in 2 .. n
        PROVE  s.stack[k].id # id /\ \E l \in 2 .. n : s.stack[k].id = r.stack[l].id
                                                    /\ s.stack[k].at = r.stack[l].at
    BY <2>2, <2>3, <2>4, <2>6, Zenon
  <2>9. /\ s.stack[n + 1].id = id /\ s.info[id].ownerPtr \in {Null, s.stack[n + 1].at}
        /\ s.info[id].sharedState \in {Null, s.stack[n + 1].at}
    BY <2>2
  <2>10. Len(s.stack) = n + 1 /\ Len(r.stack) = n
    BY <2>1, <2>2
  <2>. QED
    BY <2>5, <2>8, <2>9, <2>10, Zenon
<1>2. DOMAIN s.info = DOMAIN r.info \union {id} /\ \A i \in DOMAIN r.info : i # id => s.info[i] = r.info[i]
  BY DEF LearnsOf
<1>. QED
  BY <1>1, <1>2, InformedNext, SMTT(30)

\* The reader has not come to the writer's object t, and now does.
NotBegun(r, id, u, t) ==
  /\ InfoIdIn(r.info, id, u).ownerPtr = Null /\ InfoIdIn(r.info, id, u).sharedState = Null
  /\ \A k \in 1 .. Len(r.stack) : r.of[r.stack[k].at] # t

EntersNow(c, r, a, b, t) ==
  \E s, p : /\ After(s) /\ ReaderInv(c, s, winfo) /\ Evolves(c, r, s)
            /\ EnterEffect(c, r, s, a, b, winfo[t].id, t, p)
            /\ pos' = pos + 2 /\ failed' = failed

LEMMA EnterGoes ==
  ASSUME NEW c, c = World, Given(c), Numbered(c, winfo), NEW r, Is(r), ReaderInv(c, r, winfo),
         ReadOwner \/ ReadShared,
         NEW a, NEW b, a = Last(r.stack).at, b = Last(r.stack).slot,
         NEW t \in DOMAIN winfo, t = Target(c, r.of[a], b), Token(pos + 1) = winfo[t].id,
         Token(pos + 2) \in {0, ValueOf(t)}, NotBegun(r, winfo[t].id, Use(c, a, b), t)
  PROVE  EntersNow(c, r, a, b, t)
<1>1. PICK id, y : id = winfo[t].id /\ y = InfoIdIn(r.info, id, Use(c, a, b))
  OBVIOUS
<1>2. y.ownerPtr = Null /\ y.sharedState = Null /\ id = Token(pos + 1)
  BY <1>1, Zenon DEF NotBegun
<1>3. /\ AtSlot(rstack) /\ Use(c, a, b) # "Observer"
      /\ \E creates \in BOOLEAN, save \in BOOLEAN :
              /\ ~creates => Held # Null
              /\ Enter(id, y, creates, save)
              /\ IsShared(Use(c, a, b)) => save = SavesEarly(creates)
  BY <1>1, <1>2, EnterChoice
<1>4. PICK creates \in BOOLEAN, save \in BOOLEAN :
        /\ ~creates => Held # Null
        /\ Enter(id, y, creates, save)
        /\ IsShared(Use(c, a, b)) => save = SavesEarly(creates)
  BY <1>3, Zenon
<1>5. /\ r.stack # << >> /\ HasSlot(c, a, b) /\ a \in Nat /\ Held = r.heap[a].to[b]
      /\ a \in DOMAIN r.heap /\ r.of[a] # Null /\ Use(c, a, b) \in Uses
  BY <1>3, ReaderAhead, UsesOf, SMTT(30) DEF ReaderInv
<1>6. Heaped(c, r.heap) /\ Placed(c, r.heap, r.of) /\ Links(c, r) /\ Framed(c, r, winfo) /\ Informed(c, r, winfo)
      /\ Heaped(c, heap) /\ r.heap = heap /\ r.stack = rstack
  BY DEF ReaderInv, Is
<1>7. t \in c.objects /\ t # Null /\ ValueOf(t) \in Int
  <2>1. t \in c.objects
    BY DEF Numbered
  <2>. QED
    BY <2>1 DEF Given, Null, ValueOf
<1>8. PICK v : v = Token(pos + 2)
  OBVIOUS
<1>9. v \in Int /\ v \in {0, ValueOf(t)}
  BY <1>7, <1>8
<1>10. PICK p :
         /\ Chosen(heap, a, b, creates, p)
         /\ \E S, f : /\ OnlySlot(S, a, b) /\ Filled(heap, creates, p, f)
                      /\ Placing(heap', heap, p, v, f, Point(S, p))
         /\ rinfo' = With(id, SavedAt(y, IF save THEN p ELSE y.sharedState))
         /\ rstack' = Push(rstack, p, id) /\ pos' = pos + 2 /\ failed' = failed
  BY <1>3, <1>4, <1>8, <1>9, EnterChange
<1>11. Ptr(c, heap, a, b)
  BY <1>5, <1>6 DEF Ptr
<1>12. /\ p \in Nat /\ p # Root
       /\ creates => p \notin DOMAIN heap
       /\ ~creates => p = heap[a].to[b] /\ p # Null
  BY <1>6, <1>10, <1>11, ChosenPlace DEF Chosen
<1>13. PICK g : g = heap'
  OBVIOUS
<1>14. Grown(c, heap, g, a, b, p, v)
  <2>1. PICK S, f : /\ OnlySlot(S, a, b) /\ Filled(heap, creates, p, f)
                    /\ Placing(g, heap, p, v, f, Point(S, p))
    BY <1>10, <1>13, Zenon
  <2>. QED
    BY <1>6, <1>9, <1>10, <1>11, <2>1, EnterHeap
<1>15. PICK s : s = [ heap |-> heap', info |-> rinfo', stack |-> rstack',
                      place |-> [ o \in DOMAIN r.place \union {t} |-> IF o = t THEN p ELSE r.place[o] ],
                      of |-> [ j \in DOMAIN r.heap \union {p} |-> IF j = p THEN t ELSE r.of[j] ] ]
  BY Zenon
<1>16. /\ After(s)
       /\ s.place = [ o \in DOMAIN r.place \union {t} |-> IF o = t THEN p ELSE r.place[o] ]
       /\ s.of = [ j \in DOMAIN r.heap \union {p} |-> IF j = p THEN t ELSE r.of[j] ]
       /\ s.heap = g
  BY <1>13, <1>15, Zenon DEF After
<1>17. s.stack = Push(r.stack, p, id)
  BY <1>6, <1>10, <1>16 DEF After
<1>18. id \in Nat /\ id # 0
  BY <1>1, SMTT(30) DEF Numbered
<1>19. EntersObject(c, r, s, p, t, id, v)
  BY <1>5, <1>6, <1>7, <1>9, <1>12, <1>14, <1>16, <1>17, <1>18, SMTT(30) DEF EntersObject, Grown
<1>20. /\ Placed(c, s.heap, s.of) /\ Links(c, s) /\ Evolves(c, r, s)
       /\ s.of[p] = t /\ (p \in DOMAIN r.heap => r.of[p] = Null)
  BY <1>6, <1>19, EntersLinks
<1>21. Framed(c, s, winfo)
  <2>1. p \in Nat /\ id \in Nat /\ s.stack = Push(r.stack, p, id)
    BY <1>12, <1>17, <1>18, Zenon
  <2>2. p \in DOMAIN s.heap /\ s.of[p] \in DOMAIN winfo /\ winfo[s.of[p]].id = id /\ s.of[p] # Null
    BY <1>1, <1>7, <1>14, <1>16, <1>20, Zenon DEF Grown
  <2>3. s.of[p] = Target(c, r.of[Last(r.stack).at], Last(r.stack).slot)
    BY <1>20
  <2>4. \A k \in 1 .. Len(r.stack) : r.of[r.stack[k].at] # s.of[p]
    BY <1>20, Zenon DEF NotBegun
  <2>. QED
    BY <1>5, <1>6, <1>20, <2>1, <2>2, <2>3, <2>4, FramedPushed, Zenon
<1>22. PICK x, e : e = (IF save THEN p ELSE Null) /\ x = SavedAt(y, e)
  OBVIOUS
<1>23. LearnsOf(r, s, id) /\ s.info[id] = x
  BY <1>2, <1>10, <1>16, <1>22, WithInfo, SMTT(30)
<1>24. /\ About(c, s, t, x) /\ x.sharedState = e /\ x.ownerPtr = Null
       /\ x.observers = y.observers /\ x.ownership = y.ownership
  <2>1. About(c, r, t, y)
    BY <1>1, <1>5, <1>6, AboutFound
  <2>2. About(c, s, t, y)
    BY <1>7, <1>20, <2>1, AboutEvolves, Zenon
  <2>3. CASE save
    <3>1. p \in DOMAIN s.heap /\ y.ownerPtr \in {Null, p} /\ x = SavedAt(y, p)
      BY <1>2, <1>14, <1>16, <1>22, <2>3, Zenon DEF Grown
    <3>2. /\ About(c, s, t, x) /\ x.sharedState = p /\ x.ownerPtr = y.ownerPtr
          /\ x.observers = y.observers /\ x.ownership = y.ownership
      BY <1>20, <2>2, <3>1, AboutShared
    <3>. QED
      BY <1>2, <1>22, <2>3, <3>2, Zenon
  <2>4. CASE ~save
    <3>1. e = y.sharedState /\ x = [ y EXCEPT !.sharedState = y.sharedState ]
      BY <1>2, <1>22, <2>4 DEF SavedAt
    <3>2. y \in [ ownership : Uses, isSharedProcessed : BOOLEAN, ownerPtr : DOMAIN s.heap \union {Null},
                  observers : SUBSET (Nat \X Nat), sharedState : DOMAIN s.heap \union {Null} ]
      BY <2>2, Zenon DEF About
    <3>3. x = y
      BY <3>1, <3>2, Zenon
    <3>. QED
      BY <1>2, <2>2, <3>1, <3>3, Zenon
  <2>. QED
    BY <2>3, <2>4, Zenon
<1>26. Informed(c, s, winfo)
  <2>1. About(c, s, t, s.info[id]) /\ s.info[id].ownerPtr = Null /\ s.info[id].sharedState \in {Null, p}
    BY <1>22, <1>23, <1>24, Zenon
  <2>2. p \in Nat /\ id \in Nat /\ winfo[t].id = id
    BY <1>1, <1>12, <1>18, Zenon
  <2>3. \A k \in 1 .. Len(r.stack) : r.of[r.stack[k].at] # t
    BY Zenon DEF NotBegun
  <2>. QED
    BY <1>5, <1>6, <1>17, <1>20, <1>23, <2>1, <2>2, <2>3, EnteredInformed, Zenon
<1>27. ReaderInv(c, s, winfo)
  BY <1>14, <1>16, <1>20, <1>21, <1>26, Zenon DEF ReaderInv, Grown
<1>28. IsShared(Use(c, a, b)) /\ ~(c.polymorphic /\ c.existing) => x.sharedState = p
  <2>. SUFFICES ASSUME IsShared(Use(c, a, b)), ~(c.polymorphic /\ c.existing) PROVE x.sharedState = p
    OBVIOUS
  <2>1. save = SavesEarly(creates) /\ c.polymorphic = Polymorphic
    BY <1>4, WorldKinds, Zenon
  <2>2. CASE ~c.polymorphic
    BY <1>22, <1>24, <2>1, <2>2, Zenon DEF SavesEarly
  <2>3. CASE c.polymorphic
    <3>1. Early(c, r, a, b)
      BY <1>5, <1>6, <1>11, OpenAhead DEF Links
    <3>2. ~Refers(c, a, b)
      BY Zenon DEF IsShared, Use, Refers, Ownership
    <3>3. r.heap[a].to[b] = Null
      BY <2>3, <3>1, <3>2, Zenon DEF Early
    <3>4. creates
      BY <1>4, <1>5, <3>3, Zenon
    <3>. QED
      BY <1>22, <1>24, <2>1, <3>4, Zenon DEF SavesEarly
  <2>. QED
    BY <2>2, <2>3
<1>29. EnterEffect(c, r, s, a, b, id, t, p)
  BY <1>1, <1>8, <1>16, <1>19, <1>22, <1>23, <1>24, <1>28, Zenon DEF EnterEffect
<1>. QED
  BY <1>1, <1>10, <1>16, <1>20, <1>27, <1>29, Zenon DEF EntersNow

-----------------------------------------------------------------------------
(***************************************************************************)
(* The reader leaves an object.                                            *)
(***************************************************************************)
\* The object is linked to all that wait for it.
LinkEffect(c, r, s, at, id, shared) ==
  LET x == s.info[id]
      y == r.info[id]
  IN  /\ LearnsOf(r, s, id)
      /\ x.ownership = y.ownership /\ x.ownerPtr = at /\ x.observers = {}
      /\ x.sharedState = IF shared THEN at ELSE y.sharedState
      /\ \E S : /\ Pointed(c, r.heap, s.heap, S, at)
                /\ y.observers \subseteq S
                /\ \A j, i : <<j, i>> \in S =>
                     /\ Ptr(c, r.heap, j, i) /\ r.of[j] # Null /\ ~Open(r.stack, j, i)
                     /\ Target(c, r.of[j], i) = r.of[at]

ReturnEffect(c, r, s) ==
  IF Len(r.stack) = 1
    THEN s.heap = r.heap /\ s.info = r.info
    ELSE LinkEffect(c, r, s, Last(r.stack).at, Last(r.stack).id,
                    IsShared(Use(c, r.stack[Len(r.stack) - 1].at, r.stack[Len(r.stack) - 1].slot - 1)))

\* The pointer through which the object was entered.
LEMMA Behind ==
  ASSUME NEW c, Given(c), NEW r, NEW wi, Framed(c, r, wi), NEW n \in Nat, n > 1, n = Len(r.stack),
         NEW a, NEW b, a = r.stack[n - 1].at, b = r.stack[n - 1].slot - 1
  PROVE  /\ a \in Nat /\ b \in Nat /\ Ptr(c, r.heap, a, b) /\ r.of[a] # Null /\ ~Open(r.stack, a, b)
         /\ Target(c, r.of[a], b) = r.of[r.stack[n].at]
<1>1. n - 1 \in 1 .. n /\ n - 1 \in 1 .. Len(r.stack) - 1 /\ (n - 1) + 1 = n
  OBVIOUS
<1>2. /\ a \in Nat /\ r.stack[n - 1].slot \in Nat \ {0}
      /\ \A k \in 1 .. n : r.stack[k].slot \in Nat \ {0}
  BY <1>1, ReaderFrame
<1>3. a \in DOMAIN r.heap /\ r.of[a] # Null /\ HasSlot(c, a, b) /\ Target(c, r.of[a], b) = r.of[r.stack[n].at]
  BY <1>1, Zenon DEF Framed
<1>4. \A k \in 1 .. n : r.stack[k].at = a => k = n - 1
  <2>1. \A j, k \in 1 .. n : r.of[r.stack[j].at] = r.of[r.stack[k].at] => j = k
    BY Zenon DEF Framed
  <2>. QED
    BY <1>1, <2>1, Zenon
<1>5. ~Open(r.stack, a, b)
  BY <1>1, <1>2, <1>4 DEF Open
<1>. QED
  BY <1>2, <1>3, <1>5 DEF Ptr, HasSlot

LEMMA FrontIds ==
  ASSUME NEW c, NEW r, NEW wi, Framed(c, r, wi), r.stack # << >>
  PROVE  \A k \in 2 .. Len(Front(r.stack)) :
           /\ k \in 2 .. Len(r.stack) /\ k # Len(r.stack)
           /\ Front(r.stack)[k].id = r.stack[k].id /\ Front(r.stack)[k].at = r.stack[k].at
<1>1. PICK n \in Nat \ {0} : n = Len(r.stack)
  BY ReaderTop
<1>2. PICK m : m = Front(r.stack)
  OBVIOUS
<1>3. Len(m) = n - 1 /\ \A k \in 1 .. n - 1 : m[k] = r.stack[k]
  BY <1>1, <1>2, FrontFrames DEF Framed
<1>4. \A k \in 2 .. n - 1 : k \in 1 .. n - 1 /\ k \in 2 .. n /\ k # n
  OBVIOUS
<1>. QED
  BY <1>1, <1>2, <1>3, <1>4, Zenon

\* What the code does with the object of the frame that ends.
LinksBack(c, at, id, a, b, y) ==
  \E e, S : /\ e = (IF IsShared(Use(c, a, b)) THEN at ELSE y.sharedState)
            /\ S = (IF IsShared(Use(c, a, b)) THEN {<<a, b>>} ELSE {}) \union y.observers
            /\ rinfo' = With(id, LinkedTo(SavedAt(y, e), at))
            /\ heap' = Point(S, at)

LEMMA ReturnChange ==
  ASSUME NEW c, c = World, Given(c), NEW r, Is(r), ReaderInv(c, r, winfo), ReadReturn,
         NEW n \in Nat, n > 1, n = Len(r.stack),
         NEW at, NEW id, at = r.stack[n].at, id = r.stack[n].id,
         NEW a, NEW b, a = r.stack[n - 1].at, b = r.stack[n - 1].slot - 1,
         NEW y, y = r.info[id]
  PROVE  LinksBack(c, at, id, a, b, y)
<1>1. Last(rstack) = r.stack[n] /\ n \in 2 .. n /\ Len(rstack) # 1 /\ rinfo[id] = y /\ r.stack = rstack /\ Len(rstack) = n
  <2>1. r.stack # << >>
    BY DEF ReadReturn, AtEnd, Is
  <2>2. Last(r.stack) = r.stack[n]
    BY <2>1, ReaderTop DEF ReaderInv
  <2>. QED
    BY <2>2 DEF Is
<1>2. y.sharedState \in {Null, at} /\ About(c, r, r.of[at], y)
  <2>1. n \in 2 .. Len(r.stack) /\ Informed(c, r, winfo) /\ Framed(c, r, winfo)
    BY <1>1 DEF ReaderInv
  <2>2. /\ id \in DOMAIN r.info /\ y.sharedState \in {Null, at}
        /\ r.of[at] \in DOMAIN winfo /\ winfo[r.of[at]].id = id
    BY <2>1, Zenon DEF Informed, Framed
  <2>. QED
    BY <2>1, <2>2, Zenon DEF Informed
<1>3. PICK state : state = IF y.sharedState = Null THEN at ELSE y.sharedState
  OBVIOUS
<1>4. state = at
  BY <1>2, <1>3, Zenon
<1>5. PICK slot : slot = <<a, b>>
  BY Zenon
<1>6. HasSlot(c, a, b)
  BY Behind DEF ReaderInv, Ptr
<1>7. IsShared(Kind(slot)) <=> IsShared(Use(c, a, b))
  BY <1>5, <1>6, AheadShared, WorldKinds
<1>8. IF IsShared(Kind(slot))
        THEN Linked(id, [ y EXCEPT !.sharedState = state ], { slot }, state)
        ELSE Linked(id, y, {}, at)
  BY <1>1, <1>3, <1>5, Zenon DEF ReadReturn
<1>9. y \in [ ownership : Uses, isSharedProcessed : BOOLEAN, ownerPtr : DOMAIN r.heap \union {Null},
              observers : SUBSET (Nat \X Nat), sharedState : DOMAIN r.heap \union {Null} ]
  BY <1>2, Zenon DEF About
<1>10. CASE IsShared(Use(c, a, b))
  <2>1. PICK z : z = SavedAt(y, at)
    OBVIOUS
  <2>2. Linked(id, z, { slot }, at) /\ z.observers = y.observers
    BY <1>4, <1>7, <1>8, <1>9, <1>10, <2>1, Zenon DEF SavedAt
  <2>3. rinfo' = With(id, LinkedTo(z, at)) /\ heap' = Point({slot} \union y.observers, at)
    BY <2>2, Zenon DEF Linked, LinkedTo
  <2>. QED
    BY <1>5, <1>10, <2>1, <2>3, Zenon DEF LinksBack
<1>11. CASE ~IsShared(Use(c, a, b))
  <2>1. SavedAt(y, y.sharedState) = y
    BY <1>9 DEF SavedAt
  <2>2. Linked(id, y, {}, at)
    BY <1>7, <1>8, <1>11, Zenon
  <2>3. rinfo' = With(id, LinkedTo(y, at)) /\ heap' = Point({} \union y.observers, at)
    BY <2>2, Zenon DEF Linked, LinkedTo
  <2>. QED
    BY <1>11, <2>1, <2>3, Zenon DEF LinksBack
<1>. QED
  BY <1>10, <1>11

LEMMA ReadReturnGoes ==
  ASSUME NEW c, c = World, Given(c), Numbered(c, winfo), NEW r, Is(r), ReaderInv(c, r, winfo), ReadReturn
  PROVE  \E s : /\ After(s) /\ s.place = r.place /\ ReaderInv(c, s, winfo) /\ Evolves(c, r, s)
                /\ ReturnEffect(c, r, s) /\ s.of = r.of
<1>1. /\ r.stack # << >> /\ rstack' = Front(r.stack) /\ r.stack = rstack
      /\ ~HasSlot(c, Last(r.stack).at, Last(r.stack).slot)
  <2>1. /\ rstack # << >> /\ Last(rstack).slot > Len(KindsOf(Last(rstack).at))
        /\ rstack' = Front(rstack) /\ r.stack = rstack
    BY DEF ReadReturn, AtEnd, Is
  <2>2. KindsOf(Last(rstack).at) = Shape(c, Last(rstack).at)
    BY WorldKinds
  <2>3. Len(Shape(c, Last(rstack).at)) \in Nat /\ Last(rstack).slot \in Nat
    BY <2>1, ShapeLength, ReaderTop DEF ReaderInv
  <2>. QED
    BY <2>1, <2>2, <2>3 DEF HasSlot
<1>2. Heaped(c, r.heap) /\ Placed(c, r.heap, r.of) /\ Links(c, r) /\ Framed(c, r, winfo) /\ Informed(c, r, winfo)
      /\ Heaped(c, heap) /\ r.heap = heap
  BY DEF ReaderInv, Is
<1>3. PICK n \in Nat \ {0} : n = Len(r.stack) /\ Last(r.stack) = r.stack[n] /\ n \in 1 .. n
  BY <1>1, <1>2, ReaderTop
<1>4. \A j, i : HasSlot(c, j, i) => (Open(Front(r.stack), j, i) <=> Open(r.stack, j, i))
  BY <1>1, <1>2, OpenReturned
<1>5. PICK s : s = [ heap |-> heap', info |-> rinfo', stack |-> rstack', place |-> r.place, of |-> r.of ]
  BY Zenon
<1>6. After(s) /\ s.place = r.place /\ s.of = r.of /\ s.stack = Front(r.stack)
  BY <1>1, <1>5 DEF After
<1>7. \A k \in 2 .. Len(s.stack) :
        k \in 2 .. Len(r.stack) /\ k # n /\ s.stack[k].id = r.stack[k].id /\ s.stack[k].at = r.stack[k].at
  BY <1>1, <1>2, <1>3, <1>6, FrontIds
<1>8. CASE n = 1
  <2>1. s.heap = r.heap /\ s.info = r.info
    BY <1>1, <1>3, <1>6, <1>8 DEF ReadReturn, After, Is
  <2>2. PICK S : S = {}
    BY Zenon
  <2>3. Pointed(c, r.heap, s.heap, S, Null)
    BY <2>1, <2>2, Unpointed
  <2>4. Relinks(c, r, s, S, Null)
    BY <1>4, <1>6, <2>2, <2>3 DEF Relinks, Ptr
  <2>5. Placed(c, s.heap, s.of) /\ Links(c, s) /\ Evolves(c, r, s)
    BY <1>2, <2>4, RelinksLinks
  <2>6. Framed(c, s, winfo)
    BY <1>1, <1>2, <1>6, <2>5, FramedReturned
  <2>7. \A k \in 2 .. Len(s.stack) : \E l \in 2 .. Len(r.stack) : s.stack[k].id = r.stack[l].id
                                                               /\ s.stack[k].at = r.stack[l].at
    BY <1>7
  <2>8. Informed(c, s, winfo)
    BY <1>2, <2>1, <2>5, <2>7, InformedSame
  <2>. QED
    BY <1>2, <1>3, <1>6, <1>8, <2>1, <2>5, <2>6, <2>8 DEF ReaderInv, ReturnEffect
<1>9. CASE n > 1
  <2>1. PICK at, id : at = r.stack[n].at /\ id = r.stack[n].id
    BY Zenon
  <2>2. PICK a, b : a = r.stack[n - 1].at /\ b = r.stack[n - 1].slot - 1
    BY Zenon
  <2>3. PICK y, o : y = r.info[id] /\ o = r.of[at]
    OBVIOUS
  <2>4. /\ o \in DOMAIN winfo /\ winfo[o].id = id /\ id \in DOMAIN r.info
        /\ y.ownerPtr \in {Null, at} /\ y.sharedState \in {Null, at} /\ About(c, r, o, y)
        /\ at \in DOMAIN r.heap /\ o # Null
    <3>1. n \in 2 .. Len(r.stack) /\ n \in 1 .. Len(r.stack)
      BY <1>3, <1>9
    <3>2. /\ o \in DOMAIN winfo /\ winfo[o].id = id /\ id \in DOMAIN r.info
          /\ y.ownerPtr \in {Null, at} /\ y.sharedState \in {Null, at}
          /\ at \in DOMAIN r.heap /\ o # Null
      BY <1>2, <2>1, <2>3, <3>1, Zenon DEF Informed, Framed
    <3>. QED
      BY <1>2, <2>3, <3>2, Zenon DEF Informed
  <2>5. PICK e, S : /\ e = (IF IsShared(Use(c, a, b)) THEN at ELSE y.sharedState)
                    /\ S = (IF IsShared(Use(c, a, b)) THEN {<<a, b>>} ELSE {}) \union y.observers
                    /\ rinfo' = With(id, LinkedTo(SavedAt(y, e), at))
                    /\ heap' = Point(S, at)
    <3>1. LinksBack(c, at, id, a, b, y)
      BY <1>3, <1>9, <2>1, <2>2, <2>3, ReturnChange
    <3>. QED
      BY <3>1 DEF LinksBack
  <2>6. Heaped(c, s.heap) /\ Pointed(c, r.heap, s.heap, S, at)
    <3>1. s.heap = Point(S, at) /\ at \in DOMAIN heap \union {Null}
      BY <1>2, <1>6, <2>4, <2>5 DEF After
    <3>. QED
      BY <1>2, <3>1, PointHeap
  <2>7. \A j, i : <<j, i>> \in S =>
          /\ Ptr(c, r.heap, j, i) /\ r.of[j] # Null /\ ~Open(r.stack, j, i)
          /\ Target(c, r.of[j], i) = o
    <3>1. \A j, i : <<j, i>> \in y.observers =>
            /\ Ptr(c, r.heap, j, i) /\ r.of[j] # Null /\ ~Open(r.stack, j, i)
            /\ Target(c, r.of[j], i) = o
      BY <2>4 DEF About
    <3>2. /\ Ptr(c, r.heap, a, b) /\ r.of[a] # Null /\ ~Open(r.stack, a, b)
          /\ Target(c, r.of[a], b) = o
      BY <1>2, <1>3, <1>9, <2>1, <2>2, <2>3, Behind
    <3>3. \A j, i : <<j, i>> \in S => <<j, i>> \in y.observers \/ (j = a /\ i = b)
      BY <2>5
    <3>. QED
      BY <3>1, <3>2, <3>3
  <2>8. Relinks(c, r, s, S, at)
    <3>1. \A j, i : HasSlot(c, j, i) => (Open(s.stack, j, i) <=> Open(r.stack, j, i))
      BY <1>4, <1>6
    <3>. QED
      BY <1>6, <2>3, <2>4, <2>6, <2>7, <3>1 DEF Relinks, Ptr
  <2>9. Placed(c, s.heap, s.of) /\ Links(c, s) /\ Evolves(c, r, s)
    BY <1>2, <2>8, RelinksLinks
  <2>10. Framed(c, s, winfo)
    BY <1>1, <1>2, <1>6, <2>9, FramedReturned
  <2>11. PICK z, x : z = SavedAt(y, e) /\ x = LinkedTo(z, at)
    OBVIOUS
  <2>12. LearnsOf(r, s, id) /\ s.info[id] = x
    BY <1>6, <2>5, <2>11, WithInfo
  <2>13. /\ About(c, s, o, z) /\ z.sharedState = e /\ z.ownership = y.ownership
    <3>1. o \in c.objects /\ at \in DOMAIN s.heap /\ s.of[at] = o
      BY <1>6, <2>3, <2>4, <2>6 DEF Numbered, Pointed
    <3>2. About(c, s, o, y)
      BY <2>4, <2>9, <3>1, AboutEvolves
    <3>3. CASE e = at
      <4>1. z = SavedAt(y, at)
        BY <2>11, <3>3
      <4>. QED
        BY <2>4, <3>1, <3>2, <3>3, <4>1, AboutShared
    <3>4. CASE e # at
      <4>1. e = y.sharedState
        BY <2>5, <3>4
      <4>2. y \in [ ownership : Uses, isSharedProcessed : BOOLEAN, ownerPtr : DOMAIN s.heap \union {Null},
                    observers : SUBSET (Nat \X Nat), sharedState : DOMAIN s.heap \union {Null} ]
        BY <3>2 DEF About
      <4>3. z = y
        BY <2>11, <4>1, <4>2 DEF SavedAt
      <4>. QED
        BY <3>2, <4>1, <4>3
    <3>. QED
      BY <3>3, <3>4
  <2>14. /\ About(c, s, o, x) /\ x.sharedState = e /\ x.ownerPtr = at
         /\ x.observers = {} /\ x.ownership = y.ownership
    <3>1. at \in DOMAIN s.heap /\ s.of[at] = o /\ z.sharedState \in {Null, at}
      BY <1>6, <2>3, <2>4, <2>5, <2>6, <2>13 DEF Pointed
    <3>2. /\ About(c, s, o, x) /\ x.sharedState = z.sharedState /\ x.ownerPtr = at
          /\ x.observers = {} /\ x.ownership = z.ownership
      BY <2>11, <2>13, <3>1, AboutLinked
    <3>. QED
      BY <2>13, <3>2
  <2>15. Informed(c, s, winfo)
    <3>1. ASSUME NEW k \in 2 .. Len(s.stack)
          PROVE  s.stack[k].id # id /\ \E l \in 2 .. Len(r.stack) : s.stack[k].id = r.stack[l].id
                                                                 /\ s.stack[k].at = r.stack[l].at
      <4>1. k \in 2 .. n /\ k # n /\ s.stack[k].id = r.stack[k].id /\ s.stack[k].at = r.stack[k].at
        BY <1>3, <1>7
      <4>2. k \in 1 .. n /\ n \in 2 .. n
        BY <1>9, <4>1
      <4>3. /\ r.of[r.stack[k].at] \in DOMAIN winfo /\ winfo[r.of[r.stack[k].at]].id = r.stack[k].id
            /\ r.of[r.stack[k].at] # o
        BY <1>2, <1>3, <2>1, <2>3, <4>1, <4>2, Zenon DEF Framed
      <4>4. r.stack[k].id # id
        BY <2>4, <4>3 DEF Numbered
      <4>. QED
        BY <1>3, <4>1, <4>4
    <3>2. About(c, s, o, s.info[id])
      BY <2>12, <2>14
    <3>3. DOMAIN s.info = DOMAIN r.info \union {id} /\ \A i \in DOMAIN r.info : i # id => s.info[i] = r.info[i]
      BY <2>12 DEF LearnsOf
    <3>. QED
      BY <1>2, <2>4, <2>9, <3>1, <3>2, <3>3, InformedNext
  <2>16. ReaderInv(c, s, winfo)
    BY <2>6, <2>9, <2>10, <2>15 DEF ReaderInv
  <2>17. LinkEffect(c, r, s, at, id, IsShared(Use(c, a, b)))
    <3>1. y.observers \subseteq S
      BY <2>5
    <3>. QED
      BY <2>3, <2>5, <2>6, <2>7, <2>12, <2>14, <3>1 DEF LinkEffect
  <2>18. ReturnEffect(c, r, s)
    BY <1>3, <1>9, <2>1, <2>2, <2>17 DEF ReturnEffect
  <2>. QED
    BY <1>6, <2>9, <2>16, <2>18
<1>. QED
  BY <1>8, <1>9
-----------------------------------------------------------------------------
(***************************************************************************)
(* The reader in step with the writer: what it has after a part of the     *)
(* stream is what the writer had when it had written that part.            *)
(***************************************************************************)
OnStack(st, o) == \E k \in 1 .. Len(st) : st[k].at = o

\* An object that shared pointers hold.
SharedOf(c, o) ==
  \E x \in Things(c) : \E i : Holding(c, x, i) /\ IsShared(Use(c, x, i)) /\ Target(c, x, i) = o

\* r.place has what was entered.
Housed(c, r, w) ==
  /\ DOMAIN r.place = Entered(w.info)
  /\ \A o \in Entered(w.info) :
       /\ r.place[o] \in DOMAIN r.heap /\ r.of[r.place[o]] = o
       /\ o # Root => r.heap[r.place[o]].value = ValueOf(o)

Stacked(r, w) ==
  /\ Len(r.stack) = Len(w.stack)
  /\ \A k \in 1 .. Len(w.stack) : /\ r.stack[k].at = r.place[w.stack[k].at]
                                  /\ r.stack[k].slot = w.stack[k].slot

\* x is what the reader has to know of o.
Agrees(c, r, w, o, x) ==
  /\ x.ownership = w.info[o].ownership
  /\ o \notin Entered(w.info) => x.ownerPtr = Null /\ x.sharedState = Null
  /\ o \in Entered(w.info) =>
       /\ x.ownerPtr \in {Null, r.place[o]} /\ x.sharedState \in {Null, r.place[o]}
       /\ ~OnStack(w.stack, o) => x.ownerPtr = r.place[o] /\ x.observers = {}
       /\ SharedOf(c, o) /\ (OnStack(w.stack, o) => ~(c.polymorphic /\ c.existing)) =>
            x.sharedState = r.place[o]

Agreed(c, r, w) ==
  /\ \A id \in DOMAIN r.info : \E o \in DOMAIN w.info : w.info[o].id = id
  /\ \A o \in DOMAIN w.info :
       w.info[o].id \in DOMAIN r.info /\ Agrees(c, r, w, o, r.info[w.info[o].id])

\* A pointer that was passed is right, or an observer that waits.
Fits(c, r, w, x, i) ==
  LET t == Target(c, x, i)
      j == r.place[x]
  IN  IF t = Null
        THEN r.heap[j].to[i] = Null
        ELSE \/ t \in Entered(w.info) /\ r.heap[j].to[i] = r.place[t]
             \/ /\ Use(c, x, i) = "Observer" /\ t \in DOMAIN w.info
                /\ <<j, i>> \in r.info[w.info[t].id].observers

Rebuilt(c, r, w) == \A x, i : Passed(c, w, x, i) => Fits(c, r, w, x, i)

Sync(c, r, w) == Housed(c, r, w) /\ Stacked(r, w) /\ Agreed(c, r, w) /\ Rebuilt(c, r, w)

-----------------------------------------------------------------------------
LEMMA RootPlace ==
  ASSUME NEW c, NEW r, Placed(c, r.heap, r.of), NEW w, Housed(c, r, w)
  PROVE  \A x \in Entered(w.info) :
           /\ r.place[x] = Root <=> x = Root
           /\ Shape(c, r.place[x]) = Shape(c, x)
           /\ \A i : HasSlot(c, x, i) => Ptr(c, r.heap, r.place[x], i)
<1>1. ASSUME NEW x \in Entered(w.info)
      PROVE  /\ r.place[x] = Root <=> x = Root
             /\ r.place[x] \in DOMAIN r.heap
  <2>1. r.place[x] \in DOMAIN r.heap /\ r.of[r.place[x]] = x
    BY DEF Housed
  <2>. QED
    BY <2>1 DEF Placed
<1>. QED
  BY <1>1 DEF Shape, Ptr, HasSlot

\* Both are at the same pointer.
LEMMA AheadAlike ==
  ASSUME NEW c, Given(c), NEW r, NEW wi, ReaderInv(c, r, wi), NEW w, WriterInv(c, w), Sync(c, r, w), w.stack # << >>
  PROVE  /\ r.stack # << >>
         /\ Last(w.stack).at \in Entered(w.info) /\ Last(r.stack).at = r.place[Last(w.stack).at]
         /\ Last(r.stack).slot = Last(w.stack).slot
         /\ r.of[Last(r.stack).at] = Last(w.stack).at
         /\ Shape(c, Last(r.stack).at) = Shape(c, Last(w.stack).at)
         /\ HasSlot(c, Last(r.stack).at, Last(r.stack).slot) <=> SlotAhead(c, w.stack)
         /\ Use(c, Last(r.stack).at, Last(r.stack).slot) = UseAhead(c, w.stack)
         /\ Target(c, r.of[Last(r.stack).at], Last(r.stack).slot) = Ahead(c, w.stack)
<1>1. PICK n \in Nat \ {0} : n = Len(w.stack) /\ Last(w.stack) = w.stack[n] /\ n \in 1 .. n
  BY NotEmpty, Zenon DEF WriterInv, Nested
<1>2. r.stack # << >> /\ Last(r.stack) = r.stack[n]
  <2>1. Len(r.stack) = n
    BY <1>1 DEF Sync, Stacked
  <2>2. r.stack # << >>
    BY <1>1, <2>1
  <2>. QED
    BY <1>1, <2>1, <2>2, ReaderTop DEF ReaderInv
<1>3. Last(w.stack).at \in Entered(w.info)
  BY <1>1 DEF WriterInv, Covered
<1>4. Last(r.stack).at = r.place[Last(w.stack).at] /\ Last(r.stack).slot = Last(w.stack).slot
  BY <1>1, <1>2 DEF Sync, Stacked
<1>5. r.of[Last(r.stack).at] = Last(w.stack).at
  BY <1>3, <1>4 DEF Sync, Housed
<1>6. Shape(c, Last(r.stack).at) = Shape(c, Last(w.stack).at)
  <2>1. Placed(c, r.heap, r.of) /\ Housed(c, r, w)
    BY DEF Sync, ReaderInv
  <2>2. \A x \in Entered(w.info) : Shape(c, r.place[x]) = Shape(c, x)
    BY <2>1, RootPlace, Zenon
  <2>. QED
    BY <1>3, <1>4, <2>2
<1>. QED
  BY <1>2, <1>3, <1>4, <1>5, <1>6 DEF SlotAhead, UseAhead, Ahead, HasSlot, Use

\* w's knowledge is part of v's.
Extends(w, v) ==
  /\ Entered(w.info) \subseteq Entered(v.info)
  /\ \A o \in DOMAIN w.info : o \in DOMAIN v.info /\ v.info[o].id = w.info[o].id

LEMMA FitsSame ==
  ASSUME NEW c, NEW r, NEW w, NEW x, NEW i, Fits(c, r, w, x, i), NEW s, NEW v, Extends(w, v),
         s.place[x] = r.place[x], \A o \in Entered(w.info) : s.place[o] = r.place[o],
         s.heap[r.place[x]].to[i] = r.heap[r.place[x]].to[i],
         \A t \in DOMAIN w.info : <<r.place[x], i>> \in r.info[w.info[t].id].observers =>
                                  <<r.place[x], i>> \in s.info[w.info[t].id].observers
  PROVE  Fits(c, s, v, x, i)
<1>1. CASE Target(c, x, i) = Null
  BY <1>1, Zenon DEF Fits
<1>2. CASE Target(c, x, i) # Null
  <2>1. PICK t, j : t = Target(c, x, i) /\ j = r.place[x]
    BY SMTT(30)
  <2>2. \/ t \in Entered(w.info) /\ r.heap[j].to[i] = r.place[t]
        \/ /\ Use(c, x, i) = "Observer" /\ t \in DOMAIN w.info
           /\ <<j, i>> \in r.info[w.info[t].id].observers
    BY <1>2, <2>1, Zenon DEF Fits
  <2>3. CASE t \in Entered(w.info) /\ r.heap[j].to[i] = r.place[t]
    <3>1. t \in Entered(v.info) /\ s.heap[j].to[i] = s.place[t]
      BY <2>1, <2>3, Zenon DEF Extends
    <3>. QED
      BY <1>2, <2>1, <3>1, Zenon DEF Fits
  <2>4. CASE /\ Use(c, x, i) = "Observer" /\ t \in DOMAIN w.info
             /\ <<j, i>> \in r.info[w.info[t].id].observers
    <3>1. t \in DOMAIN v.info /\ v.info[t].id = w.info[t].id
      BY <2>4, Zenon DEF Extends
    <3>2. <<j, i>> \in s.info[v.info[t].id].observers
      BY <2>1, <2>4, <3>1, Zenon
    <3>. QED
      BY <1>2, <2>1, <2>4, <3>1, <3>2, Zenon DEF Fits
  <2>. QED
    BY <2>2, <2>3, <2>4, Zenon
<1>. QED
  BY <1>1, <1>2, Zenon

LEMMA FitsPointed ==
  ASSUME NEW c, NEW r, NEW w, NEW x, NEW i, Fits(c, r, w, x, i), Ptr(c, r.heap, r.place[x], i),
         NEW s, NEW v, Extends(w, v), s.place = r.place,
         NEW S, NEW p, Pointed(c, r.heap, s.heap, S, p),
         <<r.place[x], i>> \in S => /\ Target(c, x, i) # Null /\ Target(c, x, i) \in Entered(v.info)
                                    /\ p = r.place[Target(c, x, i)],
         <<r.place[x], i>> \notin S =>
           \A t \in DOMAIN w.info : <<r.place[x], i>> \in r.info[w.info[t].id].observers =>
                                    <<r.place[x], i>> \in s.info[w.info[t].id].observers
  PROVE  Fits(c, s, v, x, i)
<1>1. s.heap[r.place[x]].to[i] = IF <<r.place[x], i>> \in S THEN p ELSE r.heap[r.place[x]].to[i]
  BY Zenon DEF Pointed
<1>2. CASE <<r.place[x], i>> \in S
  BY <1>1, <1>2, Zenon DEF Fits
<1>3. CASE <<r.place[x], i>> \notin S
  <2>1. s.heap[r.place[x]].to[i] = r.heap[r.place[x]].to[i]
    BY <1>1, <1>3, Zenon
  <2>. QED
    BY <1>3, <2>1, FitsSame, Zenon
<1>. QED
  BY <1>2, <1>3

\* An object is held by one kind of pointers only.
LEMMA HeldAlike ==
  ASSUME NEW c, Given(c), NEW x \in Things(c), NEW i, Holding(c, x, i), Target(c, x, i) # Null,
         SharedOf(c, Target(c, x, i))
  PROVE  IsShared(Use(c, x, i))
<1>1. PICK y, j : y \in Things(c) /\ Holding(c, y, j) /\ IsShared(Use(c, y, j)) /\ Target(c, y, j) = Target(c, x, i)
  BY DEF SharedOf
<1>2. Use(c, x, i) # "Owner"
  <2>. SUFFICES ASSUME Use(c, x, i) = "Owner" PROVE FALSE
    OBVIOUS
  <2>1. x = y /\ i = j
    BY <1>1 DEF Given, Owned
  <2>. QED
    BY <1>1, <2>1 DEF IsShared
<1>3. Use(c, x, i) \in Uses /\ Use(c, x, i) # "Observer"
  BY UsesOf DEF Holding
<1>. QED
  BY <1>2, <1>3 DEF Uses, Kinds, IsShared

-----------------------------------------------------------------------------
\* The reader moves on over a null pointer.
LEMMA SyncMoved ==
  ASSUME NEW c, Given(c), NEW r, NEW wi, ReaderInv(c, r, wi), NEW w, WriterInv(c, w), Sync(c, r, w),
         SlotAhead(c, w.stack), NEW v, v.stack = Moved(w.stack), Entered(v.info) = Entered(w.info),
         NEW s, s.place = r.place, s.stack = Moved(r.stack), Evolves(c, r, s),
         \A j \in DOMAIN r.heap : s.heap[j].value = r.heap[j].value
  PROVE  /\ Housed(c, s, v) /\ Stacked(s, v)
         /\ \A o : OnStack(v.stack, o) <=> OnStack(w.stack, o)
<1>1. Housed(c, s, v)
  <2>1. ASSUME NEW o \in Entered(w.info)
        PROVE  /\ s.place[o] \in DOMAIN s.heap /\ s.of[s.place[o]] = o
               /\ o # Root => s.heap[s.place[o]].value = ValueOf(o)
    <3>1. /\ r.place[o] \in DOMAIN r.heap /\ r.of[r.place[o]] = o
          /\ o # Root => r.heap[r.place[o]].value = ValueOf(o)
      BY DEF Sync, Housed
    <3>2. o # Null
      BY DEF Entered, WriterInv, Numbered, Given, Null, Root
    <3>. QED
      BY <3>1, <3>2 DEF Evolves
  <2>. QED
    BY <2>1 DEF Sync, Housed
<1>2. PICK n \in Nat \ {0} : n = Len(w.stack) /\ Last(w.stack) = w.stack[n] /\ n \in 1 .. n
  BY ThingsAhead DEF WriterInv
<1>3. /\ Len(v.stack) = n /\ \A k \in 1 .. n : v.stack[k].at = w.stack[k].at /\ (k # n => v.stack[k].slot = w.stack[k].slot)
      /\ v.stack[n].slot = w.stack[n].slot + 1
  <2>1. w.stack \in Seq([ at : Things(c), slot : Nat \ {0} ]) /\ w.stack # << >>
    BY DEF WriterInv, Nested, SlotAhead
  <2>2. /\ Len(Moved(w.stack)) = Len(w.stack)
        /\ \A k \in 1 .. Len(w.stack) : /\ Moved(w.stack)[k].at = w.stack[k].at
                                        /\ k # Len(w.stack) => Moved(w.stack)[k].slot = w.stack[k].slot
        /\ Moved(w.stack)[Len(w.stack)].slot = w.stack[Len(w.stack)].slot + 1
    BY <2>1, MovedFrames, Zenon
  <2>. QED
    BY <1>2, <2>2
<1>4. r.stack # << >> /\ Len(r.stack) = n /\ Last(r.stack) = r.stack[n]
  <2>1. r.stack # << >>
    BY AheadAlike DEF SlotAhead
  <2>. QED
    BY <1>2, <2>1, ReaderTop DEF ReaderInv, Sync, Stacked
<1>5. /\ Len(s.stack) = n /\ \A k \in 1 .. n : s.stack[k].at = r.stack[k].at /\ (k # n => s.stack[k].slot = r.stack[k].slot)
      /\ s.stack[n].slot = r.stack[n].slot + 1
  BY <1>4, MovedStack DEF ReaderInv
<1>6. \A k \in 1 .. n : r.stack[k].at = r.place[w.stack[k].at] /\ r.stack[k].slot = w.stack[k].slot
  BY <1>2 DEF Sync, Stacked
<1>7. Stacked(s, v)
  BY <1>2, <1>3, <1>5, <1>6 DEF Stacked
<1>8. \A o : OnStack(v.stack, o) <=> OnStack(w.stack, o)
  BY <1>2, <1>3, Zenon DEF OnStack
<1>. QED
  BY <1>1, <1>7, <1>8

LEMMA SyncNull ==
  ASSUME NEW c, Given(c), NEW r, NEW wi, ReaderInv(c, r, wi), NEW w, WriterInv(c, w), Sync(c, r, w),
         NEW v, NullStep(c, w, v),
         NEW s, s.place = r.place, s.stack = Moved(r.stack), Evolves(c, r, s), s.info = r.info,
         NEW S, S = {<<Last(r.stack).at, Last(r.stack).slot>>}, Pointed(c, r.heap, s.heap, S, Null)
  PROVE  Sync(c, s, v)
<1>1. SlotAhead(c, w.stack) /\ Ahead(c, w.stack) = Null /\ v.info = w.info /\ v.stack = Moved(w.stack)
  BY DEF NullStep
<1>2. \A j \in DOMAIN r.heap : s.heap[j].value = r.heap[j].value
  BY DEF Pointed
<1>3. /\ Housed(c, s, v) /\ Stacked(s, v)
      /\ \A o : OnStack(v.stack, o) <=> OnStack(w.stack, o)
  BY <1>1, <1>2, SyncMoved, Zenon
<1>4. Agreed(c, s, v)
  <2>1. \A o, x : Agrees(c, r, w, o, x) => Agrees(c, s, v, o, x)
    BY <1>1, <1>3 DEF Agrees
  <2>. QED
    BY <1>1, <2>1 DEF Agreed, Sync
<1>5. PICK x0, i0 : x0 = Last(w.stack).at /\ i0 = Last(w.stack).slot
  OBVIOUS
<1>6. /\ Last(r.stack).at = r.place[x0] /\ Last(r.stack).slot = i0 /\ x0 \in Entered(w.info)
      /\ Target(c, x0, i0) = Null /\ HasSlot(c, x0, i0)
  BY <1>1, <1>5, AheadAlike DEF SlotAhead, Ahead
<1>7. \A x \in Entered(w.info) : \A i : HasSlot(c, x, i) => Ptr(c, r.heap, r.place[x], i)
  BY RootPlace DEF Sync, ReaderInv
<1>8. ASSUME NEW x, NEW i, Passed(c, v, x, i) PROVE Fits(c, s, v, x, i)
  <2>1. Passed(c, w, x, i) \/ (x = x0 /\ i = i0)
    BY <1>1, <1>5, <1>8, PassedMoved
  <2>2. CASE x = x0 /\ i = i0
    <3>1. Ptr(c, r.heap, r.place[x0], i0) /\ <<r.place[x0], i0>> \in S
      BY <1>6, <1>7
    <3>2. s.heap[r.place[x0]].to[i0] = Null
      BY <3>1 DEF Pointed
    <3>. QED
      BY <1>6, <2>2, <3>2 DEF Fits
  <2>3. CASE Passed(c, w, x, i) /\ ~(x = x0 /\ i = i0)
    <3>1. Fits(c, r, w, x, i) /\ Ptr(c, r.heap, r.place[x], i) /\ x \in Entered(w.info)
      BY <1>7, <2>3 DEF Sync, Rebuilt, Passed
    <3>2. <<r.place[x], i>> \notin S
      <4>1. \A y, z \in Entered(w.info) : r.place[y] = r.place[z] => y = z
        BY DEF Sync, Housed
      <4>2. <<r.place[x], i>> \in S => r.place[x] = r.place[x0] /\ i = i0
        BY <1>6
      <4>. QED
        BY <1>6, <2>3, <3>1, <4>1, <4>2
    <3>3. Extends(w, v)
      BY <1>1 DEF Extends
    <3>. QED
      BY <3>1, <3>2, <3>3, FitsPointed, Zenon
  <2>. QED
    BY <2>1, <2>2, <2>3
<1>. QED
  BY <1>3, <1>4, <1>8 DEF Sync, Rebuilt
-----------------------------------------------------------------------------
(***************************************************************************)
(* One id is learned of on both sides.                                     *)
(***************************************************************************)
\* v is the writer's next state and wi what it knew in the end.
LearnsBoth(c, w, v, wi, t, kind) ==
  /\ Learned(w.info, v.info, t, kind) /\ Numbered(c, v.info) /\ kind \in Uses /\ t \in c.objects
  /\ t \in DOMAIN wi /\ wi[t].id = v.info[t].id

\* y is what the reader knows of t, the id of which was read.
KnownAs(c, r, w, v, t, id, y) ==
  /\ y.ownership = v.info[t].ownership /\ About(c, r, t, y)
  /\ t \in DOMAIN w.info =>
       /\ w.info[t].id = id /\ id \in DOMAIN r.info
       /\ y.ownerPtr = r.info[id].ownerPtr /\ y.sharedState = r.info[id].sharedState
       /\ y.observers = r.info[id].observers
  /\ t \notin DOMAIN w.info =>
       y.ownerPtr = Null /\ y.sharedState = Null /\ y.observers = {}
  /\ t \notin Entered(w.info) => y.ownerPtr = Null /\ y.sharedState = Null

LEMMA KnownFound ==
  ASSUME NEW c, Given(c), NEW r, NEW wi, ReaderInv(c, r, wi), NEW w, WriterInv(c, w), Sync(c, r, w),
         NEW v, NEW t, NEW kind, LearnsBoth(c, w, v, wi, t, kind),
         NEW id, id = v.info[t].id, NEW y, y = InfoIdIn(r.info, id, kind)
  PROVE  KnownAs(c, r, w, v, t, id, y)
<1>1. /\ DOMAIN v.info = DOMAIN w.info \union {t}
      /\ \A q \in DOMAIN w.info : v.info[q].id = w.info[q].id
      /\ v.info[t].ownership = IF t \in DOMAIN w.info THEN OwnershipNext(w.info[t].ownership, kind) ELSE kind
  BY DEF LearnsBoth, Learned
<1>2. About(c, r, t, y) /\ FoundAs(r.info, id, kind, y)
  <2>1. t \in DOMAIN wi /\ kind \in Uses /\ wi[t].id = id
    BY DEF LearnsBoth
  <2>2. Informed(c, r, wi)
    BY DEF ReaderInv
  <2>. QED
    BY <2>1, <2>2, AboutFound
<1>3. Agreed(c, r, w)
  BY DEF Sync
<1>4. ASSUME t \in DOMAIN w.info
      PROVE  /\ y.ownership = v.info[t].ownership
             /\ w.info[t].id = id /\ id \in DOMAIN r.info
             /\ y.ownerPtr = r.info[id].ownerPtr /\ y.sharedState = r.info[id].sharedState
             /\ y.observers = r.info[id].observers
             /\ t \notin Entered(w.info) => y.ownerPtr = Null /\ y.sharedState = Null
  <2>1. /\ w.info[t].id = id /\ id \in DOMAIN r.info
        /\ r.info[id].ownership = w.info[t].ownership
        /\ t \notin Entered(w.info) => r.info[id].ownerPtr = Null /\ r.info[id].sharedState = Null
    BY <1>1, <1>3, <1>4, Zenon DEF Agreed, Agrees
  <2>. QED
    BY <1>1, <1>2, <1>4, <2>1, Zenon DEF FoundAs
<1>5. ASSUME t \notin DOMAIN w.info
      PROVE  /\ y.ownership = v.info[t].ownership
             /\ y.ownerPtr = Null /\ y.sharedState = Null /\ y.observers = {}
  <2>1. id \notin DOMAIN r.info
    <3>1. SUFFICES ASSUME id \in DOMAIN r.info PROVE FALSE
      OBVIOUS
    <3>2. PICK o \in DOMAIN w.info : w.info[o].id = id
      BY <1>3, <3>1 DEF Agreed
    <3>3. v.info[o].id = v.info[t].id /\ o \in DOMAIN v.info /\ t \in DOMAIN v.info
      BY <1>1, <3>2
    <3>4. o = t
      BY <3>3 DEF LearnsBoth, Numbered
    <3>. QED
      BY <1>5, <3>4
  <2>. QED
    BY <1>1, <1>2, <1>5, <2>1, Zenon DEF FoundAs
<1>6. y.ownership = v.info[t].ownership
  BY <1>4, <1>5, Zenon
<1>. QED
  BY <1>2, <1>4, <1>5, <1>6, Zenon DEF KnownAs

LEMMA AgreedNext ==
  ASSUME NEW c, NEW r, NEW w, Agreed(c, r, w),
         NEW v, NEW wi, NEW t, NEW kind, LearnsBoth(c, w, v, wi, t, kind),
         NEW s, LearnsOf(r, s, v.info[t].id),
         Agrees(c, s, v, t, s.info[v.info[t].id]),
         \A o \in DOMAIN w.info : \A x : o # t /\ Agrees(c, r, w, o, x) => Agrees(c, s, v, o, x)
  PROVE  Agreed(c, s, v)
<1>1. /\ DOMAIN v.info = DOMAIN w.info \union {t}
      /\ \A q \in DOMAIN w.info : v.info[q].id = w.info[q].id
  BY DEF LearnsBoth, Learned
<1>2. PICK id : id = v.info[t].id
  OBVIOUS
<1>3. /\ DOMAIN s.info = DOMAIN r.info \union {id}
      /\ \A i \in DOMAIN r.info : i # id => s.info[i] = r.info[i]
  BY <1>2 DEF LearnsOf
<1>4. \A i \in DOMAIN s.info : \E o \in DOMAIN v.info : v.info[o].id = i
  <2>1. \A i \in DOMAIN r.info : \E o \in DOMAIN w.info : w.info[o].id = i
    BY DEF Agreed
  <2>. QED
    BY <1>1, <1>2, <1>3, <2>1
<1>5. ASSUME NEW o \in DOMAIN v.info
      PROVE  v.info[o].id \in DOMAIN s.info /\ Agrees(c, s, v, o, s.info[v.info[o].id])
  <2>1. CASE o = t
    BY <1>2, <1>3, <2>1
  <2>2. CASE o # t
    <3>1. o \in DOMAIN w.info /\ t \in DOMAIN v.info
      BY <1>1, <2>2
    <3>2. v.info[o].id # id
      BY <1>2, <2>2, <3>1 DEF LearnsBoth, Numbered
    <3>3. v.info[o].id \in DOMAIN r.info /\ Agrees(c, r, w, o, r.info[v.info[o].id])
      BY <1>1, <3>1 DEF Agreed
    <3>. QED
      BY <1>3, <2>2, <3>1, <3>2, <3>3
  <2>. QED
    BY <2>1, <2>2
<1>. QED
  BY <1>4, <1>5, Zenon DEF Agreed

\* The pointer ahead is none of those that were passed.
LEMMA OtherSlots ==
  ASSUME NEW c, Given(c), NEW r, NEW wi, ReaderInv(c, r, wi), NEW w, WriterInv(c, w), Sync(c, r, w),
         SlotAhead(c, w.stack), NEW x, NEW i, Passed(c, w, x, i)
  PROVE  /\ <<r.place[x], i>> # <<Last(r.stack).at, Last(r.stack).slot>>
         /\ x \in Entered(w.info) /\ Ptr(c, r.heap, r.place[x], i)
         /\ r.of[r.place[x]] = x /\ r.place[x] \in DOMAIN r.heap
<1>1. x \in Entered(w.info) /\ HasSlot(c, x, i)
  BY DEF Passed
<1>2. r.of[r.place[x]] = x /\ r.place[x] \in DOMAIN r.heap
  BY <1>1 DEF Sync, Housed
<1>3. Ptr(c, r.heap, r.place[x], i)
  <2>1. Placed(c, r.heap, r.of) /\ Housed(c, r, w)
    BY DEF Sync, ReaderInv
  <2>. QED
    BY <1>1, <2>1, RootPlace
<1>4. ASSUME r.place[x] = Last(r.stack).at, i = Last(r.stack).slot PROVE FALSE
  <2>1. r.of[Last(r.stack).at] = Last(w.stack).at /\ Last(r.stack).slot = Last(w.stack).slot
    BY AheadAlike DEF SlotAhead
  <2>2. x = Last(w.stack).at /\ i = Last(w.stack).slot
    BY <1>2, <1>4, <2>1
  <2>3. ~Passed(c, w, Last(w.stack).at, Last(w.stack).slot)
    BY AheadNotPassed
  <2>. QED
    BY <2>2, <2>3
<1>. QED
  BY <1>1, <1>2, <1>3, <1>4

\* A pointer to an object that is only mentioned.
MentionsBoth(c, w, v, wi, t) ==
  /\ t = Ahead(c, w.stack) /\ Mentions(c, w, v)
  /\ LearnsBoth(c, w, v, wi, t, UseAhead(c, w.stack))
  /\ Entered(v.info) = Entered(w.info)

LEMMA MentionsAgrees ==
  ASSUME NEW c, NEW r, NEW w, NEW v, NEW wi, NEW t, MentionsBoth(c, w, v, wi, t), NEW s, s.place = r.place,
         \A o : OnStack(v.stack, o) <=> OnStack(w.stack, o)
  PROVE  \A o \in DOMAIN w.info : \A x : o # t /\ Agrees(c, r, w, o, x) => Agrees(c, s, v, o, x)
<1>1. \A o \in DOMAIN w.info : o # t => v.info[o] = w.info[o]
  BY DEF MentionsBoth, LearnsBoth, Learned
<1>2. Entered(v.info) = Entered(w.info)
  BY DEF MentionsBoth
<1>. QED
  BY <1>1, <1>2 DEF Agrees

LEMMA MentionsExtends ==
  ASSUME NEW c, NEW w, NEW v, NEW wi, NEW t, MentionsBoth(c, w, v, wi, t)
  PROVE  /\ SlotAhead(c, w.stack) /\ v.stack = Moved(w.stack) /\ Extends(w, v)
         /\ Entered(v.info) = Entered(w.info) /\ t \in DOMAIN v.info /\ t \in c.objects
         /\ t = Target(c, Last(w.stack).at, Last(w.stack).slot)
         /\ LearnsBoth(c, w, v, wi, t, UseAhead(c, w.stack))
<1>1. SlotAhead(c, w.stack) /\ v.stack = Moved(w.stack) /\ t = Target(c, Last(w.stack).at, Last(w.stack).slot)
  BY DEF MentionsBoth, Mentions, Ahead
<1>2. Extends(w, v) /\ t \in DOMAIN v.info
  BY DEF MentionsBoth, LearnsBoth, Learned, Extends
<1>3. Entered(v.info) = Entered(w.info) /\ LearnsBoth(c, w, v, wi, t, UseAhead(c, w.stack))
  BY DEF MentionsBoth
<1>4. t \in c.objects
  BY <1>3 DEF LearnsBoth
<1>. QED
  BY <1>1, <1>2, <1>3, <1>4
-----------------------------------------------------------------------------
(***************************************************************************)
(* The reader stays in step.                                               *)
(***************************************************************************)
LEMMA OthersKept ==
  ASSUME NEW c, NEW r, NEW w, Agreed(c, r, w), NEW v, NEW wi, NEW t, NEW kind,
         LearnsBoth(c, w, v, wi, t, kind), NEW s, LearnsOf(r, s, v.info[t].id)
  PROVE  \A q \in DOMAIN w.info : q # t => s.info[w.info[q].id] = r.info[w.info[q].id]
<1>1. /\ DOMAIN v.info = DOMAIN w.info \union {t}
      /\ \A q \in DOMAIN w.info : v.info[q].id = w.info[q].id
      /\ \A o, q \in DOMAIN v.info : v.info[o].id = v.info[q].id => o = q
  BY DEF LearnsBoth, Learned, Numbered
<1>2. ASSUME NEW q \in DOMAIN w.info, q # t PROVE s.info[w.info[q].id] = r.info[w.info[q].id]
  <2>1. w.info[q].id \in DOMAIN r.info
    BY DEF Agreed
  <2>2. w.info[q].id # v.info[t].id
    <3>1. q \in DOMAIN v.info /\ t \in DOMAIN v.info
      BY <1>1
    <3>. QED
      BY <1>1, <1>2, <3>1
  <2>. QED
    BY <2>1, <2>2 DEF LearnsOf
<1>. QED
  BY <1>2

\* What is left to show when an object is only mentioned.
LEMMA SyncMentions ==
  ASSUME NEW c, Given(c), NEW r, NEW wi, ReaderInv(c, r, wi), NEW w, WriterInv(c, w), Sync(c, r, w),
         NEW v, NEW t, MentionsBoth(c, w, v, wi, t),
         NEW s, s.place = r.place, s.stack = Moved(r.stack), Evolves(c, r, s),
         NEW id, id = v.info[t].id, LearnsOf(r, s, id), NEW S, NEW p, Pointed(c, r.heap, s.heap, S, p),
         Agrees(c, s, v, t, s.info[id]), Fits(c, s, v, Last(w.stack).at, Last(w.stack).slot),
         \A j, i : <<j, i>> \in S =>
           \/ <<j, i>> = <<Last(r.stack).at, Last(r.stack).slot>>
           \/ t \in Entered(w.info) /\ p = r.place[t] /\ Target(c, r.of[j], i) = t,
         \A j, i : <<j, i>> \notin S /\ t \in DOMAIN w.info /\ <<j, i>> \in r.info[id].observers =>
                   <<j, i>> \in s.info[id].observers
  PROVE  Sync(c, s, v)
<1>1. /\ SlotAhead(c, w.stack) /\ v.stack = Moved(w.stack) /\ Extends(w, v)
      /\ Entered(v.info) = Entered(w.info) /\ t \in DOMAIN v.info /\ t \in c.objects
      /\ LearnsBoth(c, w, v, wi, t, UseAhead(c, w.stack))
  BY MentionsExtends, Zenon
<1>2. \A j \in DOMAIN r.heap : s.heap[j].value = r.heap[j].value
  BY Zenon DEF Pointed
<1>3. /\ Housed(c, s, v) /\ Stacked(s, v)
      /\ \A o : OnStack(v.stack, o) <=> OnStack(w.stack, o)
  BY <1>1, <1>2, SyncMoved, Zenon
<1>4. Agreed(c, r, w) /\ Rebuilt(c, r, w)
  BY Zenon DEF Sync
<1>5. Agreed(c, s, v)
  <2>1. \A o \in DOMAIN w.info : \A x : o # t /\ Agrees(c, r, w, o, x) => Agrees(c, s, v, o, x)
    BY <1>3, MentionsAgrees, Zenon
  <2>. QED
    BY <1>1, <1>4, <2>1, AgreedNext, SMTT(30)
<1>6. \A q \in DOMAIN w.info : q # t => s.info[w.info[q].id] = r.info[w.info[q].id]
  BY <1>1, <1>4, OthersKept, SMTT(30)
<1>7. ASSUME NEW x, NEW i, Passed(c, v, x, i) PROVE Fits(c, s, v, x, i)
  <2>1. Passed(c, w, x, i) \/ (x = Last(w.stack).at /\ i = Last(w.stack).slot)
    BY <1>1, <1>7, PassedMoved, Zenon
  <2>2. CASE x = Last(w.stack).at /\ i = Last(w.stack).slot
    BY <2>2, Zenon
  <2>3. CASE Passed(c, w, x, i)
    <3>1. /\ <<r.place[x], i>> # <<Last(r.stack).at, Last(r.stack).slot>>
          /\ Ptr(c, r.heap, r.place[x], i) /\ r.of[r.place[x]] = x
      BY <1>1, <2>3, OtherSlots, SMTT(30)
    <3>2. Fits(c, r, w, x, i)
      BY <1>4, <2>3, Zenon DEF Rebuilt
    <3>3. <<r.place[x], i>> \in S => /\ Target(c, x, i) # Null /\ Target(c, x, i) \in Entered(v.info)
                                     /\ p = r.place[Target(c, x, i)]
      <4>1. t # Null
        BY <1>1 DEF Given, Null
      <4>. QED
        BY <1>1, <3>1, <4>1, Zenon
    <3>4. ASSUME <<r.place[x], i>> \notin S, NEW q \in DOMAIN w.info,
                 <<r.place[x], i>> \in r.info[w.info[q].id].observers
          PROVE  <<r.place[x], i>> \in s.info[w.info[q].id].observers
      <4>1. CASE q = t
        <5>1. w.info[q].id = id
          BY <1>1, <4>1, Zenon DEF Extends
        <5>. QED
          BY <3>4, <4>1, <5>1, Zenon
      <4>2. CASE q # t
        BY <1>6, <3>4, <4>2, Zenon
      <4>. QED
        BY <4>1, <4>2, Zenon
    <3>. QED
      BY <1>1, <3>1, <3>2, <3>3, <3>4, FitsPointed, Zenon
  <2>. QED
    BY <2>1, <2>2, <2>3, Zenon
<1>. QED
  BY <1>3, <1>5, <1>7, Zenon DEF Sync, Rebuilt

LEMMA SyncObserver ==
  ASSUME NEW c, Given(c), NEW r, NEW wi, ReaderInv(c, r, wi), NEW w, WriterInv(c, w), Sync(c, r, w),
         NEW v, NEW t, MentionsBoth(c, w, v, wi, t), UseAhead(c, w.stack) = "Observer",
         NEW s, s.place = r.place, s.stack = Moved(r.stack), Evolves(c, r, s),
         NEW a, NEW b, a = Last(r.stack).at, b = Last(r.stack).slot,
         NEW id, id = v.info[t].id, ObserverEffect(c, r, s, a, b, id)
  PROVE  Sync(c, s, v)
<1>1. /\ SlotAhead(c, w.stack) /\ v.stack = Moved(w.stack) /\ Extends(w, v)
      /\ Entered(v.info) = Entered(w.info) /\ t \in DOMAIN v.info /\ t \in c.objects
      /\ t = Target(c, Last(w.stack).at, Last(w.stack).slot)
      /\ LearnsBoth(c, w, v, wi, t, "Observer")
  <2>1. /\ SlotAhead(c, w.stack) /\ v.stack = Moved(w.stack) /\ Extends(w, v)
        /\ Entered(v.info) = Entered(w.info) /\ t \in DOMAIN v.info /\ t \in c.objects
        /\ t = Target(c, Last(w.stack).at, Last(w.stack).slot)
        /\ LearnsBoth(c, w, v, wi, t, UseAhead(c, w.stack))
    BY MentionsExtends
  <2>. QED
    BY <2>1
<1>2. PICK y, x : y = InfoIdIn(r.info, id, "Observer") /\ x = s.info[id]
  OBVIOUS
<1>3. /\ LearnsOf(r, s, id)
      /\ x.ownership = y.ownership /\ x.ownerPtr = y.ownerPtr /\ x.sharedState = y.sharedState
      /\ IF y.ownerPtr = Null
           THEN s.heap = r.heap /\ x.observers = y.observers \union {<<a, b>>}
           ELSE x.observers = y.observers /\ Pointed(c, r.heap, s.heap, {<<a, b>>}, y.ownerPtr)
  BY <1>2, Zenon DEF ObserverEffect
<1>4. /\ y.ownership = v.info[t].ownership
      /\ t \in DOMAIN w.info =>
           /\ w.info[t].id = id /\ id \in DOMAIN r.info
           /\ y.ownerPtr = r.info[id].ownerPtr /\ y.sharedState = r.info[id].sharedState
           /\ y.observers = r.info[id].observers
      /\ t \notin Entered(w.info) => y.ownerPtr = Null /\ y.sharedState = Null
  <2>1. KnownAs(c, r, w, v, t, id, y)
    <3>1. PICK kind : kind = "Observer"
      OBVIOUS
    <3>2. LearnsBoth(c, w, v, wi, t, kind) /\ y = InfoIdIn(r.info, id, kind)
      BY <1>1, <1>2, <3>1, Zenon
    <3>. QED
      BY <3>2, KnownFound
  <2>. QED
    BY <2>1, Zenon DEF KnownAs
<1>5. t \in Entered(w.info) => t \in DOMAIN w.info /\ t # Root
  BY <1>1, Zenon DEF Entered, Given, Root
<1>6. t \in DOMAIN w.info => Agrees(c, r, w, t, r.info[id])
  BY <1>4, Zenon DEF Sync, Agreed
<1>7. PICK x0, i0 : x0 = Last(w.stack).at /\ i0 = Last(w.stack).slot
  OBVIOUS
<1>8. /\ r.place[x0] = a /\ i0 = b /\ x0 \in Entered(w.info)
      /\ HasSlot(c, x0, i0) /\ Use(c, x0, i0) = "Observer" /\ Target(c, x0, i0) = t
  BY <1>1, <1>7, AheadAlike, SMTT(30) DEF SlotAhead, UseAhead
<1>9. Ptr(c, r.heap, a, b)
  <2>1. \A z \in Entered(w.info) : \A i : HasSlot(c, z, i) => Ptr(c, r.heap, r.place[z], i)
    BY RootPlace DEF Sync, ReaderInv
  <2>. QED
    BY <1>8, <2>1
<1>10. PICK S, p : S = (IF y.ownerPtr = Null THEN {} ELSE {<<a, b>>}) /\ p = y.ownerPtr
  BY Zenon
<1>11. Pointed(c, r.heap, s.heap, S, p)
  <2>1. CASE y.ownerPtr = Null
    <3>1. s.heap = r.heap /\ S = {} /\ p = Null
      BY <1>3, <1>10, <2>1
    <3>. QED
      BY <3>1, Unpointed
  <2>2. CASE y.ownerPtr # Null
    <3>1. S = {<<a, b>>}
      BY <1>10, <2>2
    <3>. QED
      BY <1>3, <1>10, <2>2, <3>1
  <2>. QED
    BY <2>1, <2>2
<1>12. \A j \in DOMAIN r.heap : s.heap[j].value = r.heap[j].value
  BY <1>11 DEF Pointed
<1>13. \A o : OnStack(v.stack, o) <=> OnStack(w.stack, o)
  BY <1>1, <1>12, SyncMoved, Zenon
<1>14. Agrees(c, s, v, t, x)
  <2>1. t \notin Entered(v.info) => x.ownerPtr = Null /\ x.sharedState = Null
    BY <1>1, <1>3, <1>4, Zenon
  <2>2. ASSUME t \in Entered(v.info)
        PROVE  /\ x.ownerPtr \in {Null, s.place[t]} /\ x.sharedState \in {Null, s.place[t]}
               /\ ~OnStack(v.stack, t) => x.ownerPtr = s.place[t] /\ x.observers = {}
               /\ SharedOf(c, t) /\ (OnStack(v.stack, t) => ~(c.polymorphic /\ c.existing)) =>
                    x.sharedState = s.place[t]
    <3>1. t \in DOMAIN w.info /\ t \in Entered(w.info) /\ Agrees(c, r, w, t, r.info[id])
      BY <1>1, <1>5, <1>6, <2>2, Zenon
    <3>2. /\ y.ownerPtr \in {Null, r.place[t]} /\ y.sharedState \in {Null, r.place[t]}
          /\ ~OnStack(w.stack, t) => y.ownerPtr = r.place[t] /\ y.observers = {}
          /\ SharedOf(c, t) /\ (OnStack(w.stack, t) => ~(c.polymorphic /\ c.existing)) =>
               y.sharedState = r.place[t]
      BY <1>4, <3>1, Zenon DEF Agrees
    <3>3. r.place[t] # Null
      <4>1. r.place[t] \in DOMAIN r.heap /\ Null \notin DOMAIN r.heap
        BY <3>1 DEF Sync, Housed, ReaderInv, Heaped, Null
      <4>. QED
        BY <4>1
    <3>. QED
      BY <1>3, <1>13, <3>2, <3>3
  <2>. QED
    BY <1>3, <1>4, <2>1, <2>2 DEF Agrees
<1>15. Fits(c, s, v, x0, i0)
  <2>1. t # Null
    BY <1>1 DEF Given, Null
  <2>2. CASE y.ownerPtr = Null
    <3>1. <<s.place[x0], i0>> \in s.info[v.info[t].id].observers
      BY <1>2, <1>3, <1>8, <2>2, Zenon
    <3>. QED
      BY <1>1, <1>8, <2>1, <3>1, Zenon DEF Fits
  <2>3. CASE y.ownerPtr # Null
    <3>1. t \in Entered(w.info) /\ y.ownerPtr = r.place[t]
      <4>1. t \in Entered(w.info)
        BY <1>4, <2>3
      <4>. QED
        BY <1>4, <1>5, <1>6, <2>3, <4>1, Zenon DEF Agrees
    <3>2. s.heap[a].to[b] = r.place[t]
      BY <1>9, <1>10, <1>11, <2>3, <3>1 DEF Pointed
    <3>. QED
      BY <1>1, <1>8, <2>1, <3>1, <3>2, Zenon DEF Fits
  <2>. QED
    BY <2>2, <2>3
<1>16. \A j, i : <<j, i>> \in S => <<j, i>> = <<Last(r.stack).at, Last(r.stack).slot>>
  BY <1>10
<1>17. \A j, i : <<j, i>> \notin S /\ t \in DOMAIN w.info /\ <<j, i>> \in r.info[id].observers =>
                 <<j, i>> \in s.info[id].observers
  BY <1>2, <1>3, <1>4, Zenon
<1>18. /\ Fits(c, s, v, Last(w.stack).at, Last(w.stack).slot) /\ Agrees(c, s, v, t, s.info[id])
       /\ LearnsOf(r, s, id)
  BY <1>2, <1>3, <1>7, <1>14, <1>15, Zenon
<1>. QED
  BY <1>11, <1>16, <1>17, <1>18, SyncMentions, Zenon
LEMMA SyncKnown ==
  ASSUME NEW c, Given(c), NEW r, NEW wi, ReaderInv(c, r, wi), NEW w, WriterInv(c, w), Sync(c, r, w),
         NEW v, NEW t, MentionsBoth(c, w, v, wi, t), UseAhead(c, w.stack) # "Observer",
         NEW s, s.place = r.place, s.stack = Moved(r.stack), Evolves(c, r, s),
         NEW a, NEW b, a = Last(r.stack).at, b = Last(r.stack).slot,
         NEW id, id = v.info[t].id, KnownEffect(c, r, s, a, b, id),
         InfoIdIn(r.info, id, UseAhead(c, w.stack)).sharedState # Null
  PROVE  Sync(c, s, v)
<1>1. /\ SlotAhead(c, w.stack) /\ v.stack = Moved(w.stack) /\ Extends(w, v)
      /\ Entered(v.info) = Entered(w.info) /\ t \in DOMAIN v.info /\ t \in c.objects
      /\ t = Target(c, Last(w.stack).at, Last(w.stack).slot)
      /\ LearnsBoth(c, w, v, wi, t, UseAhead(c, w.stack))
  BY MentionsExtends
<1>2. PICK x0, i0 : x0 = Last(w.stack).at /\ i0 = Last(w.stack).slot
  OBVIOUS
<1>3. /\ r.place[x0] = a /\ i0 = b /\ x0 \in Entered(w.info) /\ Use(c, a, b) = UseAhead(c, w.stack)
      /\ HasSlot(c, x0, i0) /\ Target(c, x0, i0) = t
  BY <1>1, <1>2, AheadAlike, SMTT(30) DEF SlotAhead
<1>4. PICK kind, y, x : kind = UseAhead(c, w.stack) /\ y = InfoIdIn(r.info, id, kind) /\ x = s.info[id]
  OBVIOUS
<1>5. /\ LearnsOf(r, s, id)
      /\ x.ownership = y.ownership /\ x.ownerPtr = y.sharedState /\ x.sharedState = y.sharedState
      /\ x.observers = {} /\ y.sharedState # Null
      /\ Pointed(c, r.heap, s.heap, {<<a, b>>} \union y.observers, y.sharedState)
  BY <1>3, <1>4, Zenon DEF KnownEffect
<1>6. /\ y.ownership = v.info[t].ownership /\ About(c, r, t, y)
      /\ t \in DOMAIN w.info =>
           /\ w.info[t].id = id /\ id \in DOMAIN r.info
           /\ y.ownerPtr = r.info[id].ownerPtr /\ y.sharedState = r.info[id].sharedState
           /\ y.observers = r.info[id].observers
      /\ t \notin Entered(w.info) => y.ownerPtr = Null /\ y.sharedState = Null
  <2>1. KnownAs(c, r, w, v, t, id, y)
    <3>1. LearnsBoth(c, w, v, wi, t, kind) /\ y = InfoIdIn(r.info, id, kind)
      BY <1>1, <1>4, Zenon
    <3>. QED
      BY <3>1, KnownFound
  <2>. QED
    BY <2>1, Zenon DEF KnownAs
<1>7. t \in Entered(w.info) /\ t \in DOMAIN w.info
  BY <1>1, <1>5, <1>6, Zenon DEF Entered, Given, Root
<1>8. y.sharedState = r.place[t]
  <2>1. Agrees(c, r, w, t, r.info[id])
    BY <1>6, <1>7 DEF Sync, Agreed
  <2>. QED
    BY <1>5, <1>6, <1>7, <2>1, Zenon DEF Agrees
<1>9. PICK S, p : S = {<<a, b>>} \union y.observers /\ p = r.place[t]
  BY Zenon
<1>10. Pointed(c, r.heap, s.heap, S, p)
  BY <1>5, <1>8, <1>9
<1>11. Ptr(c, r.heap, a, b)
  <2>1. \A z \in Entered(w.info) : \A i : HasSlot(c, z, i) => Ptr(c, r.heap, r.place[z], i)
    BY RootPlace DEF Sync, ReaderInv
  <2>. QED
    BY <1>3, <2>1
<1>12. Agrees(c, s, v, t, x)
  BY <1>1, <1>5, <1>6, <1>7, <1>8, Zenon DEF Agrees
<1>13. Fits(c, s, v, x0, i0)
  <2>1. <<a, b>> \in S
    BY <1>9
  <2>2. s.heap[a].to[b] = r.place[t]
    BY <1>9, <1>10, <1>11, <2>1, Zenon DEF Pointed
  <2>3. t # Null
    BY <1>1 DEF Given, Null
  <2>. QED
    BY <1>1, <1>3, <1>7, <2>2, <2>3, Zenon DEF Fits
<1>14. ASSUME NEW j, NEW i, <<j, i>> \in S
       PROVE  \/ <<j, i>> = <<Last(r.stack).at, Last(r.stack).slot>>
              \/ t \in Entered(w.info) /\ p = r.place[t] /\ Target(c, r.of[j], i) = t
  <2>1. CASE <<j, i>> \in y.observers
    BY <1>6, <1>7, <1>9, <2>1 DEF About
  <2>2. CASE <<j, i>> = <<a, b>>
    BY <2>2
  <2>. QED
    BY <1>9, <1>14, <2>1, <2>2
<1>15. \A j, i : <<j, i>> \notin S /\ t \in DOMAIN w.info /\ <<j, i>> \in r.info[id].observers =>
                 <<j, i>> \in s.info[id].observers
  BY <1>6, <1>9, Zenon
<1>16. /\ Fits(c, s, v, Last(w.stack).at, Last(w.stack).slot) /\ Agrees(c, s, v, t, s.info[id])
  BY <1>2, <1>4, <1>12, <1>13
<1>. QED
  BY <1>5, <1>10, <1>14, <1>15, <1>16, SyncMentions, Zenon

\* What the other objects are known as does not depend on the frames of one.
LEMMA AgreesOther ==
  ASSUME NEW c, NEW r, NEW w, NEW v, NEW s, NEW o, o \in DOMAIN w.info, v.info[o] = w.info[o],
         o \in Entered(w.info) => o \in Entered(v.info) /\ s.place[o] = r.place[o],
         o \in Entered(v.info) => o \in Entered(w.info),
         OnStack(v.stack, o) <=> OnStack(w.stack, o),
         NEW x, Agrees(c, r, w, o, x)
  PROVE  Agrees(c, s, v, o, x)
  BY DEF Agrees
\* A stack that goes on to another object.
Deeper(st, su, x) ==
  /\ Len(su) = Len(st) + 1 /\ Len(st) \in Nat \ {0}
  /\ \A k \in 1 .. Len(st) : su[k].at = st[k].at /\ (k # Len(st) => su[k].slot = st[k].slot)
  /\ su[Len(st)].slot = st[Len(st)].slot + 1
  /\ su[Len(st) + 1].at = x /\ su[Len(st) + 1].slot = 1

\* Both enter the same object.
EntersBoth(c, w, v, wi, t) ==
  t = Ahead(c, w.stack) /\ Enters(c, w, v) /\ LearnsBoth(c, w, v, wi, t, UseAhead(c, w.stack))

LEMMA EntersExtends ==
  ASSUME NEW c, Given(c), NEW w, WriterInv(c, w), NEW v, NEW wi, NEW t, EntersBoth(c, w, v, wi, t)
  PROVE  /\ SlotAhead(c, w.stack) /\ Extends(w, v) /\ t \in c.objects /\ t # Null /\ t # Root
         /\ Entered(v.info) = Entered(w.info) \union {t} /\ t \notin Entered(w.info)
         /\ DOMAIN v.info = DOMAIN w.info \union {t}
         /\ \A o \in DOMAIN w.info : o # t => v.info[o] = w.info[o]
         /\ t = Target(c, Last(w.stack).at, Last(w.stack).slot) /\ UseAhead(c, w.stack) # "Observer"
         /\ UseAhead(c, w.stack) \in Uses
         /\ Deeper(w.stack, v.stack, t)
<1>1. /\ SlotAhead(c, w.stack) /\ t \in c.objects /\ t \notin Entered(w.info)
      /\ UseAhead(c, w.stack) # "Observer" /\ Learned(w.info, v.info, t, UseAhead(c, w.stack))
      /\ v.stack = Append(Moved(w.stack), [ at |-> t, slot |-> 1 ])
      /\ t = Target(c, Last(w.stack).at, Last(w.stack).slot) /\ UseAhead(c, w.stack) \in Uses
  BY Zenon DEF EntersBoth, Enters, LearnsBoth, Ahead
<1>2. Extends(w, v) /\ Entered(v.info) = Entered(w.info) \union {t}
      /\ DOMAIN v.info = DOMAIN w.info \union {t} /\ \A o \in DOMAIN w.info : o # t => v.info[o] = w.info[o]
  <2>1. /\ DOMAIN v.info = DOMAIN w.info \union {t} /\ \A q \in DOMAIN w.info : v.info[q].id = w.info[q].id
        /\ \A q \in DOMAIN w.info : q # t => v.info[q] = w.info[q]
        /\ Entered(v.info) = Entered(w.info) \union {t}
    BY <1>1, Zenon DEF Learned
  <2>. QED
    BY <2>1 DEF Extends
<1>3. t # Null /\ t # Root
  BY <1>1 DEF Given, Null, Root
<1>4. w.stack # << >> /\ w.stack \in Seq([ at : Things(c), slot : Nat \ {0} ])
  BY <1>1 DEF SlotAhead, WriterInv, Nested
<1>5. PICK n \in Nat \ {0} : n = Len(w.stack) /\ n \in 1 .. n
  BY <1>4, NotEmpty
<1>6. PICK m : m = Moved(w.stack)
  OBVIOUS
<1>7. /\ m \in Seq([ at : Things(c), slot : Nat \ {0} ]) /\ Len(m) = n
      /\ \A k \in 1 .. n : /\ m[k].at = w.stack[k].at /\ (k # n => m[k].slot = w.stack[k].slot)
      /\ m[n].slot = w.stack[n].slot + 1
  BY <1>4, <1>5, <1>6, MovedFrames, Zenon
<1>8. PICK f : f = [ at |-> t, slot |-> 1 ]
  BY Zenon
<1>9. f \in [ at : Things(c), slot : Nat \ {0} ] /\ f.at = t /\ f.slot = 1
  BY <1>1, <1>8 DEF Things
<1>10. Len(v.stack) = n + 1 /\ v.stack[n + 1] = f /\ \A k \in 1 .. n : v.stack[k] = m[k]
  BY <1>1, <1>6, <1>7, <1>8, <1>9, Pushed
<1>11. Deeper(w.stack, v.stack, t)
  BY <1>5, <1>7, <1>9, <1>10, Zenon DEF Deeper
<1>. QED
  BY <1>1, <1>2, <1>3, <1>11

Rehoused(r, s, w, t, p, x) ==
  /\ DOMAIN s.place = Entered(w.info) \union {t} /\ s.place[t] = p
  /\ p \in DOMAIN s.heap /\ s.of[p] = t /\ s.heap[p].value = x
  /\ \A o \in Entered(w.info) :
       /\ s.place[o] = r.place[o] /\ r.place[o] # p /\ r.place[o] \in DOMAIN r.heap
       /\ r.place[o] \in DOMAIN s.heap /\ s.of[r.place[o]] = o /\ r.of[r.place[o]] = o
       /\ s.heap[r.place[o]].value = r.heap[r.place[o]].value

\* The object that is entered is another one than those that were.
LEMMA EntersPlace ==
  ASSUME NEW c, Given(c), NEW r, NEW wi, ReaderInv(c, r, wi), NEW w, WriterInv(c, w), Sync(c, r, w),
         NEW t, t \notin Entered(w.info), NEW s, NEW p, NEW id, NEW x, EntersObject(c, r, s, p, t, id, x),
         s.place = [ o \in DOMAIN r.place \union {t} |-> IF o = t THEN p ELSE r.place[o] ]
  PROVE  Rehoused(r, s, w, t, p, x)
<1>1. /\ DOMAIN r.place = Entered(w.info)
      /\ \A o \in Entered(w.info) : r.place[o] \in DOMAIN r.heap /\ r.of[r.place[o]] = o
  BY DEF Sync, Housed
<1>2. p \in DOMAIN r.heap => r.of[p] = Null
  BY EntersLinks DEF ReaderInv
<1>3. Null \notin Entered(w.info)
  BY DEF WriterInv, Numbered, Given, Entered, Null, Root
<1>4. /\ DOMAIN s.heap = DOMAIN r.heap \union {p} /\ s.heap[p].value = x
      /\ \A j \in DOMAIN r.heap : j # p => s.heap[j].value = r.heap[j].value
      /\ s.of = [ j \in DOMAIN r.heap \union {p} |-> IF j = p THEN t ELSE r.of[j] ]
  BY Zenon DEF EntersObject
<1>5. \A o \in Entered(w.info) : r.place[o] # p /\ o # t
  BY <1>1, <1>2, <1>3
<1>. QED
  BY <1>1, <1>4, <1>5 DEF Rehoused

LEMMA EntersStack ==
  ASSUME NEW c, NEW r, NEW wi, Framed(c, r, wi), r.stack # << >>, NEW p \in Nat, NEW id \in Nat,
         NEW s, s.stack = Push(r.stack, p, id)
  PROVE  Deeper(r.stack, s.stack, p)
<1>1. PICK n \in Nat \ {0} : n = Len(r.stack) /\ n \in 1 .. n /\ Last(r.stack) = r.stack[n]
  BY ReaderTop
<1>2. PICK m : m = Moved(r.stack)
  OBVIOUS
<1>3. /\ \A k \in 1 .. n : /\ m[k].at = r.stack[k].at /\ (k # n => m[k].slot = r.stack[k].slot)
      /\ m[n].slot = r.stack[n].slot + 1
  BY <1>1, <1>2, MovedStack
<1>4. PICK u : u = s.stack
  OBVIOUS
<1>5. Len(u) = n + 1 /\ (\A k \in 1 .. n : u[k] = m[k]) /\ u[n + 1].at = p /\ u[n + 1].slot = 1
  BY <1>1, <1>2, <1>4, PushedStack, SMTT(30)
<1>. QED
  BY <1>1, <1>3, <1>4, <1>5, Zenon DEF Deeper

LEMMA OnDeeper ==
  ASSUME NEW st, NEW su, NEW t, Deeper(st, su, t)
  PROVE  \A o : OnStack(su, o) <=> OnStack(st, o) \/ o = t
<1>1. PICK n \in Nat \ {0} : n = Len(st)
  BY DEF Deeper
<1>2. Len(su) = n + 1 /\ su[n + 1].at = t /\ \A k \in 1 .. n : su[k].at = st[k].at
  BY <1>1 DEF Deeper
<1>3. \A k \in 1 .. n + 1 : k \in 1 .. n \/ k = n + 1
  OBVIOUS
<1>4. n + 1 \in 1 .. n + 1 /\ \A k \in 1 .. n : k \in 1 .. n + 1
  OBVIOUS
<1>. QED
  BY <1>1, <1>2, <1>3, <1>4 DEF OnStack

LEMMA StackedDeeper ==
  ASSUME NEW c, NEW r, NEW w, Stacked(r, w), Covered(c, w), NEW s, NEW v, NEW t, NEW p, NEW x,
         Deeper(w.stack, v.stack, t), Deeper(r.stack, s.stack, p), Rehoused(r, s, w, t, p, x)
  PROVE  Stacked(s, v)
<1>1. PICK n \in Nat \ {0} : n = Len(w.stack) /\ n = Len(r.stack) /\ n \in 1 .. n
  BY DEF Stacked, Deeper
<1>2. /\ Len(s.stack) = n + 1 /\ s.stack[n + 1].at = p /\ s.stack[n + 1].slot = 1
      /\ \A k \in 1 .. n : s.stack[k].at = r.stack[k].at /\ (k # n => s.stack[k].slot = r.stack[k].slot)
      /\ s.stack[n].slot = r.stack[n].slot + 1
  BY <1>1 DEF Deeper
<1>3. /\ Len(v.stack) = n + 1 /\ v.stack[n + 1].at = t /\ v.stack[n + 1].slot = 1
      /\ \A k \in 1 .. n : v.stack[k].at = w.stack[k].at /\ (k # n => v.stack[k].slot = w.stack[k].slot)
      /\ v.stack[n].slot = w.stack[n].slot + 1
  BY <1>1 DEF Deeper
<1>4. s.place[t] = p /\ \A o \in Entered(w.info) : s.place[o] = r.place[o]
  BY DEF Rehoused
<1>5. ASSUME NEW k \in 1 .. n
      PROVE  s.stack[k].at = s.place[v.stack[k].at] /\ s.stack[k].slot = v.stack[k].slot
  <2>1. w.stack[k].at \in Entered(w.info) /\ r.stack[k].at = r.place[w.stack[k].at]
        /\ r.stack[k].slot = w.stack[k].slot
    BY <1>1 DEF Covered, Stacked
  <2>. QED
    BY <1>1, <1>2, <1>3, <1>4, <2>1, Zenon
<1>6. \A k \in 1 .. n + 1 : k \in 1 .. n \/ k = n + 1
  OBVIOUS
<1>. QED
  BY <1>2, <1>3, <1>4, <1>5, <1>6, Zenon DEF Stacked

LEMMA EntersPointers ==
  ASSUME NEW c, NEW r, NEW s, NEW p, NEW t, NEW id, NEW x, EntersObject(c, r, s, p, t, id, x)
  PROVE  /\ \A j, i : Ptr(c, r.heap, j, i) /\ j # p =>
              s.heap[j].to[i] = IF j = Last(r.stack).at /\ i = Last(r.stack).slot THEN p ELSE r.heap[j].to[i]
         /\ p \in Nat /\ id \in Nat /\ s.stack = Push(r.stack, p, id)
  BY Zenon DEF EntersObject

LEMMA SyncEnters ==
  ASSUME NEW c, Given(c), NEW r, NEW wi, ReaderInv(c, r, wi), NEW w, WriterInv(c, w), Sync(c, r, w),
         NEW v, NEW t, EntersBoth(c, w, v, wi, t), NEW s, Evolves(c, r, s),
         NEW a, NEW b, a = Last(r.stack).at, b = Last(r.stack).slot,
         NEW id, id = v.info[t].id, NEW p, EnterEffect(c, r, s, a, b, id, t, p), Token(pos + 2) = ValueOf(t)
  PROVE  Sync(c, s, v)
<1>1. /\ SlotAhead(c, w.stack) /\ Extends(w, v) /\ t \in c.objects /\ t # Null /\ t # Root
      /\ Entered(v.info) = Entered(w.info) \union {t} /\ t \notin Entered(w.info)
      /\ DOMAIN v.info = DOMAIN w.info \union {t}
      /\ \A o \in DOMAIN w.info : o # t => v.info[o] = w.info[o]
      /\ t = Target(c, Last(w.stack).at, Last(w.stack).slot) /\ UseAhead(c, w.stack) # "Observer"
      /\ UseAhead(c, w.stack) \in Uses
      /\ Deeper(w.stack, v.stack, t)
  BY EntersExtends
<1>2. PICK kind, y, x : kind = UseAhead(c, w.stack) /\ y = InfoIdIn(r.info, id, kind) /\ x = s.info[id]
  OBVIOUS
<1>3. LearnsBoth(c, w, v, wi, t, kind) /\ Enters(c, w, v)
  BY <1>2 DEF EntersBoth
<1>4. PICK x0, i0 : x0 = Last(w.stack).at /\ i0 = Last(w.stack).slot
  OBVIOUS
<1>5. /\ r.place[x0] = a /\ i0 = b /\ x0 \in Entered(w.info) /\ Use(c, a, b) = kind
      /\ HasSlot(c, x0, i0) /\ Target(c, x0, i0) = t /\ Use(c, x0, i0) = kind /\ r.stack # << >>
  <2>1. w.stack # << >> /\ HasSlot(c, x0, i0) /\ Use(c, x0, i0) = kind
    BY <1>1, <1>2, <1>4, Zenon DEF SlotAhead, UseAhead
  <2>2. /\ r.stack # << >>
        /\ Last(w.stack).at \in Entered(w.info) /\ Last(r.stack).at = r.place[Last(w.stack).at]
        /\ Last(r.stack).slot = Last(w.stack).slot
        /\ Use(c, Last(r.stack).at, Last(r.stack).slot) = UseAhead(c, w.stack)
    BY <2>1, AheadAlike
  <2>. QED
    BY <1>1, <1>2, <1>4, <2>1, <2>2, Zenon
<1>6. /\ LearnsOf(r, s, id) /\ EntersObject(c, r, s, p, t, id, ValueOf(t))
      /\ s.place = [ o \in DOMAIN r.place \union {t} |-> IF o = t THEN p ELSE r.place[o] ]
      /\ x.ownership = y.ownership /\ x.ownerPtr = Null /\ x.observers = y.observers
      /\ x.sharedState \in {Null, p}
      /\ IsShared(kind) /\ ~(c.polymorphic /\ c.existing) => x.sharedState = p
  BY <1>2, <1>5, Zenon DEF EnterEffect
<1>7. /\ y.ownership = v.info[t].ownership
      /\ t \in DOMAIN w.info => w.info[t].id = id /\ y.observers = r.info[id].observers
  <2>1. KnownAs(c, r, w, v, t, id, y)
    BY <1>2, <1>3, KnownFound
  <2>. QED
    BY <2>1 DEF KnownAs
<1>19. Rehoused(r, s, w, t, p, ValueOf(t))
  BY <1>1, <1>6, EntersPlace, SMTT(30)
<1>8. /\ DOMAIN s.place = Entered(w.info) \union {t} /\ s.place[t] = p
      /\ p \in DOMAIN s.heap /\ s.of[p] = t /\ s.heap[p].value = ValueOf(t)
      /\ \A o \in Entered(w.info) :
           /\ s.place[o] = r.place[o] /\ r.place[o] # p /\ r.place[o] \in DOMAIN r.heap
           /\ r.place[o] \in DOMAIN s.heap /\ s.of[r.place[o]] = o /\ r.of[r.place[o]] = o
           /\ s.heap[r.place[o]].value = r.heap[r.place[o]].value
  BY <1>19 DEF Rehoused
<1>9. Housed(c, s, v)
  <2>1. \A o \in Entered(w.info) : o # Root => r.heap[r.place[o]].value = ValueOf(o)
    BY DEF Sync, Housed
  <2>. QED
    BY <1>1, <1>8, <2>1, SMTT(30) DEF Housed
<1>10. EntersObject(c, r, s, p, t, id, ValueOf(t))
  BY <1>6
<1>11. p \in Nat /\ id \in Nat /\ s.stack = Push(r.stack, p, id)
  BY <1>10, EntersPointers
<1>12. Deeper(r.stack, s.stack, p)
  BY <1>5, <1>11, EntersStack DEF ReaderInv
<1>13. Stacked(s, v)
  <2>1. Stacked(r, w) /\ Covered(c, w) /\ Deeper(w.stack, v.stack, t)
    BY <1>1, Zenon DEF Sync, WriterInv
  <2>. QED
    BY <1>12, <1>19, <2>1, StackedDeeper
<1>20. \A o : OnStack(v.stack, o) <=> OnStack(w.stack, o) \/ o = t
  BY <1>1, OnDeeper
<1>14. Agreed(c, r, w) /\ Rebuilt(c, r, w)
  BY DEF Sync
<1>15. Agreed(c, s, v)
  <2>1. ASSUME NEW o \in DOMAIN w.info, NEW z, o # t, Agrees(c, r, w, o, z) PROVE Agrees(c, s, v, o, z)
    BY <1>1, <1>8, <1>20, <2>1, AgreesOther, Zenon
  <2>2. SharedOf(c, t) => IsShared(kind)
    <3>1. x0 \in Things(c) /\ Holding(c, x0, i0)
      BY <1>1, <1>2, <1>4, <1>5, ThingsAhead, Zenon DEF WriterInv, Holding
    <3>. QED
      BY <1>1, <1>5, <3>1, HeldAlike
  <2>3. OnStack(v.stack, t)
    BY <1>20
  <2>4. Agrees(c, s, v, t, x)
    BY <1>1, <1>6, <1>7, <1>8, <2>2, <2>3, Zenon DEF Agrees
  <2>. QED
    BY <1>2, <1>3, <1>6, <1>14, <2>1, <2>4, AgreedNext, SMTT(30)
<1>16. \A q \in DOMAIN w.info : q # t => s.info[w.info[q].id] = r.info[w.info[q].id]
  BY <1>3, <1>6, <1>14, OthersKept
<1>17. \A j, i : Ptr(c, r.heap, j, i) /\ j # p =>
         s.heap[j].to[i] = IF j = a /\ i = b THEN p ELSE r.heap[j].to[i]
  BY <1>10, EntersPointers
<1>18. ASSUME NEW z, NEW i, Passed(c, v, z, i) PROVE Fits(c, s, v, z, i)
  <2>1. Passed(c, w, z, i) \/ (z = x0 /\ i = i0)
    BY <1>3, <1>4, <1>18, PassedEntered
  <2>2. CASE z = x0 /\ i = i0
    <3>1. Ptr(c, r.heap, a, b) /\ a # p
      <4>1. \A u \in Entered(w.info) : \A l : HasSlot(c, u, l) => Ptr(c, r.heap, r.place[u], l)
        BY RootPlace DEF Sync, ReaderInv
      <4>. QED
        BY <1>5, <1>8, <4>1
    <3>2. s.heap[a].to[b] = s.place[t] /\ s.place[x0] = a
      BY <1>5, <1>8, <1>17, <3>1, Zenon
    <3>. QED
      BY <1>1, <1>5, <2>2, <3>2, Zenon DEF Fits
  <2>3. CASE Passed(c, w, z, i)
    <3>1. /\ <<r.place[z], i>> # <<a, b>> /\ z \in Entered(w.info) /\ Ptr(c, r.heap, r.place[z], i)
      BY <1>1, <2>3, OtherSlots
    <3>2. s.heap[r.place[z]].to[i] = r.heap[r.place[z]].to[i] /\ s.place[z] = r.place[z]
      BY <1>8, <1>17, <3>1
    <3>3. \A q \in DOMAIN w.info : <<r.place[z], i>> \in r.info[w.info[q].id].observers =>
                                   <<r.place[z], i>> \in s.info[w.info[q].id].observers
      BY <1>2, <1>6, <1>7, <1>16, Zenon
    <3>4. Fits(c, r, w, z, i)
      BY <1>14, <2>3 DEF Rebuilt
    <3>. QED
      BY <1>1, <1>8, <3>2, <3>3, <3>4, FitsSame, Zenon
  <2>. QED
    BY <2>1, <2>2, <2>3
<1>. QED
  BY <1>9, <1>13, <1>15, <1>18 DEF Sync, Rebuilt
\* wi has what w knows.
Knows(w, wi) == \A o \in DOMAIN w.info : o \in DOMAIN wi /\ wi[o].id = w.info[o].id

\* The top of the stacks.
TopsAlike(c, r, w, n, o) ==
  /\ n = Len(r.stack) /\ r.stack # << >> /\ Last(r.stack) = r.stack[n]
  /\ o \in Entered(w.info) /\ o \in DOMAIN w.info /\ o # Root /\ o # Null
  /\ r.stack[n].at = r.place[o] /\ r.stack[n].id = w.info[o].id /\ r.of[r.place[o]] = o
  /\ w.info[o].id \in DOMAIN r.info
  /\ Use(c, r.stack[n - 1].at, r.stack[n - 1].slot - 1)
       = Use(c, w.stack[n - 1].at, w.stack[n - 1].slot - 1)
  /\ w.stack[n - 1].at \in Things(c)
  /\ Holding(c, w.stack[n - 1].at, w.stack[n - 1].slot - 1)
  /\ Target(c, w.stack[n - 1].at, w.stack[n - 1].slot - 1) = o

LEMMA TopAlike ==
  ASSUME NEW c, Given(c), NEW r, NEW wi, ReaderInv(c, r, wi), NEW w, WriterInv(c, w), Sync(c, r, w),
         Knows(w, wi), NEW n \in Nat, n > 1, n = Len(w.stack), NEW o, o = w.stack[n].at
  PROVE  TopsAlike(c, r, w, n, o)
<1>1. n \in 1 .. n /\ n - 1 \in 1 .. n /\ n \in 2 .. n /\ n - 1 \in 1 .. n - 1 /\ 1 \in 1 .. n
  OBVIOUS
<1>2. /\ n = Len(r.stack) /\ r.stack[n].at = r.place[o]
      /\ r.stack[n - 1].at = r.place[w.stack[n - 1].at] /\ r.stack[n - 1].slot = w.stack[n - 1].slot
  BY <1>1 DEF Sync, Stacked
<1>3. r.stack # << >> /\ Last(r.stack) = r.stack[n]
  <2>1. r.stack # << >>
    BY <1>2
  <2>. QED
    BY <1>2, <2>1, ReaderTop, Zenon DEF ReaderInv
<1>4. /\ o \in Entered(w.info) /\ w.stack[n - 1].at \in Entered(w.info)
      /\ w.stack[n - 1].at \in Things(c)
  <2>1. w.stack[n - 1].at \in Things(c)
    BY <1>1, NestedFrame, Zenon DEF WriterInv
  <2>. QED
    BY <1>1, <2>1, Zenon DEF WriterInv, Covered
<1>5. /\ Holding(c, w.stack[n - 1].at, w.stack[n - 1].slot - 1)
      /\ Target(c, w.stack[n - 1].at, w.stack[n - 1].slot - 1) = o
  <2>1. (n - 1) + 1 = n
    OBVIOUS
  <2>. QED
    BY <1>1, <2>1, Zenon DEF WriterInv, Nested
<1>6. o # Root
  <2>1. w.stack # << >>
    BY <1>1
  <2>2. w.stack[1].at = Root /\ \A j, k \in 1 .. n : w.stack[j].at = w.stack[k].at => j = k
    BY <2>1 DEF WriterInv, Nested
  <2>. QED
    BY <1>1, <2>2
<1>7. o \in DOMAIN w.info /\ o # Null
  BY <1>4, <1>6, SMTT(30) DEF Entered, WriterInv, Numbered, Given, Null
<1>8. r.of[r.place[o]] = o
  BY <1>4 DEF Sync, Housed
<1>9. r.stack[n].id = w.info[o].id
  <2>1. r.of[r.stack[n].at] \in DOMAIN wi /\ wi[r.of[r.stack[n].at]].id = r.stack[n].id
    BY <1>1, <1>2, Zenon DEF ReaderInv, Framed
  <2>. QED
    BY <1>2, <1>7, <1>8, <2>1, Zenon DEF Knows
<1>10. w.info[o].id \in DOMAIN r.info
  BY <1>7 DEF Sync, Agreed
<1>11. Use(c, r.stack[n - 1].at, r.stack[n - 1].slot - 1)
         = Use(c, w.stack[n - 1].at, w.stack[n - 1].slot - 1)
  <2>1. \A x \in Entered(w.info) : Shape(c, r.place[x]) = Shape(c, x)
    BY RootPlace, Zenon DEF ReaderInv, Sync
  <2>. QED
    BY <1>2, <1>4, <2>1, Zenon DEF Use
<1>. QED
  BY <1>2, <1>3, <1>4, <1>5, <1>6, <1>7, <1>8, <1>9, <1>10, <1>11, Zenon DEF TopsAlike

\* Both leave an object.
BothLeft(c, s, w, v, o0) ==
  /\ Housed(c, s, v) /\ Stacked(s, v) /\ v.info = w.info
  /\ \A o : OnStack(v.stack, o) <=> OnStack(w.stack, o) /\ o # o0

LEMMA ReturnAlike ==
  ASSUME NEW c, Given(c), NEW r, NEW wi, ReaderInv(c, r, wi), NEW w, WriterInv(c, w), Sync(c, r, w),
         NEW v, ReturnStep(c, w, v), NEW s, s.place = r.place, s.of = r.of, s.stack = Front(r.stack),
         DOMAIN s.heap = DOMAIN r.heap, \A j \in DOMAIN r.heap : s.heap[j].value = r.heap[j].value
  PROVE  BothLeft(c, s, w, v, w.stack[Len(w.stack)].at)
<1>1. w.stack # << >> /\ v.info = w.info /\ v.stack = Front(w.stack)
  BY DEF ReturnStep, NoneAhead
<1>2. PICK n \in Nat \ {0} : n = Len(w.stack) /\ n \in 1 .. n
  BY <1>1, NotEmpty DEF WriterInv, Nested
<1>3. Len(v.stack) = n - 1 /\ \A k \in 1 .. n - 1 : v.stack[k] = w.stack[k]
  <2>1. w.stack \in Seq([ at : Things(c), slot : Nat \ {0} ])
    BY DEF WriterInv, Nested
  <2>2. Len(Front(w.stack)) = n - 1 /\ \A k \in 1 .. n - 1 : Front(w.stack)[k] = w.stack[k]
    BY <1>1, <1>2, <2>1, FrontFrames, Zenon
  <2>. QED
    BY <1>1, <2>2
<1>4. Len(r.stack) = n /\ r.stack # << >>
  BY <1>2 DEF Sync, Stacked
<1>5. Len(s.stack) = n - 1 /\ \A k \in 1 .. n - 1 : s.stack[k] = r.stack[k]
  <2>1. r.stack \in Seq(ReaderFrames)
    BY Zenon DEF ReaderInv, Framed
  <2>2. Len(Front(r.stack)) = n - 1 /\ \A k \in 1 .. n - 1 : Front(r.stack)[k] = r.stack[k]
    BY <1>4, <2>1, FrontFrames, Zenon
  <2>. QED
    BY <2>2
<1>6. \A k \in 1 .. n - 1 : k \in 1 .. n /\ k # n
  OBVIOUS
<1>7. \A k \in 1 .. n : k \in 1 .. n - 1 \/ k = n
  OBVIOUS
<1>8. Stacked(s, v)
  <2>1. \A k \in 1 .. n : r.stack[k].at = r.place[w.stack[k].at] /\ r.stack[k].slot = w.stack[k].slot
    BY <1>2 DEF Sync, Stacked
  <2>. QED
    BY <1>3, <1>5, <1>6, <2>1 DEF Stacked
<1>9. ASSUME NEW o PROVE OnStack(v.stack, o) <=> OnStack(w.stack, o) /\ o # w.stack[n].at
  <2>1. \A j, k \in 1 .. n : w.stack[j].at = w.stack[k].at => j = k
    BY <1>2 DEF WriterInv, Nested
  <2>2. OnStack(v.stack, o) <=> \E k \in 1 .. n - 1 : w.stack[k].at = o
    BY <1>3 DEF OnStack
  <2>3. OnStack(w.stack, o) <=> \E k \in 1 .. n : w.stack[k].at = o
    BY <1>2 DEF OnStack
  <2>. QED
    BY <1>2, <1>6, <1>7, <2>1, <2>2, <2>3, Zenon
<1>10. Housed(c, s, v)
  BY <1>1 DEF Sync, Housed
<1>. QED
  BY <1>1, <1>2, <1>8, <1>9, <1>10 DEF BothLeft

LEMMA LinkPointed ==
  ASSUME NEW c, NEW r, NEW s, NEW at, NEW id, NEW shared, LinkEffect(c, r, s, at, id, shared)
  PROVE  \E S : /\ Pointed(c, r.heap, s.heap, S, at)
                /\ r.info[id].observers \subseteq S
                /\ \A j, i : <<j, i>> \in S => Target(c, r.of[j], i) = r.of[at]
  BY DEF LinkEffect

LEMMA SyncReturn ==
  ASSUME NEW c, Given(c), NEW r, NEW wi, ReaderInv(c, r, wi), NEW w, WriterInv(c, w), Sync(c, r, w),
         Knows(w, wi), NEW v, ReturnStep(c, w, v),
         NEW s, s.place = r.place, s.of = r.of, s.stack = Front(r.stack), ReturnEffect(c, r, s)
  PROVE  Sync(c, s, v)
<1>1. w.stack # << >>
  BY DEF ReturnStep, NoneAhead
<1>2. PICK n \in Nat \ {0} : n = Len(w.stack) /\ n \in 1 .. n /\ n = Len(r.stack)
  <2>1. \E n \in Nat \ {0} : n = Len(w.stack) /\ n \in 1 .. n
    BY <1>1, NotEmpty DEF WriterInv, Nested
  <2>. QED
    BY <2>1 DEF Sync, Stacked
<1>3. PICK o0 : o0 = w.stack[n].at
  OBVIOUS
<1>4. Agreed(c, r, w) /\ Rebuilt(c, r, w) /\ Knows(w, w.info)
  BY DEF Sync, Knows
<1>5. \A x, i : Passed(c, v, x, i) <=> Passed(c, w, x, i)
  BY PassedReturned
<1>6. CASE n = 1
  <2>1. s.heap = r.heap /\ s.info = r.info
    BY <1>2, <1>6 DEF ReturnEffect
  <2>2. /\ Housed(c, s, v) /\ Stacked(s, v) /\ v.info = w.info
        /\ \A o : OnStack(v.stack, o) <=> OnStack(w.stack, o) /\ o # o0
    <3>1. BothLeft(c, s, w, v, o0)
      BY <1>2, <1>3, <2>1, ReturnAlike, Zenon
    <3>. QED
      BY <3>1 DEF BothLeft
  <2>3. o0 = Root
    BY <1>1, <1>3, <1>6 DEF WriterInv, Nested
  <2>4. Root \notin DOMAIN w.info
    BY DEF WriterInv, Numbered, Given, Root
  <2>5. ASSUME NEW o \in DOMAIN w.info, NEW x, Agrees(c, r, w, o, x) PROVE Agrees(c, s, v, o, x)
    BY <2>2, <2>3, <2>4, <2>5, AgreesOther
  <2>6. Agreed(c, s, v)
    BY <1>4, <2>1, <2>2, <2>5 DEF Agreed
  <2>7. Extends(w, v)
    BY <2>2 DEF Extends
  <2>8. ASSUME NEW x, NEW i, Passed(c, v, x, i) PROVE Fits(c, s, v, x, i)
    <3>1. Fits(c, r, w, x, i)
      BY <1>4, <1>5, <2>8 DEF Rebuilt
    <3>. QED
      BY <2>1, <2>7, <3>1, FitsSame, Zenon
  <2>. QED
    BY <2>2, <2>6, <2>8 DEF Sync, Rebuilt
<1>7. CASE n > 1
  <2>1. PICK at, id, y, x : at = r.place[o0] /\ id = w.info[o0].id /\ y = r.info[id] /\ x = s.info[id]
    OBVIOUS
  <2>2. PICK a, b : a = w.stack[n - 1].at /\ b = w.stack[n - 1].slot - 1
    BY Zenon
  <2>3. /\ r.stack # << >> /\ Last(r.stack) = r.stack[n]
        /\ o0 \in Entered(w.info) /\ o0 \in DOMAIN w.info /\ o0 # Root /\ o0 # Null
        /\ r.stack[n].at = at /\ r.stack[n].id = id /\ r.of[at] = o0 /\ id \in DOMAIN r.info
        /\ Use(c, r.stack[n - 1].at, r.stack[n - 1].slot - 1) = Use(c, a, b)
        /\ a \in Things(c) /\ Holding(c, a, b) /\ Target(c, a, b) = o0
    <3>1. TopsAlike(c, r, w, n, o0)
      BY <1>2, <1>3, <1>7, TopAlike, Zenon
    <3>. QED
      BY <2>1, <2>2, <3>1, Zenon DEF TopsAlike
  <2>4. LinkEffect(c, r, s, at, id, IsShared(Use(c, a, b)))
    BY <1>2, <1>7, <2>3 DEF ReturnEffect
  <2>5. /\ LearnsOf(r, s, id)
        /\ x.ownership = y.ownership /\ x.ownerPtr = at /\ x.observers = {}
        /\ x.sharedState = IF IsShared(Use(c, a, b)) THEN at ELSE y.sharedState
    BY <2>1, <2>4, Zenon DEF LinkEffect
  <2>6. PICK S : /\ Pointed(c, r.heap, s.heap, S, at)
                 /\ y.observers \subseteq S
                 /\ \A j, i : <<j, i>> \in S => Target(c, r.of[j], i) = o0
    BY <2>1, <2>3, <2>4, LinkPointed
  <2>7. DOMAIN s.heap = DOMAIN r.heap /\ \A j \in DOMAIN r.heap : s.heap[j].value = r.heap[j].value
    BY <2>6 DEF Pointed
  <2>8. /\ Housed(c, s, v) /\ Stacked(s, v) /\ v.info = w.info
        /\ \A o : OnStack(v.stack, o) <=> OnStack(w.stack, o) /\ o # o0
    <3>1. BothLeft(c, s, w, v, o0)
      BY <1>2, <1>3, <2>7, ReturnAlike, Zenon
    <3>. QED
      BY <3>1 DEF BothLeft
  <2>9. DOMAIN s.info = DOMAIN r.info /\ \A i \in DOMAIN r.info : i # id => s.info[i] = r.info[i]
    BY <2>3, <2>5 DEF LearnsOf
  <2>10. \A o \in DOMAIN w.info : o # o0 => w.info[o].id \in DOMAIN r.info /\ w.info[o].id # id
    BY <1>4, <2>1, <2>3 DEF WriterInv, Numbered, Agreed
  <2>11. Agrees(c, s, v, o0, x)
    <3>1. Agrees(c, r, w, o0, y)
      BY <1>4, <2>1, <2>3 DEF Agreed
    <3>2. SharedOf(c, o0) => IsShared(Use(c, a, b))
      BY <2>3, HeldAlike
    <3>3. y.ownership = w.info[o0].ownership /\ y.sharedState \in {Null, at}
      BY <2>1, <2>3, <3>1, Zenon DEF Agrees
    <3>4. x.sharedState \in {Null, at} /\ (SharedOf(c, o0) => x.sharedState = at)
      BY <2>5, <3>2, <3>3
    <3>5. s.place[o0] = at /\ o0 \in Entered(v.info)
      BY <2>1, <2>3, <2>8
    <3>. QED
      BY <2>5, <2>8, <3>3, <3>4, <3>5 DEF Agrees
  <2>12. ASSUME NEW o \in DOMAIN w.info, o # o0, NEW z, Agrees(c, r, w, o, z) PROVE Agrees(c, s, v, o, z)
    BY <2>8, <2>12, AgreesOther
  <2>13. Agreed(c, s, v)
    <3>1. ASSUME NEW o \in DOMAIN w.info
          PROVE  w.info[o].id \in DOMAIN s.info /\ Agrees(c, s, v, o, s.info[w.info[o].id])
      <4>1. CASE o = o0
        BY <2>1, <2>3, <2>9, <2>11, <4>1
      <4>2. CASE o # o0
        <5>1. Agrees(c, r, w, o, r.info[w.info[o].id])
          BY <1>4 DEF Agreed
        <5>2. s.info[w.info[o].id] = r.info[w.info[o].id] /\ w.info[o].id \in DOMAIN s.info
          BY <2>9, <2>10, <4>2
        <5>. QED
          BY <2>12, <4>2, <5>1, <5>2
      <4>. QED
        BY <4>1, <4>2
    <3>. QED
      BY <1>4, <2>8, <2>9, <3>1 DEF Agreed
  <2>14. Extends(w, v)
    BY <2>8 DEF Extends
  <2>15. ASSUME NEW z, NEW i, Passed(c, v, z, i) PROVE Fits(c, s, v, z, i)
    <3>1. Passed(c, w, z, i)
      BY <1>5, <2>15
    <3>2. Fits(c, r, w, z, i)
      BY <1>4, <3>1 DEF Rebuilt
    <3>3. z \in Entered(w.info) /\ HasSlot(c, z, i) /\ r.of[r.place[z]] = z
      BY <3>1 DEF Passed, Sync, Housed
    <3>4. Ptr(c, r.heap, r.place[z], i)
      BY <3>3, RootPlace DEF ReaderInv, Sync
    <3>5. <<r.place[z], i>> \in S => /\ Target(c, z, i) # Null /\ Target(c, z, i) \in Entered(v.info)
                                     /\ at = r.place[Target(c, z, i)]
      BY <2>1, <2>3, <2>6, <2>8, <3>3, Zenon
    <3>6. <<r.place[z], i>> \notin S =>
            \A q \in DOMAIN w.info : <<r.place[z], i>> \in r.info[w.info[q].id].observers =>
                                     <<r.place[z], i>> \in s.info[w.info[q].id].observers
      BY <2>1, <2>6, <2>9, <2>10, Zenon
    <3>. QED
      BY <2>6, <2>14, <3>2, <3>4, <3>5, <3>6, FitsPointed, Zenon
  <2>. QED
    BY <2>8, <2>13, <2>15 DEF Sync, Rebuilt
<1>8. n = 1 \/ n > 1
  OBVIOUS
<1>. QED
  BY <1>6, <1>7, <1>8
-----------------------------------------------------------------------------
\* A shared pointer to an object that was entered finds it.
LEMMA NoneInProgress ==
  ASSUME NEW c, Given(c), NoCycles(c), NEW st, Nested(c, st), SlotAhead(c, st), UseAhead(c, st) # "Observer"
  PROVE  ~OnStack(st, Ahead(c, st))
<1>. SUFFICES ASSUME OnStack(st, Ahead(c, st)) PROVE FALSE
  OBVIOUS
<1>1. PICK n \in Nat \ {0} : /\ n = Len(st) /\ Last(st) = st[n]
                             /\ HasSlot(c, Last(st).at, Last(st).slot)
  BY ThingsAhead
<1>2. PICK k \in 1 .. n : st[k].at = Ahead(c, st)
  BY <1>1 DEF OnStack
<1>3. PICK m \in Nat \ {0} : m = n - k + 1
  OBVIOUS
<1>4. PICK q : q = [ j \in 1 .. m |-> st[k + j - 1].at ]
  BY Zenon
<1>5. \A j \in 1 .. m : k + j - 1 \in 1 .. n /\ q[j] = st[k + j - 1].at
  BY <1>3, <1>4
<1>6. \A j \in 1 .. m : q[j] \in Things(c)
  <2>1. \A j \in 1 .. n : st[j].at \in Things(c)
    BY <1>1, NestedFrame
  <2>. QED
    BY <1>5, <2>1
<1>7. \A i, j \in 1 .. m : q[i] = q[j] => i = j
  <2>1. \A i, j \in 1 .. n : st[i].at = st[j].at => i = j
    BY <1>1 DEF Nested
  <2>2. ASSUME NEW i \in 1 .. m, NEW j \in 1 .. m, q[i] = q[j] PROVE i = j
    <3>1. k + i - 1 = k + j - 1
      BY <1>5, <2>1, <2>2
    <3>. QED
      BY <3>1
  <2>. QED
    BY <2>2
<1>8. ASSUME NEW j \in 1 .. m - 1 PROVE \E i : Holding(c, q[j], i) /\ Target(c, q[j], i) = q[j + 1]
  <2>1. k + j - 1 \in 1 .. n - 1 /\ (k + j - 1) + 1 = k + (j + 1) - 1 /\ j \in 1 .. m /\ j + 1 \in 1 .. m
    BY <1>3
  <2>2. PICK l : l = k + j - 1
    OBVIOUS
  <2>3. /\ Holding(c, st[l].at, st[l].slot - 1)
        /\ Target(c, st[l].at, st[l].slot - 1) = st[l + 1].at
    BY <1>1, <2>1, <2>2, Zenon DEF Nested
  <2>4. q[j] = st[l].at /\ q[j + 1] = st[l + 1].at
    BY <1>5, <2>1, <2>2
  <2>. QED
    BY <2>3, <2>4
<1>9. Path(c, q, m)
  BY <1>6, <1>7, <1>8 DEF Path
<1>10. /\ m \in 1 .. m /\ 1 \in 1 .. m /\ k + m - 1 = n /\ k + 1 - 1 = k
  BY <1>3
<1>11. q[m] = st[n].at /\ q[1] = Ahead(c, st)
  BY <1>2, <1>5, <1>10
<1>12. Holding(c, q[m], st[n].slot) /\ Target(c, q[m], st[n].slot) = q[1]
  BY <1>1, <1>11 DEF Holding, UseAhead, Ahead
<1>. QED
  BY <1>9, <1>12 DEF NoCycles

LEMMA KnownNeeded ==
  ASSUME NEW c, Given(c), NEW r, NEW wi, ReaderInv(c, r, wi), NEW w, WriterInv(c, w), Sync(c, r, w),
         NEW v, NEW t, MentionsBoth(c, w, v, wi, t), UseAhead(c, w.stack) # "Observer",
         NEW id, id = v.info[t].id
  PROVE  InfoIdIn(r.info, id, UseAhead(c, w.stack)).sharedState # Null
<1>1. PICK kind, y : kind = UseAhead(c, w.stack) /\ y = InfoIdIn(r.info, id, kind)
  OBVIOUS
<1>2. LearnsBoth(c, w, v, wi, t, kind)
  BY <1>1 DEF MentionsBoth
<1>3. SlotAhead(c, w.stack) /\ t = Ahead(c, w.stack) /\ t \in Entered(w.info) /\ t \in c.objects /\ IsShared(kind)
  BY <1>1 DEF MentionsBoth, Mentions, IsShared
<1>4. t \in DOMAIN w.info
  BY <1>3 DEF Entered, Given, Root
<1>5. w.info[t].id = id /\ y.sharedState = r.info[id].sharedState
  <2>1. KnownAs(c, r, w, v, t, id, y)
    BY <1>1, <1>2, KnownFound
  <2>. QED
    BY <1>4, <2>1 DEF KnownAs
<1>6. SharedOf(c, t)
  <2>1. /\ Last(w.stack).at \in Things(c) /\ HasSlot(c, Last(w.stack).at, Last(w.stack).slot)
    BY <1>3, ThingsAhead DEF WriterInv
  <2>. QED
    BY <1>1, <1>3, <2>1 DEF SharedOf, Holding, UseAhead, Ahead
<1>7. OnStack(w.stack, t) => ~(c.polymorphic /\ c.existing)
  <2>1. NoCycles(c) => ~OnStack(w.stack, t)
    BY <1>3, NoneInProgress DEF WriterInv
  <2>. QED
    BY <2>1 DEF Given
<1>8. Agrees(c, r, w, t, r.info[id])
  BY <1>4, <1>5 DEF Sync, Agreed
<1>9. y.sharedState = r.place[t]
  BY <1>3, <1>5, <1>6, <1>7, <1>8, Zenon DEF Agrees
<1>10. r.place[t] # Null
  BY <1>3 DEF Sync, Housed, ReaderInv, Heaped, Null
<1>. QED
  BY <1>1, <1>9, <1>10

\* The first pointer that holds an object finds none.
LEMMA EnterNeeded ==
  ASSUME NEW c, Given(c), NEW r, NEW wi, ReaderInv(c, r, wi), NEW w, WriterInv(c, w), Sync(c, r, w),
         NEW v, NEW t, EntersBoth(c, w, v, wi, t)
  PROVE  NotBegun(r, v.info[t].id, UseAhead(c, w.stack), t)
<1>1. PICK id, kind, y : id = v.info[t].id /\ kind = UseAhead(c, w.stack) /\ y = InfoIdIn(r.info, id, kind)
  OBVIOUS
<1>2. LearnsBoth(c, w, v, wi, t, kind) /\ t \notin Entered(w.info)
  BY <1>1 DEF EntersBoth, Enters
<1>3. y.ownerPtr = Null /\ y.sharedState = Null
  <2>1. KnownAs(c, r, w, v, t, id, y)
    BY <1>1, <1>2, KnownFound
  <2>. QED
    BY <1>2, <2>1 DEF KnownAs
<1>4. ASSUME NEW k \in 1 .. Len(r.stack) PROVE r.of[r.stack[k].at] # t
  <2>1. k \in 1 .. Len(w.stack)
    BY DEF Sync, Stacked
  <2>2. r.stack[k].at = r.place[w.stack[k].at] /\ w.stack[k].at \in Entered(w.info)
    BY <2>1 DEF Sync, Stacked, WriterInv, Covered
  <2>3. r.of[r.stack[k].at] = w.stack[k].at
    BY <2>2 DEF Sync, Housed
  <2>. QED
    BY <1>2, <2>2, <2>3
<1>. QED
  BY <1>1, <1>3, <1>4 DEF NotBegun
-----------------------------------------------------------------------------
\* The reader before it reads.
Starts(c, r) ==
  /\ r.stack = << [ at |-> Root, slot |-> 1, id |-> 0 ] >> /\ r.info = [ id \in {} |-> 0 ]
  /\ r.of = [ j \in DOMAIN r.heap |-> IF j = Root THEN Root ELSE Null ]
  /\ r.place = [ o \in {Root} |-> Root ]

LEMMA ReaderStarts ==
  ASSUME NEW c, c = World, Given(c), NEW r, Starts(c, r), NEW held \in SUBSET (1 .. Len(RootSlots)),
         r.heap = InitialHeap(held), c.existing \/ held = {}, NEW wi
  PROVE  ReaderInv(c, r, wi) /\ Sync(c, r, WriterStart)
<1>1. PICK n \in Nat : n = Len(c.root)
  BY DEF Given
<1>2. c.root = RootSlots /\ c.object = ObjectSlots
  BY WorldKinds
<1>3. PICK h : h = r.heap
  OBVIOUS
<1>4. /\ DOMAIN h = 0 .. n
      /\ h[Root] = [ value |-> 0, to |-> [ i \in 1 .. n |-> IF Holds(i, held) THEN i ELSE Null ] ]
      /\ \A j \in 0 .. n : j # Root => h[j] = NewObject
  BY <1>1, <1>2, <1>3 DEF InitialHeap, Root
<1>5. /\ h[Root].value = 0 /\ h[Root].to = [ i \in 1 .. n |-> IF Holds(i, held) THEN i ELSE Null ]
  BY <1>4
<1>6. ASSUME NEW j \in 0 .. n, j # Root
      PROVE  h[j].value = 0 /\ h[j].to = [ i \in 1 .. Len(c.object) |-> Null ]
  BY <1>2, <1>4, <1>6 DEF NewObject
<1>7. Heaped(c, h)
  <2>1. n + 1 \in Nat /\ n + 1 > Len(c.root) /\ DOMAIN h = 0 .. (n + 1) - 1
    BY <1>1, <1>4
  <2>2. ASSUME NEW j \in DOMAIN h PROVE h[j] \in [ value : Int, to : [ 1 .. Len(Shape(c, j)) -> Int ] ]
    <3>1. CASE j = Root
      <4>1. [ i \in 1 .. n |-> IF Holds(i, held) THEN i ELSE Null ] \in [ 1 .. n -> Int ]
        BY DEF Null
      <4>. QED
        BY <1>1, <1>4, <3>1, <4>1 DEF Shape
    <3>2. CASE j # Root
      <4>1. [ i \in 1 .. Len(c.object) |-> Null ] \in [ 1 .. Len(c.object) -> Int ]
        BY DEF Null
      <4>2. h[j] = [ value |-> 0, to |-> [ i \in 1 .. Len(c.object) |-> Null ] ]
        BY <1>2, <1>4, <3>2 DEF NewObject
      <4>. QED
        BY <3>2, <4>1, <4>2 DEF Shape
    <3>. QED
      BY <3>1, <3>2
  <2>3. ASSUME NEW j, NEW i, Ptr(c, h, j, i) PROVE h[j].to[i] \in DOMAIN h \union {Null}
    <3>1. CASE j = Root
      BY <1>1, <1>4, <1>5, <2>3, <3>1 DEF Ptr, HasSlot, Shape
    <3>2. CASE j # Root
      BY <1>4, <1>6, <2>3, <3>2 DEF Ptr, HasSlot, Shape
    <3>. QED
      BY <3>1, <3>2
  <2>. QED
    BY <2>1, <2>2, <2>3 DEF Heaped
<1>8. r.of \in [ DOMAIN h -> Things(c) \union {Null} ] /\ \A j \in DOMAIN h : r.of[j] = IF j = Root THEN Root ELSE Null
  BY <1>3 DEF Starts, Things
<1>9. Root \in DOMAIN h /\ Root # Null
  BY <1>4 DEF Root, Null
<1>10. Placed(c, h, r.of)
  <2>1. \A j \in DOMAIN h : r.of[j] = Root <=> j = Root
    BY <1>8, <1>9
  <2>2. ASSUME NEW j \in DOMAIN h, r.of[j] = Null
        PROVE  h[j].value = 0 /\ \A i : HasSlot(c, j, i) => h[j].to[i] = Null
    <3>1. j # Root /\ j \in 0 .. n
      BY <1>4, <1>8, <1>9, <2>2
    <3>. QED
      BY <1>6, <3>1 DEF HasSlot, Shape
  <2>3. \A j \in DOMAIN h : h[j].value \in {0, ValueOf(r.of[j])}
    BY <1>4, <1>5, <1>6
  <2>. QED
    BY <1>8, <2>1, <2>2, <2>3 DEF Placed
<1>11. PICK f : f = [ at |-> Root, slot |-> 1, id |-> 0 ]
  BY Zenon
<1>12. r.stack = << f >> /\ f \in ReaderFrames /\ f.at = Root /\ f.slot = 1 /\ f.id = 0
  BY <1>11 DEF Starts, ReaderFrames, Root
<1>13. r.stack \in Seq(ReaderFrames) /\ Len(r.stack) = 1 /\ r.stack[1] = f
  BY <1>12
<1>14. \A k \in 1 .. Len(r.stack) : k = 1
  BY <1>13
<1>15. Links(c, r)
  <2>1. ASSUME NEW j, NEW i, Ptr(c, h, j, i), Open(r.stack, j, i) PROVE Early(c, r, j, i)
    <3>1. j = Root
      BY <1>12, <1>13, <1>14, <2>1 DEF Open
    <3>2. i \in 1 .. n
      BY <1>1, <2>1, <3>1 DEF Ptr, HasSlot, Shape
    <3>3. h[j].to[i] = IF Holds(i, held) THEN i ELSE Null
      BY <1>5, <3>1, <3>2
    <3>4. Refers(c, j, i) <=> RootSlots[i] = "Reference"
      BY <1>2, <3>1 DEF Refers, Shape
    <3>5. r.of[i] = Null
      BY <1>4, <1>8, <3>2 DEF Root
    <3>. QED
      BY <1>3, <3>1, <3>3, <3>4, <3>5, Zenon DEF Early, Holds
  <2>2. ASSUME NEW j, NEW i, Ptr(c, h, j, i), ~Open(r.stack, j, i) PROVE Right(c, r, j, i)
    <3>1. j # Root
      <4>1. j = Root => i >= 1
        BY <1>1, <2>2 DEF Ptr, HasSlot, Shape
      <4>2. 1 \in 1 .. Len(r.stack)
        BY <1>13
      <4>. QED
        BY <1>12, <1>13, <2>2, <4>1, <4>2 DEF Open
    <3>2. h[j].to[i] = Null
      BY <1>4, <1>6, <2>2, <3>1 DEF Ptr, HasSlot, Shape
    <3>. QED
      BY <1>3, <3>2 DEF Right
  <2>. QED
    BY <1>3, <2>1, <2>2 DEF Links
<1>16. Framed(c, r, wi)
  <2>1. r.stack[1].at = Root /\ r.stack[1].id = 0 /\ r.stack[1].slot = 1
    BY <1>12, <1>13
  <2>2. Len(Shape(c, Root)) \in Nat
    BY <1>1 DEF Shape
  <2>3. r.of[Root] # Null /\ Root \in DOMAIN r.heap
    BY <1>3, <1>8, <1>9
  <2>4. r.stack[1].slot <= Len(Shape(c, r.stack[1].at)) + 1
    BY <2>1, <2>2
  <2>5. \A k : k \notin 2 .. 1 /\ k \notin 1 .. 1 - 1
    OBVIOUS
  <2>. QED
    BY <1>13, <1>14, <2>1, <2>3, <2>4, <2>5 DEF Framed
<1>17. DOMAIN r.info = {}
  BY DEF Starts
<1>18. Informed(c, r, wi)
  <2>1. \A k : k \notin 2 .. 1
    OBVIOUS
  <2>. QED
    BY <1>13, <1>17, <2>1 DEF Informed
<1>19. ReaderInv(c, r, wi)
  BY <1>3, <1>7, <1>10, <1>15, <1>16, <1>18 DEF ReaderInv
<1>20. PICK w : w = WriterStart
  OBVIOUS
<1>21. /\ Entered(w.info) = {Root} /\ \A x, i : ~Passed(c, w, x, i)
  BY <1>20, WriterStarts
<1>22. DOMAIN w.info = {} /\ w.stack = << [ at |-> Root, slot |-> 1 ] >>
  BY <1>20 DEF WriterStart
<1>23. Housed(c, r, w)
  BY <1>3, <1>8, <1>9, <1>21 DEF Housed, Starts
<1>24. Stacked(r, w)
  <2>1. Len(w.stack) = 1 /\ w.stack[1].at = Root /\ w.stack[1].slot = 1 /\ \A k \in 1 .. Len(w.stack) : k = 1
    BY <1>22
  <2>2. r.place[Root] = Root
    BY DEF Starts
  <2>. QED
    BY <1>12, <1>13, <2>1, <2>2 DEF Stacked
<1>25. Agreed(c, r, w)
  BY <1>17, <1>22 DEF Agreed
<1>26. Rebuilt(c, r, w)
  BY <1>21 DEF Rebuilt
<1>. QED
  BY <1>19, <1>20, <1>23, <1>24, <1>25, <1>26 DEF Sync
-----------------------------------------------------------------------------
(***************************************************************************)
(* The specification.  What was written is a history of the writer, and    *)
(* the reader is in step with one of its states, or got a part of the      *)
(* stream and has passed its end.                                          *)
(***************************************************************************)
WriterState == [ info |-> winfo, stack |-> wstack, stream |-> stream ]

InStep(c, r, hist, m) ==
  \E k \in 0 .. m : ~failed /\ pos = Len(hist[k].stream) /\ pos <= end /\ Sync(c, r, hist[k])

Cut == (failed \/ pos >= end) /\ end < Len(stream)

\* A link that was made stays.
Final(r, s) ==
  \A id \in DOMAIN r.info : r.info[id].ownerPtr # Null =>
    id \in DOMAIN s.info /\ s.info[id].ownerPtr = r.info[id].ownerPtr

\* The reader goes on, in step or behind the end of its part.
GoesOn(c, r, hist, m) ==
  \E s : /\ After(s) /\ ReaderInv(c, s, winfo) /\ Final(r, s) /\ (InStep(c, s, hist, m)' \/ Cut')
         /\ pos' \in Nat /\ failed' \in BOOLEAN

\* The reader at some point of a history that was written.
Reads(c, r, hist, m) ==
  /\ c = World /\ Given(c) /\ m \in Nat /\ History(c, hist, m, WriterState) /\ wstack = << >>
  /\ Is(r) /\ ReaderInv(c, r, winfo) /\ pos \in Nat /\ end \in Nat /\ failed \in BOOLEAN

LEMMA SlotsAlike ==
  ASSUME NEW c, c = World, Given(c), NEW st, st # << >> => Last(st).slot \in Nat \ {0}
  PROVE  (AtSlot(st) <=> SlotAhead(c, st)) /\ (AtEnd(st) <=> NoneAhead(c, st))
<1>1. \A x : KindsOf(x) = Shape(c, x) /\ Len(Shape(c, x)) \in Nat
  BY WorldKinds, ShapeLength
<1>. QED
  BY <1>1 DEF AtSlot, AtEnd, SlotAhead, NoneAhead, HasSlot

LEMMA WriterActs ==
  ASSUME NEW c, c = World, Given(c), NEW w, w = WriterState, WriterInv(c, w),
         WriteNull \/ WritePointer \/ WriteReturn,
         NEW v, v = [ info |-> winfo', stack |-> wstack', stream |-> stream' ]
  PROVE  WriterStep(c, w, v)
<1>1. w.info = winfo /\ w.stack = wstack /\ w.stream = stream
      /\ v.info = winfo' /\ v.stack = wstack' /\ v.stream = stream'
  BY DEF WriterState
<1>2. wstack # << >> => Last(wstack).slot \in Nat \ {0}
  <2>1. wstack # << >> => Last(wstack) \in [ at : Things(c), slot : Nat \ {0} ]
    BY <1>1, NotEmpty, Zenon DEF WriterInv, Nested
  <2>. QED
    BY <2>1
<1>3. (AtSlot(wstack) <=> SlotAhead(c, wstack)) /\ (AtEnd(wstack) <=> NoneAhead(c, wstack))
  BY <1>2, SlotsAlike
<1>4. graph[Here(wstack)] = Ahead(c, wstack)
  BY WorldKinds DEF Ahead, Here, Target
<1>5. Ownership(Kind(Here(wstack))) = UseAhead(c, wstack)
  BY WorldKinds DEF Here, UseAhead, Use
<1>6. CASE WriteNull
  BY <1>1, <1>3, <1>4, <1>6 DEF WriteNull, WriterStep, NullStep
<1>7. CASE WritePointer
  <2>1. PICK p, kind, info : p = graph[Here(wstack)] /\ kind = Ownership(Kind(Here(wstack))) /\ info = InfoByPtr(p, kind)
    OBVIOUS
  <2>2. info = InfoIn(winfo, p, kind)
    BY <2>1 DEF InfoByPtr, InfoIn
  <2>3. /\ AtSlot(wstack) /\ p # Null
        /\ winfo' = [ q \in DOMAIN winfo \union {p} |-> IF q = p THEN info ELSE winfo[q] ]
        /\ IF kind = "Observer" \/ info.isSharedProcessed
             THEN /\ stream' = Append(stream, info.id)
                  /\ wstack' = Moved(wstack)
             ELSE /\ stream' = stream \o << info.id, ValueOf(p) >>
                  /\ wstack' = Append(Moved(wstack), [ at |-> p, slot |-> 1 ])
    BY <1>7, <2>1, Zenon DEF WritePointer
  <2>4. p = Ahead(c, w.stack) /\ kind = UseAhead(c, w.stack) /\ info = InfoIn(w.info, p, kind)
    BY <1>1, <1>4, <1>5, <2>1, <2>2
  <2>5. PointerStep(c, w, v)
    BY <1>1, <1>3, <2>3, <2>4, Zenon DEF PointerStep
  <2>. QED
    BY <2>5 DEF WriterStep
<1>8. CASE WriteReturn
  BY <1>1, <1>3, <1>8 DEF WriteReturn, WriterStep, ReturnStep
<1>. QED
  BY <1>6, <1>7, <1>8

-----------------------------------------------------------------------------
\* Both have something left to do.
LEMMA StepAhead ==
  ASSUME NEW c, NEW r, NEW hist, NEW m, Reads(c, r, hist, m), NEW k \in 0 .. m, Sync(c, r, hist[k]),
         rstack # << >>
  PROVE  /\ k + 1 \in 0 .. m /\ WriterStep(c, hist[k], hist[k + 1]) /\ hist[k].stack # << >>
         /\ WriterInv(c, hist[k]) /\ WriterInv(c, hist[k + 1])
         /\ Precedes(hist[k], WriterState) /\ Precedes(hist[k + 1], WriterState)
         /\ Knows(hist[k], winfo) /\ Numbered(c, winfo)
<1>1. PICK w : w = WriterState
  OBVIOUS
<1>2. w.stack = << >> /\ w.info = winfo
  BY <1>1 DEF Reads, WriterState
<1>3. /\ hist[m] = w /\ m \in Nat
      /\ \A j \in 0 .. m : WriterInv(c, hist[j]) /\ Precedes(hist[j], w)
      /\ \A j \in 0 .. m - 1 : WriterStep(c, hist[j], hist[j + 1])
  BY <1>1 DEF Reads, History
<1>4. hist[k].stack # << >>
  <2>1. r.stack # << >> /\ Len(r.stack) = Len(hist[k].stack) /\ Len(r.stack) \in Nat \ {0}
    <3>1. r.stack # << >>
      BY DEF Reads, Is
    <3>. QED
      BY <3>1, ReaderTop DEF Reads, ReaderInv, Sync, Stacked
  <2>. QED
    BY <2>1
<1>5. k # m
  BY <1>2, <1>3, <1>4
<1>6. k + 1 \in 0 .. m /\ k \in 0 .. m - 1
  BY <1>3, <1>5
<1>7. Knows(hist[k], winfo)
  BY <1>2, <1>3 DEF Precedes, Knows
<1>8. Numbered(c, winfo)
  <2>1. m \in 0 .. m
    BY <1>3
  <2>. QED
    BY <1>2, <1>3, <2>1 DEF WriterInv
<1>. QED
  BY <1>1, <1>3, <1>4, <1>6, <1>7, <1>8

LEMMA TokenAhead ==
  ASSUME NEW v, Precedes(v, WriterState), NEW i \in 1 .. Len(v.stream), end \in Nat
  PROVE  /\ i <= end /\ ~failed => Token(i) = v.stream[i]
         /\ i > end \/ failed => Token(i) = 0
         /\ i <= Len(stream)
  BY DEF Precedes, WriterState, Token

\* The object the pointer ahead leads to is one both know.
LEMMA BothLearn ==
  ASSUME NEW c, Given(c), NEW w, WriterInv(c, w), NEW v, Precedes(v, WriterState), Numbered(c, v.info),
         NEW t, t = Ahead(c, w.stack)
  PROVE  /\ Mentions(c, w, v) => MentionsBoth(c, w, v, winfo, t) /\ t \in DOMAIN winfo /\ winfo[t].id = v.info[t].id
         /\ Enters(c, w, v) => EntersBoth(c, w, v, winfo, t) /\ t \in DOMAIN winfo /\ winfo[t].id = v.info[t].id
<1>1. \A o \in DOMAIN v.info : o \in DOMAIN winfo /\ winfo[o].id = v.info[o].id
  BY DEF Precedes, WriterState
<1>2. ASSUME SlotAhead(c, w.stack), t \in c.objects, Learned(w.info, v.info, t, UseAhead(c, w.stack))
      PROVE  /\ LearnsBoth(c, w, v, winfo, t, UseAhead(c, w.stack))
             /\ t \in DOMAIN winfo /\ winfo[t].id = v.info[t].id
  <2>1. t \in DOMAIN v.info
    BY <1>2 DEF Learned
  <2>2. UseAhead(c, w.stack) \in Uses
    BY <1>2, ThingsAhead DEF WriterInv
  <2>. QED
    BY <1>1, <1>2, <2>1, <2>2 DEF LearnsBoth
<1>3. CASE Mentions(c, w, v)
  <2>1. SlotAhead(c, w.stack) /\ t \in c.objects /\ Learned(w.info, v.info, t, UseAhead(c, w.stack))
    BY <1>3 DEF Mentions
  <2>2. Entered(v.info) = Entered(w.info)
    BY <1>3, MentionsNext
  <2>. QED
    BY <1>2, <1>3, <2>1, <2>2, Zenon DEF MentionsBoth, Mentions, Enters
<1>4. CASE Enters(c, w, v)
  <2>1. SlotAhead(c, w.stack) /\ t \in c.objects /\ Learned(w.info, v.info, t, UseAhead(c, w.stack))
    BY <1>4 DEF Enters
  <2>. QED
    BY <1>2, <1>4, <2>1, Zenon DEF EntersBoth, Mentions, Enters
<1>. QED
  BY <1>3, <1>4
-----------------------------------------------------------------------------
(***************************************************************************)
(* Every step of the reader goes on.                                       *)
(***************************************************************************)
LEMMA WriterKnows ==
  ASSUME NEW c, NEW r, NEW hist, NEW m, Reads(c, r, hist, m)
  PROVE  Numbered(c, winfo)
<1>1. PICK w : w = WriterState
  OBVIOUS
<1>2. m \in 0 .. m /\ hist[m] = w /\ w.info = winfo
  BY <1>1 DEF Reads, History, WriterState
<1>. QED
  BY <1>2 DEF Reads, History, WriterInv

LEMMA GoesInStep ==
  ASSUME NEW c, NEW r, NEW hist, NEW m, NEW k \in 0 .. m, NEW s, After(s), ReaderInv(c, s, winfo),
         Final(r, s), Sync(c, s, hist[k]), ~failed', pos' = Len(hist[k].stream), pos' <= end',
         pos' \in Nat, failed' \in BOOLEAN
  PROVE  GoesOn(c, r, hist, m)
<1>1. InStep(c, s, hist, m)'
  BY DEF InStep
<1>. QED
  BY <1>1 DEF GoesOn

LEMMA GoesCut ==
  ASSUME NEW c, NEW r, NEW hist, NEW m, NEW s, After(s), ReaderInv(c, s, winfo), Final(r, s), Cut',
         pos' \in Nat, failed' \in BOOLEAN
  PROVE  GoesOn(c, r, hist, m)
BY DEF GoesOn

LEMMA LearnsFinal ==
  ASSUME NEW r, NEW s, NEW id, LearnsOf(r, s, id),
         id \in DOMAIN r.info /\ r.info[id].ownerPtr # Null => s.info[id].ownerPtr = r.info[id].ownerPtr
  PROVE  Final(r, s)
BY DEF LearnsOf, Final

\* What a pointer step of the writer has written.
LEMMA PointerTokens ==
  ASSUME NEW c, Given(c), NEW w, WriterInv(c, w), NEW v, PointerStep(c, w, v), NEW t, t = Ahead(c, w.stack)
  PROVE  /\ Numbered(c, v.info) /\ (Mentions(c, w, v) \/ Enters(c, w, v))
         /\ v.info[t].id \in Nat \ {0} /\ v.stream[Len(w.stream) + 1] = v.info[t].id
         /\ Len(w.stream) \in Nat /\ Len(v.stream) \in Nat /\ Len(v.stream) >= Len(w.stream) + 1
<1>1. Numbered(c, v.info) /\ (Mentions(c, w, v) \/ Enters(c, w, v))
  BY PointerSteps
<1>2. CASE Mentions(c, w, v)
  <2>1. /\ Precedes(w, v) /\ v.info[Ahead(c, w.stack)].id \in Nat \ {0} /\ Len(v.stream) = Len(w.stream) + 1
        /\ v.stream[Len(w.stream) + 1] = v.info[Ahead(c, w.stack)].id
    BY <1>1, <1>2, MentionsNext
  <2>. QED
    BY <1>1, <2>1 DEF Precedes
<1>3. CASE Enters(c, w, v)
  <2>1. /\ Precedes(w, v) /\ v.info[Ahead(c, w.stack)].id \in Nat \ {0} /\ Len(v.stream) = Len(w.stream) + 2
        /\ v.stream[Len(w.stream) + 1] = v.info[Ahead(c, w.stack)].id
    BY <1>1, <1>3, EntersNext
  <2>. QED
    BY <1>1, <2>1 DEF Precedes
<1>. QED
  BY <1>1, <1>2, <1>3

\* What there is to read is a null pointer or the id of the object ahead.
LEMMA ReadNullStays ==
  ASSUME NEW c, NEW r, NEW hist, NEW m, Reads(c, r, hist, m), InStep(c, r, hist, m) \/ Cut, ReadNull
  PROVE  GoesOn(c, r, hist, m)
<1>1. /\ c = World /\ Given(c) /\ Is(r) /\ ReaderInv(c, r, winfo) /\ Numbered(c, winfo)
      /\ pos \in Nat /\ end \in Nat /\ failed \in BOOLEAN
  BY WriterKnows DEF Reads
<1>2. PICK a, b : a = Last(r.stack).at /\ b = Last(r.stack).slot
  OBVIOUS
<1>3. /\ AtSlot(rstack) /\ Token(pos + 1) = 0 /\ pos' = pos + 1 /\ rstack' = Moved(rstack) /\ rinfo' = rinfo
      /\ end' = end /\ stream' = stream
      /\ Kind(Here(rstack)) = "Reference" => failed' = TRUE
      /\ Kind(Here(rstack)) # "Reference" => failed' = failed
  BY DEF ReadNull, Reading, writerVars
<1>4. failed' \in BOOLEAN /\ pos' \in Nat /\ pos' = pos + 1
  <2>1. failed' = TRUE \/ failed' = failed
    BY <1>3
  <2>2. failed' \in BOOLEAN
    BY <1>1, <2>1, Zenon
  <2>3. pos' \in Nat /\ pos' = pos + 1
    BY <1>1, <1>3
  <2>. QED
    BY <2>2, <2>3
<1>5. PICK s : /\ After(s) /\ s.place = r.place /\ ReaderInv(c, s, winfo) /\ Evolves(c, r, s)
               /\ ~Refers(c, Last(r.stack).at, Last(r.stack).slot) =>
                    Pointed(c, r.heap, s.heap, {<<Last(r.stack).at, Last(r.stack).slot>>}, Null)
  BY <1>1, ReadNullGoes, Zenon
<1>6. s.info = r.info /\ s.stack = Moved(r.stack) /\ r.stack = rstack
  BY <1>1, <1>3, <1>5 DEF Is, After
<1>7. Final(r, s)
  BY <1>6 DEF Final
<1>8. r.stack # << >> /\ HasSlot(c, a, b) /\ Kind(Here(rstack)) = Shape(c, a)[b]
  <2>1. Framed(c, r, winfo)
    BY <1>1 DEF ReaderInv
  <2>. QED
    BY <1>1, <1>2, <1>3, <2>1, ReaderAhead
<1>9. CASE Cut
  <2>1. Cut'
    BY <1>1, <1>3, <1>4, <1>9 DEF Cut
  <2>. QED
    BY <1>4, <1>5, <1>7, <2>1, GoesCut
<1>10. CASE InStep(c, r, hist, m)
  <2>1. PICK k \in 0 .. m : ~failed /\ pos = Len(hist[k].stream) /\ pos <= end /\ Sync(c, r, hist[k])
    BY <1>10 DEF InStep
  <2>2. PICK w, v : w = hist[k] /\ v = hist[k + 1]
    OBVIOUS
  <2>3. /\ k + 1 \in 0 .. m /\ WriterStep(c, w, v) /\ w.stack # << >> /\ WriterInv(c, w) /\ WriterInv(c, v)
        /\ Precedes(v, WriterState)
    BY <1>6, <1>8, <2>1, <2>2, StepAhead
  <2>4. /\ SlotAhead(c, w.stack) /\ Shape(c, a) = Shape(c, Last(w.stack).at) /\ b = Last(w.stack).slot
        /\ a = r.place[Last(w.stack).at] /\ Last(w.stack).at \in Entered(w.info)
    BY <1>1, <1>2, <1>8, <2>1, <2>2, <2>3, AheadAlike
  <2>5. Len(v.stream) \in Nat /\ Len(stream) \in Nat /\ Len(v.stream) <= Len(stream)
    BY <2>3 DEF Precedes, WriterState
  <2>6. NullStep(c, w, v) \/ PointerStep(c, w, v)
    BY <2>3, <2>4 DEF WriterStep, ReturnStep, SlotAhead, NoneAhead
  <2>7. CASE NullStep(c, w, v)
    <3>1. Len(v.stream) = Len(w.stream) + 1
      BY <1>1, <2>3, <2>7, NullNext
    <3>2. CASE pos + 1 > end
      <4>1. Cut'
        BY <1>1, <1>3, <1>4, <2>1, <2>2, <2>5, <3>1, <3>2 DEF Cut
      <4>. QED
        BY <1>4, <1>5, <1>7, <4>1, GoesCut
    <3>3. CASE pos + 1 <= end
      <4>1. ~Refers(c, a, b)
        <5>1. Target(c, Last(w.stack).at, b) = Null
          BY <2>4, <2>7 DEF NullStep, Ahead
        <5>2. CASE a = Root
          <6>1. Last(w.stack).at = Root
            <7>1. Placed(c, r.heap, r.of) /\ Housed(c, r, w)
              BY <1>1, <2>1, <2>2 DEF Sync, ReaderInv
            <7>2. \A x \in Entered(w.info) : r.place[x] = Root <=> x = Root
              BY <7>1, RootPlace
            <7>. QED
              BY <2>4, <5>2, <7>2, Zenon
          <6>. QED
            BY <1>1, <1>8, <5>1, <5>2, <6>1 DEF Given
        <5>3. CASE a # Root
          <6>1. Shape(c, a)[b] \in Uses
            BY <1>1, <1>8, <5>3 DEF HasSlot, Shape, Given
          <6>. QED
            BY <6>1 DEF Refers, Uses
        <5>. QED
          BY <5>2, <5>3
      <4>2. failed' = failed
        BY <1>3, <1>8, <4>1 DEF Refers
      <4>3. PICK S : S = {<<Last(r.stack).at, Last(r.stack).slot>>}
        BY Zenon
      <4>4. Pointed(c, r.heap, s.heap, S, Null)
        BY <1>2, <1>5, <4>1, <4>3
      <4>5. Sync(c, s, v)
        BY <1>1, <1>5, <1>6, <2>1, <2>2, <2>3, <2>7, <4>3, <4>4, SyncNull, Zenon
      <4>6. pos' = Len(hist[k + 1].stream) /\ pos' <= end' /\ ~failed' /\ Sync(c, s, hist[k + 1])
        BY <1>3, <2>1, <2>2, <3>1, <3>3, <4>2, <4>5
      <4>. QED
        BY <1>4, <1>5, <1>7, <2>3, <4>6, GoesInStep
    <3>. QED
      BY <1>1, <3>2, <3>3
  <2>8. CASE PointerStep(c, w, v)
    <3>1. PICK t : t = Ahead(c, w.stack)
      OBVIOUS
    <3>2. /\ v.info[t].id \in Nat \ {0} /\ v.stream[Len(w.stream) + 1] = v.info[t].id
          /\ Len(w.stream) \in Nat /\ Len(v.stream) >= Len(w.stream) + 1
      BY <1>1, <2>3, <2>8, <3>1, PointerTokens
    <3>3. pos + 1 \in 1 .. Len(v.stream)
      BY <1>1, <2>1, <2>2, <2>5, <3>2
    <3>4. pos + 1 <= end /\ ~failed => Token(pos + 1) = v.stream[pos + 1]
      BY <1>1, <2>3, <3>3, TokenAhead
    <3>5. pos + 1 > end
      BY <1>1, <1>3, <2>1, <2>2, <3>2, <3>4
    <3>6. Cut'
      BY <1>1, <1>3, <1>4, <2>1, <2>2, <2>5, <3>2, <3>5 DEF Cut
    <3>. QED
      BY <1>4, <1>5, <1>7, <3>6, GoesCut
  <2>. QED
    BY <2>6, <2>7, <2>8
<1>. QED
  BY <1>9, <1>10
\* The id of the writer's object t is next, at the k-th state of the history.
Meets(c, r, hist, k, t, a, b) ==
  /\ Sync(c, r, hist[k]) /\ WriterInv(c, hist[k]) /\ Precedes(hist[k + 1], WriterState)
  /\ hist[k].stack # << >>
  /\ t \in DOMAIN winfo /\ t = Target(c, r.of[a], b) /\ Token(pos + 1) = winfo[t].id
  /\ winfo[t].id = hist[k + 1].info[t].id
  /\ Use(c, a, b) = UseAhead(c, hist[k].stack)
  /\ \/ MentionsBoth(c, hist[k], hist[k + 1], winfo, t) /\ Mentions(c, hist[k], hist[k + 1])
     \/ EntersBoth(c, hist[k], hist[k + 1], winfo, t) /\ Enters(c, hist[k], hist[k + 1])
  /\ Numbered(c, hist[k + 1].info)
  /\ ~failed /\ pos = Len(hist[k].stream) /\ pos + 1 <= end

LEMMA PointerAhead ==
  ASSUME NEW c, NEW r, NEW hist, NEW m, Reads(c, r, hist, m), InStep(c, r, hist, m) \/ Cut,
         AtSlot(rstack), Token(pos + 1) # 0,
         NEW a, NEW b, a = Last(r.stack).at, b = Last(r.stack).slot
  PROVE  \E k, t : k \in 0 .. m /\ k + 1 \in 0 .. m /\ Meets(c, r, hist, k, t, a, b)
<1>1. /\ c = World /\ Given(c) /\ Is(r) /\ ReaderInv(c, r, winfo) /\ Numbered(c, winfo)
      /\ pos \in Nat /\ end \in Nat /\ failed \in BOOLEAN /\ Framed(c, r, winfo)
  BY WriterKnows DEF Reads, ReaderInv
<1>2. r.stack # << >> /\ HasSlot(c, a, b) /\ rstack # << >>
  <2>1. r.stack # << >> /\ HasSlot(c, a, b)
    BY <1>1, ReaderAhead
  <2>. QED
    BY <1>1, <2>1 DEF Is
<1>3. ~failed /\ pos + 1 <= end
  BY <1>1 DEF Token
<1>4. ~Cut
  BY <1>1, <1>3 DEF Cut
<1>5. PICK k \in 0 .. m : pos = Len(hist[k].stream) /\ Sync(c, r, hist[k])
  BY <1>4 DEF InStep
<1>6. PICK w, v, t : w = hist[k] /\ v = hist[k + 1] /\ t = Ahead(c, w.stack)
  OBVIOUS
<1>7. /\ k + 1 \in 0 .. m /\ WriterStep(c, w, v) /\ w.stack # << >> /\ WriterInv(c, w) /\ WriterInv(c, v)
      /\ Precedes(v, WriterState)
  BY <1>2, <1>5, <1>6, StepAhead
<1>8. SlotAhead(c, w.stack) /\ Use(c, a, b) = UseAhead(c, w.stack) /\ Target(c, r.of[a], b) = t
  BY <1>1, <1>2, <1>5, <1>6, <1>7, AheadAlike
<1>9. Len(v.stream) \in Nat /\ Len(stream) \in Nat /\ Len(v.stream) <= Len(stream)
  BY <1>7 DEF Precedes, WriterState
<1>10. NullStep(c, w, v) \/ PointerStep(c, w, v)
  BY <1>7, <1>8 DEF WriterStep, ReturnStep, SlotAhead, NoneAhead
<1>11. PointerStep(c, w, v)
  <2>1. ASSUME NullStep(c, w, v) PROVE FALSE
    <3>1. Len(v.stream) = Len(w.stream) + 1 /\ v.stream[Len(w.stream) + 1] = 0
      BY <1>1, <1>7, <2>1, NullNext
    <3>2. pos + 1 \in 1 .. Len(v.stream)
      BY <1>1, <1>5, <1>6, <1>9, <3>1
    <3>3. Token(pos + 1) = v.stream[pos + 1]
      BY <1>1, <1>3, <1>7, <3>2, TokenAhead
    <3>. QED
      BY <1>5, <1>6, <3>1, <3>3
  <2>. QED
    BY <1>10, <2>1
<1>12. /\ Numbered(c, v.info) /\ (Mentions(c, w, v) \/ Enters(c, w, v))
       /\ v.info[t].id \in Nat \ {0} /\ v.stream[Len(w.stream) + 1] = v.info[t].id
       /\ Len(w.stream) \in Nat /\ Len(v.stream) >= Len(w.stream) + 1
  <2>1. Given(c) /\ WriterInv(c, w) /\ PointerStep(c, w, v) /\ t = Ahead(c, w.stack)
    BY <1>1, <1>6, <1>7, <1>11
  <2>. QED
    BY <2>1, PointerTokens
<1>13. Token(pos + 1) = v.info[t].id
  <2>1. pos + 1 \in 1 .. Len(v.stream)
    BY <1>1, <1>5, <1>6, <1>9, <1>12
  <2>2. Token(pos + 1) = v.stream[pos + 1]
    BY <1>1, <1>3, <1>7, <2>1, TokenAhead
  <2>. QED
    BY <1>5, <1>6, <1>12, <2>2
<1>14. /\ Mentions(c, w, v) => MentionsBoth(c, w, v, winfo, t) /\ t \in DOMAIN winfo /\ winfo[t].id = v.info[t].id
       /\ Enters(c, w, v) => EntersBoth(c, w, v, winfo, t) /\ t \in DOMAIN winfo /\ winfo[t].id = v.info[t].id
  BY <1>1, <1>6, <1>7, <1>12, BothLearn, SMTT(30)
<1>15. Meets(c, r, hist, k, t, a, b)
  BY <1>3, <1>5, <1>6, <1>7, <1>8, <1>12, <1>13, <1>14, Zenon DEF Meets
<1>. QED
  BY <1>7, <1>15

\* The token behind the id of the pointer that is next, and where it ends.
LEMMA MeetsTokens ==
  ASSUME NEW c, Given(c), NEW r, NEW hist, NEW k, NEW t, NEW a, NEW b, Meets(c, r, hist, k, t, a, b),
         pos \in Nat, end \in Nat, failed \in BOOLEAN
  PROVE  /\ Mentions(c, hist[k], hist[k + 1]) => Len(hist[k + 1].stream) = pos + 1
         /\ Enters(c, hist[k], hist[k + 1]) =>
              /\ Len(hist[k + 1].stream) = pos + 2
              /\ pos + 2 <= end => Token(pos + 2) = ValueOf(t)
              /\ pos + 2 > end => Token(pos + 2) = 0 /\ end < Len(stream)
<1>1. PICK w, v : w = hist[k] /\ v = hist[k + 1]
  OBVIOUS
<1>2. /\ WriterInv(c, w) /\ Numbered(c, v.info) /\ Precedes(v, WriterState) /\ ~failed /\ pos = Len(w.stream)
      /\ pos + 1 <= end
  BY <1>1 DEF Meets
<1>3. ASSUME Mentions(c, w, v) PROVE Len(v.stream) = pos + 1
  BY <1>2, <1>3, MentionsNext
<1>4. ASSUME Enters(c, w, v)
      PROVE  /\ Len(v.stream) = pos + 2
             /\ pos + 2 <= end => Token(pos + 2) = ValueOf(t)
             /\ pos + 2 > end => Token(pos + 2) = 0 /\ end < Len(stream)
  <2>1. /\ Len(v.stream) = Len(w.stream) + 2
        /\ v.stream[Len(w.stream) + 2] = ValueOf(Ahead(c, w.stack))
    BY <1>2, <1>4, EntersNext
  <2>2. t = Ahead(c, w.stack)
    BY <1>1 DEF Meets, MentionsBoth, EntersBoth
  <2>3. pos + 2 \in 1 .. Len(v.stream)
    BY <1>2, <2>1
  <2>4. /\ pos + 2 <= end => Token(pos + 2) = v.stream[pos + 2]
        /\ pos + 2 > end => Token(pos + 2) = 0
    BY <1>2, <2>3, TokenAhead
  <2>5. Len(v.stream) <= Len(stream) /\ Len(stream) \in Nat
    BY <1>2 DEF Precedes, WriterState
  <2>6. pos + 2 > end => end < Len(stream)
    BY <1>2, <2>1, <2>5
  <2>. QED
    BY <1>2, <2>1, <2>2, <2>4, <2>6
<1>. QED
  BY <1>1, <1>3, <1>4
LEMMA ReadObserverStays ==
  ASSUME NEW c, NEW r, NEW hist, NEW m, Reads(c, r, hist, m), InStep(c, r, hist, m) \/ Cut, ReadObserver
  PROVE  GoesOn(c, r, hist, m)
<1>1. /\ c = World /\ Given(c) /\ Is(r) /\ ReaderInv(c, r, winfo) /\ Numbered(c, winfo)
      /\ pos \in Nat /\ end \in Nat /\ failed \in BOOLEAN /\ Framed(c, r, winfo)
  BY WriterKnows DEF Reads, ReaderInv
<1>2. PICK a, b : a = Last(r.stack).at /\ b = Last(r.stack).slot
  OBVIOUS
<1>3. /\ AtSlot(rstack) /\ Token(pos + 1) # 0 /\ Ownership(Kind(Here(rstack))) = "Observer"
      /\ pos' = pos + 1 /\ rstack' = Moved(rstack) /\ failed' = failed /\ end' = end /\ stream' = stream
  BY DEF ReadObserver, Reading, writerVars
<1>4. pos' \in Nat /\ failed' \in BOOLEAN
  BY <1>1, <1>3
<1>5. PICK k, t : k \in 0 .. m /\ k + 1 \in 0 .. m /\ Meets(c, r, hist, k, t, a, b)
  BY <1>2, <1>3, PointerAhead
<1>6. PICK w, v, id : w = hist[k] /\ v = hist[k + 1] /\ id = winfo[t].id
  OBVIOUS
<1>7. /\ Sync(c, r, w) /\ WriterInv(c, w) /\ t \in DOMAIN winfo /\ t = Target(c, r.of[a], b)
      /\ Token(pos + 1) = winfo[t].id /\ id = v.info[t].id /\ Use(c, a, b) = UseAhead(c, w.stack)
      /\ ~failed /\ pos + 1 <= end
      /\ (MentionsBoth(c, w, v, winfo, t) /\ Mentions(c, w, v)) \/ Enters(c, w, v)
  BY <1>5, <1>6 DEF Meets
<1>8. UseAhead(c, w.stack) = "Observer"
  BY <1>1, <1>2, <1>3, <1>7, ReaderAhead
<1>9. MentionsBoth(c, w, v, winfo, t) /\ Mentions(c, w, v)
  BY <1>7, <1>8 DEF Enters
<1>10. Len(v.stream) = pos + 1
  BY <1>1, <1>5, <1>6, <1>9, MeetsTokens
<1>11. PICK s : /\ After(s) /\ s.place = r.place /\ ReaderInv(c, s, winfo) /\ Evolves(c, r, s)
                /\ ObserverEffect(c, r, s, a, b, winfo[t].id)
  BY <1>1, <1>2, <1>7, ReadObserverGoes, Zenon
<1>12. ObserverEffect(c, r, s, a, b, id) /\ s.stack = Moved(r.stack)
  BY <1>1, <1>3, <1>6, <1>11 DEF After, Is
<1>13. Sync(c, s, v)
  BY <1>1, <1>2, <1>7, <1>8, <1>9, <1>11, <1>12, SyncObserver, Zenon
<1>14. Final(r, s)
  <2>1. FoundAs(r.info, id, "Observer", InfoIdIn(r.info, id, "Observer"))
    <3>1. "Observer" \in Uses /\ Informed(c, r, winfo)
      BY <1>1 DEF Uses, Kinds, ReaderInv
    <3>. QED
      BY <1>6, <1>7, <3>1, AboutFound
  <2>2. LearnsOf(r, s, id) /\ s.info[id].ownerPtr = InfoIdIn(r.info, id, "Observer").ownerPtr
    BY <1>12 DEF ObserverEffect
  <2>. QED
    BY <2>1, <2>2, LearnsFinal DEF FoundAs
<1>15. /\ k + 1 \in 0 .. m /\ Sync(c, s, hist[k + 1]) /\ ~failed' /\ pos' = Len(hist[k + 1].stream)
       /\ pos' <= end'
  BY <1>3, <1>5, <1>6, <1>7, <1>10, <1>13
<1>. QED
  BY <1>4, <1>11, <1>14, <1>15, GoesInStep

\* An object is entered, before the end of the part that was delivered or at it.
LEMMA EnterStays ==
  ASSUME NEW c, NEW r, NEW hist, NEW m, Reads(c, r, hist, m), ReadOwner \/ ReadShared,
         NEW a, NEW b, a = Last(r.stack).at, b = Last(r.stack).slot, end' = end, stream' = stream,
         NEW k \in 0 .. m, NEW t, k + 1 \in 0 .. m, Meets(c, r, hist, k, t, a, b),
         EntersBoth(c, hist[k], hist[k + 1], winfo, t), Enters(c, hist[k], hist[k + 1])
  PROVE  GoesOn(c, r, hist, m)
<1>1. /\ c = World /\ Given(c) /\ Is(r) /\ ReaderInv(c, r, winfo) /\ Numbered(c, winfo)
      /\ pos \in Nat /\ end \in Nat /\ failed \in BOOLEAN /\ Framed(c, r, winfo)
  BY WriterKnows DEF Reads, ReaderInv
<1>2. PICK w, v, id : w = hist[k] /\ v = hist[k + 1] /\ id = winfo[t].id
  OBVIOUS
<1>3. /\ Sync(c, r, w) /\ WriterInv(c, w) /\ t \in DOMAIN winfo /\ t = Target(c, r.of[a], b)
      /\ Token(pos + 1) = winfo[t].id /\ id = v.info[t].id /\ Use(c, a, b) = UseAhead(c, w.stack)
      /\ ~failed /\ EntersBoth(c, w, v, winfo, t)
  BY <1>2, Zenon DEF Meets
<1>4. /\ Len(v.stream) = pos + 2
      /\ pos + 2 <= end => Token(pos + 2) = ValueOf(t)
      /\ pos + 2 > end => Token(pos + 2) = 0 /\ end < Len(stream)
  <2>1. Given(c) /\ Meets(c, r, hist, k, t, a, b) /\ Enters(c, hist[k], hist[k + 1])
    BY <1>1
  <2>. QED
    BY <1>1, <1>2, <2>1, MeetsTokens
<1>5. Token(pos + 2) \in {0, ValueOf(t)}
  BY <1>1, <1>4
<1>6. /\ InfoIdIn(r.info, id, Use(c, a, b)).ownerPtr = Null
      /\ InfoIdIn(r.info, id, Use(c, a, b)).sharedState = Null
      /\ \A l \in 1 .. Len(r.stack) : r.of[r.stack[l].at] # t
  <2>1. ReaderInv(c, r, winfo) /\ WriterInv(c, w) /\ Sync(c, r, w) /\ EntersBoth(c, w, v, winfo, t)
    BY <1>1, <1>3, Zenon
  <2>2. NotBegun(r, v.info[t].id, UseAhead(c, w.stack), t)
    BY <1>1, <2>1, EnterNeeded
  <2>3. NotBegun(r, id, Use(c, a, b), t)
    BY <1>3, <2>2, Zenon
  <2>. QED
    BY <2>3 DEF NotBegun
<1>7. PICK s, p : /\ After(s) /\ ReaderInv(c, s, winfo) /\ Evolves(c, r, s)
                  /\ EnterEffect(c, r, s, a, b, winfo[t].id, t, p)
                  /\ pos' = pos + 2 /\ failed' = failed
  <2>1. NotBegun(r, winfo[t].id, Use(c, a, b), t)
    BY <1>2, <1>6 DEF NotBegun
  <2>2. t \in DOMAIN winfo /\ t = Target(c, r.of[a], b) /\ Token(pos + 1) = winfo[t].id
    BY <1>3, Zenon
  <2>. QED
    BY <1>1, <1>5, <2>1, <2>2, EnterGoes, Zenon DEF EntersNow
<1>8. EnterEffect(c, r, s, a, b, id, t, p)
  BY <1>2, <1>7
<1>9. pos' \in Nat /\ failed' \in BOOLEAN
  BY <1>1, <1>7
<1>10. Final(r, s)
  <2>1. FoundAs(r.info, id, Use(c, a, b), InfoIdIn(r.info, id, Use(c, a, b)))
    <3>1. Use(c, a, b) \in Uses /\ Informed(c, r, winfo)
      BY <1>1, <1>3 DEF ReaderInv, EntersBoth, LearnsBoth
    <3>. QED
      BY <1>2, <1>3, <3>1, AboutFound, Zenon
  <2>2. LearnsOf(r, s, id)
    BY <1>8 DEF EnterEffect
  <2>. QED
    BY <1>6, <2>1, <2>2, LearnsFinal DEF FoundAs
<1>11. CASE pos + 2 <= end
  <2>1. Sync(c, s, v)
    BY <1>1, <1>3, <1>4, <1>7, <1>8, <1>11, SyncEnters, Zenon
  <2>2. Sync(c, s, hist[k + 1]) /\ ~failed' /\ pos' = Len(hist[k + 1].stream) /\ pos' <= end'
    BY <1>2, <1>3, <1>4, <1>7, <1>11, <2>1, Zenon
  <2>. QED
    BY <1>7, <1>9, <1>10, <2>2, GoesInStep
<1>12. CASE pos + 2 > end
  <2>1. Cut'
    BY <1>1, <1>4, <1>7, <1>12 DEF Cut
  <2>. QED
    BY <1>7, <1>9, <1>10, <2>1, GoesCut
<1>. QED
  BY <1>1, <1>11, <1>12
LEMMA ReadOwnerStays ==
  ASSUME NEW c, NEW r, NEW hist, NEW m, Reads(c, r, hist, m), InStep(c, r, hist, m) \/ Cut, ReadOwner
  PROVE  GoesOn(c, r, hist, m)
<1>1. c = World /\ Given(c) /\ Is(r) /\ Framed(c, r, winfo)
  BY DEF Reads, ReaderInv
<1>2. PICK a, b : a = Last(r.stack).at /\ b = Last(r.stack).slot
  OBVIOUS
<1>3. /\ AtSlot(rstack) /\ Token(pos + 1) # 0 /\ Ownership(Kind(Here(rstack))) = "Owner"
      /\ end' = end /\ stream' = stream
  BY DEF ReadOwner, Reading, writerVars
<1>4. PICK k, t : k \in 0 .. m /\ k + 1 \in 0 .. m /\ Meets(c, r, hist, k, t, a, b)
  BY <1>2, <1>3, PointerAhead
<1>5. Use(c, a, b) = "Owner"
  BY <1>1, <1>2, <1>3, ReaderAhead
<1>6. ~Mentions(c, hist[k], hist[k + 1])
  BY <1>4, <1>5 DEF Meets, Mentions
<1>7. EntersBoth(c, hist[k], hist[k + 1], winfo, t) /\ Enters(c, hist[k], hist[k + 1])
  BY <1>4, <1>6 DEF Meets
<1>. QED
  BY <1>2, <1>3, <1>4, <1>7, EnterStays

\* A shared pointer to an object that was written before.
LEMMA KnownStays ==
  ASSUME NEW c, NEW r, NEW hist, NEW m, Reads(c, r, hist, m), ReadShared,
         NEW a, NEW b, a = Last(r.stack).at, b = Last(r.stack).slot, end' = end,
         NEW k \in 0 .. m, NEW t, k + 1 \in 0 .. m, Meets(c, r, hist, k, t, a, b),
         MentionsBoth(c, hist[k], hist[k + 1], winfo, t), Mentions(c, hist[k], hist[k + 1]),
         Use(c, a, b) # "Observer"
  PROVE  GoesOn(c, r, hist, m)
<1>1. /\ c = World /\ Given(c) /\ Is(r) /\ ReaderInv(c, r, winfo) /\ Numbered(c, winfo)
      /\ pos \in Nat /\ end \in Nat /\ failed \in BOOLEAN /\ Informed(c, r, winfo)
  BY WriterKnows DEF Reads, ReaderInv
<1>2. PICK w, v, id : w = hist[k] /\ v = hist[k + 1] /\ id = winfo[t].id
  OBVIOUS
<1>3. /\ Sync(c, r, w) /\ WriterInv(c, w) /\ t \in DOMAIN winfo /\ t = Target(c, r.of[a], b)
      /\ Token(pos + 1) = winfo[t].id /\ id = v.info[t].id /\ Use(c, a, b) = UseAhead(c, w.stack)
      /\ ~failed /\ pos + 1 <= end /\ MentionsBoth(c, w, v, winfo, t)
  BY <1>2, Zenon DEF Meets
<1>4. Len(v.stream) = pos + 1
  BY <1>1, <1>2, MeetsTokens
<1>5. InfoIdIn(r.info, id, UseAhead(c, w.stack)).sharedState # Null
  BY <1>1, <1>3, KnownNeeded, Zenon
<1>6. InfoIdIn(r.info, winfo[t].id, Use(c, a, b)).sharedState # Null
  BY <1>2, <1>3, <1>5, Zenon
<1>7. PICK s : /\ After(s) /\ s.place = r.place /\ ReaderInv(c, s, winfo) /\ Evolves(c, r, s)
               /\ KnownEffect(c, r, s, a, b, winfo[t].id)
               /\ pos' = pos + 1 /\ failed' = failed /\ s.stack = Moved(r.stack)
  BY <1>1, <1>3, <1>6, ReadKnownGoes, SMTT(30)
<1>8. KnownEffect(c, r, s, a, b, id)
  BY <1>2, <1>7
<1>9. Sync(c, s, v)
  BY <1>1, <1>3, <1>5, <1>7, <1>8, SyncKnown, Zenon
<1>10. pos' \in Nat /\ failed' \in BOOLEAN
  BY <1>1, <1>7
<1>11. Final(r, s)
  <2>1. PICK y : y = InfoIdIn(r.info, id, Use(c, a, b))
    OBVIOUS
  <2>2. About(c, r, t, y) /\ FoundAs(r.info, id, Use(c, a, b), y)
    <3>1. Use(c, a, b) \in Uses
      BY <1>3 DEF MentionsBoth, LearnsBoth
    <3>. QED
      BY <1>1, <1>2, <1>3, <2>1, <3>1, AboutFound, Zenon
  <2>3. y.sharedState # Null /\ LearnsOf(r, s, id) /\ s.info[id].ownerPtr = y.sharedState
    BY <1>2, <1>6, <1>8, <2>1, Zenon DEF KnownEffect
  <2>4. y.ownerPtr # Null => y.ownerPtr = y.sharedState
    BY <2>2, <2>3 DEF About
  <2>. QED
    BY <2>2, <2>3, <2>4, LearnsFinal DEF FoundAs
<1>12. Sync(c, s, hist[k + 1]) /\ ~failed' /\ pos' = Len(hist[k + 1].stream) /\ pos' <= end'
  BY <1>2, <1>3, <1>4, <1>7, <1>9, Zenon
<1>. QED
  BY <1>7, <1>10, <1>11, <1>12, GoesInStep

LEMMA ReadSharedStays ==
  ASSUME NEW c, NEW r, NEW hist, NEW m, Reads(c, r, hist, m), InStep(c, r, hist, m) \/ Cut, ReadShared
  PROVE  GoesOn(c, r, hist, m)
<1>1. c = World /\ Given(c) /\ Is(r) /\ Framed(c, r, winfo)
  BY DEF Reads, ReaderInv
<1>2. PICK a, b : a = Last(r.stack).at /\ b = Last(r.stack).slot
  OBVIOUS
<1>3. /\ AtSlot(rstack) /\ Token(pos + 1) # 0 /\ Ownership(Kind(Here(rstack))) # "Observer"
      /\ end' = end /\ stream' = stream
  BY DEF ReadShared, Reading, writerVars
<1>4. PICK k, t : k \in 0 .. m /\ k + 1 \in 0 .. m /\ Meets(c, r, hist, k, t, a, b)
  BY <1>2, <1>3, PointerAhead
<1>5. Use(c, a, b) # "Observer"
  BY <1>1, <1>2, <1>3, ReaderAhead
<1>6. \/ MentionsBoth(c, hist[k], hist[k + 1], winfo, t) /\ Mentions(c, hist[k], hist[k + 1])
      \/ EntersBoth(c, hist[k], hist[k + 1], winfo, t) /\ Enters(c, hist[k], hist[k + 1])
  BY <1>4 DEF Meets
<1>7. CASE MentionsBoth(c, hist[k], hist[k + 1], winfo, t) /\ Mentions(c, hist[k], hist[k + 1])
  BY <1>2, <1>3, <1>4, <1>5, <1>7, KnownStays
<1>8. CASE EntersBoth(c, hist[k], hist[k + 1], winfo, t) /\ Enters(c, hist[k], hist[k + 1])
  BY <1>2, <1>3, <1>4, <1>8, EnterStays
<1>. QED
  BY <1>6, <1>7, <1>8

\* An object ends on both sides.
LEMMA ReadReturnStays ==
  ASSUME NEW c, NEW r, NEW hist, NEW m, Reads(c, r, hist, m), InStep(c, r, hist, m) \/ Cut, ReadReturn
  PROVE  GoesOn(c, r, hist, m)
<1>1. /\ c = World /\ Given(c) /\ Is(r) /\ ReaderInv(c, r, winfo) /\ Numbered(c, winfo)
      /\ pos \in Nat /\ end \in Nat /\ failed \in BOOLEAN /\ Framed(c, r, winfo) /\ Informed(c, r, winfo)
      /\ r.stack = rstack
  BY WriterKnows DEF Reads, ReaderInv, Is
<1>2. /\ AtEnd(rstack) /\ rstack # << >> /\ rstack' = Front(rstack)
      /\ pos' = pos /\ failed' = failed /\ end' = end /\ stream' = stream
  BY DEF ReadReturn, AtEnd, writerVars
<1>3. pos' \in Nat /\ failed' \in BOOLEAN
  BY <1>1, <1>2
<1>4. PICK s : /\ After(s) /\ s.place = r.place /\ ReaderInv(c, s, winfo) /\ Evolves(c, r, s)
               /\ ReturnEffect(c, r, s) /\ s.of = r.of
  BY <1>1, ReadReturnGoes
<1>5. s.stack = Front(r.stack)
  BY <1>1, <1>2, <1>4 DEF After
<1>6. Len(r.stack) \in Nat \ {0} /\ Last(r.stack) = r.stack[Len(r.stack)] /\ Last(r.stack).slot \in Nat \ {0}
  BY <1>1, <1>2, ReaderTop
<1>7. Final(r, s)
  <2>1. CASE Len(r.stack) = 1
    BY <1>4, <2>1 DEF ReturnEffect, Final
  <2>2. CASE Len(r.stack) # 1
    <3>0. PICK n \in Nat \ {0} : n = Len(r.stack)
      BY <1>6
    <3>1. PICK at, id : at = Last(r.stack).at /\ id = Last(r.stack).id
      OBVIOUS
    <3>2. n \in 2 .. Len(r.stack) /\ Last(r.stack) = r.stack[n]
      <4>1. n # 1
        BY <2>2, <3>0
      <4>2. n \in 2 .. n
        BY <4>1
      <4>. QED
        BY <1>6, <3>0, <4>2
    <3>3. r.info[id].ownerPtr \in {Null, at}
      <4>1. \A k \in 2 .. Len(r.stack) : r.info[r.stack[k].id].ownerPtr \in {Null, r.stack[k].at}
        BY <1>1 DEF Informed
      <4>2. r.stack[n].id = id /\ r.stack[n].at = at
        BY <3>1, <3>2
      <4>. QED
        BY <3>2, <4>1, <4>2
    <3>4. LearnsOf(r, s, id) /\ s.info[id].ownerPtr = at
      BY <1>4, <2>2, <3>1, Zenon DEF ReturnEffect, LinkEffect
    <3>. QED
      BY <3>3, <3>4, LearnsFinal
  <2>. QED
    BY <2>1, <2>2
<1>8. CASE Cut
  <2>1. Cut'
    BY <1>2, <1>8 DEF Cut
  <2>. QED
    BY <1>3, <1>4, <1>7, <2>1, GoesCut
<1>9. CASE InStep(c, r, hist, m)
  <2>1. PICK k \in 0 .. m : ~failed /\ pos = Len(hist[k].stream) /\ pos <= end /\ Sync(c, r, hist[k])
    BY <1>9 DEF InStep
  <2>2. PICK w, v : w = hist[k] /\ v = hist[k + 1]
    OBVIOUS
  <2>3. /\ k + 1 \in 0 .. m /\ WriterStep(c, w, v) /\ w.stack # << >> /\ WriterInv(c, w)
        /\ Knows(w, winfo)
    BY <1>2, <2>1, <2>2, StepAhead
  <2>4. ~HasSlot(c, Last(r.stack).at, Last(r.stack).slot)
    BY <1>1, <1>2, <1>6, SlotsAlike DEF NoneAhead
  <2>5. ~SlotAhead(c, w.stack)
    BY <1>1, <2>1, <2>2, <2>3, <2>4, AheadAlike
  <2>6. ReturnStep(c, w, v)
    BY <2>3, <2>5 DEF WriterStep, NullStep, PointerStep
  <2>7. v.stream = w.stream
    BY <2>6 DEF ReturnStep
  <2>8. Sync(c, s, v)
    BY <1>1, <1>4, <1>5, <2>1, <2>2, <2>3, <2>6, SyncReturn
  <2>9. k + 1 \in 0 .. m /\ Sync(c, s, hist[k + 1]) /\ ~failed' /\ pos' = Len(hist[k + 1].stream) /\ pos' <= end'
    BY <1>2, <2>1, <2>2, <2>3, <2>7, <2>8
  <2>. QED
    BY <1>3, <1>4, <1>7, <2>9, GoesInStep
<1>. QED
  BY <1>8, <1>9
-----------------------------------------------------------------------------
(***************************************************************************)
(* What follows pointers a number of times, in rounds.                     *)
(***************************************************************************)
LEMMA LeastNumber ==
  ASSUME NEW T, T \subseteq Nat, T # {}
  PROVE  \E t \in T : \A y \in T : t <= y
<1>1. PICK t \in T : \A y \in T : ~ (<<y, t>> \in OpToRel(<, Nat))
  BY NatLessThanWellFounded, WFMin, Zenon, Zenon
<1>2. ASSUME NEW y \in T PROVE t <= y
  <2>1. y \in Nat /\ t \in Nat
    OBVIOUS
  <2>2. CASE y < t
    <3>1. PICK z : z = <<y, t>>
      BY Zenon
    <3>2. z \in Nat \X Nat /\ z[1] < z[2]
      BY <2>1, <2>2, <3>1
    <3>3. z \in OpToRel(<, Nat)
      BY <3>2 DEF OpToRel
    <3>. QED
      BY <1>1, <3>1, <3>3, Zenon
  <2>. QED
    BY <2>1, <2>2
<1>. QED
  BY <1>2

LEMMA Induction ==
  ASSUME NEW n \in Nat, NEW K, 0 \in K,
         \A k \in 0 .. n - 1 : k \in K => k + 1 \in K
  PROVE  \A k \in 0 .. n : k \in K
<1>. SUFFICES ASSUME NEW m \in 0 .. n, m \notin K PROVE FALSE
  OBVIOUS
<1>. DEFINE T == { k \in 0 .. n : k \notin K }
<1>1. PICK t \in T : \A y \in T : t <= y
  <2>1. T \subseteq Nat /\ T # {}
    OBVIOUS
  <2>. HIDE DEF T
  <2>. QED
    BY <2>1, LeastNumber, Zenon
<1>2. t - 1 \in 0 .. n - 1 /\ t = (t - 1) + 1
  OBVIOUS
<1>3. t - 1 \in K
  BY <1>1, <1>2
<1>. QED
  BY <1>1, <1>2, <1>3

\* What the objects of a set hold, and the rounds of Reached.
Kept(g, near) ==
  { g[s] : s \in { t \in Slots : t[1] \in near /\ Kind(t) # "Observer" /\ g[t] # Null } }

ReachedRounds(g, h, n, round) ==
  /\ round[0] = {h} /\ Reached(g, h) = round[n]
  /\ \A k \in 0 .. n - 1 : round[k + 1] = round[k] \union Kept(g, round[k])

LEMMA ReachedInRounds ==
  ASSUME NEW g, NEW h, NEW n \in Nat, Cardinality(Objects) = n
  PROVE  \E round : ReachedRounds(g, h, n, round)
<1>1. n \in Nat /\ Cardinality(Objects) = n
  OBVIOUS
<1>. DEFINE Step(near) == near \union Kept(g, near)
            Upto(m) == \E f : f = [ k \in 0 .. m |-> IF k = 0 THEN {h} ELSE Step(f[k - 1]) ]
            K == { m \in 0 .. n : Upto(m) }
<1>2. Upto(0)
  <2>1. PICK f : f = [ k \in 0 .. 0 |-> {h} ]
    BY Zenon
  <2>2. f = [ k \in 0 .. 0 |-> IF k = 0 THEN {h} ELSE Step(f[k - 1]) ]
    <3>. HIDE DEF Step
    <3>. QED
      BY <2>1
  <2>. QED
    BY <2>2
<1>3. ASSUME NEW m \in 0 .. n - 1, Upto(m)
      PROVE  Upto(m + 1)
  <2>1. PICK f : f = [ k \in 0 .. m |-> IF k = 0 THEN {h} ELSE Step(f[k - 1]) ]
    BY <1>3
  <2>. HIDE DEF Step
  <2>2. PICK g1 : g1 = [ k \in 0 .. m + 1 |-> IF k = m + 1 THEN Step(f[m]) ELSE f[k] ]
    BY Zenon
  <2>3. ASSUME NEW k \in 0 .. m + 1
        PROVE  g1[k] = IF k = 0 THEN {h} ELSE Step(g1[k - 1])
    <3>1. CASE k = 0
      BY <2>1, <2>2, <3>1
    <3>2. CASE k = m + 1
      <4>1. k - 1 = m /\ k # 0 /\ m # m + 1 /\ m \in 0 .. m + 1
        BY <3>2
      <4>. QED
        BY <2>2, <3>2, <4>1
    <3>3. CASE k # 0 /\ k # m + 1
      <4>1. k \in 0 .. m /\ k - 1 \in 0 .. m + 1 /\ k - 1 # m + 1
        BY <3>3
      <4>2. g1[k] = f[k] /\ g1[k - 1] = f[k - 1]
        BY <2>2, <3>3, <4>1
      <4>. QED
        BY <2>1, <3>3, <4>1, <4>2, Zenon
    <3>. QED
      BY <3>1, <3>2, <3>3
  <2>4. g1 = [ k \in 0 .. m + 1 |-> IF k = 0 THEN {h} ELSE Step(g1[k - 1]) ]
    <3>1. g1 = [ k \in 0 .. m + 1 |-> g1[k] ]
      BY <2>2
    <3>. QED
      BY <2>3, <3>1, Zenon
  <2>. QED
    BY <2>4 DEF Step
<1>. HIDE DEF Upto
<1>4. 0 \in K /\ \A m \in 0 .. n - 1 : m \in K => m + 1 \in K
  BY <1>1, <1>2, <1>3
<1>. HIDE DEF K
<1>5. n \in K
  BY <1>1, <1>4, Induction
<1>6. Upto(n)
  BY <1>5 DEF K
<1>. HIDE DEF Step
<1>7. \E f : f = [ k \in 0 .. n |-> IF k = 0 THEN {h} ELSE Step(f[k - 1]) ]
  BY <1>6 DEF Upto
<1>. DEFINE round == CHOOSE f : f = [ k \in 0 .. n |-> IF k = 0 THEN {h} ELSE Step(f[k - 1]) ]
<1>8. round = [ k \in 0 .. n |-> IF k = 0 THEN {h} ELSE Step(round[k - 1]) ]
  BY <1>7, Zenon
<1>9. Reached(g, h) = round[n]
  BY <1>1 DEF Reached, Step, Kept
<1>. HIDE DEF round
<1>10. round[0] = {h}
  BY <1>1, <1>8
<1>11. ASSUME NEW k \in 0 .. n - 1 PROVE round[k + 1] = Step(round[k])
  <2>1. k + 1 \in 0 .. n /\ k + 1 # 0 /\ (k + 1) - 1 = k
    BY <1>1
  <2>. QED
    BY <1>8, <2>1, Zenon
<1>12. ReachedRounds(g, h, n, round)
  BY <1>1, <1>9, <1>10, <1>11 DEF ReachedRounds, Step
<1>. QED
  BY <1>12

\* What the slots of corresponding objects hold, and the rounds of Corresponding.
NextTo(near) ==
  UNION { { << graph[<<q[1], i>>], heap[q[2]].to[i] >> : i \in 1 .. Len(KindsOf(q[1])) } :
          q \in { q \in near : q[1] # Null /\ q[2] # Null } }

CorrespondingRounds(n, round) ==
  /\ round[0] = { <<Root, Root>> } /\ Corresponding = round[n]
  /\ \A k \in 0 .. n - 1 : round[k + 1] = round[k] \union NextTo(round[k])

LEMMA CorrespondingInRounds ==
  ASSUME NEW n \in Nat, Cardinality(Objects) + 1 = n
  PROVE  \E round : CorrespondingRounds(n, round)
<1>1. n \in Nat /\ Cardinality(Objects) + 1 = n
  OBVIOUS
<1>. DEFINE Step(near) == near \union NextTo(near)
            Upto(m) == \E f : f = [ k \in 0 .. m |-> IF k = 0 THEN { <<Root, Root>> } ELSE Step(f[k - 1]) ]
            K == { m \in 0 .. n : Upto(m) }
<1>2. Upto(0)
  <2>1. PICK f : f = [ k \in 0 .. 0 |-> { <<Root, Root>> } ]
    BY Zenon
  <2>2. f = [ k \in 0 .. 0 |-> IF k = 0 THEN { <<Root, Root>> } ELSE Step(f[k - 1]) ]
    <3>. HIDE DEF Step
    <3>. QED
      BY <2>1
  <2>. QED
    BY <2>2
<1>3. ASSUME NEW m \in 0 .. n - 1, Upto(m)
      PROVE  Upto(m + 1)
  <2>1. PICK f : f = [ k \in 0 .. m |-> IF k = 0 THEN { <<Root, Root>> } ELSE Step(f[k - 1]) ]
    BY <1>3
  <2>. HIDE DEF Step
  <2>2. PICK g1 : g1 = [ k \in 0 .. m + 1 |-> IF k = m + 1 THEN Step(f[m]) ELSE f[k] ]
    BY Zenon
  <2>3. ASSUME NEW k \in 0 .. m + 1
        PROVE  g1[k] = IF k = 0 THEN { <<Root, Root>> } ELSE Step(g1[k - 1])
    <3>1. CASE k = 0
      BY <2>1, <2>2, <3>1
    <3>2. CASE k = m + 1
      <4>1. k - 1 = m /\ k # 0 /\ m # m + 1 /\ m \in 0 .. m + 1
        BY <3>2
      <4>. QED
        BY <2>2, <3>2, <4>1
    <3>3. CASE k # 0 /\ k # m + 1
      <4>1. k \in 0 .. m /\ k - 1 \in 0 .. m + 1 /\ k - 1 # m + 1
        BY <3>3
      <4>2. g1[k] = f[k] /\ g1[k - 1] = f[k - 1]
        BY <2>2, <3>3, <4>1
      <4>. QED
        BY <2>1, <3>3, <4>1, <4>2, Zenon
    <3>. QED
      BY <3>1, <3>2, <3>3
  <2>4. g1 = [ k \in 0 .. m + 1 |-> IF k = 0 THEN { <<Root, Root>> } ELSE Step(g1[k - 1]) ]
    <3>1. g1 = [ k \in 0 .. m + 1 |-> g1[k] ]
      BY <2>2
    <3>. QED
      BY <2>3, <3>1, Zenon
  <2>. QED
    BY <2>4 DEF Step
<1>. HIDE DEF Upto
<1>4. 0 \in K /\ \A m \in 0 .. n - 1 : m \in K => m + 1 \in K
  BY <1>1, <1>2, <1>3
<1>. HIDE DEF K
<1>5. n \in K
  BY <1>1, <1>4, Induction
<1>6. Upto(n)
  BY <1>5 DEF K
<1>. HIDE DEF Step
<1>7. \E f : f = [ k \in 0 .. n |-> IF k = 0 THEN { <<Root, Root>> } ELSE Step(f[k - 1]) ]
  BY <1>6 DEF Upto
<1>. DEFINE round == CHOOSE f : f = [ k \in 0 .. n |-> IF k = 0 THEN { <<Root, Root>> } ELSE Step(f[k - 1]) ]
<1>8. round = [ k \in 0 .. n |-> IF k = 0 THEN { <<Root, Root>> } ELSE Step(round[k - 1]) ]
  BY <1>7, Zenon
<1>9. Corresponding = round[n]
  BY <1>1, Zenon DEF Corresponding, Step, NextTo
<1>. HIDE DEF round
<1>10. round[0] = { <<Root, Root>> }
  BY <1>1, <1>8
<1>11. ASSUME NEW k \in 0 .. n - 1 PROVE round[k + 1] = Step(round[k])
  <2>1. k + 1 \in 0 .. n /\ k + 1 # 0 /\ (k + 1) - 1 = k
    BY <1>1
  <2>. QED
    BY <1>8, <2>1, Zenon
<1>12. CorrespondingRounds(n, round)
  BY <1>1, <1>9, <1>10, <1>11 DEF CorrespondingRounds, Step
<1>. QED
  BY <1>12

\* What holds of the roots, and along corresponding slots, holds of all that corresponds.
LEMMA CorrespondingWithin ==
  ASSUME NEW n \in Nat, Cardinality(Objects) + 1 = n, NEW G, <<Root, Root>> \in G,
         \A q \in G : \A i \in 1 .. Len(KindsOf(q[1])) :
           q[1] # Null /\ q[2] # Null => << graph[<<q[1], i>>], heap[q[2]].to[i] >> \in G
  PROVE  Corresponding \subseteq G
<1>1. PICK round : CorrespondingRounds(n, round)
  BY CorrespondingInRounds
<1>. DEFINE K == { k \in 0 .. n : round[k] \subseteq G }
<1>2. 0 \in K
  BY <1>1 DEF CorrespondingRounds
<1>3. ASSUME NEW k \in 0 .. n - 1, k \in K PROVE k + 1 \in K
  <2>1. round[k + 1] = round[k] \union NextTo(round[k]) /\ round[k] \subseteq G
    BY <1>1, <1>3 DEF CorrespondingRounds
  <2>2. ASSUME NEW z \in NextTo(round[k]) PROVE z \in G
    <3>1. PICK q \in round[k] : /\ q[1] # Null /\ q[2] # Null
                                /\ \E i \in 1 .. Len(KindsOf(q[1])) : z = << graph[<<q[1], i>>], heap[q[2]].to[i] >>
      BY DEF NextTo
    <3>. QED
      BY <2>1, <3>1
  <2>3. k + 1 \in 0 .. n
    OBVIOUS
  <2>. QED
    BY <2>1, <2>2, <2>3
<1>. HIDE DEF K
<1>4. n \in K
  <2>1. \A k \in 0 .. n - 1 : k \in K => k + 1 \in K
    BY <1>3
  <2>2. \A k \in 0 .. n : k \in K
    BY <1>2, <2>1, Induction, Zenon
  <2>. QED
    BY <2>2
<1>. QED
  BY <1>1, <1>4 DEF K, CorrespondingRounds

-----------------------------------------------------------------------------
(***************************************************************************)
(* The programs and graphs of Init are such as the proof takes them.       *)
(* The proof speaks of graphs in which no pointer leads back to a          *)
(* polymorphic object that may be there already (BackReferencesFit: on     *)
(* BackReference of MCPointerLinking, TLC shows that such an object is     *)
(* read again), and of readers whose slots hold nothing or an object of    *)
(* its own with null slots (Flat: TLC alone checks those that hold more).  *)
(***************************************************************************)
Sound == BackReferencesFit /\ Flat

\* What Init says of the program and of the graph.
Begun ==
  /\ program \in Programs /\ graph \in [ Slots -> Objects \union {Null} ] /\ WellOwned(graph)

LEMMA ProgramTyped ==
  ASSUME NEW c, c = World, Begun
  PROVE  /\ program \in Program /\ c.objects = Objects /\ program.objects \in Nat
         /\ Objects = 1 .. program.objects /\ IsFiniteSet(Objects) /\ Cardinality(Objects) = program.objects
         /\ c.root \in Seq(Kinds) /\ c.object \in Seq(Uses)
         /\ c.polymorphic \in BOOLEAN /\ c.existing \in BOOLEAN
         /\ c.graph = graph
<1>1. program \in Program
  BY ProgramsAssumption DEF Begun
<1>2. /\ program.objects \in Nat /\ program.root \in Seq(Kinds) /\ program.object \in Seq(Kinds \ {"Reference"})
      /\ program.polymorphic \in BOOLEAN /\ program.existing \in BOOLEAN
  BY <1>1 DEF Program
<1>3. /\ c.objects = Objects /\ c.graph = graph /\ c.root = program.root /\ c.object = program.object
      /\ c.polymorphic = program.polymorphic /\ c.existing = program.existing
  BY DEF World, RootSlots, ObjectSlots, Polymorphic
<1>4. Objects = 1 .. program.objects
  BY DEF Objects
<1>5. IsFiniteSet(1 .. program.objects) /\ Cardinality(1 .. program.objects) = program.objects
  <2>1. PICK n \in Nat : n = program.objects
    BY <1>2
  <2>2. IsFiniteSet(1 .. n) /\ Cardinality(1 .. n) = IF 1 > n THEN 0 ELSE n - 1 + 1
    BY FS_Interval
  <2>. QED
    BY <2>1, <2>2
<1>. QED
  BY <1>1, <1>2, <1>3, <1>4, <1>5 DEF Uses

LEMMA WorldSlots ==
  ASSUME NEW c, c = World, Begun
  PROVE  /\ IsFiniteSet(Slots)
         /\ \A x, i : <<x, i>> \in Slots <=> x \in Things(c) /\ HasSlot(c, x, i)
         /\ \A s \in Slots : s = <<s[1], s[2]>>
<1>1. /\ \A x : KindsOf(x) = Shape(c, x)
      /\ c.objects = Objects /\ IsFiniteSet(Objects) /\ c.root \in Seq(Kinds) /\ c.object \in Seq(Uses)
  BY WorldKinds, ProgramTyped
<1>2. \A x : Len(KindsOf(x)) \in Nat
  BY <1>1 DEF Shape
<1>. DEFINE Hs == Objects \union {Root}
<1>3. PICK H : H = { SlotsOf(h) : h \in Hs }
  BY Zenon
<1>4. Slots = UNION H
  BY <1>3 DEF Slots
<1>5. \A x, i : <<x, i>> \in Slots <=> x \in Things(c) /\ HasSlot(c, x, i)
  BY <1>1, <1>3, <1>4 DEF SlotsOf, Things, HasSlot
<1>6. \A s \in Slots : s = <<s[1], s[2]>>
  BY <1>3, <1>4 DEF SlotsOf
<1>7. IsFiniteSet(H)
  <2>1. IsFiniteSet(Hs)
    BY <1>1, FS_AddElement
  <2>2. PICK f : f = [ h \in Hs |-> SlotsOf(h) ]
    BY Zenon
  <2>3. f \in Surjection(Hs, H)
    BY <1>3, <2>2 DEF Surjection
  <2>. QED
    BY <2>1, <2>3, FS_Surjection
<1>8. ASSUME NEW T \in H PROVE IsFiniteSet(T)
  <2>1. PICK h \in Hs : T = SlotsOf(h)
    BY <1>3
  <2>2. PICK n \in Nat : n = Len(KindsOf(h))
    BY <1>2
  <2>3. IsFiniteSet(1 .. n)
    BY FS_Interval
  <2>4. PICK f : f = [ i \in 1 .. n |-> <<h, i>> ]
    BY Zenon
  <2>5. f \in Surjection(1 .. n, T)
    BY <2>1, <2>2, <2>4 DEF Surjection, SlotsOf
  <2>. QED
    BY <2>3, <2>5, FS_Surjection
<1>9. IsFiniteSet(Slots)
  BY <1>4, <1>7, <1>8, FS_UNION
<1>. QED
  BY <1>5, <1>6, <1>9

\* Of at most one there are no two.
LEMMA AtMostOne ==
  ASSUME NEW S, IsFiniteSet(S), Cardinality(S) <= 1, NEW x \in S, NEW y \in S
  PROVE  x = y
<1>. SUFFICES ASSUME x # y PROVE FALSE
  OBVIOUS
<1>1. IsFiniteSet({x}) /\ Cardinality({x}) = 1
  BY FS_Singleton, Zenon
<1>2. IsFiniteSet({x} \union {y}) /\ Cardinality({x} \union {y}) = 2
  <2>1. PICK T : T = {x}
    BY Zenon
  <2>2. Cardinality(T \union {y}) = IF y \in T THEN Cardinality(T) ELSE Cardinality(T) + 1
    BY <1>1, <2>1, FS_AddElement, Zenon
  <2>3. IsFiniteSet(T \union {y}) /\ y \notin T
    BY <1>1, <2>1, FS_AddElement, Zenon
  <2>. QED
    BY <1>1, <2>1, <2>2, <2>3
<1>3. {x} \union {y} \in SUBSET S
  OBVIOUS
<1>4. Cardinality({x} \union {y}) <= Cardinality(S) /\ Cardinality(S) \in Nat
  BY <1>3, FS_Subset, FS_CardinalityType
<1>. QED
  BY <1>2, <1>4

LEMMA OwnedWorld ==
  ASSUME NEW c, c = World, Begun
  PROVE  Owned(c)
<1>. SUFFICES ASSUME NEW x \in Things(c), NEW y \in Things(c), NEW i, NEW j,
                     Holding(c, x, i), Holding(c, y, j), Use(c, x, i) = "Owner",
                     Target(c, x, i) = Target(c, y, j), Target(c, x, i) # Null
              PROVE  x = y /\ i = j
  BY DEF Owned
<1>1. <<x, i>> \in Slots /\ <<y, j>> \in Slots /\ c.graph = graph /\ c.objects = Objects
  BY WorldSlots, ProgramTyped DEF Holding
<1>2. PICK s, t, o : s = <<x, i>> /\ t = <<y, j>> /\ o = Target(c, x, i)
  BY Zenon
<1>3. s \in Slots /\ t \in Slots /\ graph[s] = o /\ graph[t] = o
  BY <1>1, <1>2 DEF Target
<1>4. o \in Objects
  BY <1>2, <1>3 DEF Begun
<1>5. Ownership(Kind(s)) = "Owner" /\ Ownership(Kind(t)) # "Observer" /\ Kind(t) \in Kinds
  <2>1. Kind(s) = Shape(c, x)[i] /\ Kind(t) = Shape(c, y)[j]
    BY <1>2, WorldKinds
  <2>2. Shape(c, y)[j] \in Kinds
    <3>1. c.root \in Seq(Kinds) /\ c.object \in Seq(Kinds)
      <4>1. c.root \in Seq(Kinds) /\ c.object \in Seq(Uses)
        BY ProgramTyped
      <4>2. \A k \in 1 .. Len(c.object) : c.object[k] \in Kinds
        BY <4>1 DEF Uses
      <4>. QED
        BY <4>1, <4>2 DEF Uses
    <3>. QED
      BY <3>1 DEF Holding, HasSlot, Shape
  <2>. QED
    BY <2>1, <2>2 DEF Use, Holding
<1>. DEFINE owners == { z \in Slots : graph[z] = o /\ Ownership(Kind(z)) = "Owner" }
            shares == { z \in Slots : graph[z] = o /\ IsShared(Kind(z)) }
<1>6. Cardinality(owners) <= 1 /\ (owners # {} => shares = {})
  BY <1>4 DEF Begun, WellOwned
<1>7. s \in owners
  BY <1>3, <1>5
<1>8. ~IsShared(Kind(t))
  BY <1>3, <1>6, <1>7
<1>9. t \in owners
  BY <1>3, <1>5, <1>8 DEF IsShared, Kinds, Ownership
<1>10. IsFiniteSet(owners)
  BY WorldSlots, FS_Subset
<1>. HIDE DEF owners
<1>11. s = t
  BY <1>6, <1>7, <1>9, <1>10, AtMostOne
<1>. QED
  BY <1>2, <1>11

\* A path is no longer than there are objects, and Reached follows it.
LEMMA PathKept ==
  ASSUME NEW c, c = World, Begun, NEW n \in Nat \ {0}, NEW q, Path(c, q, n), q[1] \in Objects
  PROVE  q[n] \in Reached(graph, q[1])
<1>1. /\ c.objects = Objects /\ program.objects \in Nat /\ IsFiniteSet(Objects)
      /\ Cardinality(Objects) = program.objects /\ c.graph = graph
  BY ProgramTyped
<1>2. PICK m \in Nat : m = Cardinality(Objects)
  BY <1>1
<1>3. PICK round : ReachedRounds(graph, q[1], m, round)
  BY <1>2, ReachedInRounds
<1>4. /\ \A k \in 1 .. n : q[k] \in Things(c)
      /\ \A j, k \in 1 .. n : q[j] = q[k] => j = k
      /\ \A k \in 1 .. n - 1 : \E i : Holding(c, q[k], i) /\ Target(c, q[k], i) = q[k + 1]
  BY DEF Path
<1>5. ASSUME NEW k \in 1 .. n - 1
      PROVE  /\ q[k + 1] \in Objects
             /\ \A near : q[k] \in near => q[k + 1] \in Kept(graph, near)
  <2>1. k \in 1 .. n /\ k + 1 \in 1 .. n
    OBVIOUS
  <2>2. PICK i : Holding(c, q[k], i) /\ Target(c, q[k], i) = q[k + 1]
    BY <1>4
  <2>3. PICK s : s = <<q[k], i>>
    BY Zenon
  <2>4. s \in Slots /\ s[1] = q[k] /\ graph[s] = q[k + 1] /\ Kind(s) # "Observer"
    <3>1. q[k] \in Things(c)
      BY <1>4, <2>1
    <3>2. Kind(s) = Shape(c, q[k])[i]
      BY <2>3, WorldKinds
    <3>3. <<q[k], i>> \in Slots
      BY <2>2, <3>1, WorldSlots DEF Holding
    <3>. QED
      BY <1>1, <2>2, <2>3, <3>2, <3>3 DEF Holding, Use, Ownership, Target
  <2>5. q[k + 1] \in Objects \union {Null} /\ q[k + 1] \in Things(c)
    BY <1>4, <2>1, <2>4 DEF Begun
  <2>6. q[k + 1] # Null /\ q[k + 1] \in Objects
    <3>1. \A o \in Objects : o # Null /\ o # Root
      BY <1>1 DEF Objects, Null, Root
    <3>2. q[k + 1] # Null
      BY <1>1, <2>5, <3>1 DEF Things, Null, Root
    <3>. QED
      BY <2>5, <3>2
  <2>. QED
    BY <2>4, <2>6 DEF Kept
<1>6. \A k \in 1 .. n : q[k] \in Objects
  <2>1. ASSUME NEW k \in 1 .. n, k # 1 PROVE q[k] \in Objects
    <3>1. k - 1 \in 1 .. n - 1 /\ (k - 1) + 1 = k
      BY <2>1
    <3>. QED
      BY <1>5, <3>1
  <2>. QED
    BY <2>1
<1>7. n <= m
  <2>1. PICK f : f = [ k \in 1 .. n |-> q[k] ]
    BY Zenon
  <2>2. f \in Injection(1 .. n, Objects)
    BY <1>4, <1>6, <2>1 DEF Injection, IsInjective
  <2>3. Cardinality(1 .. n) <= Cardinality(Objects)
    BY <1>1, <2>2, FS_Injection
  <2>4. Cardinality(1 .. n) = n
    <3>1. Cardinality(1 .. n) = IF 1 > n THEN 0 ELSE n - 1 + 1
      BY FS_Interval
    <3>. QED
      BY <3>1
  <2>. QED
    BY <1>2, <2>3, <2>4
<1>8. /\ round[0] = {q[1]} /\ Reached(graph, q[1]) = round[m]
      /\ \A k \in 0 .. m - 1 : round[k + 1] = round[k] \union Kept(graph, round[k])
  BY <1>3 DEF ReachedRounds
<1>. DEFINE K == { k \in 0 .. m : k < n => q[k + 1] \in round[k] }
<1>9. 0 \in K
  BY <1>8
<1>10. ASSUME NEW k \in 0 .. m - 1, k \in K PROVE k + 1 \in K
  <2>1. k + 1 \in 0 .. m
    OBVIOUS
  <2>2. CASE k + 1 < n
    <3>1. k + 1 \in 1 .. n - 1 /\ k < n
      BY <2>2
    <3>2. q[k + 1] \in round[k]
      BY <1>10, <3>1
    <3>3. q[(k + 1) + 1] \in Kept(graph, round[k])
      BY <1>5, <3>1, <3>2
    <3>. QED
      BY <1>8, <2>1, <3>3
  <2>3. CASE ~(k + 1 < n)
    BY <2>1, <2>3
  <2>. QED
    BY <2>2, <2>3
<1>. HIDE DEF K
<1>11. \A k \in 0 .. m : k \in K
  <2>1. \A k \in 0 .. m - 1 : k \in K => k + 1 \in K
    BY <1>10
  <2>. QED
    BY <1>9, <2>1, Induction
<1>12. n - 1 \in 0 .. m /\ n - 1 < n /\ (n - 1) + 1 = n
  BY <1>7
<1>13. q[n] \in round[n - 1]
  <2>1. n - 1 \in K
    BY <1>11, <1>12
  <2>2. n - 1 < n => q[(n - 1) + 1] \in round[n - 1]
    BY <2>1 DEF K
  <2>. QED
    BY <1>12, <2>2
<1>. DEFINE M == { k \in 0 .. m : k >= n - 1 => q[n] \in round[k] }
<1>14. 0 \in M
  <2>1. 0 >= n - 1 => n - 1 = 0
    OBVIOUS
  <2>. QED
    BY <1>13, <2>1
<1>15. ASSUME NEW k \in 0 .. m - 1, k \in M PROVE k + 1 \in M
  <2>1. k + 1 \in 0 .. m
    OBVIOUS
  <2>2. CASE k >= n - 1
    BY <1>8, <1>15, <2>1, <2>2
  <2>3. CASE ~(k >= n - 1)
    <3>1. k + 1 >= n - 1 => k + 1 = n - 1
      BY <2>3
    <3>. QED
      BY <1>13, <2>1, <3>1
  <2>. QED
    BY <2>2, <2>3
<1>. HIDE DEF M
<1>16. \A k \in 0 .. m : k \in M
  <2>1. \A k \in 0 .. m - 1 : k \in M => k + 1 \in M
    BY <1>15
  <2>. QED
    BY <1>14, <2>1, Induction
<1>17. m \in M /\ m >= n - 1
  BY <1>7, <1>16
<1>18. q[n] \in round[m]
  BY <1>17 DEF M
<1>. QED
  BY <1>8, <1>18

LEMMA AcyclicWorld ==
  ASSUME NEW c, c = World, Begun, Acyclic(graph)
  PROVE  NoCycles(c)
<1>. SUFFICES ASSUME NEW n \in Nat \ {0}, NEW q, Path(c, q, n), NEW i, Holding(c, q[n], i),
                     Target(c, q[n], i) = q[1]
              PROVE  FALSE
  BY DEF NoCycles
<1>1. c.objects = Objects /\ c.graph = graph /\ program.objects \in Nat
  BY ProgramTyped
<1>2. PICK s : s = <<q[n], i>>
  BY Zenon
<1>3. q[1] \in Things(c) /\ q[n] \in Things(c)
  BY DEF Path
<1>4. <<q[n], i>> \in Slots
  BY <1>3, WorldSlots DEF Holding
<1>5. Kind(s) = Shape(c, q[n])[i]
  BY <1>2, WorldKinds
<1>6. s \in Slots /\ s[1] = q[n] /\ graph[s] = q[1] /\ Kind(s) # "Observer"
  BY <1>1, <1>2, <1>4, <1>5 DEF Holding, Use, Ownership, Target
<1>7. q[1] \in Objects \union {Null}
  BY <1>6 DEF Begun
<1>8. q[1] # Null /\ q[1] \in Objects
  <2>1. q[1] # Null
    BY <1>1, <1>3 DEF Things, Objects, Null, Root
  <2>. QED
    BY <1>7, <2>1
<1>9. q[n] \in Reached(graph, q[1])
  BY <1>8, PathKept
<1>. QED
  BY <1>6, <1>8, <1>9 DEF Acyclic

LEMMA GivenWorld ==
  ASSUME NEW c, c = World, Begun, Sound
  PROVE  Given(c)
<1>1. /\ c.objects = Objects /\ program.objects \in Nat /\ Objects = 1 .. program.objects
      /\ IsFiniteSet(Objects) /\ c.root \in Seq(Kinds) /\ c.object \in Seq(Uses)
      /\ c.polymorphic \in BOOLEAN /\ c.existing \in BOOLEAN /\ c.graph = graph
  BY ProgramTyped
<1>2. c.objects \subseteq Nat \ {0}
  BY <1>1
<1>3. ASSUME NEW x \in Things(c), NEW i, HasSlot(c, x, i) PROVE Target(c, x, i) \in c.objects \union {Null}
  <2>1. <<x, i>> \in Slots
    BY <1>3, WorldSlots
  <2>. QED
    BY <1>1, <2>1 DEF Target, Begun
<1>4. ASSUME NEW i, HasSlot(c, Root, i), Refers(c, Root, i) PROVE Target(c, Root, i) # Null
  <2>1. <<Root, i>> \in Slots
    BY <1>4, WorldSlots DEF Things
  <2>2. Kind(<<Root, i>>) = "Reference"
    BY <1>4, WorldKinds DEF Refers
  <2>3. \A s \in Slots : Kind(s) = "Reference" => graph[s] # Null
    BY DEF Begun, WellOwned
  <2>. QED
    BY <1>1, <2>1, <2>2, <2>3 DEF Target
<1>5. ASSUME c.polymorphic, c.existing PROVE NoCycles(c)
  <2>1. Acyclic(graph)
    BY <1>5 DEF World, Polymorphic, Sound, BackReferencesFit
  <2>. QED
    BY <2>1, AcyclicWorld
<1>6. Owned(c)
  BY OwnedWorld
<1>. QED
  BY <1>1, <1>2, <1>3, <1>4, <1>5, <1>6 DEF Given
-----------------------------------------------------------------------------
(***************************************************************************)
(* The invariant: before the stream is delivered there is a history of the *)
(* writer, and the reader has not begun; afterwards the reader is at some  *)
(* point of that history.                                                  *)
(***************************************************************************)
Fresh0 ==
  /\ rinfo = [ id \in {} |-> 0 ] /\ rstack = << [ at |-> Root, slot |-> 1, id |-> 0 ] >>
  /\ pos = 0 /\ failed = FALSE
  /\ \E held \in SUBSET (1 .. Len(RootSlots)) : /\ heap = InitialHeap(held)
                                                /\ program.existing \/ held = {}

Written(c) == \E hist, m : m \in Nat /\ History(c, hist, m, WriterState)

Delivered(c) == \E hist, m, r : Reads(c, r, hist, m) /\ (InStep(c, r, hist, m) \/ Cut)

Linking(c) ==
  /\ c = World /\ Given(c) /\ phase \in {"writing", "reading", "done"}
  /\ phase = "writing" => Fresh0 /\ Written(c)
  /\ phase # "writing" => Delivered(c)
  /\ phase = "done" => rstack = << >>

LEMMA WorldStays ==
  ASSUME NEW c, c = World, program' = program, graph' = graph
  PROVE  c = World'
BY DEF World, Objects, RootSlots, ObjectSlots, Polymorphic

LEMMA LinkingStarts ==
  ASSUME Init, Sound, NEW c, c = World
  PROVE  Linking(c)
<1>1. Begun
  BY DEF Init, Begun
<1>2. Given(c)
  BY <1>1, GivenWorld
<1>3. Fresh0
  <2>1. PICK held \in IF program.existing THEN SUBSET (1 .. Len(RootSlots)) ELSE { {} } : heap = InitialHeap(held)
    BY DEF Init, InitialHeaps, Sound, Flat
  <2>2. held \in SUBSET (1 .. Len(RootSlots)) /\ (program.existing \/ held = {})
    OBVIOUS
  <2>. QED
    BY <2>1, <2>2 DEF Init, Fresh0
<1>4. WriterState = WriterStart
  BY DEF Init, WriterState, WriterStart
<1>5. PICK hist : hist = [ k \in {0} |-> WriterStart ]
  BY Zenon
<1>6. hist[0] = WriterStart
  BY <1>5
<1>7. \A k \in 0 .. 0 : k = 0
  OBVIOUS
<1>8. \A k : k \notin 0 .. 0 - 1
  OBVIOUS
<1>9. History(c, hist, 0, WriterStart)
  BY <1>2, <1>6, <1>7, <1>8, WriterStarts DEF History
<1>10. Written(c)
  BY <1>4, <1>9 DEF Written
<1>. QED
  BY <1>2, <1>3, <1>10 DEF Linking, Init

LEMMA LinkingWrites ==
  ASSUME NEW c, Linking(c), WriteNull \/ WritePointer \/ WriteReturn
  PROVE  Linking(c)'
<1>1. /\ phase = "writing" /\ phase' = phase /\ program' = program /\ graph' = graph
      /\ UNCHANGED <<heap, rinfo, rstack, pos, failed>>
  BY DEF WriteNull, WritePointer, WriteReturn, readerVars
<1>2. c = World /\ Given(c) /\ Fresh0 /\ Written(c)
  BY <1>1 DEF Linking
<1>3. c = World'
  BY <1>1, <1>2, WorldStays
<1>4. PICK hist, m : m \in Nat /\ History(c, hist, m, WriterState)
  BY <1>2 DEF Written
<1>5. PICK w, v : w = WriterState /\ v = [ info |-> winfo', stack |-> wstack', stream |-> stream' ]
  BY Zenon
<1>6. WriterInv(c, w)
  <2>1. m \in 0 .. m
    BY <1>4
  <2>. QED
    BY <1>4, <1>5, <2>1 DEF History
<1>7. WriterStep(c, w, v)
  BY <1>2, <1>5, <1>6, WriterActs
<1>8. PICK h : History(c, h, m + 1, v)
  BY <1>2, <1>4, <1>5, <1>7, HistoryNext
<1>9. v = WriterState'
  BY <1>5 DEF WriterState
<1>10. Written(c)'
  <2>1. m + 1 \in Nat
    BY <1>4
  <2>. QED
    BY <1>8, <1>9, <2>1 DEF Written
<1>11. Fresh0'
  <2>1. PICK held \in SUBSET (1 .. Len(RootSlots)) : heap = InitialHeap(held) /\ (program.existing \/ held = {})
    BY <1>2 DEF Fresh0
  <2>2. RootSlots' = RootSlots /\ InitialHeap(held)' = InitialHeap(held)
    BY <1>1 DEF RootSlots, InitialHeap, Holds, NewObject, ObjectSlots
  <2>. QED
    BY <1>1, <1>2, <2>1, <2>2 DEF Fresh0
<1>. QED
  BY <1>1, <1>2, <1>3, <1>10, <1>11 DEF Linking

LEMMA LinkingDelivered ==
  ASSUME NEW c, Linking(c), NEW n \in Nat, Deliver(n)
  PROVE  Linking(c)'
<1>1. /\ phase = "writing" /\ wstack = << >> /\ phase' = "reading" /\ end' = n
      /\ UNCHANGED <<program, graph, winfo, wstack, stream, heap, rinfo, rstack, pos, failed>>
  BY DEF Deliver, writerVars, readerVars
<1>2. c = World /\ Given(c) /\ Fresh0 /\ Written(c)
  BY <1>1 DEF Linking
<1>3. c = World'
  BY <1>1, <1>2, WorldStays
<1>4. PICK hist, m : m \in Nat /\ History(c, hist, m, WriterState)
  BY <1>2 DEF Written
<1>5. PICK held \in SUBSET (1 .. Len(RootSlots)) : heap = InitialHeap(held) /\ (program.existing \/ held = {})
  BY <1>2 DEF Fresh0
<1>6. PICK r : r = [ heap |-> heap, info |-> rinfo, stack |-> rstack,
                     of |-> [ j \in DOMAIN heap |-> IF j = Root THEN Root ELSE Null ],
                     place |-> [ o \in {Root} |-> Root ] ]
  BY Zenon
<1>7. r.heap = heap /\ r.info = rinfo /\ r.stack = rstack /\ Is(r)
  BY <1>6 DEF Is
<1>8. Starts(c, r)
  BY <1>2, <1>6 DEF Starts, Fresh0
<1>9. c.existing \/ held = {}
  BY <1>2, <1>5, WorldKinds
<1>10. ReaderInv(c, r, winfo) /\ Sync(c, r, WriterStart)
  BY <1>2, <1>5, <1>7, <1>8, <1>9, ReaderStarts
<1>11. WriterState' = WriterState
  BY <1>1 DEF WriterState
<1>12. Is(r)'
  BY <1>1, <1>7 DEF Is
<1>13. pos = 0 /\ failed = FALSE
  BY <1>2 DEF Fresh0
<1>14. Reads(c, r, hist, m)'
  BY <1>1, <1>2, <1>3, <1>4, <1>10, <1>11, <1>12, <1>13, Zenon DEF Reads
<1>15. InStep(c, r, hist, m)'
  <2>1. hist[0] = WriterStart /\ 0 \in 0 .. m
    BY <1>4 DEF History
  <2>2. Len(hist[0].stream) = 0
    BY <2>1 DEF WriterStart
  <2>3. pos' = Len(hist[0].stream) /\ pos' <= end' /\ ~failed' /\ Sync(c, r, hist[0])
    BY <1>1, <1>10, <1>13, <2>1, <2>2
  <2>. QED
    BY <2>1, <2>3 DEF InStep
<1>16. Delivered(c)'
  BY <1>14, <1>15 DEF Delivered
<1>. QED
  BY <1>1, <1>2, <1>3, <1>16 DEF Linking

Reader == ReadNull \/ ReadObserver \/ ReadOwner \/ ReadShared \/ ReadReturn

\* What the reader's steps leave alone.
LEMMA ReaderKeeps ==
  ASSUME Reader
  PROVE  /\ phase = "reading" /\ phase' = phase /\ program' = program /\ graph' = graph /\ winfo' = winfo
         /\ wstack' = wstack /\ stream' = stream /\ end' = end
BY Zenon DEF Reader, ReadNull, ReadObserver, ReadOwner, ReadShared, ReadReturn, Reading, writerVars

LEMMA ReaderStays ==
  ASSUME NEW c, NEW r, NEW hist, NEW m, Reads(c, r, hist, m), InStep(c, r, hist, m) \/ Cut, Reader
  PROVE  GoesOn(c, r, hist, m)
BY ReadNullStays, ReadObserverStays, ReadOwnerStays, ReadSharedStays, ReadReturnStays DEF Reader

LEMMA LinkingReads ==
  ASSUME NEW c, Linking(c), Reader
  PROVE  /\ Linking(c)'
         /\ \A id \in DOMAIN rinfo : rinfo[id].ownerPtr # Null => rinfo'[id].ownerPtr = rinfo[id].ownerPtr
<1>1. /\ phase = "reading" /\ phase' = phase /\ program' = program /\ graph' = graph /\ winfo' = winfo
      /\ wstack' = wstack /\ stream' = stream /\ end' = end
  BY ReaderKeeps
<1>2. c = World /\ Given(c) /\ Delivered(c)
  BY <1>1 DEF Linking
<1>3. c = World'
  BY <1>1, <1>2, WorldStays
<1>4. PICK hist, m, r : Reads(c, r, hist, m) /\ (InStep(c, r, hist, m) \/ Cut)
  BY <1>2 DEF Delivered
<1>5. PICK s : /\ After(s) /\ ReaderInv(c, s, winfo) /\ Final(r, s) /\ (InStep(c, s, hist, m)' \/ Cut')
               /\ pos' \in Nat /\ failed' \in BOOLEAN
  BY <1>4, ReaderStays DEF GoesOn
<1>6. WriterState' = WriterState
  BY <1>1 DEF WriterState
<1>7. Is(s)'
  BY <1>5 DEF Is, After
<1>8. m \in Nat /\ History(c, hist, m, WriterState) /\ wstack = << >> /\ end \in Nat
  BY <1>4 DEF Reads
<1>9. Reads(c, s, hist, m)'
  BY <1>1, <1>2, <1>3, <1>5, <1>6, <1>7, <1>8 DEF Reads
<1>10. Delivered(c)'
  BY <1>5, <1>9 DEF Delivered
<1>11. Linking(c)'
  BY <1>1, <1>2, <1>3, <1>10 DEF Linking
<1>12. r.info = rinfo /\ s.info = rinfo'
  BY <1>4, <1>5 DEF Reads, Is, After
<1>. QED
  BY <1>5, <1>11, <1>12 DEF Final

LEMMA LinkingFinishes ==
  ASSUME NEW c, Linking(c), Finish
  PROVE  Linking(c)'
<1>1. /\ phase = "reading" /\ phase' = "done" /\ rstack = << >>
      /\ UNCHANGED <<program, graph, winfo, wstack, stream, heap, rinfo, rstack, pos, failed, end>>
  BY DEF Finish, writerVars, readerVars
<1>2. c = World /\ Given(c) /\ Delivered(c)
  BY <1>1 DEF Linking
<1>3. c = World'
  BY <1>1, <1>2, WorldStays
<1>4. PICK hist, m, r : Reads(c, r, hist, m) /\ (InStep(c, r, hist, m) \/ Cut)
  BY <1>2 DEF Delivered
<1>5. WriterState' = WriterState
  BY <1>1 DEF WriterState
<1>6. Reads(c, r, hist, m)'
  BY <1>1, <1>2, <1>3, <1>4, <1>5 DEF Reads, Is
<1>7. (InStep(c, r, hist, m) \/ Cut)'
  BY <1>1, <1>4 DEF InStep, Cut
<1>8. Delivered(c)'
  BY <1>6, <1>7 DEF Delivered
<1>. QED
  BY <1>1, <1>2, <1>3, <1>8 DEF Linking

LEMMA LinkingStutters ==
  ASSUME NEW c, Linking(c), UNCHANGED vars
  PROVE  Linking(c)'
<1>1. UNCHANGED <<program, phase, graph, winfo, wstack, stream, heap, rinfo, rstack, pos, end, failed>>
  BY DEF vars
<1>2. c = World'
  BY <1>1, WorldStays DEF Linking
<1>3. WriterState' = WriterState
  BY <1>1 DEF WriterState
<1>4. Fresh0 => Fresh0'
  <2>1. \A held : InitialHeap(held)' = InitialHeap(held) /\ RootSlots' = RootSlots
    BY <1>1 DEF RootSlots, InitialHeap, Holds, NewObject, ObjectSlots
  <2>. QED
    BY <1>1, <2>1 DEF Fresh0
<1>5. Written(c) => Written(c)'
  BY <1>3 DEF Written
<1>6. ASSUME Delivered(c) PROVE Delivered(c)'
  <2>1. PICK hist, m, r : Reads(c, r, hist, m) /\ (InStep(c, r, hist, m) \/ Cut)
    BY <1>6 DEF Delivered
  <2>2. Reads(c, r, hist, m)'
    BY <1>1, <1>2, <1>3, <2>1 DEF Reads, Is
  <2>3. (InStep(c, r, hist, m) \/ Cut)'
    BY <1>1, <2>1 DEF InStep, Cut
  <2>. QED
    BY <2>2, <2>3 DEF Delivered
<1>. QED
  BY <1>1, <1>2, <1>4, <1>5, <1>6 DEF Linking

\* The program is fixed.
LEMMA ProgramFixed ==
  ASSUME [Next]_vars
  PROVE  program' = program /\ graph' = graph
<1>1. CASE Next
  <2>1. CASE WriteNull \/ WritePointer \/ WriteReturn
    BY <2>1 DEF WriteNull, WritePointer, WriteReturn
  <2>2. CASE \E n \in 0 .. Len(stream) : Deliver(n)
    BY <2>2 DEF Deliver, writerVars
  <2>3. CASE Reader
    BY <2>3, ReaderKeeps
  <2>4. CASE Finish
    BY <2>4 DEF Finish, writerVars
  <2>. QED
    BY <1>1, <2>1, <2>2, <2>3, <2>4 DEF Next, Reader
<1>2. CASE UNCHANGED vars
  BY <1>2 DEF vars
<1>. QED
  BY <1>1, <1>2

LEMMA LinkingNext ==
  ASSUME NEW c, Linking(c), [Next]_vars
  PROVE  Linking(c)'
<1>1. CASE WriteNull \/ WritePointer \/ WriteReturn
  BY <1>1, LinkingWrites
<1>2. CASE \E n \in 0 .. Len(stream) : Deliver(n)
  <2>1. PICK n \in 0 .. Len(stream) : Deliver(n)
    BY <1>2
  <2>2. n \in Nat
    OBVIOUS
  <2>. QED
    BY <2>1, <2>2, LinkingDelivered
<1>3. CASE Reader
  BY <1>3, LinkingReads
<1>4. CASE Finish
  BY <1>4, LinkingFinishes
<1>5. CASE UNCHANGED vars
  BY <1>5, LinkingStutters
<1>. QED
  BY <1>1, <1>2, <1>3, <1>4, <1>5 DEF Next, Reader

\* In a sound program.
LinksUp == Sound /\ Linking(World)

LEMMA LinksUpStarts ==
  ASSUME Init, Sound
  PROVE  LinksUp
<1>1. PICK c : c = World
  OBVIOUS
<1>. QED
  BY <1>1, LinkingStarts DEF LinksUp

RoundsThere == \A g, h : Cardinality(Objects) \in Nat =>
                           \E round : ReachedRounds(g, h, Cardinality(Objects), round)

LEMMA RoundsFound == RoundsThere
BY ReachedInRounds DEF RoundsThere

\* What is reached follows from the slots, their kinds and how many objects there are.
LEMMA ReachedStays ==
  ASSUME Objects' = Objects, Cardinality(Objects) \in Nat, Slots' = Slots, \A s : Kind(s)' = Kind(s),
         NEW g, NEW h
  PROVE  Reached(g, h)' = Reached(g, h)
<1>1. RoundsThere'
  BY RoundsFound, PTL
<1>2. PICK n \in Nat : n = Cardinality(Objects) /\ n = Cardinality(Objects)'
  OBVIOUS
<1>3. PICK a : ReachedRounds(g, h, n, a)
  BY <1>2, RoundsFound DEF RoundsThere
<1>4. PICK b : ReachedRounds(g, h, n, b)'
  BY <1>1, <1>2 DEF RoundsThere
<1>5. \A near : Kept(g, near)' = Kept(g, near)
  BY DEF Kept
<1>6. a[0] = {h} /\ b[0] = {h} /\ Reached(g, h) = a[n] /\ Reached(g, h)' = b[n]
  BY <1>3, <1>4 DEF ReachedRounds
<1>7. ASSUME NEW k \in 0 .. n - 1, a[k] = b[k] PROVE a[k + 1] = b[k + 1]
  <2>1. a[k + 1] = a[k] \union Kept(g, a[k]) /\ b[k + 1] = b[k] \union Kept(g, b[k])'
    BY <1>3, <1>4 DEF ReachedRounds
  <2>. QED
    BY <1>5, <1>7, <2>1
<1>. DEFINE K == { k \in 0 .. n : a[k] = b[k] }
<1>8. /\ n \in Nat /\ 0 \in K
      /\ \A k \in 0 .. n - 1 : k \in K => k + 1 \in K
  <2>1. n \in Nat
    OBVIOUS
  <2>2. \A k \in 0 .. n - 1 : k + 1 \in 0 .. n
    BY <2>1
  <2>. QED
    BY <1>6, <1>7, <2>1, <2>2
<1>. HIDE DEF K
<1>9. n \in 0 .. n /\ n \in K
  <2>1. \A k \in 0 .. n : k \in K
    BY <1>8, Induction, Zenon
  <2>. QED
    BY <1>8, <2>1
<1>. QED
  BY <1>6, <1>9 DEF K

LEMMA FlatStays ==
  ASSUME [Next]_vars
  PROVE  Flat' = Flat
BY ProgramFixed DEF Flat

LEMMA SoundStays ==
  ASSUME program \in Programs, [Next]_vars
  PROVE  program' \in Programs /\ Sound' = Sound
<1>1. program' = program /\ graph' = graph
  BY ProgramFixed
<1>2. Flat' = Flat
  BY FlatStays
<1>3. BackReferencesFit' = BackReferencesFit
  <2>1. Objects' = Objects /\ RootSlots' = RootSlots /\ ObjectSlots' = ObjectSlots /\ Polymorphic' = Polymorphic
    BY <1>1 DEF Objects, RootSlots, ObjectSlots, Polymorphic
  <2>2. \A h : KindsOf(h)' = KindsOf(h)
    BY <2>1 DEF KindsOf
  <2>3. Slots' = Slots
    BY <2>1, <2>2 DEF Slots, SlotsOf
  <2>4. \A s : Kind(s)' = Kind(s)
    BY <2>2 DEF Kind
  <2>5. \A g, h : Reached(g, h)' = Reached(g, h)
    <3>1. program.objects \in Nat
      BY ProgramsAssumption DEF Program
    <3>2. Cardinality(Objects) \in Nat
      <4>1. PICK n \in Nat : n = program.objects
        BY <3>1
      <4>2. Cardinality(1 .. n) \in Nat
        BY FS_Interval, FS_CardinalityType
      <4>. QED
        BY <4>1, <4>2 DEF Objects
    <3>. QED
      BY <2>1, <2>3, <2>4, <3>2, ReachedStays
  <2>6. \A g : Acyclic(g)' = Acyclic(g)
    BY <2>3, <2>4, <2>5 DEF Acyclic
  <2>7. Acyclic(graph)' = Acyclic(graph)
    BY <1>1, <2>6
  <2>. QED
    BY <1>1, <2>1, <2>7 DEF BackReferencesFit
<1>. QED
  BY <1>1, <1>2, <1>3 DEF Sound

LEMMA LinksUpNext ==
  ASSUME LinksUp, program \in Programs, [Next]_vars
  PROVE  LinksUp'
<1>1. program' = program /\ graph' = graph
  BY ProgramFixed
<1>2. Sound' = Sound
  BY SoundStays
<1>3. PICK c : c = World
  OBVIOUS
<1>4. c = World'
  BY <1>1, <1>3, WorldStays
<1>5. Linking(c)'
  BY <1>3, LinkingNext DEF LinksUp
<1>6. Linking(World)'
  BY <1>4, <1>5
<1>. QED
  BY <1>2, <1>6 DEF LinksUp

\* A sound program always is at some point of a history that was written.
THEOREM LinksAlways == Spec => [](Sound => LinksUp)
<1>1. Init => program \in Programs /\ (Sound => LinksUp)
  BY LinksUpStarts DEF Init
<1>2. program \in Programs /\ (Sound => LinksUp) /\ [Next]_vars
        => (program \in Programs /\ (Sound => LinksUp))'
  BY LinksUpNext, SoundStays
<1>. QED
  BY <1>1, <1>2, PTL DEF Spec

LEMMA FlatAlways == Spec /\ Flat => []Flat
<1>1. Flat /\ [Next]_vars => Flat'
  BY FlatStays
<1>. QED
  BY <1>1, PTL DEF Spec
-----------------------------------------------------------------------------
(***************************************************************************)
(* What follows from the invariant.                                        *)
(***************************************************************************)
LEMMA NoneTwice ==
  ASSUME LinksUp
  PROVE  NoDuplicateObjects
<1>1. PICK c : c = World
  OBVIOUS
<1>2. Linking(c)
  BY <1>1 DEF LinksUp
<1>3. CASE phase = "writing"
  <2>1. rstack = << [ at |-> Root, slot |-> 1, id |-> 0 ] >>
    BY <1>2, <1>3 DEF Linking, Fresh0
  <2>2. \A i \in 1 .. Len(rstack) : i = 1
    BY <2>1
  <2>. QED
    BY <2>2 DEF NoDuplicateObjects
<1>4. CASE phase # "writing"
  <2>1. PICK hist, m, r : Reads(c, r, hist, m)
    BY <1>2, <1>4 DEF Linking, Delivered
  <2>2. Framed(c, r, winfo) /\ r.stack = rstack
    BY <2>1 DEF Reads, ReaderInv, Is
  <2>3. Numbered(c, winfo)
    BY <2>1, WriterKnows
  <2>4. Len(rstack) \in Nat /\ (rstack # << >> => rstack[1].id = 0)
    BY <2>2, ReaderFrame DEF Framed
  <2>5. \A k \in 2 .. Len(rstack) :
          r.of[rstack[k].at] \in DOMAIN winfo /\ winfo[r.of[rstack[k].at]].id = rstack[k].id
    BY <2>2 DEF Framed
  <2>6. \A j, k \in 1 .. Len(rstack) : r.of[rstack[j].at] = r.of[rstack[k].at] => j = k
    BY <2>2 DEF Framed
  <2>7. \A o \in DOMAIN winfo : winfo[o].id # 0
    <3>1. ASSUME NEW o \in DOMAIN winfo PROVE winfo[o].id \in 1 .. Cardinality(DOMAIN winfo)
      BY <2>3 DEF Numbered
    <3>. QED
      BY <3>1
  <2>8. \A o, q \in DOMAIN winfo : winfo[o].id = winfo[q].id => o = q
    BY <2>3 DEF Numbered
  <2>9. ASSUME NEW i \in 1 .. Len(rstack), NEW j \in 1 .. Len(rstack), rstack[i].id = rstack[j].id
        PROVE  i = j
    <3>1. rstack # << >> /\ rstack[1].id = 0
      BY <2>4, <2>9
    <3>2. \A k \in 1 .. Len(rstack) : k = 1 \/ k \in 2 .. Len(rstack)
      BY <2>4
    <3>3. \A k \in 2 .. Len(rstack) : rstack[k].id # 0
      BY <2>5, <2>7
    <3>4. CASE i = 1 \/ j = 1
      BY <2>9, <3>1, <3>2, <3>3, <3>4
    <3>5. CASE i # 1 /\ j # 1
      <4>1. i \in 2 .. Len(rstack) /\ j \in 2 .. Len(rstack)
        BY <3>2, <3>5
      <4>2. r.of[rstack[i].at] = r.of[rstack[j].at]
        BY <2>5, <2>8, <2>9, <4>1
      <4>. QED
        BY <2>6, <4>2
    <3>. QED
      BY <3>4, <3>5
  <2>. QED
    BY <2>9 DEF NoDuplicateObjects
<1>. QED
  BY <1>3, <1>4

\* "so we do not serialize/deserialize duplicate objects": no object is read while it is
\* being read, in every graph in which no owner, shared or weak pointer leads back to a
\* polymorphic object that was there, when the reader's slots held nothing or an object
\* of its own each (Flat).
THEOREM ObjectsAreReadOnce == Spec /\ Flat => []NoneReadTwice
<1>1. (Sound => LinksUp) /\ Flat => NoneReadTwice
  BY NoneTwice DEF NoneReadTwice, Sound
<1>. QED
  BY <1>1, LinksAlways, FlatAlways, PTL

LEMMA LinksStayStep ==
  ASSUME LinksUp, [Next]_vars
  PROVE  \A id \in DOMAIN rinfo : rinfo[id].ownerPtr # Null => rinfo'[id].ownerPtr = rinfo[id].ownerPtr
<1>1. PICK c : c = World
  OBVIOUS
<1>2. Linking(c)
  BY <1>1 DEF LinksUp
<1>3. CASE Reader
  BY <1>2, <1>3, LinkingReads
<1>4. CASE WriteNull \/ WritePointer \/ WriteReturn \/ (\E n \in 0 .. Len(stream) : Deliver(n)) \/ Finish
  <2>1. rinfo' = rinfo
    BY <1>4 DEF WriteNull, WritePointer, WriteReturn, Deliver, Finish, readerVars
  <2>. QED
    BY <2>1
<1>5. CASE UNCHANGED vars
  <2>1. rinfo' = rinfo
    BY <1>5 DEF vars
  <2>. QED
    BY <2>1
<1>. QED
  BY <1>3, <1>4, <1>5 DEF Next, Reader

\* The pointer that processOwner and processObserver link to an id is never replaced,
\* for the graphs and readers of ObjectsAreReadOnce.
THEOREM LinksStay == Spec /\ Flat => LinksAreFinal
<1>1. (Sound => LinksUp) /\ Flat /\ [Next]_vars =>
        [BackReferencesFit =>
           \A id \in DOMAIN rinfo :
             rinfo[id].ownerPtr # Null => rinfo'[id].ownerPtr = rinfo[id].ownerPtr]_vars
  BY LinksStayStep DEF Sound
<1>. QED
  BY <1>1, LinksAlways, FlatAlways, PTL DEF Spec, LinksAreFinal

\* A reader that is done with the whole stream is in step with the writer's end.
Rebuilds(c, r) ==
  /\ c = World /\ Given(c) /\ Is(r) /\ ReaderInv(c, r, winfo) /\ Sync(c, r, WriterState)
  /\ WriterInv(c, WriterState) /\ wstack = << >> /\ r.stack = << >> /\ pos = Len(stream) /\ ~failed

LEMMA WholeIsInStep ==
  ASSUME LinksUp, Whole, NEW c, c = World
  PROVE  \E r : Rebuilds(c, r)
<1>1. Linking(c) /\ phase = "done" /\ end = Len(stream)
  BY DEF LinksUp, Whole
<1>2. rstack = << >> /\ Given(c)
  BY <1>1 DEF Linking
<1>3. PICK hist, m, r : Reads(c, r, hist, m) /\ (InStep(c, r, hist, m) \/ Cut)
  BY <1>1 DEF Linking, Delivered
<1>4. /\ m \in Nat /\ History(c, hist, m, WriterState) /\ wstack = << >> /\ Is(r) /\ ReaderInv(c, r, winfo)
      /\ end \in Nat
  BY <1>3 DEF Reads
<1>5. ~Cut
  BY <1>1, <1>4 DEF Cut
<1>6. PICK k \in 0 .. m : ~failed /\ pos = Len(hist[k].stream) /\ Sync(c, r, hist[k])
  BY <1>3, <1>5 DEF InStep
<1>7. PICK w, z : w = hist[k] /\ z = WriterState
  OBVIOUS
<1>8. WriterInv(c, w)
  BY <1>4, <1>7 DEF History
<1>9. w.stack = << >>
  <2>1. Len(w.stack) = Len(r.stack) /\ r.stack = << >>
    BY <1>2, <1>4, <1>6, <1>7 DEF Sync, Stacked, Is
  <2>2. w.stack \in Seq([ at : Things(c), slot : Nat \ {0} ])
    BY <1>8 DEF WriterInv, Nested
  <2>. QED
    BY <2>1, <2>2
<1>10. k = m
  <2>. SUFFICES ASSUME k # m PROVE FALSE
    OBVIOUS
  <2>1. k \in 0 .. m - 1
    BY <1>4
  <2>2. WriterStep(c, hist[k], hist[k + 1])
    BY <1>4, <2>1 DEF History
  <2>. QED
    BY <1>7, <1>9, <2>2 DEF WriterStep, NullStep, PointerStep, ReturnStep, SlotAhead, NoneAhead
<1>11. w = WriterState
  BY <1>4, <1>7, <1>10 DEF History
<1>12. pos = Len(stream)
  BY <1>6, <1>7, <1>11 DEF WriterState
<1>. QED
  BY <1>2, <1>4, <1>6, <1>7, <1>8, <1>11, <1>12 DEF Rebuilds, Is

LEMMA AllAgree ==
  ASSUME LinksUp
  PROVE  EndsInStep
<1>. SUFFICES ASSUME Whole PROVE pos = Len(stream) /\ ~failed /\ (IsValid(winfo) <=> IsValid(rinfo))
  BY DEF EndsInStep
<1>1. PICK c : c = World
  OBVIOUS
<1>2. PICK r : Rebuilds(c, r)
  BY <1>1, WholeIsInStep
<1>3. pos = Len(stream) /\ ~failed /\ r.info = rinfo
  BY <1>2 DEF Rebuilds, Is
<1>4. PICK w : w = WriterState
  OBVIOUS
<1>5. Agreed(c, r, w) /\ w.info = winfo
  BY <1>2, <1>4 DEF Rebuilds, Sync, WriterState
<1>6. /\ \A id \in DOMAIN rinfo : \E o \in DOMAIN winfo : winfo[o].id = id
      /\ \A o \in DOMAIN winfo : /\ winfo[o].id \in DOMAIN rinfo
                                 /\ rinfo[winfo[o].id].ownership = winfo[o].ownership
  BY <1>3, <1>5 DEF Agreed, Agrees
<1>7. IsValid(winfo) <=> IsValid(rinfo)
  BY <1>6 DEF IsValid
<1>. QED
  BY <1>3, <1>7

\* The whole stream is read to its last token without an error, and both sides find the
\* same pointers without an owner, for the graphs and readers of ObjectsAreReadOnce.
THEOREM BothEndAlike == Spec /\ Flat => []EndsInStep
<1>1. (Sound => LinksUp) /\ Flat => EndsInStep
  BY AllAgree DEF EndsInStep, Sound
<1>. QED
  BY <1>1, LinksAlways, FlatAlways, PTL
-----------------------------------------------------------------------------
(***************************************************************************)
(* The graphs in the end.                                                  *)
(***************************************************************************)
Pairs(c, h) == (Things(c) \union {Null}) \X (DOMAIN h \union {Null})

\* What the reader made of what the writer wrote.
Matches(r, wi, z) ==
  (z[1] = Null /\ z[2] = Null) \/ (z[1] \in Entered(wi) /\ z[2] = r.place[z[1]])

\* If every pointer has an owner, none waits for it in the end.
LEMMA SlotRebuilt ==
  ASSUME NEW c, NEW r, Rebuilds(c, r), IsValid(winfo), NEW x \in Entered(winfo), NEW i, HasSlot(c, x, i)
  PROVE  IF Target(c, x, i) = Null THEN r.heap[r.place[x]].to[i] = Null
         ELSE Target(c, x, i) \in Entered(winfo) /\ r.heap[r.place[x]].to[i] = r.place[Target(c, x, i)]
<1>1. PICK w, t : w = WriterState /\ t = Target(c, x, i)
  OBVIOUS
<1>2. w.info = winfo /\ w.stack = << >> /\ Rebuilt(c, r, w) /\ Agreed(c, r, w)
  BY <1>1 DEF Rebuilds, Sync, WriterState
<1>3. Fits(c, r, w, x, i)
  <2>1. Passed(c, w, x, i)
    BY <1>2 DEF Passed
  <2>. QED
    BY <1>2, <2>1 DEF Rebuilt
<1>4. CASE t # Null /\ t \in DOMAIN winfo /\ t \notin Entered(winfo)
  BY <1>4 DEF IsValid, Entered
<1>5. ASSUME t \in Entered(winfo), t \in DOMAIN winfo PROVE r.info[winfo[t].id].observers = {}
  <2>1. Agrees(c, r, w, t, r.info[winfo[t].id])
    BY <1>2, <1>5 DEF Agreed
  <2>2. ~OnStack(w.stack, t)
    BY <1>2 DEF OnStack
  <2>. QED
    BY <1>2, <1>5, <2>1, <2>2 DEF Agrees
<1>6. t # Null => t \in Entered(winfo) /\ r.heap[r.place[x]].to[i] = r.place[t]
  BY <1>1, <1>2, <1>3, <1>4, <1>5, Zenon DEF Fits
<1>7. t = Null => r.heap[r.place[x]].to[i] = Null
  BY <1>1, <1>3 DEF Fits
<1>. QED
  BY <1>1, <1>6, <1>7

LEMMA RoomForAll ==
  ASSUME NEW c, c = World, Given(c)
  PROVE  /\ Cardinality(Objects) + 1 \in Nat /\ Objects = c.objects
         /\ Null \notin c.objects /\ Root \notin c.objects /\ Null # Root
<1>1. c.objects = Objects
  BY WorldKinds
<1>2. Cardinality(Objects) \in Nat
  BY <1>1, FS_CardinalityType DEF Given
<1>. QED
  BY <1>1, <1>2 DEF Given, Null, Root

LEMMA PairsRebuilt ==
  ASSUME NEW c, NEW r, Rebuilds(c, r), IsValid(winfo)
  PROVE  \A z \in Corresponding : Matches(r, winfo, z) /\ z \in Pairs(c, r.heap)
<1>1. /\ c = World /\ Given(c) /\ r.heap = heap /\ c.graph = graph
      /\ \A x : KindsOf(x) = Shape(c, x)
  BY WorldKinds DEF Rebuilds, Is
<1>2. PICK w : w = WriterState
  OBVIOUS
<1>3. /\ Housed(c, r, w) /\ Placed(c, r.heap, r.of) /\ w.info = winfo
      /\ DOMAIN winfo \subseteq c.objects
  BY <1>2 DEF Rebuilds, Sync, ReaderInv, WriterState, WriterInv, Numbered
<1>4. Entered(winfo) \subseteq Things(c)
  BY <1>3 DEF Entered, Things
<1>5. \A x \in Entered(winfo) : r.place[x] \in DOMAIN r.heap
  BY <1>3 DEF Housed
<1>6. r.place[Root] = Root /\ Root \in Entered(winfo)
  BY <1>3, RootPlace DEF Entered
<1>. DEFINE G == { z \in Pairs(c, r.heap) : Matches(r, winfo, z) }
<1>7. <<Root, Root>> \in G
  BY <1>4, <1>5, <1>6 DEF Pairs, Matches
<1>8. ASSUME NEW q \in G, NEW i \in 1 .. Len(KindsOf(q[1])), q[1] # Null, q[2] # Null
      PROVE  << graph[<<q[1], i>>], heap[q[2]].to[i] >> \in G
  <2>1. PICK x, y, z : x = q[1] /\ y = Target(c, x, i) /\ z = r.heap[r.place[x]].to[i]
    OBVIOUS
  <2>2. x \in Entered(winfo) /\ q[2] = r.place[x]
    BY <1>8, <2>1 DEF Matches
  <2>3. HasSlot(c, x, i)
    BY <1>1, <2>1 DEF HasSlot
  <2>4. graph[<<q[1], i>>] = y /\ heap[q[2]].to[i] = z
    BY <1>1, <2>1, <2>2 DEF Target
  <2>5. (y = Null /\ z = Null) \/ (y \in Entered(winfo) /\ z = r.place[y])
    BY <2>1, <2>2, <2>3, SlotRebuilt
  <2>6. <<y, z>> \in Pairs(c, r.heap)
    BY <1>4, <1>5, <2>5 DEF Pairs
  <2>7. <<y, z>> \in G
    BY <2>5, <2>6 DEF Matches
  <2>. QED
    BY <2>4, <2>7
<1>. HIDE DEF G
<1>9. \A q \in G : \A i \in 1 .. Len(KindsOf(q[1])) :
        q[1] # Null /\ q[2] # Null => << graph[<<q[1], i>>], heap[q[2]].to[i] >> \in G
  BY <1>8
<1>10. Corresponding \subseteq G
  BY <1>1, <1>7, <1>9, RoomForAll, CorrespondingWithin
<1>. QED
  BY <1>10 DEF G

LEMMA AllRebuilt ==
  ASSUME LinksUp
  PROVE  GraphIsRebuilt
<1>. SUFFICES ASSUME Whole, IsValid(winfo)
              PROVE  /\ \A q \in Corresponding :
                          /\ q[1] = Null <=> q[2] = Null
                          /\ q[1] \in Objects => heap[q[2]].value = ValueOf(q[1])
                     /\ \A q, s \in Corresponding : q[1] = s[1] <=> q[2] = s[2]
  BY DEF GraphIsRebuilt
<1>1. PICK c : c = World
  OBVIOUS
<1>2. PICK r : Rebuilds(c, r)
  BY <1>1, WholeIsInStep
<1>3. PICK w : w = WriterState
  OBVIOUS
<1>4. Housed(c, r, w) /\ w.info = winfo /\ r.heap = heap /\ Given(c) /\ Heaped(c, r.heap)
  BY <1>2, <1>3 DEF Rebuilds, Sync, ReaderInv, WriterState, Is
<1>5. DOMAIN winfo \subseteq c.objects
  BY <1>2, <1>3, <1>4 DEF Rebuilds, WriterInv, Numbered
<1>6. /\ Objects = c.objects /\ Null \notin c.objects /\ Root \notin c.objects /\ Null # Root
  BY <1>1, <1>4, RoomForAll
<1>7. Null \notin Entered(winfo)
  BY <1>5, <1>6 DEF Entered
<1>8. Null \notin DOMAIN r.heap
  BY <1>4 DEF Heaped, Null
<1>9. \A x \in Entered(winfo) : /\ r.place[x] # Null /\ r.of[r.place[x]] = x
                                /\ x # Root => heap[r.place[x]].value = ValueOf(x)
  BY <1>4, <1>8 DEF Housed
<1>10. \A q \in Corresponding : Matches(r, winfo, q)
  BY <1>2, PairsRebuilt
<1>11. ASSUME NEW q \in Corresponding
       PROVE  /\ q[1] = Null <=> q[2] = Null
              /\ q[1] \in Objects => heap[q[2]].value = ValueOf(q[1])
  BY <1>6, <1>7, <1>9, <1>10 DEF Matches
<1>12. ASSUME NEW q \in Corresponding, NEW s \in Corresponding
       PROVE  q[1] = s[1] <=> q[2] = s[2]
  <2>1. Matches(r, winfo, q) /\ Matches(r, winfo, s)
    BY <1>10
  <2>. QED
    BY <1>7, <1>9, <2>1 DEF Matches
<1>. QED
  BY <1>11, <1>12

\* The reader ends up with the writer's graph, in whatever order owners, observers and
\* cycles were met, if its pointers held nothing or an object of its own each, with null
\* slots; no owner, shared or weak pointer may lead back to a polymorphic one of those.
THEOREM GraphsAreRebuilt == Spec /\ Flat => []GraphIsRebuilt
<1>1. (Sound => LinksUp) /\ Flat => GraphIsRebuilt
  BY AllRebuilt DEF GraphIsRebuilt, Sound
<1>. QED
  BY <1>1, LinksAlways, FlatAlways, PTL

-----------------------------------------------------------------------------
\* The reader's pointer is null or leads to what corresponds.
StandsFor(r, z) == z[2] = Null \/ (z[1] # Null /\ r.of[z[2]] = z[1])

LEMMA PairsStand ==
  ASSUME NEW c, c = World, Given(c), NEW r, r.heap = heap, Heaped(c, r.heap), Placed(c, r.heap, r.of),
         \A j, i : Ptr(c, r.heap, j, i) => Right(c, r, j, i)
  PROVE  \A z \in Corresponding : StandsFor(r, z) /\ z \in Pairs(c, r.heap)
<1>1. c.graph = graph /\ \A x : KindsOf(x) = Shape(c, x)
  BY WorldKinds
<1>2. Root \in DOMAIN r.heap /\ r.of[Root] = Root /\ Null # Root
  <2>1. PICK n \in Nat : n > Len(c.root) /\ DOMAIN r.heap = 0 .. n - 1
    BY DEF Heaped
  <2>2. Len(c.root) \in Nat
    BY DEF Given
  <2>3. Root \in DOMAIN r.heap
    BY <2>1, <2>2 DEF Root
  <2>. QED
    BY <2>3 DEF Placed, Null, Root
<1>. DEFINE G == { z \in Pairs(c, r.heap) : StandsFor(r, z) }
<1>3. <<Root, Root>> \in G
  BY <1>2 DEF Pairs, StandsFor, Things
<1>4. ASSUME NEW q \in G, NEW i \in 1 .. Len(KindsOf(q[1])), q[1] # Null, q[2] # Null
      PROVE  << graph[<<q[1], i>>], heap[q[2]].to[i] >> \in G
  <2>1. PICK x, j, y, z : x = q[1] /\ j = q[2] /\ y = Target(c, x, i) /\ z = r.heap[j].to[i]
    OBVIOUS
  <2>2. x \in Things(c) /\ j \in DOMAIN r.heap /\ r.of[j] = x
    BY <1>4, <2>1 DEF Pairs, StandsFor
  <2>3. Shape(c, j) = Shape(c, x)
    BY <2>2 DEF Placed, Shape
  <2>4. HasSlot(c, x, i) /\ Ptr(c, r.heap, j, i)
    BY <1>1, <2>1, <2>2, <2>3 DEF HasSlot, Ptr
  <2>5. y \in Things(c) \union {Null}
    BY <2>1, <2>2, <2>4, Zenon DEF Given, Things
  <2>6. z \in DOMAIN r.heap \union {Null}
    BY <2>1, <2>4, Zenon DEF Heaped
  <2>7. z = Null \/ (y # Null /\ r.of[z] = y)
    BY <2>1, <2>2, <2>4 DEF Right
  <2>8. graph[<<q[1], i>>] = y /\ heap[q[2]].to[i] = z
    BY <1>1, <2>1 DEF Target
  <2>9. <<y, z>> \in G
    BY <2>5, <2>6, <2>7 DEF Pairs, StandsFor
  <2>. QED
    BY <2>8, <2>9
<1>. HIDE DEF G
<1>5. \A q \in G : \A i \in 1 .. Len(KindsOf(q[1])) :
        q[1] # Null /\ q[2] # Null => << graph[<<q[1], i>>], heap[q[2]].to[i] >> \in G
  BY <1>4
<1>6. Corresponding \subseteq G
  BY <1>3, <1>5, RoomForAll, CorrespondingWithin
<1>. QED
  BY <1>6 DEF G

LEMMA NoneAstray ==
  ASSUME LinksUp
  PROVE  TruncatedGraphIsSafe
<1>. SUFFICES ASSUME phase = "done"
              PROVE  /\ \A q \in Corresponding :
                          q[2] # Null => q[1] # Null /\ heap[q[2]].value \in {0, ValueOf(q[1])}
                     /\ \A q, s \in Corresponding : q[2] = s[2] /\ q[2] # Null => q[1] = s[1]
  BY DEF TruncatedGraphIsSafe
<1>1. PICK c : c = World
  OBVIOUS
<1>2. Given(c) /\ Delivered(c) /\ rstack = << >>
  BY <1>1 DEF LinksUp, Linking
<1>3. PICK hist, m, r : Reads(c, r, hist, m)
  BY <1>2 DEF Delivered
<1>4. /\ r.heap = heap /\ r.stack = << >>
      /\ Heaped(c, r.heap) /\ Placed(c, r.heap, r.of) /\ Links(c, r)
  BY <1>2, <1>3 DEF Reads, Is, ReaderInv
<1>5. \A j, i : Ptr(c, r.heap, j, i) => Right(c, r, j, i)
  <2>1. \A j, i : ~Open(r.stack, j, i)
    BY <1>4 DEF Open
  <2>. QED
    BY <1>4, <2>1 DEF Links
<1>6. \A z \in Corresponding : StandsFor(r, z) /\ z \in Pairs(c, r.heap)
  BY <1>1, <1>2, <1>4, <1>5, PairsStand
<1>7. ASSUME NEW q \in Corresponding, q[2] # Null
      PROVE  q[1] # Null /\ q[1] = r.of[q[2]] /\ heap[q[2]].value \in {0, ValueOf(q[1])}
  <2>1. StandsFor(r, q) /\ q \in Pairs(c, r.heap)
    BY <1>6
  <2>2. q[2] \in DOMAIN r.heap /\ q[1] # Null /\ q[1] = r.of[q[2]]
    BY <1>7, <2>1 DEF StandsFor, Pairs
  <2>. QED
    BY <1>4, <2>2 DEF Placed
<1>. QED
  BY <1>7

\* A reader that got a part of the stream has no pointer that leads to another object than
\* the writer's, and no value but the writer's or that of an object it did not get: with
\* ids of one byte, which are read whole or not at all, and objects beforehand as above.
THEOREM CutGraphsAreSafe == Spec => []TruncatedGraphIsSafe
<1>1. (Sound => LinksUp) => TruncatedGraphIsSafe
  BY NoneAstray DEF TruncatedGraphIsSafe, Sound
<1>. QED
  BY <1>1, LinksAlways, PTL

=============================================================================
