------------------------- MODULE Inheritance_proofs -------------------------
(***************************************************************************)
(* Theorems about Inheritance, for every number of objects, calls,         *)
(* addresses and virtual bases.                                            *)
(***************************************************************************)
EXTENDS Inheritance, SequenceTheorems, FiniteSetTheorems, TLAPS

Frames == [ obj : Nat, kind : {"object", "base", "virtual"}, sealed : BOOLEAN ]

\* The calls of extensions on a stack; Depth counts them.
Calls(st) == { i \in DOMAIN st : st[i].kind # "object" }

LEMMA DepthIsCalls == Depth = Cardinality(Calls(stack))
BY DEF Depth, Calls

LEMMA CallsType ==
  ASSUME NEW st \in Seq(Frames)
  PROVE  /\ Calls(st) \subseteq 1 .. Len(st) /\ IsFiniteSet(Calls(st))
         /\ Cardinality(Calls(st)) \in Nat
         /\ Cardinality(Calls(st)) = 0 <=> \A i \in 1 .. Len(st) : st[i].kind = "object"
<1>1. Calls(st) \subseteq 1 .. Len(st)
  BY DEF Calls
<1>2. IsFiniteSet(Calls(st))
  <2>1. IsFiniteSet(1 .. Len(st))
    BY FS_Interval
  <2>. QED
    BY <1>1, <2>1, FS_Subset
<1>3. Calls(st) = {} <=> \A i \in 1 .. Len(st) : st[i].kind = "object"
  BY DEF Calls
<1>. QED
  BY <1>1, <1>2, <1>3, FS_CardinalityType, FS_EmptySet

\* A frame more.
LEMMA CallsPushed ==
  ASSUME NEW p \in Seq(Frames), NEW q \in Seq(Frames), Len(q) = Len(p) + 1,
         \A i \in 1 .. Len(p) : q[i].kind = p[i].kind
  PROVE  /\ q[Len(q)].kind = "object" => Cardinality(Calls(q)) = Cardinality(Calls(p))
         /\ q[Len(q)].kind # "object" => Cardinality(Calls(q)) = Cardinality(Calls(p)) + 1
<1>. DEFINE n == Len(q)
<1>1. n \in Nat /\ DOMAIN q = 1 .. n /\ DOMAIN p = 1 .. n - 1 /\ n \notin 1 .. n - 1
  OBVIOUS
<1>2. 1 .. n = (1 .. n - 1) \union {n}
  OBVIOUS
<1>3. \A i \in 1 .. n - 1 : q[i].kind = p[i].kind
  OBVIOUS
<1>. HIDE DEF n
<1>4. CASE q[n].kind = "object"
  <2>1. Calls(q) = Calls(p)
    BY <1>1, <1>2, <1>3, <1>4 DEF Calls
  <2>. QED
    BY <1>4, <2>1 DEF n
<1>5. CASE q[n].kind # "object"
  <2>1. Calls(q) = Calls(p) \union {n} /\ n \notin Calls(p)
    BY <1>1, <1>2, <1>3, <1>5 DEF Calls
  <2>. QED
    BY <1>5, <2>1, CallsType, FS_AddElement, ZenonT(40) DEF n
<1>. QED
  BY <1>4, <1>5 DEF n

-----------------------------------------------------------------------------
(***************************************************************************)
(* What holds under any program: the types, and that the depth a context   *)
(* keeps is the number of calls in progress.                               *)
(***************************************************************************)
Contexts == [ depth        : Nat,
              parentPtr    : Addresses \union {NoPtr},
              virtualBases : SUBSET (Addresses \X VirtualBases) ]

TypeInv ==
  /\ stack \in Seq(Frames)
  /\ objects \in [ Sides -> Seq(Addresses) ]
  /\ asked \in Seq(SUBSET VirtualBases)
  /\ copies \in [ Sides -> Seq([ VirtualBases -> Nat ]) ]
  /\ \A s \in Sides : Len(objects[s]) = Len(asked) /\ Len(copies[s]) = Len(asked)
  /\ \A i \in 1 .. Len(stack) : stack[i].obj \in 1 .. Len(asked)
  /\ context \in [ Sides -> Contexts ]
  /\ \A s \in Sides : context[s].depth = Depth

(***************************************************************************)
(* What the discipline adds.  Every frame knows its object's address; a    *)
(* call is for the object whose frame is below it; objects in progress are *)
(* apart; of the objects that were opened outside of every call only the   *)
(* last one may still call the extensions; the address that is kept is     *)
(* that of the object of the outermost call.                               *)
(***************************************************************************)
AddressOf(s, i) == objects[s][stack[i].obj]

Outer(i) == \A j \in 1 .. i : stack[j].kind = "object"

Nested == \A i \in 1 .. Len(stack) :
            stack[i].kind # "object" => i > 1 /\ stack[i - 1].obj = stack[i].obj

Apart == \A s \in Sides : \A i, j \in 1 .. Len(stack) :
           AddressOf(s, i) = AddressOf(s, j) => stack[i].obj = stack[j].obj

OuterSealed == \A i \in 1 .. Len(stack) - 1 : Outer(i + 1) => stack[i].sealed

ParentIsOutermost ==
  \A s \in Sides : \A i \in 1 .. Len(stack) :
    stack[i].kind # "object" /\ Outer(i - 1) => context[s].parentPtr = AddressOf(s, i)

\* The virtual bases that are still listed when the object at an address
\* calls an extension now.
Listed(c, a) == BeginBase(c, a).virtualBases

(***************************************************************************)
(* The heart of it: for every object that may still call the extensions,   *)
(* exactly those of its virtual bases are listed that were serialized, and *)
(* those were serialized once.                                             *)
(***************************************************************************)
ListedOnce ==
  \A s \in Sides : \A i \in 1 .. Len(stack) : ~stack[i].sealed =>
    \A b \in VirtualBases :
      copies[s][stack[i].obj][b]
        = IF <<AddressOf(s, i), b>> \in Listed(context[s], AddressOf(s, i)) THEN 1 ELSE 0

AskedOnce ==
  \A s \in Sides : \A o \in 1 .. Len(asked) : \A b \in VirtualBases :
    copies[s][o][b] \in {0, 1} /\ (b \in asked[o] => copies[s][o][b] = 1)

DInv == /\ TypeInv /\ Nested /\ Apart /\ OuterSealed /\ ParentIsOutermost
        /\ ListedOnce /\ AskedOnce

-----------------------------------------------------------------------------
LEMMA DepthType ==
  ASSUME TypeInv
  PROVE  /\ Depth \in Nat
         /\ Depth = 0 <=> \A i \in 1 .. Len(stack) : stack[i].kind = "object"
BY CallsType, DepthIsCalls DEF TypeInv

\* A frame more, whose object is one that was opened.
LEMMA StackPushed ==
  ASSUME TypeInv, NEW base \in Seq(Frames), Len(base) = Len(stack), NEW f \in Frames,
         \A i \in 1 .. Len(stack) : base[i].kind = stack[i].kind,
         stack' = Append(base, f)
  PROVE  /\ stack' \in Seq(Frames) /\ Len(stack') = Len(stack) + 1
         /\ \A i \in 1 .. Len(stack) : stack'[i] = base[i]
         /\ stack'[Len(stack) + 1] = f
         /\ f.kind = "object" => Depth' = Depth
         /\ f.kind # "object" => Depth' = Depth + 1
<1>1. /\ stack' \in Seq(Frames) /\ Len(stack') = Len(stack) + 1
      /\ \A i \in 1 .. Len(stack) : stack'[i] = base[i]
      /\ stack'[Len(stack) + 1] = f
  BY AppendProperties
<1>2. Depth' = Cardinality(Calls(stack'))
  BY DEF Depth, Calls
<1>3. \A i \in 1 .. Len(stack) : stack'[i].kind = stack[i].kind
  BY <1>1
<1>4. /\ f.kind = "object" => Cardinality(Calls(stack')) = Cardinality(Calls(stack))
      /\ f.kind # "object" => Cardinality(Calls(stack')) = Cardinality(Calls(stack)) + 1
  <2>. DEFINE q == stack'
  <2>1. /\ q \in Seq(Frames) /\ Len(q) = Len(stack) + 1 /\ q[Len(q)] = f
        /\ \A i \in 1 .. Len(stack) : q[i].kind = stack[i].kind
    BY <1>1, <1>3
  <2>. HIDE DEF q
  <2>2. stack \in Seq(Frames)
    BY DEF TypeInv
  <2>3. /\ f.kind = "object" => Cardinality(Calls(q)) = Cardinality(Calls(stack))
        /\ f.kind # "object" => Cardinality(Calls(q)) = Cardinality(Calls(stack)) + 1
    BY <2>1, <2>2, CallsPushed
  <2>. QED
    BY <2>3 DEF q
<1>. QED
  BY <1>1, <1>2, <1>4, DepthIsCalls

\* The last frame goes.
LEMMA StackPopped ==
  ASSUME TypeInv, stack # << >>, stack' = Front(stack)
  PROVE  /\ stack' \in Seq(Frames) /\ Len(stack) = Len(stack') + 1
         /\ \A i \in 1 .. Len(stack') : stack'[i] = stack[i]
         /\ Top = stack[Len(stack)] /\ Top \in Frames
         /\ Top.kind = "object" => Depth' = Depth
         /\ Top.kind # "object" => Depth = Depth' + 1
<1>. DEFINE n == Len(stack)
<1>1. n \in Nat \ {0} /\ stack \in Seq(Frames)
  BY DEF TypeInv
<1>2. /\ stack' \in Seq(Frames) /\ Len(stack) = Len(stack') + 1
      /\ \A i \in 1 .. Len(stack') : stack'[i] = stack[i]
  <2>. DEFINE m == n - 1
  <2>1. m \in Nat /\ \A i \in 1 .. m : stack[i] \in Frames
    BY <1>1
  <2>2. stack' = SubSeq(stack, 1, m)
    BY DEF Front
  <2>. HIDE DEF m
  <2>3. /\ SubSeq(stack, 1, m) \in Seq(Frames) /\ Len(SubSeq(stack, 1, m)) = m
        /\ \A i \in 1 .. m : SubSeq(stack, 1, m)[i] = stack[i]
    BY <2>1, SubSeqProperties
  <2>4. n = m + 1
    BY <1>1 DEF m
  <2>. QED
    BY <2>2, <2>3, <2>4
<1>3. Top = stack[n] /\ Top \in Frames
  BY <1>1 DEF Top, Last
<1>4. /\ Top.kind = "object" => Cardinality(Calls(stack)) = Cardinality(Calls(stack'))
      /\ Top.kind # "object" => Cardinality(Calls(stack)) = Cardinality(Calls(stack')) + 1
  BY <1>1, <1>2, <1>3, CallsPushed
<1>5. Depth' = Cardinality(Calls(stack'))
  BY DEF Depth, Calls
<1>. QED
  BY <1>2, <1>3, <1>4, <1>5, DepthIsCalls

LEMMA BeginBaseType ==
  ASSUME NEW c \in Contexts, NEW a \in Addresses
  PROVE  /\ BeginBase(c, a) \in Contexts
         /\ BeginBase(c, a).depth = c.depth + 1
         /\ BeginBase(c, a).virtualBases = Listed(c, a)
         /\ Listed(c, a) \subseteq Addresses \X VirtualBases
         /\ Listed(c, a) = IF c.depth = 0 /\ c.parentPtr # a THEN {} ELSE c.virtualBases
         /\ BeginBase(c, a).parentPtr = IF c.depth = 0 THEN a ELSE c.parentPtr
BY DEF BeginBase, Contexts, Listed

\* A call of an extension is for the object on top.
LEMMA TopType ==
  ASSUME TypeInv, MayCall
  PROVE  /\ Len(stack) \in Nat \ {0} /\ Top = stack[Len(stack)] /\ ~Top.sealed
         /\ Top.obj \in 1 .. Len(asked)
         /\ \A s \in Sides : At(s) \in Addresses /\ At(s) = AddressOf(s, Len(stack))
         /\ \A k \in {"base", "virtual"} :
              Frame(k) \in Frames /\ Frame(k).kind = k /\ Frame(k).obj = Top.obj
<1>1. Len(stack) \in Nat \ {0} /\ Top = stack[Len(stack)] /\ ~Top.sealed
  BY DEF TypeInv, MayCall, Top, Last
<1>2. Top.obj \in 1 .. Len(asked)
  BY <1>1 DEF TypeInv
<1>3. \A s \in Sides : At(s) \in Addresses /\ At(s) = AddressOf(s, Len(stack))
  BY <1>1, <1>2 DEF TypeInv, At, AddressOf
<1>4. \A k \in {"base", "virtual"} :
        Frame(k) \in Frames /\ Frame(k).kind = k /\ Frame(k).obj = Top.obj
  BY <1>2 DEF Frame, Frames
<1>. QED
  BY <1>1, <1>2, <1>3, <1>4

-----------------------------------------------------------------------------
(* What the actions do, frame by frame and object by object. *)

New(w, r, s) == IF s = "writer" THEN w ELSE r

LEMMA Sealed ==
  ASSUME NEW f \in Frames
  PROVE  LET g == [ f EXCEPT !.sealed = TRUE ]
         IN  g \in Frames /\ g.obj = f.obj /\ g.kind = f.kind /\ g.sealed
BY DEF Frames

LEMMA OpenStack ==
  ASSUME TypeInv, NEW w \in Addresses, NEW r \in Addresses, Open(w, r)
  PROVE  /\ stack' \in Seq(Frames) /\ Len(stack') = Len(stack) + 1 /\ Depth' = Depth
         /\ \A i \in 1 .. Len(stack) :
              /\ stack'[i].obj = stack[i].obj /\ stack'[i].kind = stack[i].kind
              /\ i < Len(stack) \/ Depth > 0 => stack'[i].sealed = stack[i].sealed
              /\ Depth = 0 /\ ~Interleaves /\ i = Len(stack) => stack'[i].sealed
         /\ stack'[Len(stack) + 1].obj = Len(asked) + 1
         /\ stack'[Len(stack) + 1].kind = "object"
<1>. DEFINE n == Len(stack)
            top == [ stack[n] EXCEPT !.sealed = TRUE ]
            f == [ obj |-> Len(asked) + 1, kind |-> "object", sealed |-> FALSE ]
            outer == IF stack = << >> \/ Interleaves \/ Depth > 0 THEN stack
                     ELSE [ stack EXCEPT ![n].sealed = TRUE ]
<1>1. stack \in Seq(Frames) /\ n \in Nat /\ (stack # << >> => n > 0) /\ Depth \in Nat
  BY DepthType DEF TypeInv
<1>2. f \in Frames
  BY DEF Frames, TypeInv
<1>3. n > 0 => /\ top \in Frames /\ top.obj = stack[n].obj /\ top.kind = stack[n].kind
               /\ top.sealed
  <2>1. n > 0 => stack[n] \in Frames
    BY <1>1
  <2>. QED
    BY <2>1, Sealed
<1>4. /\ outer \in Seq(Frames) /\ Len(outer) = n
      /\ \A i \in 1 .. n :
           /\ outer[i].obj = stack[i].obj /\ outer[i].kind = stack[i].kind
           /\ i < n \/ Depth > 0 => outer[i].sealed = stack[i].sealed
           /\ Depth = 0 /\ ~Interleaves /\ i = n => outer[i].sealed
  <2>1. CASE stack = << >> \/ Interleaves \/ Depth > 0
    <3>1. outer = stack
      BY <2>1
    <3>2. Depth = 0 /\ ~Interleaves => n = 0
      BY <2>1
    <3>. HIDE DEF outer, n
    <3>. QED
      BY <1>1, <3>1, <3>2 DEF n
  <2>2. CASE ~(stack = << >> \/ Interleaves \/ Depth > 0)
    <3>1. outer = [ stack EXCEPT ![n] = top ]
      BY <2>2
    <3>2. n \in 1 .. Len(stack) /\ Depth = 0
      BY <1>1, <2>2
    <3>. HIDE DEF top, n, outer
    <3>3. /\ outer \in Seq(Frames) /\ Len(outer) = Len(stack)
          /\ \A i \in 1 .. Len(stack) : outer[i] = IF i = n THEN top ELSE stack[i]
      BY <1>1, <1>3, <3>1, <3>2, ExceptSeq
    <3>4. \A i \in 1 .. n : outer[i] = IF i = n THEN top ELSE stack[i]
      BY <3>3 DEF n
    <3>. QED
      BY <1>1, <1>3, <3>2, <3>3, <3>4 DEF n
  <2>. QED
    BY <2>1, <2>2
<1>5. stack' = Append(outer, f)
  BY DEF Open, TypeInv, Sides
<1>6. f.kind = "object" /\ f.obj = Len(asked) + 1
  OBVIOUS
<1>. HIDE DEF f, outer
<1>7. /\ stack' \in Seq(Frames) /\ Len(stack') = n + 1
      /\ \A i \in 1 .. n : stack'[i] = outer[i]
      /\ stack'[n + 1] = f /\ Depth' = Depth
  BY <1>2, <1>4, <1>5, <1>6, StackPushed
<1>. QED
  BY <1>4, <1>6, <1>7

LEMMA OpenObjects ==
  ASSUME TypeInv, NEW w \in Addresses, NEW r \in Addresses, Open(w, r)
  PROVE  /\ objects' \in [ Sides -> Seq(Addresses) ]
         /\ asked' \in Seq(SUBSET VirtualBases)
         /\ copies' \in [ Sides -> Seq([ VirtualBases -> Nat ]) ]
         /\ Len(asked') = Len(asked) + 1
         /\ asked'[Len(asked) + 1] = {}
         /\ \A o \in 1 .. Len(asked) : asked'[o] = asked[o]
         /\ \A s \in Sides :
              /\ Len(objects'[s]) = Len(asked) + 1 /\ Len(copies'[s]) = Len(asked) + 1
              /\ objects'[s][Len(asked) + 1] = New(w, r, s)
              /\ \A b \in VirtualBases : copies'[s][Len(asked) + 1][b] = 0
              /\ \A o \in 1 .. Len(asked) : /\ objects'[s][o] = objects[s][o]
                                           /\ copies'[s][o] = copies[s][o]
<1>. DEFINE m == Len(asked)
            zeros == [ b \in VirtualBases |-> 0 ]
<1>1. m \in Nat /\ zeros \in [ VirtualBases -> Nat ] /\ {} \in SUBSET VirtualBases
  BY DEF TypeInv
<1>2. /\ asked' = Append(asked, {}) /\ asked \in Seq(SUBSET VirtualBases)
  BY DEF TypeInv, Open
<1>3. /\ asked' \in Seq(SUBSET VirtualBases) /\ Len(asked') = m + 1
      /\ asked'[m + 1] = {} /\ \A o \in 1 .. m : asked'[o] = asked[o]
  BY <1>1, <1>2, AppendProperties
<1>4. /\ objects' = [ s \in Sides |-> Append(objects[s], New(w, r, s)) ]
      /\ copies' = [ s \in Sides |-> Append(copies[s], zeros) ]
  BY DEF Open, New
<1>. HIDE DEF zeros
<1>5. ASSUME NEW s \in Sides
      PROVE  /\ objects'[s] \in Seq(Addresses) /\ copies'[s] \in Seq([ VirtualBases -> Nat ])
             /\ Len(objects'[s]) = m + 1 /\ Len(copies'[s]) = m + 1
             /\ objects'[s][m + 1] = New(w, r, s) /\ copies'[s][m + 1] = zeros
             /\ \A o \in 1 .. m : /\ objects'[s][o] = objects[s][o]
                                  /\ copies'[s][o] = copies[s][o]
  <2>1. /\ objects[s] \in Seq(Addresses) /\ copies[s] \in Seq([ VirtualBases -> Nat ])
        /\ Len(objects[s]) = m /\ Len(copies[s]) = m /\ New(w, r, s) \in Addresses
    BY DEF TypeInv, New
  <2>2. objects'[s] = Append(objects[s], New(w, r, s)) /\ copies'[s] = Append(copies[s], zeros)
    BY <1>4
  <2>3. /\ objects'[s] \in Seq(Addresses) /\ Len(objects'[s]) = m + 1
        /\ objects'[s][m + 1] = New(w, r, s)
        /\ \A o \in 1 .. m : objects'[s][o] = objects[s][o]
    BY <2>1, <2>2, AppendProperties
  <2>4. /\ copies'[s] \in Seq([ VirtualBases -> Nat ]) /\ Len(copies'[s]) = m + 1
        /\ copies'[s][m + 1] = zeros
        /\ \A o \in 1 .. m : copies'[s][o] = copies[s][o]
    BY <1>1, <2>1, <2>2, AppendProperties
  <2>. QED
    BY <2>3, <2>4
<1>6. \A b \in VirtualBases : zeros[b] = 0
  BY DEF zeros
<1>. QED
  BY <1>3, <1>4, <1>5, <1>6

\* A call of an extension that calls fnc.
LEMMA CallStack ==
  ASSUME TypeInv, MayCall, NEW k \in {"base", "virtual"}, stack' = Append(stack, Frame(k))
  PROVE  /\ stack' \in Seq(Frames) /\ Len(stack') = Len(stack) + 1 /\ Depth' = Depth + 1
         /\ \A i \in 1 .. Len(stack) : stack'[i] = stack[i]
         /\ stack'[Len(stack) + 1].kind = k /\ stack'[Len(stack) + 1].obj = Top.obj
<1>1. /\ Frame(k) \in Frames /\ Frame(k).kind = k /\ Frame(k).obj = Top.obj
  BY TopType
<1>2. stack \in Seq(Frames)
  BY DEF TypeInv
<1>. QED
  BY <1>1, <1>2, StackPushed

LEMMA VirtualBaseObjects ==
  ASSUME TypeInv, NEW b \in VirtualBases, VirtualBase(b)
  PROVE  /\ asked' \in Seq(SUBSET VirtualBases) /\ Len(asked') = Len(asked)
         /\ copies' \in [ Sides -> Seq([ VirtualBases -> Nat ]) ]
         /\ \A o \in 1 .. Len(asked) :
              asked'[o] = IF o = Top.obj THEN asked[o] \union {b} ELSE asked[o]
         /\ \A s \in Sides :
              /\ Len(copies'[s]) = Len(asked)
              /\ \A o \in 1 .. Len(asked) : \A c \in VirtualBases :
                   copies'[s][o][c] = IF o = Top.obj /\ c = b /\ IsNew(s, b)
                                        THEN copies[s][o][c] + 1 ELSE copies[s][o][c]
<1>. DEFINE m == Len(asked)
            t == Top.obj
<1>1. m \in Nat /\ t \in 1 .. m /\ asked \in Seq(SUBSET VirtualBases)
  BY TopType DEF VirtualBase, TypeInv
<1>2. asked' = [ asked EXCEPT ![t] = asked[t] \union {b} ] /\ asked[t] \union {b} \in SUBSET VirtualBases
  BY <1>1 DEF VirtualBase
<1>. HIDE DEF m, t
<1>3. /\ asked' \in Seq(SUBSET VirtualBases) /\ Len(asked') = m
      /\ \A o \in 1 .. m : asked'[o] = IF o = t THEN asked[o] \union {b} ELSE asked[o]
  <2>. DEFINE x == asked[t] \union {b}
  <2>. HIDE DEF x
  <2>1. asked' = [ asked EXCEPT ![t] = x ] /\ x \in SUBSET VirtualBases /\ Len(asked) = m
    BY <1>2 DEF x, m
  <2>2. /\ asked' \in Seq(SUBSET VirtualBases) /\ Len(asked') = m
        /\ \A o \in 1 .. m : asked'[o] = IF o = t THEN x ELSE asked[o]
    BY <1>1, <2>1, ExceptSeq
  <2>. QED
    BY <2>2 DEF x
<1>4. ASSUME NEW s \in Sides
      PROVE  /\ copies'[s] \in Seq([ VirtualBases -> Nat ]) /\ Len(copies'[s]) = m
             /\ \A o \in 1 .. m : \A c \in VirtualBases :
                  copies'[s][o][c] = IF o = t /\ c = b /\ IsNew(s, b)
                                       THEN copies[s][o][c] + 1 ELSE copies[s][o][c]
  <2>1. copies[s] \in Seq([ VirtualBases -> Nat ]) /\ Len(copies[s]) = m
    BY DEF TypeInv, m
  <2>2. copies'[s] = IF IsNew(s, b) THEN [ copies[s] EXCEPT ![t][b] = @ + 1 ] ELSE copies[s]
    BY DEF VirtualBase, t
  <2>3. CASE IsNew(s, b)
    <3>. DEFINE x == [ copies[s][t] EXCEPT ![b] = @ + 1 ]
    <3>1. copies[s][t] \in [ VirtualBases -> Nat ]
      BY <1>1, <2>1
    <3>2. /\ x \in [ VirtualBases -> Nat ]
          /\ \A c \in VirtualBases : x[c] = IF c = b THEN copies[s][t][c] + 1 ELSE copies[s][t][c]
      BY <3>1
    <3>3. copies'[s] = [ copies[s] EXCEPT ![t] = x ]
      BY <2>2, <2>3
    <3>. HIDE DEF x
    <3>4. /\ copies'[s] \in Seq([ VirtualBases -> Nat ]) /\ Len(copies'[s]) = m
          /\ \A o \in 1 .. m : copies'[s][o] = IF o = t THEN x ELSE copies[s][o]
      BY <1>1, <2>1, <3>2, <3>3, ExceptSeq
    <3>. QED
      BY <2>3, <3>2, <3>4
  <2>4. CASE ~IsNew(s, b)
    BY <2>1, <2>2, <2>4
  <2>. QED
    BY <2>3, <2>4
<1>5. copies' = [ s \in Sides |->
        IF IsNew(s, b) THEN [ copies[s] EXCEPT ![t][b] = @ + 1 ] ELSE copies[s] ]
  BY DEF VirtualBase, t
<1>. QED
  BY <1>3, <1>4, <1>5 DEF m, t

-----------------------------------------------------------------------------
LEMMA TypeInit == Init => TypeInv
<1>. SUFFICES ASSUME Init PROVE TypeInv
  OBVIOUS
<1>1. stack = << >> /\ stack \in Seq(Frames) /\ Len(stack) = 0
  BY DEF Init
<1>2. Depth = 0
  <2>1. Calls(stack) = {}
    BY <1>1 DEF Calls
  <2>. QED
    BY <2>1, DepthIsCalls, FS_EmptySet
<1>3. NewContext \in Contexts /\ NewContext.depth = 0
  BY DEF NewContext, Contexts
<1>. QED
  BY <1>1, <1>2, <1>3 DEF Init, TypeInv

LEMMA EndType ==
  ASSUME NEW c \in Contexts, c.depth > 0
  PROVE  /\ End(c) \in Contexts /\ End(c).depth = c.depth - 1
         /\ End(c).parentPtr = c.parentPtr /\ End(c).virtualBases = c.virtualBases
BY DEF End, Contexts

LEMMA BeginVirtualBaseType ==
  ASSUME TypeInv, MayCall, NEW s \in Sides, NEW b \in VirtualBases
  PROVE  LET c == BeginVirtualBase(s, b)
         IN  /\ c \in Contexts /\ c.depth = Depth + 1
             /\ c.parentPtr = IF Depth = 0 THEN At(s) ELSE context[s].parentPtr
             /\ c.virtualBases = Listed(context[s], At(s)) \union { <<At(s), b>> }
<1>. DEFINE c == BeginBase(context[s], At(s))
<1>1. context[s] \in Contexts /\ context[s].depth = Depth /\ At(s) \in Addresses
  BY TopType DEF TypeInv
<1>2. /\ c \in Contexts /\ c.depth = Depth + 1
      /\ c.virtualBases = Listed(context[s], At(s))
      /\ c.parentPtr = IF Depth = 0 THEN At(s) ELSE context[s].parentPtr
  BY <1>1, BeginBaseType
<1>3. BeginVirtualBase(s, b) = [ c EXCEPT !.virtualBases = @ \union { <<At(s), b>> } ]
  BY DEF BeginVirtualBase, Where
<1>. HIDE DEF c
<1>. QED
  BY <1>1, <1>2, <1>3 DEF Contexts

LEMMA TypeNext == TypeInv /\ [Next]_vars => TypeInv'
<1>. SUFFICES ASSUME TypeInv, [Next]_vars PROVE TypeInv'
  OBVIOUS
<1>0. /\ \A s \in Sides : context[s] \in Contexts /\ context[s].depth = Depth
      /\ Depth \in Nat
  BY DepthType DEF TypeInv
<1>1. ASSUME NEW w \in Addresses, NEW r \in Addresses, Open(w, r) PROVE TypeInv'
  <2>1. \A i \in 1 .. Len(stack') : stack'[i].obj \in 1 .. Len(asked')
    <3>1. /\ Len(stack') = Len(stack) + 1 /\ stack'[Len(stack) + 1].obj = Len(asked) + 1
          /\ \A i \in 1 .. Len(stack) : stack'[i].obj = stack[i].obj
      BY <1>1, OpenStack
    <3>2. Len(asked') = Len(asked) + 1
      BY <1>1, OpenObjects
    <3>3. Len(asked) \in Nat /\ Len(stack) \in Nat
      BY LenProperties DEF TypeInv
    <3>4. \A i \in 1 .. Len(stack) : stack[i].obj \in 1 .. Len(asked)
      BY Zenon DEF TypeInv
    <3>. QED
      BY <3>1, <3>2, <3>3, <3>4
  <2>2. context' = context
    BY <1>1 DEF Open
  <2>. QED
    BY <1>1, <2>1, <2>2, OpenStack, OpenObjects DEF TypeInv
<1>2. CASE Base
  <2>1. MayCall /\ stack' = Append(stack, Frame("base")) /\ UNCHANGED <<objects, asked, copies>>
    BY <1>2 DEF Base
  <2>2. context' \in [ Sides -> Contexts ] /\ \A s \in Sides : context'[s].depth = Depth + 1
    <3>1. context' = [ s \in Sides |-> BeginBase(context[s], At(s)) ]
      BY <1>2 DEF Base
    <3>2. \A s \in Sides : At(s) \in Addresses
      BY <2>1, TopType
    <3>3. \A s \in Sides : /\ BeginBase(context[s], At(s)) \in Contexts
                           /\ BeginBase(context[s], At(s)).depth = Depth + 1
      BY <1>0, <3>2, BeginBaseType
    <3>. QED
      BY <3>1, <3>3
  <2>3. /\ stack' \in Seq(Frames) /\ Depth' = Depth + 1
        /\ \A i \in 1 .. Len(stack') : stack'[i].obj \in 1 .. Len(asked')
    BY <2>1, TopType, CallStack DEF TypeInv
  <2>. QED
    BY <2>1, <2>2, <2>3 DEF TypeInv
<1>3. ASSUME NEW b \in VirtualBases, VirtualBase(b) PROVE TypeInv'
  <2>1. MayCall /\ UNCHANGED objects
    BY <1>3 DEF VirtualBase
  <2>2. /\ asked' \in Seq(SUBSET VirtualBases) /\ Len(asked') = Len(asked)
        /\ copies' \in [ Sides -> Seq([ VirtualBases -> Nat ]) ]
        /\ \A s \in Sides : Len(copies'[s]) = Len(asked)
    BY <1>3, VirtualBaseObjects
  <2>3. /\ stack' \in Seq(Frames)
        /\ \A i \in 1 .. Len(stack') : stack'[i].obj \in 1 .. Len(asked')
        /\ context' \in [ Sides -> Contexts ]
        /\ \A s \in Sides : context'[s].depth = Depth'
    <3>1. CASE IsNew("writer", b)
      <4>1. stack' = Append(stack, Frame("virtual"))
            /\ context' = [ s \in Sides |-> BeginVirtualBase(s, b) ]
        BY <1>3, <3>1 DEF VirtualBase
      <4>2. /\ stack' \in Seq(Frames) /\ Depth' = Depth + 1
            /\ \A i \in 1 .. Len(stack') : stack'[i].obj \in 1 .. Len(asked')
        BY <2>1, <2>2, <4>1, TopType, CallStack DEF TypeInv
      <4>. QED
        BY <2>1, <4>1, <4>2, BeginVirtualBaseType
    <3>2. CASE ~IsNew("writer", b)
      <4>1. stack' = stack /\ context' = [ s \in Sides |-> End(BeginVirtualBase(s, b)) ]
        BY <1>3, <3>2 DEF VirtualBase
      <4>2. Depth' = Depth
        BY <4>1 DEF Depth
      <4>3. ASSUME NEW s \in Sides
            PROVE  LET c == End(BeginVirtualBase(s, b)) IN c \in Contexts /\ c.depth = Depth
        <5>. DEFINE c == BeginVirtualBase(s, b)
        <5>1. c \in Contexts /\ c.depth = Depth + 1
          BY <2>1, BeginVirtualBaseType
        <5>. HIDE DEF c
        <5>2. End(c) \in Contexts /\ End(c).depth = Depth
          BY <1>0, <5>1, EndType
        <5>. QED
          BY <5>2 DEF c
      <4>. QED
        BY <2>2, <4>1, <4>2, <4>3 DEF TypeInv
    <3>. QED
      BY <3>1, <3>2
  <2>. QED
    BY <2>1, <2>2, <2>3 DEF TypeInv
<1>4. CASE Return
  <2>1. stack # << >> /\ stack' = Front(stack) /\ UNCHANGED <<objects, asked, copies>>
    BY <1>4 DEF Return
  <2>2. /\ stack' \in Seq(Frames) /\ Len(stack) = Len(stack') + 1
        /\ \A i \in 1 .. Len(stack') : stack'[i] = stack[i]
        /\ Top.kind = "object" => Depth' = Depth
        /\ Top.kind # "object" => Depth = Depth' + 1
    BY <2>1, StackPopped
  <2>3. \A i \in 1 .. Len(stack') : stack'[i].obj \in 1 .. Len(asked')
    BY <2>1, <2>2 DEF TypeInv
  <2>4. context' \in [ Sides -> Contexts ] /\ \A s \in Sides : context'[s].depth = Depth'
    <3>1. CASE Top.kind = "object"
      BY <1>4, <2>2, <3>1 DEF Return, TypeInv
    <3>2. CASE Top.kind # "object"
      <4>1. context' = [ s \in Sides |-> End(context[s]) ]
        BY <1>4, <3>2 DEF Return
      <4>2. Depth' \in Nat
        BY <2>2, CallsType DEF Depth, Calls
      <4>3. \A s \in Sides : End(context[s]) \in Contexts /\ End(context[s]).depth = Depth'
        <5>1. Depth > 0 /\ Depth - 1 = Depth'
          BY <2>2, <3>2, <4>2
        <5>. QED
          BY <1>0, <5>1, EndType
      <4>. QED
        BY <4>1, <4>3
    <3>. QED
      BY <3>1, <3>2
  <2>. QED
    BY <2>1, <2>2, <2>3, <2>4 DEF TypeInv
<1>5. CASE UNCHANGED vars
  BY <1>5 DEF vars, TypeInv, Depth
<1>. QED
  BY <1>1, <1>2, <1>3, <1>4, <1>5 DEF Next

\* Whatever the program does, the depth each context keeps is the number of
\* calls in progress, so that end() never wraps, and a list holds virtual
\* bases of objects only.
THEOREM TypeCorrect == Spec => []TypeOK
<1>1. TypeInv => TypeOK
  BY DEF TypeInv, TypeOK, Contexts
<1>. QED
  BY TypeInit, TypeNext, <1>1, PTL DEF Spec

-----------------------------------------------------------------------------
(* The disciplined program. *)

LEMMA DInvInit == Init => DInv
<1>. SUFFICES ASSUME Init PROVE DInv
  OBVIOUS
<1>1. stack = << >> /\ Len(stack) = 0 /\ asked = << >> /\ Len(asked) = 0
  BY DEF Init
<1>. QED
  BY <1>1, TypeInit DEF DInv, Nested, Apart, OuterSealed, ParentIsOutermost, ListedOnce,
    AskedOnce

LEMMA OuterIsOutside ==
  ASSUME TypeInv
  PROVE  Outer(Len(stack)) <=> Depth = 0
BY DepthType DEF Outer

\* What is listed inside a call is listed for everyone.
LEMMA ListedInside ==
  ASSUME NEW c, NEW a, c.depth # 0 \/ c.parentPtr = a
  PROVE  Listed(c, a) = c.virtualBases
BY DEF Listed, BeginBase

LEMMA OpenKeeps ==
  ASSUME DInv, ~Interleaves, ~Reuses,
         NEW w \in Addresses, NEW r \in Addresses, Open(w, r)
  PROVE  /\ Nested' /\ Apart' /\ OuterSealed' /\ ParentIsOutermost'
         /\ ListedOnce' /\ AskedOnce'
<1>. USE DEF DInv
<1>0. PICK n \in Nat, m \in Nat : n = Len(stack) /\ m = Len(asked)
  BY LenProperties DEF TypeInv
<1>. USE <1>0
<1>1. n \in Nat /\ m \in Nat /\ Depth \in Nat
  BY DepthType
<1>2. /\ Len(stack') = n + 1 /\ Depth' = Depth
      /\ \A i \in 1 .. n :
           /\ stack'[i].obj = stack[i].obj /\ stack'[i].kind = stack[i].kind
           /\ ~stack'[i].sealed => ~stack[i].sealed
           /\ i < n => stack'[i].sealed = stack[i].sealed
           /\ Depth = 0 /\ i = n => stack'[i].sealed
      /\ stack'[n + 1].obj = m + 1 /\ stack'[n + 1].kind = "object"
  <2>1. \A i \in 1 .. n : stack'[i].sealed = stack[i].sealed \/ stack'[i].sealed
    BY <1>1, OpenStack
  <2>. QED
    BY <2>1, OpenStack
<1>3. /\ Len(asked') = m + 1 /\ asked'[m + 1] = {}
      /\ \A o \in 1 .. m : asked'[o] = asked[o]
      /\ \A s \in Sides :
           /\ objects'[s][m + 1] = New(w, r, s)
           /\ \A b \in VirtualBases : copies'[s][m + 1][b] = 0
           /\ \A o \in 1 .. m : objects'[s][o] = objects[s][o] /\ copies'[s][o] = copies[s][o]
  BY OpenObjects
<1>4. \A i \in 1 .. n : stack[i].obj \in 1 .. m
  BY Zenon DEF TypeInv
<1>5. context' = context
  BY DEF Open
<1>6. \A s \in Sides : /\ \A i \in 1 .. n : AddressOf(s, i)' = AddressOf(s, i)
                       /\ AddressOf(s, n + 1)' = New(w, r, s)
  BY <1>2, <1>3, <1>4 DEF AddressOf
<1>7. /\ \A i \in 0 .. n : Outer(i)' <=> Outer(i)
      /\ Outer(n + 1)' => Depth = 0
  <2>1. ASSUME NEW i \in 0 .. n PROVE Outer(i)' <=> Outer(i)
    BY <1>1, <1>2, SMTT(30) DEF Outer
  <2>2. Outer(n + 1)' => Outer(n)
    BY <1>1, <1>2 DEF Outer
  <2>. QED
    BY <2>1, <2>2, OuterIsOutside
<1>8. Nested'
  <2>. SUFFICES ASSUME NEW i \in 1 .. n + 1, stack'[i].kind # "object"
                PROVE  i > 1 /\ stack'[i - 1].obj = stack'[i].obj
    BY <1>2 DEF Nested
  <2>1. i \in 1 .. n
    BY <1>1, <1>2
  <2>2. i > 1 /\ stack[i - 1].obj = stack[i].obj
    BY <1>2, <2>1 DEF Nested
  <2>3. i - 1 \in 1 .. n
    BY <1>1, <2>1, <2>2
  <2>. QED
    BY <1>2, <2>1, <2>2, <2>3
<1>9. Apart'
  <2>1. \A s \in Sides : \A i \in 1 .. n : AddressOf(s, i) # New(w, r, s)
    <3>1. \A s \in Sides : New(w, r, s) \notin Live(s)
      BY DEF Open, New, Sides
    <3>2. \A s \in Sides : \A i \in 1 .. n : AddressOf(s, i) \in Live(s)
      <4>1. DOMAIN stack = 1 .. n
        BY DEF TypeInv
      <4>. QED
        BY <4>1 DEF AddressOf, Live
    <3>. QED
      BY <3>1, <3>2
  <2>. SUFFICES ASSUME NEW s \in Sides, NEW i \in 1 .. n + 1, NEW j \in 1 .. n + 1,
                       AddressOf(s, i)' = AddressOf(s, j)'
                PROVE  stack'[i].obj = stack'[j].obj
    BY <1>2 DEF Apart
  <2>2. CASE i \in 1 .. n /\ j \in 1 .. n
    BY <1>2, <1>6, <2>2 DEF Apart
  <2>3. CASE i = n + 1 /\ j = n + 1
    BY <2>3
  <2>4. CASE i \in 1 .. n /\ j = n + 1
    BY <1>6, <2>1, <2>4
  <2>5. CASE i = n + 1 /\ j \in 1 .. n
    BY <1>6, <2>1, <2>5
  <2>. QED
    BY <1>1, <2>2, <2>3, <2>4, <2>5
<1>10. OuterSealed'
  <2>. SUFFICES ASSUME NEW i \in 1 .. n, Outer(i + 1)' PROVE stack'[i].sealed
    BY <1>1, <1>2 DEF OuterSealed
  <2>1. CASE i < n
    BY <1>1, <1>2, <1>7, <2>1 DEF OuterSealed
  <2>2. CASE i = n
    BY <1>2, <1>7, <2>2
  <2>. QED
    BY <1>1, <2>1, <2>2
<1>11. ParentIsOutermost'
  <2>. SUFFICES ASSUME NEW s \in Sides, NEW i \in 1 .. n + 1,
                       stack'[i].kind # "object", Outer(i - 1)'
                PROVE  context'[s].parentPtr = AddressOf(s, i)'
    BY <1>2 DEF ParentIsOutermost
  <2>1. i \in 1 .. n /\ i - 1 \in 0 .. n
    BY <1>1, <1>2
  <2>. QED
    BY <1>2, <1>5, <1>6, <1>7, <2>1 DEF ParentIsOutermost
<1>12. ListedOnce'
  <2>. SUFFICES ASSUME NEW s \in Sides, NEW i \in 1 .. n + 1, ~stack'[i].sealed,
                       NEW b \in VirtualBases
                PROVE  copies'[s][stack'[i].obj][b]
                         = IF <<AddressOf(s, i)', b>> \in Listed(context'[s], AddressOf(s, i)')
                             THEN 1 ELSE 0
    BY <1>2 DEF ListedOnce
  <2>1. CASE i \in 1 .. n
    <3>1. /\ copies'[s][stack'[i].obj][b] = copies[s][stack[i].obj][b]
          /\ AddressOf(s, i)' = AddressOf(s, i) /\ context'[s] = context[s]
          /\ ~stack[i].sealed
      BY <1>2, <1>3, <1>4, <1>5, <1>6, <2>1
    <3>2. copies[s][stack[i].obj][b]
            = IF <<AddressOf(s, i), b>> \in Listed(context[s], AddressOf(s, i)) THEN 1 ELSE 0
      BY <2>1, <3>1 DEF ListedOnce
    <3>. QED
      BY <3>1, <3>2
  <2>2. CASE i = n + 1
    <3>. DEFINE a == New(w, r, s)
    <3>1. copies'[s][stack'[i].obj][b] = 0 /\ AddressOf(s, i)' = a /\ context' = context
      BY <1>2, <1>3, <1>5, <1>6, <2>2
    <3>2. Distinct(s, a) /\ context[s] \in Contexts /\ context[s].depth = Depth
          /\ a \in Addresses
      BY DEF Open, New, TypeInv, Sides
    <3>. HIDE DEF a
    <3>3. <<a, b>> \notin Listed(context[s], a)
      <4>1. CASE Depth = 0
        BY <3>2, <4>1, BeginBaseType DEF Distinct
      <4>2. CASE Depth # 0
        BY <3>2, <4>2, ListedInside DEF Distinct
      <4>. QED
        BY <4>1, <4>2
    <3>. QED
      BY <3>1, <3>3
  <2>. QED
    BY <1>1, <2>1, <2>2
<1>13. AskedOnce'
  <2>. SUFFICES ASSUME NEW s \in Sides, NEW o \in 1 .. m + 1, NEW b \in VirtualBases
                PROVE  /\ copies'[s][o][b] \in {0, 1}
                       /\ b \in asked'[o] => copies'[s][o][b] = 1
    BY <1>3 DEF AskedOnce
  <2>1. CASE o \in 1 .. m
    BY <1>3, <2>1 DEF AskedOnce
  <2>2. CASE o = m + 1
    BY <1>3, <2>2
  <2>. QED
    BY <1>1, <2>1, <2>2
<1>. QED
  BY <1>8, <1>9, <1>10, <1>11, <1>12, <1>13

-----------------------------------------------------------------------------
\* An object that calls an extension sees what every other one that may call
\* would see.
LEMMA SameList ==
  ASSUME DInv, MayCall, NEW s \in Sides, NEW i \in 1 .. Len(stack), ~stack[i].sealed
  PROVE  Listed(context[s], AddressOf(s, i)) = Listed(context[s], At(s))
<1>. USE DEF DInv
<1>1. context[s].depth = Depth /\ Depth \in Nat
  BY DepthType DEF TypeInv
<1>2. CASE Depth # 0
  BY <1>1, <1>2, ListedInside
<1>3. CASE Depth = 0
  <2>1. Len(stack) \in Nat \ {0} /\ At(s) = AddressOf(s, Len(stack))
    BY TopType
  <2>2. \A j \in 1 .. Len(stack) : stack[j].kind = "object"
    BY <1>3, DepthType
  <2>3. i < Len(stack) => Outer(i + 1)
    BY <2>1, <2>2 DEF Outer
  <2>4. i = Len(stack)
    BY <2>1, <2>3 DEF OuterSealed
  <2>. QED
    BY <2>1, <2>4
<1>. QED
  BY <1>2, <1>3

\* So what was serialized of an object that may call is what that list has.
LEMMA Counted ==
  ASSUME DInv, MayCall, NEW s \in Sides, NEW i \in 1 .. Len(stack), ~stack[i].sealed,
         NEW b \in VirtualBases
  PROVE  copies[s][stack[i].obj][b]
           = IF <<AddressOf(s, i), b>> \in Listed(context[s], At(s)) THEN 1 ELSE 0
<1>1. copies[s][stack[i].obj][b]
        = IF <<AddressOf(s, i), b>> \in Listed(context[s], AddressOf(s, i)) THEN 1 ELSE 0
  BY DEF DInv, ListedOnce
<1>. QED
  BY <1>1, SameList

LEMMA CallKeeps ==
  ASSUME DInv, MayCall, NEW k \in {"base", "virtual"}, stack' = Append(stack, Frame(k)),
         UNCHANGED objects,
         \A s \in Sides : context'[s].parentPtr
                            = IF Depth = 0 THEN At(s) ELSE context[s].parentPtr
  PROVE  /\ Nested' /\ Apart' /\ OuterSealed' /\ ParentIsOutermost'
         /\ \A s \in Sides : /\ \A i \in 1 .. Len(stack) : AddressOf(s, i)' = AddressOf(s, i)
                             /\ \A i \in 1 .. Len(stack') :
                                  i = Len(stack') => AddressOf(s, i)' = At(s)
<1>. USE DEF DInv
<1>0. PICK n \in Nat : n = Len(stack)
  BY LenProperties DEF TypeInv
<1>. USE <1>0
<1>1. n > 0 /\ stack[n] = Top /\ \A s \in Sides : At(s) = AddressOf(s, n)
  BY TopType
<1>2. /\ Len(stack') = n + 1 /\ \A i \in 1 .. n : stack'[i] = stack[i]
      /\ stack'[n + 1].kind # "object" /\ stack'[n + 1].obj = stack[n].obj
  BY <1>1, CallStack
<1>3. \A s \in Sides : /\ \A i \in 1 .. n : AddressOf(s, i)' = AddressOf(s, i)
                       /\ AddressOf(s, n + 1)' = AddressOf(s, n)
  BY <1>1, <1>2 DEF AddressOf
<1>4. /\ \A i \in 0 .. n : Outer(i)' <=> Outer(i)
      /\ ~Outer(n + 1)'
  BY <1>2 DEF Outer
<1>5. Nested'
  <2>. SUFFICES ASSUME NEW i \in 1 .. n + 1, stack'[i].kind # "object"
                PROVE  i > 1 /\ stack'[i - 1].obj = stack'[i].obj
    BY <1>2 DEF Nested
  <2>1. CASE i \in 1 .. n
    <3>1. i > 1 /\ stack[i - 1].obj = stack[i].obj
      BY <1>2, <2>1 DEF Nested
    <3>. QED
      BY <1>2, <2>1, <3>1
  <2>2. CASE i = n + 1
    BY <1>1, <1>2, <2>2
  <2>. QED
    BY <2>1, <2>2
<1>6. Apart'
  <2>. SUFFICES ASSUME NEW s \in Sides, NEW i \in 1 .. n + 1, NEW j \in 1 .. n + 1,
                       AddressOf(s, i)' = AddressOf(s, j)'
                PROVE  stack'[i].obj = stack'[j].obj
    BY <1>2 DEF Apart
  <2>. DEFINE below(q) == IF q = n + 1 THEN n ELSE q
  <2>1. ASSUME NEW q \in 1 .. n + 1
        PROVE  /\ below(q) \in 1 .. n /\ AddressOf(s, q)' = AddressOf(s, below(q))
               /\ stack'[q].obj = stack[below(q)].obj
    BY <1>1, <1>2, <1>3
  <2>. HIDE DEF below
  <2>2. below(i) \in 1 .. n /\ below(j) \in 1 .. n
        /\ AddressOf(s, below(i)) = AddressOf(s, below(j))
    BY <2>1
  <2>3. stack[below(i)].obj = stack[below(j)].obj
    BY <2>2 DEF Apart
  <2>. QED
    BY <2>1, <2>3
<1>7. OuterSealed'
  <2>. SUFFICES ASSUME NEW i \in 1 .. n, Outer(i + 1)' PROVE stack'[i].sealed
    BY <1>2 DEF OuterSealed
  <2>1. i < n
    BY <1>4
  <2>2. Outer(i + 1)
    BY <1>4, <2>1
  <2>. QED
    BY <1>2, <2>1, <2>2 DEF OuterSealed
<1>8. ParentIsOutermost'
  <2>. SUFFICES ASSUME NEW s \in Sides, NEW i \in 1 .. n + 1,
                       stack'[i].kind # "object", Outer(i - 1)'
                PROVE  context'[s].parentPtr = AddressOf(s, i)'
    BY <1>2 DEF ParentIsOutermost
  <2>1. i - 1 \in 0 .. n /\ Outer(i - 1)
    BY <1>4
  <2>2. CASE i \in 1 .. n
    <3>1. stack[i].kind # "object"
      BY <1>2, <2>2
    <3>2. Depth # 0
      BY <2>2, <3>1, DepthType
    <3>3. context[s].parentPtr = AddressOf(s, i)
      BY <2>1, <2>2, <3>1 DEF ParentIsOutermost
    <3>. QED
      BY <1>3, <2>2, <3>2, <3>3
  <2>3. CASE i = n + 1
    <3>1. Outer(n)
      BY <2>1, <2>3
    <3>2. Depth = 0
      BY <3>1, OuterIsOutside
    <3>. QED
      BY <1>1, <1>3, <2>3, <3>2
  <2>. QED
    BY <2>2, <2>3
<1>. QED
  BY <1>1, <1>2, <1>3, <1>5, <1>6, <1>7, <1>8

LEMMA BaseKeeps ==
  ASSUME DInv, Base
  PROVE  /\ Nested' /\ Apart' /\ OuterSealed' /\ ParentIsOutermost'
         /\ ListedOnce' /\ AskedOnce'
<1>. USE DEF DInv
<1>0. PICK n \in Nat : n = Len(stack)
  BY LenProperties DEF TypeInv
<1>. USE <1>0
<1>1. /\ MayCall /\ stack' = Append(stack, Frame("base"))
      /\ UNCHANGED <<objects, asked, copies>>
      /\ \A s \in Sides : context'[s] = BeginBase(context[s], At(s))
  BY DEF Base
<1>2. \A s \in Sides :
        /\ context'[s].depth = Depth + 1 /\ Depth + 1 # 0
        /\ context'[s].parentPtr = IF Depth = 0 THEN At(s) ELSE context[s].parentPtr
        /\ context'[s].virtualBases = Listed(context[s], At(s))
  <2>1. \A s \in Sides : context[s] \in Contexts /\ context[s].depth = Depth
                         /\ At(s) \in Addresses /\ Depth \in Nat
    BY <1>1, TopType, DepthType DEF TypeInv
  <2>. QED
    BY <1>1, <2>1, BeginBaseType
<1>3. /\ Nested' /\ Apart' /\ OuterSealed' /\ ParentIsOutermost'
      /\ \A s \in Sides : /\ \A i \in 1 .. n : AddressOf(s, i)' = AddressOf(s, i)
                          /\ AddressOf(s, n + 1)' = At(s)
  <2>1. Len(stack') = n + 1
    BY <1>1, CallStack
  <2>. QED
    BY <1>1, <1>2, <2>1, CallKeeps
<1>4. ListedOnce'
  <2>1. /\ n > 0 /\ stack[n] = Top /\ ~Top.sealed /\ Len(stack') = n + 1
        /\ \A i \in 1 .. n : stack'[i] = stack[i]
        /\ stack'[n + 1].obj = stack[n].obj
        /\ \A s \in Sides : At(s) = AddressOf(s, n)
    BY <1>1, TopType, CallStack
  <2>. SUFFICES ASSUME NEW s \in Sides, NEW i \in 1 .. n + 1, ~stack'[i].sealed,
                       NEW b \in VirtualBases
                PROVE  copies'[s][stack'[i].obj][b]
                         = IF <<AddressOf(s, i)', b>> \in Listed(context'[s], AddressOf(s, i)')
                             THEN 1 ELSE 0
    BY <2>1 DEF ListedOnce
  <2>2. PICK j \in 1 .. n : /\ stack'[i].obj = stack[j].obj /\ ~stack[j].sealed
                            /\ AddressOf(s, i)' = AddressOf(s, j)
    <3>1. CASE i \in 1 .. n
      BY <1>3, <2>1, <3>1
    <3>2. CASE i = n + 1
      BY <1>3, <2>1, <3>2
    <3>. QED
      BY <3>1, <3>2
  <2>3. Listed(context'[s], AddressOf(s, j)) = Listed(context[s], At(s))
    BY <1>2, ListedInside
  <2>4. copies[s][stack[j].obj][b]
          = IF <<AddressOf(s, j), b>> \in Listed(context[s], At(s)) THEN 1 ELSE 0
    BY <1>1, <2>2, Counted
  <2>. QED
    BY <1>1, <2>2, <2>3, <2>4
<1>5. AskedOnce'
  BY <1>1 DEF AskedOnce
<1>. QED
  BY <1>3, <1>4, <1>5

\* A virtual base is counted when it is listed, and listed when it is counted.
LEMMA VirtualCounted ==
  ASSUME DInv, NEW b \in VirtualBases, VirtualBase(b), NEW s \in Sides,
         NEW i \in 1 .. Len(stack), ~stack[i].sealed, NEW c \in VirtualBases
  PROVE  copies'[s][stack[i].obj][c]
           = IF <<AddressOf(s, i), c>> \in Listed(context[s], At(s)) \union { <<At(s), b>> }
               THEN 1 ELSE 0
<1>. USE DEF DInv
<1>. DEFINE o == stack[i].obj
            L == Listed(context[s], At(s))
<1>1. MayCall
  BY DEF VirtualBase
<1>2. o \in 1 .. Len(asked)
  BY DEF TypeInv
<1>3. copies'[s][o][c] = IF o = Top.obj /\ c = b /\ IsNew(s, b)
                           THEN copies[s][o][c] + 1 ELSE copies[s][o][c]
  BY <1>2, VirtualBaseObjects, SMTT(30)
<1>4. copies[s][o][c] = IF <<AddressOf(s, i), c>> \in L THEN 1 ELSE 0
  BY <1>1, Counted
<1>5. IsNew(s, b) <=> <<At(s), b>> \notin L
  BY DEF IsNew, Where, Listed
<1>6. o = Top.obj <=> AddressOf(s, i) = At(s)
  <2>1. /\ Len(stack) \in 1 .. Len(stack) /\ Top = stack[Len(stack)]
        /\ At(s) = AddressOf(s, Len(stack))
    BY <1>1, TopType
  <2>2. AddressOf(s, i) = At(s) => o = Top.obj
    BY <2>1 DEF Apart
  <2>3. o = Top.obj => AddressOf(s, i) = At(s)
    BY DEF AddressOf, At
  <2>. QED
    BY <2>2, <2>3
<1>. HIDE DEF o, L
<1>7. CASE o = Top.obj /\ c = b
  BY <1>3, <1>4, <1>5, <1>6, <1>7 DEF o, L
<1>8. CASE ~(o = Top.obj /\ c = b)
  <2>1. <<AddressOf(s, i), c>> # <<At(s), b>>
    BY <1>6, <1>8
  <2>. QED
    BY <1>3, <1>4, <1>8, <2>1 DEF o, L
<1>. QED
  BY <1>7, <1>8

LEMMA VirtualBaseKeeps ==
  ASSUME DInv, NEW b \in VirtualBases, VirtualBase(b)
  PROVE  /\ Nested' /\ Apart' /\ OuterSealed' /\ ParentIsOutermost'
         /\ ListedOnce' /\ AskedOnce'
<1>. USE DEF DInv
<1>0. PICK n \in Nat : n = Len(stack)
  BY LenProperties DEF TypeInv
<1>. USE <1>0
<1>. DEFINE L(s) == Listed(context[s], At(s)) \union { <<At(s), b>> }
<1>1. MayCall /\ UNCHANGED objects
  BY DEF VirtualBase
<1>2. /\ n > 0 /\ stack[n] = Top /\ ~Top.sealed /\ Top.obj \in 1 .. Len(asked)
      /\ \A s \in Sides : At(s) = AddressOf(s, n)
  BY <1>1, TopType
<1>3. \A s \in Sides :
        LET c == BeginVirtualBase(s, b)
        IN  /\ c \in Contexts /\ c.depth = Depth + 1 /\ c.virtualBases = L(s)
            /\ c.parentPtr = IF Depth = 0 THEN At(s) ELSE context[s].parentPtr
  BY <1>1, BeginVirtualBaseType
<1>4. Depth \in Nat
  BY DepthType
<1>5. \A s \in Sides, i \in 1 .. n, c \in VirtualBases : ~stack[i].sealed =>
        copies'[s][stack[i].obj][c] = IF <<AddressOf(s, i), c>> \in L(s) THEN 1 ELSE 0
  BY VirtualCounted
<1>. HIDE DEF L
<1>6. AskedOnce'
  <2>. SUFFICES ASSUME NEW s \in Sides, NEW o \in 1 .. Len(asked), NEW c \in VirtualBases
                PROVE  /\ copies'[s][o][c] \in {0, 1}
                       /\ c \in asked'[o] => copies'[s][o][c] = 1
    <3>1. Len(asked') = Len(asked)
      BY VirtualBaseObjects
    <3>. QED
      BY <3>1 DEF AskedOnce
  <2>1. /\ copies[s][o][c] \in {0, 1} /\ (c \in asked[o] => copies[s][o][c] = 1)
    BY DEF AskedOnce
  <2>2. /\ asked'[o] = IF o = Top.obj THEN asked[o] \union {b} ELSE asked[o]
        /\ copies'[s][o][c] = IF o = Top.obj /\ c = b /\ IsNew(s, b)
                                THEN copies[s][o][c] + 1 ELSE copies[s][o][c]
    <3>1. /\ \A p \in 1 .. Len(asked) :
               asked'[p] = IF p = Top.obj THEN asked[p] \union {b} ELSE asked[p]
          /\ \A q \in Sides : \A p \in 1 .. Len(asked) : \A d \in VirtualBases :
               copies'[q][p][d] = IF p = Top.obj /\ d = b /\ IsNew(q, b)
                                    THEN copies[q][p][d] + 1 ELSE copies[q][p][d]
      BY VirtualBaseObjects
    <3>. QED
      BY <3>1, Zenon
  <2>3. CASE o = Top.obj /\ c = b
    <3>1. <<At(s), b>> \in L(s)
      BY DEF L
    <3>2. copies'[s][o][c] = 1
      BY <1>2, <1>5, <2>3, <3>1
    <3>. QED
      BY <3>2
  <2>4. CASE ~(o = Top.obj /\ c = b)
    BY <2>1, <2>2, <2>4
  <2>. QED
    BY <2>3, <2>4
<1>7. CASE IsNew("writer", b)
  <2>1. /\ stack' = Append(stack, Frame("virtual"))
        /\ context' = [ s \in Sides |-> BeginVirtualBase(s, b) ]
    BY <1>7 DEF VirtualBase
  <2>2. \A s \in Sides :
          /\ context'[s].depth # 0 /\ context'[s].virtualBases = L(s)
          /\ context'[s].parentPtr = IF Depth = 0 THEN At(s) ELSE context[s].parentPtr
    BY <1>3, <1>4, <2>1
  <2>3. /\ Len(stack') = n + 1 /\ \A i \in 1 .. n : stack'[i] = stack[i]
        /\ stack'[n + 1].obj = stack[n].obj
    BY <1>1, <1>2, <2>1, CallStack
  <2>4. /\ Nested' /\ Apart' /\ OuterSealed' /\ ParentIsOutermost'
        /\ \A s \in Sides : /\ \A i \in 1 .. n : AddressOf(s, i)' = AddressOf(s, i)
                            /\ AddressOf(s, n + 1)' = At(s)
    BY <1>1, <2>1, <2>2, <2>3, CallKeeps
  <2>5. ListedOnce'
    <3>. SUFFICES ASSUME NEW s \in Sides, NEW i \in 1 .. n + 1, ~stack'[i].sealed,
                         NEW c \in VirtualBases
                  PROVE  copies'[s][stack'[i].obj][c]
                           = IF <<AddressOf(s, i)', c>> \in Listed(context'[s], AddressOf(s, i)')
                               THEN 1 ELSE 0
      BY <2>3 DEF ListedOnce
    <3>1. PICK j \in 1 .. n : /\ stack'[i].obj = stack[j].obj /\ ~stack[j].sealed
                              /\ AddressOf(s, i)' = AddressOf(s, j)
      <4>1. CASE i \in 1 .. n
        BY <2>3, <2>4, <4>1
      <4>2. CASE i = n + 1
        BY <1>2, <2>3, <2>4, <4>2
      <4>. QED
        BY <4>1, <4>2
    <3>2. Listed(context'[s], AddressOf(s, j)) = L(s)
      BY <2>2, ListedInside
    <3>. QED
      BY <1>5, <3>1, <3>2
  <2>. QED
    BY <1>6, <2>4, <2>5
<1>8. CASE ~IsNew("writer", b)
  <2>1. stack' = stack /\ context' = [ s \in Sides |-> End(BeginVirtualBase(s, b)) ]
    BY <1>8 DEF VirtualBase
  <2>2. \A s \in Sides :
          /\ context'[s].depth = Depth /\ context'[s].virtualBases = L(s)
          /\ context'[s].parentPtr = IF Depth = 0 THEN At(s) ELSE context[s].parentPtr
    <3>. SUFFICES ASSUME NEW s \in Sides
                  PROVE  /\ context'[s].depth = Depth /\ context'[s].virtualBases = L(s)
                         /\ context'[s].parentPtr
                              = IF Depth = 0 THEN At(s) ELSE context[s].parentPtr
      OBVIOUS
    <3>. DEFINE c == BeginVirtualBase(s, b)
    <3>1. /\ c \in Contexts /\ c.depth = Depth + 1 /\ c.virtualBases = L(s)
          /\ c.parentPtr = IF Depth = 0 THEN At(s) ELSE context[s].parentPtr
      BY <1>3
    <3>2. context'[s] = End(c)
      BY <2>1
    <3>. HIDE DEF c
    <3>3. c.depth > 0 /\ c.depth - 1 = Depth
      BY <1>4, <3>1
    <3>. QED
      BY <3>1, <3>2, <3>3, EndType
  <2>3. \A s \in Sides : \A i \in 1 .. n : /\ AddressOf(s, i)' = AddressOf(s, i)
                                           /\ Outer(i - 1)' <=> Outer(i - 1)
    BY <1>1, <2>1 DEF AddressOf, Outer
  <2>4. Nested' /\ Apart' /\ OuterSealed'
    BY <1>1, <2>1 DEF Nested, Apart, OuterSealed, Outer, AddressOf
  <2>5. ParentIsOutermost'
    <3>. SUFFICES ASSUME NEW s \in Sides, NEW i \in 1 .. n, stack[i].kind # "object",
                         Outer(i - 1)
                  PROVE  context'[s].parentPtr = AddressOf(s, i)
      BY <2>1, <2>3 DEF ParentIsOutermost
    <3>1. Depth # 0
      BY DepthType
    <3>2. context[s].parentPtr = AddressOf(s, i)
      BY DEF ParentIsOutermost
    <3>. QED
      BY <2>2, <3>1, <3>2
  <2>6. ListedOnce'
    <3>. SUFFICES ASSUME NEW s \in Sides, NEW i \in 1 .. n, ~stack[i].sealed,
                         NEW c \in VirtualBases
                  PROVE  copies'[s][stack[i].obj][c]
                           = IF <<AddressOf(s, i), c>> \in Listed(context'[s], AddressOf(s, i))
                               THEN 1 ELSE 0
      BY <2>1, <2>3 DEF ListedOnce
    <3>1. context'[s].depth # 0 \/ context'[s].parentPtr = AddressOf(s, i)
      <4>1. CASE Depth # 0
        BY <2>2, <4>1
      <4>2. CASE Depth = 0
        <5>1. i < n => Outer(i + 1)
          BY <4>2, DepthType DEF Outer
        <5>2. i = n
          BY <5>1 DEF OuterSealed
        <5>. QED
          BY <1>2, <2>2, <4>2, <5>2
      <4>. QED
        BY <4>1, <4>2
    <3>2. Listed(context'[s], AddressOf(s, i)) = L(s)
      BY <2>2, <3>1, ListedInside
    <3>. QED
      BY <1>5, <3>2
  <2>. QED
    BY <1>6, <2>4, <2>5, <2>6
<1>. QED
  BY <1>7, <1>8

LEMMA ReturnKeeps ==
  ASSUME DInv, Return
  PROVE  /\ Nested' /\ Apart' /\ OuterSealed' /\ ParentIsOutermost'
         /\ ListedOnce' /\ AskedOnce'
<1>. USE DEF DInv
<1>0. PICK n \in Nat : n = Len(stack)
  BY LenProperties DEF TypeInv
<1>. USE <1>0
<1>1. stack # << >> /\ stack' = Front(stack) /\ UNCHANGED <<objects, asked, copies>>
  BY DEF Return
<1>2. /\ stack' \in Seq(Frames) /\ Len(stack') = n - 1 /\ n > 0 /\ stack[n] = Top
      /\ \A i \in 1 .. n - 1 : stack'[i] = stack[i]
      /\ Top.kind # "object" => Depth = Depth' + 1
  <2>1. stack' \in Seq(Frames) /\ n = Len(stack') + 1
    BY <1>1, StackPopped
  <2>2. Len(stack') \in Nat
    BY <2>1, LenProperties
  <2>. QED
    BY <1>1, <2>1, <2>2, StackPopped
<1>3. \A s \in Sides : \A i \in 1 .. n - 1 : AddressOf(s, i)' = AddressOf(s, i)
  BY <1>1, <1>2 DEF AddressOf
<1>4. \A i \in 0 .. n - 1 : Outer(i)' <=> Outer(i)
  BY <1>2 DEF Outer
<1>5. \A s \in Sides :
        /\ context'[s].parentPtr = context[s].parentPtr
        /\ context'[s].virtualBases = context[s].virtualBases
        /\ Top.kind = "object" => context'[s] = context[s]
        /\ Top.kind # "object" => context'[s].depth = Depth'
  <2>1. CASE Top.kind = "object"
    BY <1>1, <2>1 DEF Return
  <2>2. CASE Top.kind # "object"
    <3>1. \A s \in Sides : context[s] \in Contexts /\ context'[s] = End(context[s])
      BY <2>2 DEF Return, TypeInv
    <3>2. TypeInv'
      BY TypeNext DEF Next
    <3>3. \A s \in Sides : context'[s].depth = Depth'
      BY <3>2 DEF TypeInv
    <3>4. \A s \in Sides : /\ End(context[s]).parentPtr = context[s].parentPtr
                           /\ End(context[s]).virtualBases = context[s].virtualBases
      BY <3>1 DEF End, Contexts
    <3>. QED
      BY <2>2, <3>1, <3>3, <3>4
  <2>. QED
    BY <2>1, <2>2
<1>6. Nested'
  <2>. SUFFICES ASSUME NEW i \in 1 .. n - 1, stack'[i].kind # "object"
                PROVE  i > 1 /\ stack'[i - 1].obj = stack'[i].obj
    BY <1>2 DEF Nested
  <2>1. i \in 1 .. n /\ stack[i].kind # "object"
    BY <1>2
  <2>2. i > 1 /\ stack[i - 1].obj = stack[i].obj
    BY <2>1 DEF Nested
  <2>. QED
    BY <1>2, <2>2
<1>7. Apart'
  BY <1>2, <1>3 DEF Apart
<1>8. OuterSealed'
  <2>. SUFFICES ASSUME NEW i \in 1 .. n - 2, Outer(i + 1)' PROVE stack'[i].sealed
    BY <1>2 DEF OuterSealed
  <2>1. Outer(i + 1)
    BY <1>4
  <2>. QED
    BY <1>2, <2>1 DEF OuterSealed
<1>9. ParentIsOutermost'
  <2>. SUFFICES ASSUME NEW s \in Sides, NEW i \in 1 .. n - 1,
                       stack'[i].kind # "object", Outer(i - 1)'
                PROVE  context'[s].parentPtr = AddressOf(s, i)'
    BY <1>2 DEF ParentIsOutermost
  <2>1. i \in 1 .. n /\ stack[i].kind # "object" /\ Outer(i - 1)
    BY <1>2, <1>4
  <2>2. context[s].parentPtr = AddressOf(s, i)
    BY <2>1 DEF ParentIsOutermost
  <2>. QED
    BY <1>3, <1>5, <2>2
<1>10. ListedOnce'
  <2>. SUFFICES ASSUME NEW s \in Sides, NEW i \in 1 .. n - 1, ~stack[i].sealed,
                       NEW b \in VirtualBases
                PROVE  copies[s][stack[i].obj][b]
                         = IF <<AddressOf(s, i), b>> \in Listed(context'[s], AddressOf(s, i))
                             THEN 1 ELSE 0
    BY <1>1, <1>2, <1>3 DEF ListedOnce
  <2>1. i \in 1 .. n
    OBVIOUS
  <2>2. copies[s][stack[i].obj][b]
          = IF <<AddressOf(s, i), b>> \in Listed(context[s], AddressOf(s, i)) THEN 1 ELSE 0
    BY <2>1 DEF ListedOnce
  <2>3. CASE Top.kind = "object"
    BY <1>5, <2>2, <2>3
  <2>4. CASE Top.kind # "object"
    <3>1. context[s].depth # 0
      <4>1. Depth # 0
        BY <1>2, <2>4, DepthType
      <4>. QED
        BY <4>1 DEF TypeInv
    <3>2. context'[s].depth # 0 \/ context'[s].parentPtr = AddressOf(s, i)
      <4>1. CASE Depth' # 0
        BY <1>5, <2>4, <4>1
      <4>2. CASE Depth' = 0
        <5>1. \A j \in 1 .. n - 1 : stack[j].kind = "object"
          <6>1. Depth' = Cardinality(Calls(stack'))
            BY DEF Depth, Calls
          <6>2. \A j \in 1 .. Len(stack') : stack'[j].kind = "object"
            BY <1>2, <4>2, <6>1, CallsType
          <6>. QED
            BY <1>2, <6>2
        <5>2. i < n - 1 => Outer(i + 1)
          BY <5>1 DEF Outer
        <5>3. i = n - 1
          BY <5>2 DEF OuterSealed
        <5>4. Outer(n - 1)
          BY <5>1 DEF Outer
        <5>5. context[s].parentPtr = AddressOf(s, n)
          BY <1>2, <2>4, <5>4 DEF ParentIsOutermost
        <5>6. stack[n - 1].obj = stack[n].obj
          BY <1>2, <2>4 DEF Nested
        <5>7. AddressOf(s, i) = AddressOf(s, n)
          BY <5>3, <5>6 DEF AddressOf
        <5>. QED
          BY <1>5, <5>5, <5>7
      <4>. QED
        BY <4>1, <4>2
    <3>3. Listed(context'[s], AddressOf(s, i)) = Listed(context[s], AddressOf(s, i))
      BY <1>5, <3>1, <3>2, ListedInside
    <3>. QED
      BY <2>2, <3>3
  <2>. QED
    BY <2>3, <2>4
<1>11. AskedOnce'
  BY <1>1 DEF AskedOnce
<1>. QED
  BY <1>6, <1>7, <1>8, <1>9, <1>10, <1>11

LEMMA DInvNext == ~Interleaves /\ ~Reuses => (DInv /\ [Next]_vars => DInv')
<1>. SUFFICES ASSUME ~Interleaves, ~Reuses, DInv, [Next]_vars PROVE DInv'
  OBVIOUS
<1>1. TypeInv'
  BY TypeNext DEF DInv
<1>2. ASSUME NEW w \in Addresses, NEW r \in Addresses, Open(w, r) PROVE DInv'
  BY <1>1, <1>2, OpenKeeps DEF DInv
<1>3. CASE Base
  BY <1>1, <1>3, BaseKeeps DEF DInv
<1>4. ASSUME NEW b \in VirtualBases, VirtualBase(b) PROVE DInv'
  BY <1>1, <1>4, VirtualBaseKeeps DEF DInv
<1>5. CASE Return
  BY <1>1, <1>5, ReturnKeeps DEF DInv
<1>6. CASE UNCHANGED vars
  BY <1>1, <1>6 DEF vars, DInv, Nested, Apart, OuterSealed, ParentIsOutermost, ListedOnce,
    AskedOnce, Outer, AddressOf
<1>. QED
  BY <1>2, <1>3, <1>4, <1>5, <1>6 DEF Next

\* A virtual base is serialized at most once for each object, whichever bases
\* lead to it and however objects nest, for a program that serializes an
\* object's members behind its bases and objects that can be told apart.
THEOREM OneCopyAtMost ==
  ASSUME ~Interleaves, ~Reuses
  PROVE  Spec => []NoSecondCopy
<1>1. DInv => NoSecondCopy
  <2>1. TypeInv => DOMAIN asked = 1 .. Len(asked)
    BY DEF TypeInv
  <2>. QED
    BY <2>1 DEF DInv, AskedOnce, NoSecondCopy
<1>2. DInv /\ [Next]_vars => DInv'
  BY DInvNext
<1>. QED
  BY DInvInit, <1>1, <1>2, PTL DEF Spec

\* Under the same discipline no object goes without a virtual base that it
\* asked for, although the list is kept from one base to the next.
THEOREM OneCopyAtLeast ==
  ASSUME ~Interleaves, ~Reuses
  PROVE  Spec => []NoMissingCopy
<1>1. DInv => NoMissingCopy
  <2>. SUFFICES ASSUME DInv, NEW o \in DOMAIN asked, NEW s \in Sides, NEW b \in asked[o]
                PROVE  copies[s][o][b] >= 1
    BY DEF NoMissingCopy
  <2>1. o \in 1 .. Len(asked) /\ b \in VirtualBases
    BY DEF DInv, TypeInv
  <2>2. copies[s][o][b] = 1
    BY <2>1 DEF DInv, AskedOnce
  <2>. QED
    BY <2>2
<1>2. DInv /\ [Next]_vars => DInv'
  BY DInvNext
<1>. QED
  BY DInvInit, <1>1, <1>2, PTL DEF Spec

=============================================================================
