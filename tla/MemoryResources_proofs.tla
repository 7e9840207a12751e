----------------------- MODULE MemoryResources_proofs -----------------------
(***************************************************************************)
(* Theorems about MemoryResources, for all programs and all documents.     *)
(***************************************************************************)
EXTENDS MemoryResources, SequenceTheorems, FiniteSetTheorems, WellFoundedInduction, TLAPS

(***************************************************************************)
(* Types.                                                                  *)
(***************************************************************************)
Resources == STRING \union {NewDelete}

Way == Resources \X (Types \union {"Root"})

Object ==
  [ type : Types \union {"Root"}, by : Resources, deleter : {<< >>} \union Way,
    released : Seq(Way), to : Seq(Int) ]

\* Objects are numbered in the order of their creation; each has the pointers
\* of its type, and they lead to objects.
Typed(h) ==
  /\ \E n \in Nat \ {0} : DOMAIN h = 0 .. n - 1
  /\ h \in [ DOMAIN h -> Object ]
  /\ \A p \in DOMAIN h : Len(h[p].to) = Len(PointersOf(h[p].type))
  /\ \A p \in DOMAIN h : \A i \in 1 .. Len(h[p].to) : h[p].to[i] \in DOMAIN h \union {Null}

\* g has every object of h, and no object changes its type.
Extends(h, g) ==
  /\ DOMAIN h \subseteq DOMAIN g
  /\ \A p \in DOMAIN h : g[p].type = h[p].type

Info ==
  [ ownership : Kinds, ownerPtr : Int, observers : SUBSET (Int \X Nat), sharedState : Int ]

\* Infos lead to objects of h.
Leads(is, h) ==
  /\ is \in [ DOMAIN is -> Info ]
  /\ DOMAIN is \subseteq Int /\ IsFiniteSet(DOMAIN is)
  /\ \A id \in DOMAIN is : /\ is[id].ownerPtr \in DOMAIN h \union {Null}
                           /\ is[id].sharedState \in DOMAIN h \union {Null}

Frames == [ at : Int, slot : Nat \ {0}, id : Int, prevResource : Resources ]

\* Each object in progress was found in the slot before the next one of the
\* object around it.
Found(frames, is, h) ==
  /\ \A k \in 1 .. Len(frames) : frames[k].at \in DOMAIN h
  /\ \A k \in 1 .. Len(frames) - 1 :
       /\ frames[k].slot - 1 \in 1 .. Len(h[frames[k].at].to)
       /\ frames[k + 1].id \in DOMAIN is

TypeInv ==
  /\ program \in Programs
  /\ Typed(heap)
  /\ Leads(infos, heap)
  /\ resource \in Resources
  /\ stack \in Seq(Frames)
  /\ Found(stack, infos, heap)

-----------------------------------------------------------------------------
(***************************************************************************)
(* Pointers and heaps.                                                     *)
(***************************************************************************)
LEMMA ProgramType ==
  ASSUME program \in Programs
  PROVE  /\ program \in Program
         /\ program.context \in STRING
         /\ program.root \in Seq(Pointers)
         /\ \A t \in Types : program.members[t] \in Seq(Pointers)
BY ProgramsAssumption DEF Program

LEMMA PointersType ==
  ASSUME program \in Programs, NEW t \in Types \union {"Root"}
  PROVE  /\ PointersOf(t) \in Seq(Pointers)
         /\ \A i \in 1 .. Len(PointersOf(t)) : PointersOf(t)[i] \in Pointers
<1>1. PointersOf(t) \in Seq(Pointers)
  BY ProgramType DEF PointersOf
<1>. QED
  BY <1>1, ElementOfSeq

LEMMA SlotType ==
  ASSUME program \in Programs, NEW h, Typed(h),
         NEW p \in DOMAIN h, NEW i \in 1 .. Len(h[p].to)
  PROVE  /\ Declared(h, <<p, i>>) \in Pointers
         /\ At(h, <<p, i>>) = h[p].to[i]
         /\ At(h, <<p, i>>) \in DOMAIN h \union {Null}
         /\ h[p] \in Object
         /\ h[p].to \in Seq(Int)
<1>1. h[p] \in Object
  BY DEF Typed
<1>2. h[p].type \in Types \union {"Root"} /\ h[p].to \in Seq(Int)
  BY <1>1 DEF Object
<1>3. Len(h[p].to) = Len(PointersOf(h[p].type))
  BY DEF Typed
<1>4. PointersOf(h[p].type)[i] \in Pointers
  BY <1>2, <1>3, PointersType
<1>. QED
  BY <1>1, <1>2, <1>4 DEF Declared, At, Typed

\* An object that is created gets the pointers of its type.
LEMMA NewObjectType ==
  ASSUME program \in Programs, NEW t \in Types \union {"Root"}, NEW by \in Resources
  PROVE  /\ NewObject(t, by) \in Object
         /\ SharedObject(t, by) \in Object
         /\ NewObject(t, by).by = by /\ SharedObject(t, by).by = by
         /\ NewObject(t, by).type = t /\ SharedObject(t, by).type = t
         /\ SharedObject(t, by).to = NewObject(t, by).to
         /\ Len(NewObject(t, by).to) = Len(PointersOf(t))
         /\ \A i \in 1 .. Len(NewObject(t, by).to) : NewObject(t, by).to[i] = Null
<1>. DEFINE n == Len(PointersOf(t))
            f == [ i \in 1 .. n |-> Null ]
<1>1. n \in Nat
  BY PointersType
<1>2. f \in [ 1 .. n -> Int ]
  BY DEF Null
<1>3. NewObject(t, by).to = f /\ NewObject(t, by).type = t /\ NewObject(t, by).by = by
  BY DEF NewObject
<1>4. \A i \in 1 .. n : f[i] = Null
  OBVIOUS
<1>5. NewObject(t, by) = [ type |-> t, by |-> by, deleter |-> << >>, released |-> << >>, to |-> f ]
  BY DEF NewObject
<1>. HIDE DEF n, f
<1>6. f \in Seq(Int) /\ Len(f) = n
  BY <1>1, <1>2
<1>7. NewObject(t, by) \in Object
  BY <1>5, <1>6 DEF Object
<1>8. SharedObject(t, by) = [ type |-> t, by |-> by, deleter |-> <<by, t>>, released |-> << >>, to |-> f ]
  BY <1>5 DEF SharedObject
<1>9. SharedObject(t, by) \in Object
  BY <1>6, <1>8 DEF Object, Way
<1>. QED
  BY <1>3, <1>4, <1>6, <1>7, <1>8, <1>9 DEF n

\* A heap with the same objects whose pointers still lead to objects.
LEMMA Rewritten ==
  ASSUME NEW h, Typed(h), NEW g, DOMAIN g = DOMAIN h, g \in [ DOMAIN h -> Object ],
         \A p \in DOMAIN h : /\ g[p].type = h[p].type /\ Len(g[p].to) = Len(h[p].to)
                             /\ \A i \in 1 .. Len(h[p].to) : g[p].to[i] \in DOMAIN h \union {Null}
  PROVE  Typed(g) /\ Extends(h, g)
<1>1. \E n \in Nat \ {0} : DOMAIN g = 0 .. n - 1
  BY DEF Typed
<1>2. \A p \in DOMAIN g : Len(g[p].to) = Len(PointersOf(g[p].type))
  BY DEF Typed
<1>3. \A p \in DOMAIN g : \A i \in 1 .. Len(g[p].to) : g[p].to[i] \in DOMAIN g \union {Null}
  OBVIOUS
<1>. QED
  BY <1>1, <1>2, <1>3 DEF Typed, Extends

\* Pointers of an object after some have been replaced.
LEMMA Mapped ==
  ASSUME NEW to \in Seq(Int), NEW f, DOMAIN f = DOMAIN to,
         f = [ i \in DOMAIN to |-> f[i] ], NEW S \in SUBSET Int,
         \A i \in 1 .. Len(to) : f[i] \in S
  PROVE  f \in Seq(Int) /\ Len(f) = Len(to) /\ \A i \in 1 .. Len(to) : f[i] \in S
<1>1. Len(to) \in Nat /\ DOMAIN to = 1 .. Len(to)
  OBVIOUS
<1>2. f \in [ 1 .. Len(to) -> Int ]
  BY <1>1
<1>. QED
  BY <1>1, <1>2

LEMMA BuryType ==
  ASSUME program \in Programs, NEW h, Typed(h), NEW gone, NEW first,
         NEW how, how \in Way \/ first = {}
  PROVE  Typed(Bury(h, gone, first, how)) /\ Extends(h, Bury(h, gone, first, how))
<1>. DEFINE g == Bury(h, gone, first, how)
            R(p) == IF p \notin gone THEN h[p].released
                    ELSE Append(h[p].released, IF p \in first THEN how
                                               ELSE IF h[p].deleter # << >> THEN h[p].deleter
                                               ELSE << h[p].by, h[p].type >>)
            F(p) == [ i \in DOMAIN h[p].to |->
                        IF h[p].to[i] \in gone /\ PointersOf(h[p].type)[i].kind = "SharedObserver"
                          THEN Null ELSE h[p].to[i] ]
<1>1. DOMAIN g = DOMAIN h /\ \A p \in DOMAIN h : g[p] = [ h[p] EXCEPT !.released = R(p), !.to = F(p) ]
  BY DEF Bury
<1>2. g = [ p \in DOMAIN h |-> g[p] ]
  BY DEF Bury
<1>3. ASSUME NEW p \in DOMAIN h
      PROVE  /\ g[p] \in Object /\ g[p].type = h[p].type /\ Len(g[p].to) = Len(h[p].to)
             /\ \A i \in 1 .. Len(h[p].to) : g[p].to[i] \in DOMAIN h \union {Null}
  <2>1. /\ h[p] \in Object /\ h[p].to \in Seq(Int) /\ h[p].released \in Seq(Way)
        /\ h[p].deleter \in {<< >>} \union Way /\ << h[p].by, h[p].type >> \in Way
    BY DEF Typed, Object, Way
  <2>2. R(p) \in Seq(Way)
    BY <2>1
  <2>3. DOMAIN h \union {Null} \in SUBSET Int
    BY DEF Typed, Null
  <2>4. DOMAIN F(p) = DOMAIN h[p].to /\ F(p) = [ i \in DOMAIN h[p].to |-> F(p)[i] ]
    OBVIOUS
  <2>5. \A i \in 1 .. Len(h[p].to) : F(p)[i] \in DOMAIN h \union {Null}
    BY <2>1 DEF Typed
  <2>6. /\ F(p) \in Seq(Int) /\ Len(F(p)) = Len(h[p].to)
        /\ \A i \in 1 .. Len(h[p].to) : F(p)[i] \in DOMAIN h \union {Null}
    <3>. HIDE DEF F
    <3>. QED
      BY <2>1, <2>3, <2>4, <2>5, Mapped
  <2>. HIDE DEF F, R, g
  <2>7. g[p] \in Object /\ g[p].to = F(p) /\ g[p].type = h[p].type
    <3>1. PICK rel \in Seq(Way) : rel = R(p)
      BY <2>2
    <3>2. PICK to \in Seq(Int) : to = F(p)
      BY <2>6
    <3>3. g[p] = [ h[p] EXCEPT !.released = rel, !.to = to ]
      BY <1>1, <3>1, <3>2, Zenon
    <3>. QED
      BY <2>1, <3>1, <3>2, <3>3 DEF Object
  <2>. QED
    BY <2>6, <2>7
<1>. HIDE DEF g
<1>4. g \in [ DOMAIN h -> Object ]
  BY <1>2, <1>3
<1>5. Typed(g) /\ Extends(h, g)
  BY <1>1, <1>3, <1>4, Rewritten, Zenon
<1>. QED
  BY <1>5 DEF g

LEMMA SweepType ==
  ASSUME program \in Programs, NEW h, Typed(h), NEW states, NEW first,
         NEW how, how \in Way \/ first = {}
  PROVE  Typed(Sweep(h, states, first, how)) /\ Extends(h, Sweep(h, states, first, how))
BY BuryType DEF Sweep

LEMMA AssignType ==
  ASSUME program \in Programs, NEW h, Typed(h), NEW p \in DOMAIN h,
         NEW i \in 1 .. Len(h[p].to), NEW q \in DOMAIN h \union {Null}
  PROVE  /\ Typed(Assign(h, <<p, i>>, q)) /\ Extends(h, Assign(h, <<p, i>>, q))
         /\ DOMAIN Assign(h, <<p, i>>, q) = DOMAIN h
         /\ At(Assign(h, <<p, i>>, q), <<p, i>>) = q
<1>. DEFINE g == Assign(h, <<p, i>>, q)
            f == [ h[p].to EXCEPT ![i] = q ]
<1>1. /\ g = [ h EXCEPT ![p] = [ h[p] EXCEPT !.to = f ] ]
      /\ h \in [ DOMAIN h -> Object ]
  BY DEF Assign, Typed
<1>2. h[p].to \in Seq(Int) /\ h[p] \in Object /\ q \in Int
  BY SlotType, SMTT(30) DEF Typed, Null
<1>3. f \in Seq(Int) /\ Len(f) = Len(h[p].to) /\ f[i] = q
      /\ \A j \in 1 .. Len(h[p].to) : f[j] = IF j = i THEN q ELSE h[p].to[j]
  BY <1>2
<1>. HIDE DEF f
<1>4. [ h[p] EXCEPT !.to = f ] \in Object
  BY <1>2, <1>3 DEF Object
<1>5. DOMAIN g = DOMAIN h /\ g \in [ DOMAIN h -> Object ] /\ g[p] = [ h[p] EXCEPT !.to = f ]
      /\ \A r \in DOMAIN h \ {p} : g[r] = h[r]
  BY <1>1, <1>4
<1>6. g[p].to = f /\ g[p].type = h[p].type
  BY <1>2, <1>5 DEF Object
<1>. HIDE DEF g
<1>7. ASSUME NEW r \in DOMAIN h
      PROVE  /\ g[r].type = h[r].type /\ Len(g[r].to) = Len(h[r].to)
             /\ \A j \in 1 .. Len(h[r].to) : g[r].to[j] \in DOMAIN h \union {Null}
  <2>1. CASE r = p
    BY <1>3, <1>6, <2>1 DEF Typed
  <2>2. CASE r # p
    BY <1>5, <2>2 DEF Typed
  <2>. QED
    BY <2>1, <2>2
<1>8. Typed(g) /\ Extends(h, g)
  BY <1>5, <1>7, Rewritten
<1>. QED
  BY <1>3, <1>5, <1>6, <1>8 DEF g, At

LEMMA LinkedType ==
  ASSUME program \in Programs, NEW h, Typed(h), NEW info, NEW q \in DOMAIN h \union {Null}
  PROVE  /\ Typed(Linked(h, info, q)) /\ Extends(h, Linked(h, info, q))
         /\ DOMAIN Linked(h, info, q) = DOMAIN h
<1>. DEFINE g == Linked(h, info, q)
            F(p) == [ i \in DOMAIN h[p].to |-> IF <<p, i>> \in info.observers THEN q ELSE h[p].to[i] ]
<1>1. DOMAIN g = DOMAIN h /\ \A p \in DOMAIN h : g[p] = [ h[p] EXCEPT !.to = F(p) ]
  BY DEF Linked
<1>2. g = [ p \in DOMAIN h |-> g[p] ]
  BY DEF Linked
<1>3. ASSUME NEW p \in DOMAIN h
      PROVE  /\ g[p] \in Object /\ g[p].type = h[p].type /\ Len(g[p].to) = Len(h[p].to)
             /\ \A i \in 1 .. Len(h[p].to) : g[p].to[i] \in DOMAIN h \union {Null}
  <2>1. h[p] \in Object /\ h[p].to \in Seq(Int)
    BY DEF Typed, Object
  <2>2. DOMAIN h \union {Null} \in SUBSET Int
    BY DEF Typed, Null
  <2>3. DOMAIN F(p) = DOMAIN h[p].to /\ F(p) = [ i \in DOMAIN h[p].to |-> F(p)[i] ]
    OBVIOUS
  <2>4. \A i \in 1 .. Len(h[p].to) : F(p)[i] \in DOMAIN h \union {Null}
    BY <2>1 DEF Typed
  <2>5. /\ F(p) \in Seq(Int) /\ Len(F(p)) = Len(h[p].to)
        /\ \A i \in 1 .. Len(h[p].to) : F(p)[i] \in DOMAIN h \union {Null}
    <3>. HIDE DEF F
    <3>. QED
      BY <2>1, <2>2, <2>3, <2>4, Mapped
  <2>. HIDE DEF F, g
  <2>6. g[p] \in Object /\ g[p].to = F(p) /\ g[p].type = h[p].type
    BY <1>1, <2>1, <2>5, ZenonT(30) DEF Object
  <2>. QED
    BY <2>5, <2>6
<1>. HIDE DEF g
<1>4. g \in [ DOMAIN h -> Object ]
  BY <1>2, <1>3
<1>5. Typed(g) /\ Extends(h, g)
  BY <1>1, <1>3, <1>4, Rewritten
<1>. QED
  BY <1>1, <1>5 DEF g

\* g has one object more than h, and s leads to it.
Adds(h, g, s, t, by) ==
  \E n : /\ n \notin DOMAIN h /\ DOMAIN g = DOMAIN h \union {n}
         /\ At(g, s) = n /\ g[n].by = by /\ g[n].type = t

LEMMA CreatedType ==
  ASSUME program \in Programs, NEW h, Typed(h), NEW p \in DOMAIN h,
         NEW i \in 1 .. Len(h[p].to), NEW t \in Types, NEW by \in Resources
  PROVE  /\ Typed(Created(h, <<p, i>>, t, by)) /\ Extends(h, Created(h, <<p, i>>, t, by))
         /\ Adds(h, Created(h, <<p, i>>, t, by), <<p, i>>, t, by)
<1>. DEFINE s   == <<p, i>>
            obj == IF IsShared(Declared(h, s)) THEN SharedObject(t, by) ELSE NewObject(t, by)
<1>1. PICK n \in Nat \ {0} : DOMAIN h = 0 .. n - 1
  BY DEF Typed
<1>0. PICK g : g = Created(h, s, t, by)
  OBVIOUS
<1>2. Cardinality(DOMAIN h) = n
  BY <1>1, FS_Interval
<1>3. n \notin DOMAIN h /\ n + 1 \in Nat \ {0} /\ 0 .. (n + 1) - 1 = DOMAIN h \union {n}
  BY <1>1
<1>4. PICK a : a = Assign(h, s, Null)
  OBVIOUS
<1>5. /\ obj \in Object /\ obj.by = by /\ obj.type = t /\ Len(obj.to) = Len(PointersOf(t))
      /\ \A j \in 1 .. Len(obj.to) : obj.to[j] = Null
  <2>1. t \in Types \union {"Root"}
    OBVIOUS
  <2>2. \/ obj = NewObject(t, by)
        \/ obj = SharedObject(t, by)
    OBVIOUS
  <2>. HIDE DEF obj
  <2>. QED
    BY <2>1, <2>2, NewObjectType
<1>. HIDE DEF obj
<1>6. PICK b : b = Assign(h, s, n)
  OBVIOUS
<1>7. DOMAIN g = DOMAIN h \union {n} /\ g = [ q \in DOMAIN h \union {n} |-> IF q = n THEN obj ELSE b[q] ]
  BY <1>0, <1>2, <1>6 DEF Created, obj
<1>8. h \in [ DOMAIN h -> Object ] /\ b = [ h EXCEPT ![p] = [ h[p] EXCEPT !.to = [ h[p].to EXCEPT ![i] = n ] ] ]
  BY <1>6 DEF Assign, Typed
<1>9. h[p].to \in Seq(Int) /\ h[p] \in Object /\ n \in Int
  BY <1>1 DEF Typed, Object
<1>10. PICK f : f = [ h[p].to EXCEPT ![i] = n ]
  OBVIOUS
<1>11. f \in Seq(Int) /\ Len(f) = Len(h[p].to) /\ f[i] = n
       /\ \A j \in 1 .. Len(h[p].to) : f[j] = IF j = i THEN n ELSE h[p].to[j]
  BY <1>9, <1>10
<1>12. PICK o : o = [ h[p] EXCEPT !.to = f ]
  OBVIOUS
<1>13. o \in Object /\ o.to = f /\ o.type = h[p].type
  BY <1>9, <1>11, <1>12 DEF Object
<1>14. b[p] = o /\ \A q \in DOMAIN h \ {p} : b[q] = h[q]
  BY <1>8, <1>10, <1>12
<1>15. g[n] = obj /\ g[p] = o /\ \A q \in DOMAIN h \ {p} : g[q] = h[q]
  BY <1>3, <1>7, <1>14
<1>16. ASSUME NEW q \in DOMAIN g
       PROVE  /\ g[q] \in Object /\ Len(g[q].to) = Len(PointersOf(g[q].type))
              /\ \A j \in 1 .. Len(g[q].to) : g[q].to[j] \in DOMAIN g \union {Null}
  <2>1. CASE q = n
    BY <1>5, <1>15, <2>1
  <2>2. CASE q = p
    <3>1. g[q] = o /\ Len(o.to) = Len(PointersOf(o.type))
      BY <1>11, <1>13, <1>15, <2>2 DEF Typed
    <3>2. ASSUME NEW j \in 1 .. Len(o.to) PROVE o.to[j] \in DOMAIN g \union {Null}
      <4>1. j \in 1 .. Len(h[p].to) /\ o.to[j] = IF j = i THEN n ELSE h[p].to[j]
        BY <1>11, <1>13
      <4>2. h[p].to[j] \in DOMAIN h \union {Null}
        BY <4>1 DEF Typed
      <4>. QED
        BY <1>7, <4>1, <4>2
    <3>. QED
      BY <1>13, <3>1, <3>2
  <2>3. CASE q \in DOMAIN h \ {p}
    BY <1>7, <1>15, <2>3 DEF Typed
  <2>. QED
    BY <1>7, <2>1, <2>2, <2>3
<1>17. g \in [ DOMAIN g -> Object ]
  BY <1>7, <1>16
<1>18. n + 1 \in Nat \ {0} /\ DOMAIN g = 0 .. (n + 1) - 1
  BY <1>3, <1>7, Zenon
<1>19. Typed(g)
  BY <1>16, <1>17, <1>18 DEF Typed
<1>20. \A q \in DOMAIN h : g[q].type = h[q].type
  BY <1>13, <1>15
<1>21. Extends(h, g)
  BY <1>7, <1>20 DEF Extends
<1>22. At(g, s) = n
  BY <1>11, <1>13, <1>15 DEF At
<1>. QED
  BY <1>2, <1>3, <1>5, <1>7, <1>15, <1>19, <1>21, <1>22, <1>0 DEF Adds

LEMMA ExtendsTransitive ==
  ASSUME NEW h, NEW g, NEW f, Extends(h, g), Extends(g, f)
  PROVE  Extends(h, f)
BY DEF Extends

\* Slots stay, and keep their declarations.
LEMMA SlotStays ==
  ASSUME program \in Programs, NEW h, Typed(h), NEW g, Typed(g), Extends(h, g),
         NEW p \in DOMAIN h
  PROVE  /\ p \in DOMAIN g /\ Len(g[p].to) = Len(h[p].to)
         /\ \A i : Declared(g, <<p, i>>) = Declared(h, <<p, i>>)
<1>1. p \in DOMAIN g /\ g[p].type = h[p].type
  BY DEF Extends
<1>2. Len(g[p].to) = Len(PointersOf(g[p].type)) /\ Len(h[p].to) = Len(PointersOf(h[p].type))
  BY <1>1 DEF Typed
<1>3. \A i : <<p, i>>[1] = p /\ <<p, i>>[2] = i
  OBVIOUS
<1>. QED
  BY <1>1, <1>2, <1>3 DEF Declared

-----------------------------------------------------------------------------
(***************************************************************************)
(* Infos.                                                                  *)
(***************************************************************************)
Leading(info, h) ==
  /\ info \in Info
  /\ info.ownerPtr \in DOMAIN h \union {Null}
  /\ info.sharedState \in DOMAIN h \union {Null}

LEMMA InfoByIdType ==
  ASSUME Leads(infos, heap), NEW id, NEW kind \in Kinds
  PROVE  Leading(InfoById(id, kind), heap)
<1>1. CASE id \in DOMAIN infos
  <2>1. infos[id] \in Info
    BY <1>1 DEF Leads
  <2>2. Update(infos[id].ownership, kind) \in Kinds
    BY <2>1 DEF Info, Update, Kinds
  <2>3. InfoById(id, kind) = [ infos[id] EXCEPT !.ownership = Update(infos[id].ownership, kind) ]
    BY <1>1 DEF InfoById
  <2>. QED
    BY <1>1, <2>1, <2>2, <2>3 DEF Leads, Leading, Info
<1>2. CASE id \notin DOMAIN infos
  BY <1>2 DEF InfoById, NewInfo, Leading, Info, Null
<1>. QED
  BY <1>1, <1>2

LEMMA ClaimedType ==
  ASSUME NEW h, NEW info, Leading(info, h), NEW p \in DOMAIN h \union {Null}, p \in Int
  PROVE  Leading(Claimed(info, p), h)
BY DEF Leading, Claimed, Info

LEMMA WithType ==
  ASSUME NEW h, Leads(infos, h), NEW id \in Int, NEW info, Leading(info, h)
  PROVE  Leads(With(id, info), h) /\ DOMAIN With(id, info) = DOMAIN infos \union {id}
<1>. DEFINE w == With(id, info)
<1>1. w = [ i \in DOMAIN infos \union {id} |-> IF i = id THEN info ELSE infos[i] ]
  BY DEF With
<1>2. \A i \in DOMAIN infos \union {id} : Leading(IF i = id THEN info ELSE infos[i], h)
  BY DEF Leads, Leading
<1>3. DOMAIN w = DOMAIN infos \union {id} /\ \A i \in DOMAIN w : Leading(w[i], h)
  BY <1>1, <1>2
<1>. HIDE DEF w
<1>4. w \in [ DOMAIN w -> Info ]
  BY <1>1, <1>3 DEF Leading
<1>5. DOMAIN w \subseteq Int /\ IsFiniteSet(DOMAIN w)
  BY <1>3, FS_AddElement DEF Leads
<1>. QED
  BY <1>3, <1>4, <1>5 DEF w, Leads, Leading

LEMMA IdType ==
  ASSUME NEW h, Leads(infos, h)
  PROVE  NewId \in Int /\ DOMAIN infos \subseteq Int /\ Unclaimed \subseteq Int
<1>1. Cardinality(DOMAIN infos) \in Nat
  BY FS_CardinalityType DEF Leads
<1>. QED
  BY <1>1 DEF NewId, Unclaimed, Leads

LEMMA LeadsOn ==
  ASSUME NEW is, NEW h, NEW g, Leads(is, h), Extends(h, g)
  PROVE  Leads(is, g)
BY DEF Leads, Extends

LEMMA LeadingOn ==
  ASSUME NEW info, NEW h, NEW g, Leading(info, h), Extends(h, g)
  PROVE  Leading(info, g)
BY DEF Leading, Extends

LEMMA ObjectsAreNumbers ==
  ASSUME NEW h, Typed(h)
  PROVE  DOMAIN h \subseteq Int /\ DOMAIN h \union {Null} \subseteq Int /\ 0 \in DOMAIN h
BY DEF Typed, Null

-----------------------------------------------------------------------------
(***************************************************************************)
(* The slot that is read.                                                  *)
(***************************************************************************)
LEMMA HereType ==
  ASSUME TypeInv, AtSlot
  PROVE  /\ Len(stack) \in Nat \ {0} /\ Last(stack) = stack[Len(stack)] /\ Last(stack) \in Frames
         /\ Here[1] \in DOMAIN heap /\ Here[2] \in 1 .. Len(heap[Here[1]].to)
         /\ Here = << Here[1], Here[2] >>
         /\ Here \in Int \X Nat
         /\ There \in Pointers /\ Held \in DOMAIN heap \union {Null}
         /\ MemResource(There) \in Resources
<1>1. Len(stack) \in Nat \ {0} /\ Last(stack) = stack[Len(stack)] /\ Last(stack) \in Frames
  BY DEF TypeInv, AtSlot, Last
<1>2. Last(stack).at \in DOMAIN heap /\ Last(stack).slot \in Nat \ {0} /\ Last(stack).at \in Int
  BY <1>1 DEF TypeInv, Found, Frames
<1>3. heap[Last(stack).at].to \in Seq(Int)
  BY <1>2 DEF TypeInv, Typed, Object
<1>4. Last(stack).slot \in 1 .. Len(heap[Last(stack).at].to)
  BY <1>2, <1>3 DEF AtSlot
<1>5. There \in Pointers /\ Held \in DOMAIN heap \union {Null}
  BY <1>2, <1>4, SlotType DEF TypeInv, Here, There, Held
<1>6. MemResource(There) \in Resources
  BY <1>5 DEF MemResource, Pointers, TypeInv, Resources
<1>. QED
  BY <1>1, <1>2, <1>4, <1>5, <1>6 DEF Here

LEMMA MovedType ==
  ASSUME TypeInv, AtSlot
  PROVE  /\ Moved \in Seq(Frames) /\ Len(Moved) = Len(stack)
         /\ \A k \in 1 .. Len(stack) - 1 : Moved[k] = stack[k]
         /\ \A k \in 1 .. Len(stack) : /\ Moved[k].at = stack[k].at /\ Moved[k].id = stack[k].id
                                       /\ Moved[k].prevResource = stack[k].prevResource
         /\ Moved[Len(stack)].slot = Here[2] + 1
<1>1. Len(stack) \in Nat \ {0} /\ Last(stack) = stack[Len(stack)] /\ Last(stack) \in Frames
  BY HereType
<1>2. PICK n \in Nat \ {0} : n = Len(stack)
  BY <1>1
<1>3. PICK f : f = [ stack[n] EXCEPT !.slot = @ + 1 ]
  OBVIOUS
<1>4. f \in Frames /\ f.at = stack[n].at /\ f.id = stack[n].id
      /\ f.prevResource = stack[n].prevResource /\ f.slot = stack[n].slot + 1
  BY <1>1, <1>2, <1>3 DEF Frames
<1>5. Moved = [ stack EXCEPT ![n] = f ]
  BY <1>2, <1>3 DEF Moved
<1>6. stack \in Seq(Frames)
  BY DEF TypeInv
<1>7. Moved \in Seq(Frames) /\ Len(Moved) = n /\ \A k \in 1 .. n : Moved[k] = IF k = n THEN f ELSE stack[k]
  BY <1>2, <1>4, <1>5, <1>6
<1>. HIDE DEF Moved
<1>. QED
  BY <1>1, <1>2, <1>4, <1>7 DEF Here

\* Going on to the next slot, in a heap and with infos that have grown.
LEMMA MovedFound ==
  ASSUME TypeInv, AtSlot, NEW h, Typed(h), Extends(heap, h), NEW is, DOMAIN infos \subseteq DOMAIN is
  PROVE  Found(Moved, is, h)
<1>1. PICK n \in Nat \ {0} : n = Len(stack)
  BY HereType
<1>2. PICK m : m = Moved
  OBVIOUS
<1>3. /\ Len(m) = n
      /\ \A k \in 1 .. n - 1 : m[k] = stack[k]
      /\ \A k \in 1 .. n : m[k].at = stack[k].at /\ m[k].id = stack[k].id
  BY <1>1, <1>2, MovedType
<1>4. \A k \in 1 .. n : stack[k].at \in DOMAIN h
  BY <1>1 DEF TypeInv, Found, Extends
<1>5. ASSUME NEW k \in 1 .. n - 1
      PROVE  m[k].slot - 1 \in 1 .. Len(h[m[k].at].to) /\ m[k + 1].id \in DOMAIN is
  <2>1. k \in 1 .. n /\ k + 1 \in 1 .. n
    OBVIOUS
  <2>2. stack[k].slot - 1 \in 1 .. Len(heap[stack[k].at].to) /\ stack[k + 1].id \in DOMAIN infos
    BY <1>1 DEF TypeInv, Found
  <2>3. stack[k].at \in DOMAIN heap
    BY <1>1, <2>1 DEF TypeInv, Found
  <2>4. Len(h[stack[k].at].to) = Len(heap[stack[k].at].to)
    BY <2>3, SlotStays DEF TypeInv
  <2>. QED
    BY <1>3, <2>1, <2>2, <2>4
<1>. QED
  BY <1>2, <1>3, <1>4, <1>5 DEF Found

LEMMA DestroyType ==
  ASSUME TypeInv, AtSlot, Held # Null, NEW r \in Resources
  PROVE  Typed(DestroyPtr(Here, r)) /\ Extends(heap, DestroyPtr(Here, r))
<1>1. PICK p \in DOMAIN heap : \E i \in 1 .. Len(heap[p].to) : Here = <<p, i>>
  BY HereType
<1>2. Held \in DOMAIN heap /\ There \in Pointers /\ program \in Programs /\ Typed(heap)
  BY HereType DEF TypeInv
<1>3. PICK a : a = Assign(heap, Here, Null)
  OBVIOUS
<1>4. Typed(a) /\ Extends(heap, a)
  BY <1>1, <1>2, <1>3, AssignType
<1>5. ReleasedType(Held, There) \in Types \union {"Root"}
  <2>1. heap[Held].type \in Types \union {"Root"}
    BY <1>2 DEF Typed, Object
  <2>2. There.types \in Seq(Types) \ {<< >>}
    BY <1>2 DEF Pointers
  <2>3. There.types[1] \in Types
    BY <2>2
  <2>. QED
    BY <2>1, <2>3 DEF ReleasedType, HandledType, ElementType
<1>6. << r, ReleasedType(Held, There) >> \in Way
  BY <1>5 DEF Way
<1>7. \/ DestroyPtr(Here, r) = Sweep(a, States(infos), { Held }, << r, ReleasedType(Held, There) >>)
      \/ DestroyPtr(Here, r) = Sweep(a, States(infos), {}, << >>)
  BY <1>3 DEF DestroyPtr, Delete, There, Held
<1>8. PICK d : d = DestroyPtr(Here, r)
  OBVIOUS
<1>9. Typed(d) /\ Extends(a, d)
  <2>1. CASE d = Sweep(a, States(infos), { Held }, << r, ReleasedType(Held, There) >>)
    BY <1>2, <1>4, <1>6, <2>1, SweepType
  <2>2. CASE d = Sweep(a, States(infos), {}, << >>)
    BY <1>2, <1>4, <2>2, SweepType
  <2>. QED
    BY <1>7, <1>8, <2>1, <2>2
<1>. QED
  BY <1>4, <1>8, <1>9, ExtendsTransitive

LEMMA SharesType ==
  ASSUME TypeInv, NEW p \in DOMAIN heap, NEW i \in 1 .. Len(heap[p].to), NEW id \in Int,
         NEW info, Leading(info, heap), Shares(heap, <<p, i>>, id, info)
  PROVE  /\ Typed(heap') /\ Extends(heap, heap') /\ Leads(infos', heap')
         /\ DOMAIN infos' = DOMAIN infos \union {id}
<1>1. PICK q \in DOMAIN heap \union {Null} : q = info.sharedState
  BY DEF Leading
<1>2. q \in Int /\ program \in Programs /\ Typed(heap) /\ Leads(infos, heap)
  BY ObjectsAreNumbers DEF TypeInv
<1>3. PICK is : is = With(id, Claimed(info, q))
  OBVIOUS
<1>4. Leads(is, heap) /\ DOMAIN is = DOMAIN infos \union {id}
  BY <1>2, <1>3, ClaimedType, WithType
<1>5. PICK l : l = Linked(heap, info, q)
  OBVIOUS
<1>6. Typed(l) /\ Extends(heap, l) /\ DOMAIN l = DOMAIN heap
  BY <1>2, <1>5, LinkedType
<1>7. Len(l[p].to) = Len(heap[p].to)
  BY <1>2, <1>6, SlotStays
<1>8. PICK a : a = Assign(l, <<p, i>>, q)
  OBVIOUS
<1>9. Typed(a) /\ Extends(l, a)
  BY <1>2, <1>6, <1>7, <1>8, AssignType
<1>10. infos' = is /\ heap' = Sweep(a, States(is), {}, << >>)
  BY <1>1, <1>3, <1>5, <1>8 DEF Shares
<1>11. Typed(heap') /\ Extends(a, heap')
  BY <1>2, <1>9, <1>10, SweepType
<1>12. Extends(heap, heap')
  BY <1>6, <1>9, <1>11, ExtendsTransitive
<1>. QED
  BY <1>4, <1>10, <1>11, <1>12, LeadsOn

-----------------------------------------------------------------------------
(***************************************************************************)
(* What one step does to the heap, the infos and the stack.                *)
(***************************************************************************)
\* A step that goes on to the next slot.
GoesOn == /\ Typed(heap') /\ Extends(heap, heap')
          /\ Leads(infos', heap') /\ DOMAIN infos \subseteq DOMAIN infos'
          /\ DOMAIN heap' = DOMAIN heap

LEMMA DestroyKeeps ==
  ASSUME NEW s, NEW r
  PROVE  DOMAIN DestroyPtr(s, r) = DOMAIN heap
<1>1. DOMAIN Assign(heap, s, Null) = DOMAIN heap
  BY DEF Assign
<1>. QED
  BY <1>1, Zenon DEF DestroyPtr, Delete, Sweep, Bury

LEMMA SharesKeeps ==
  ASSUME NEW s, NEW id, NEW info, Shares(heap, s, id, info)
  PROVE  DOMAIN heap' = DOMAIN heap
<1>1. DOMAIN Linked(heap, info, info.sharedState) = DOMAIN heap
  BY DEF Linked
<1>2. DOMAIN Assign(Linked(heap, info, info.sharedState), s, info.sharedState) = DOMAIN heap
  BY <1>1, Zenon DEF Assign
<1>. QED
  BY <1>2, Zenon DEF Shares, Sweep, Bury

LEMMA ReadNullGoes ==
  ASSUME TypeInv, ReadNull
  PROVE  GoesOn
<1>1. AtSlot /\ infos' = infos
  BY DEF ReadNull
<1>2. Extends(heap, heap)
  BY DEF Extends
<1>3. CASE heap' = heap
  BY <1>1, <1>2, <1>3 DEF GoesOn, TypeInv
<1>4. CASE Held # Null /\ heap' = DestroyPtr(Here, MemResource(There))
  <2>1. MemResource(There) \in Resources
    BY <1>1, HereType
  <2>2. Typed(heap') /\ Extends(heap, heap')
    BY <1>1, <1>4, <2>1, DestroyType
  <2>3. Leads(infos', heap')
    BY <1>1, <2>2, LeadsOn DEF TypeInv
  <2>. QED
    BY <1>1, <1>4, <2>2, <2>3, DestroyKeeps DEF GoesOn
<1>. QED
  BY <1>3, <1>4 DEF ReadNull

LEMMA ReadObserverGoes ==
  ASSUME TypeInv, ReadObserver
  PROVE  GoesOn
<1>1. AtSlot
  BY DEF ReadObserver
<1>2. Extends(heap, heap) /\ Typed(heap) /\ program \in Programs
  BY DEF Extends, TypeInv
<1>3. Here \in Int \X Nat /\ Here[1] \in DOMAIN heap /\ Here[2] \in 1 .. Len(heap[Here[1]].to)
      /\ Here = << Here[1], Here[2] >>
  BY <1>1, HereType
<1>4. PICK id \in DOMAIN infos \union {NewId} :
        LET info == InfoById(id, "Observer")
        IN  IF info.ownerPtr = Null
              THEN /\ infos' = With(id, [ info EXCEPT !.observers = @ \union {Here} ])
                   /\ UNCHANGED heap
              ELSE /\ infos' = With(id, info)
                   /\ heap' = Assign(heap, Here, info.ownerPtr)
  BY DEF ReadObserver
<1>. id \in Int
  BY IdType DEF TypeInv
<1>5. PICK info : info = InfoById(id, "Observer")
  OBVIOUS
<1>6. Leading(info, heap)
  BY <1>5, InfoByIdType DEF TypeInv, Kinds
<1>7. CASE info.ownerPtr = Null
  <2>1. infos' = With(id, [ info EXCEPT !.observers = @ \union {Here} ]) /\ heap' = heap
    BY <1>4, <1>5, <1>7
  <2>2. Leading([ info EXCEPT !.observers = @ \union {Here} ], heap)
    BY <1>3, <1>6 DEF Leading, Info
  <2>3. Leads(infos', heap) /\ DOMAIN infos' = DOMAIN infos \union {id}
    BY <2>1, <2>2, WithType DEF TypeInv
  <2>. QED
    BY <1>2, <2>1, <2>3 DEF GoesOn
<1>8. CASE info.ownerPtr # Null
  <2>1. infos' = With(id, info) /\ heap' = Assign(heap, Here, info.ownerPtr)
    BY <1>4, <1>5, <1>8
  <2>2. Leads(infos', heap) /\ DOMAIN infos' = DOMAIN infos \union {id}
    BY <1>6, <2>1, WithType DEF TypeInv
  <2>3. info.ownerPtr \in DOMAIN heap \union {Null}
    BY <1>6 DEF Leading
  <2>4. Typed(heap') /\ Extends(heap, heap') /\ DOMAIN heap' = DOMAIN heap
    BY <1>2, <1>3, <2>1, <2>3, AssignType
  <2>5. Leads(infos', heap')
    BY <2>2, <2>4, LeadsOn
  <2>. QED
    BY <2>2, <2>4, <2>5 DEF GoesOn
<1>. QED
  BY <1>7, <1>8

LEMMA ReadKnownGoes ==
  ASSUME TypeInv, ReadKnown
  PROVE  GoesOn
<1>1. AtSlot
  BY DEF ReadKnown
<1>2. PICK id \in Known(There) : Shares(heap, Here, id, InfoById(id, There.kind))
  BY DEF ReadKnown
<1>. id \in Int
  BY IdType DEF TypeInv, Known
<1>3. There.kind \in Kinds
  BY <1>1, HereType DEF Pointers
<1>4. PICK info : info = InfoById(id, There.kind)
  OBVIOUS
<1>5. Leading(info, heap)
  BY <1>3, <1>4, InfoByIdType DEF TypeInv
<1>6. Here[1] \in DOMAIN heap /\ Here[2] \in 1 .. Len(heap[Here[1]].to) /\ Here = << Here[1], Here[2] >>
  BY <1>1, HereType
<1>7. Shares(heap, << Here[1], Here[2] >>, id, info)
  BY <1>2, <1>4, <1>6
<1>8. /\ Typed(heap') /\ Extends(heap, heap') /\ Leads(infos', heap')
      /\ DOMAIN infos' = DOMAIN infos \union {id}
  BY <1>5, <1>6, <1>7, SharesType
<1>. QED
  BY <1>7, <1>8, SharesKeeps DEF GoesOn

LEMMA ReadUnknownTypeGoes ==
  ASSUME TypeInv, ReadUnknownType
  PROVE  GoesOn
<1>1. AtSlot
  BY DEF ReadUnknownType
<1>2. PICK id \in Unclaimed :
         LET info == InfoById(id, There.kind)
         IN  IF IsShared(There)
               THEN Shares(heap, Here, id, [ info EXCEPT !.sharedState = Held ])
               ELSE /\ infos' = With(id, Claimed(info, Held))
                    /\ heap' = Linked(heap, info, Held)
  BY DEF ReadUnknownType
<1>. id \in Int
  BY IdType DEF TypeInv
<1>3. There.kind \in Kinds /\ Held \in DOMAIN heap \union {Null} /\ Held \in Int
  BY <1>1, HereType, ObjectsAreNumbers DEF Pointers, TypeInv
<1>4. PICK info : info = InfoById(id, There.kind)
  OBVIOUS
<1>5. Leading(info, heap)
  BY <1>3, <1>4, InfoByIdType DEF TypeInv
<1>6. Here[1] \in DOMAIN heap /\ Here[2] \in 1 .. Len(heap[Here[1]].to) /\ Here = << Here[1], Here[2] >>
  BY <1>1, HereType
<1>7. CASE IsShared(There)
  <2>1. PICK i : i = [ info EXCEPT !.sharedState = Held ]
    OBVIOUS
  <2>2. Leading(i, heap)
    BY <1>3, <1>5, <2>1 DEF Leading, Info
  <2>3. Shares(heap, << Here[1], Here[2] >>, id, i)
    BY <1>2, <1>4, <1>6, <1>7, <2>1
  <2>4. /\ Typed(heap') /\ Extends(heap, heap') /\ Leads(infos', heap')
        /\ DOMAIN infos' = DOMAIN infos \union {id}
    BY <1>6, <2>2, <2>3, SharesType
  <2>. QED
    BY <2>3, <2>4, SharesKeeps DEF GoesOn
<1>8. CASE ~IsShared(There)
  <2>1. infos' = With(id, Claimed(info, Held)) /\ heap' = Linked(heap, info, Held)
    BY <1>2, <1>4, <1>8
  <2>2. Leads(infos', heap) /\ DOMAIN infos' = DOMAIN infos \union {id}
    BY <1>3, <1>5, <2>1, ClaimedType, WithType DEF TypeInv
  <2>3. Typed(heap') /\ Extends(heap, heap') /\ DOMAIN heap' = DOMAIN heap
    BY <1>3, <2>1, LinkedType DEF TypeInv
  <2>4. Leads(infos', heap')
    BY <2>2, <2>3, LeadsOn
  <2>. QED
    BY <2>2, <2>3, <2>4 DEF GoesOn
<1>. QED
  BY <1>7, <1>8

\* What ReadObject makes of the heap and of the infos.
LEMMA ReadObjectGoes ==
  ASSUME TypeInv, ReadObject
  PROVE  /\ Typed(heap') /\ Extends(heap, heap') /\ Leads(infos', heap')
         /\ \E p \in DOMAIN heap', id \in DOMAIN infos' :
              /\ stack' = Append(Moved, Frame(p, id, resource))
              /\ DOMAIN infos \subseteq DOMAIN infos'
         /\ \A p \in DOMAIN heap' \ DOMAIN heap : heap'[p].by = MemResource(There)
<1>1. AtSlot
  BY DEF ReadObject
<1>2. PICK id \in Unclaimed, index \in 1 .. Len(There.types) :
       LET type    == There.types[index]
           creates == ~Fits(type)
           filled  == IF creates
                        THEN Created(Emptied(type), Here, type, MemResource(There)) ELSE heap
           p       == At(filled, Here)
           info    == InfoById(id, There.kind)
           is      == With(id, [ info EXCEPT !.sharedState =
                                   IF SavedBefore(There, creates) THEN p ELSE @ ])
       IN  /\ creates => Cardinality(DOMAIN heap) <= program.objects
           /\ program.aliases \/ creates \/ p \notin ReadNow
           /\ infos' = is
           /\ heap' = Sweep(filled, States(is), {}, << >>)
           /\ stack' = Append(Moved, Frame(p, id, resource))
  BY DEF ReadObject
<1>. id \in Int
  BY IdType DEF TypeInv
<1>3. PICK type : type = There.types[index]
  OBVIOUS
<1>4. /\ Here[1] \in DOMAIN heap /\ Here[2] \in 1 .. Len(heap[Here[1]].to) /\ Here = << Here[1], Here[2] >>
      /\ There \in Pointers /\ MemResource(There) \in Resources /\ Held \in DOMAIN heap \union {Null}
      /\ program \in Programs /\ Typed(heap)
  BY <1>1, HereType DEF TypeInv
<1>5. There.kind \in Kinds /\ There.types \in Seq(Types) /\ type \in Types
  BY <1>3, <1>4 DEF Pointers
<1>6. PICK filled : filled = IF ~Fits(type)
                               THEN Created(Emptied(type), Here, type, MemResource(There)) ELSE heap
  OBVIOUS
<1>7. PICK p : p = At(filled, Here)
  OBVIOUS
<1>8. PICK info : info = InfoById(id, There.kind)
  OBVIOUS
<1>9. PICK i : i = [ info EXCEPT !.sharedState = IF SavedBefore(There, ~Fits(type)) THEN p ELSE @ ]
  OBVIOUS
<1>10. /\ infos' = With(id, i)
       /\ heap' = Sweep(filled, States(With(id, i)), {}, << >>)
       /\ stack' = Append(Moved, Frame(p, id, resource))
  BY <1>2, <1>3, <1>6, <1>7, <1>8, <1>9
<1>11. Leading(info, heap)
  BY <1>5, <1>8, InfoByIdType DEF TypeInv
<1>12. /\ Typed(filled) /\ Extends(heap, filled) /\ p \in DOMAIN filled
       /\ \A q \in DOMAIN filled \ DOMAIN heap : filled[q].by = MemResource(There)
  <2>1. CASE Fits(type)
    <3>1. filled = heap /\ p = Held
      BY <1>6, <1>7, <2>1 DEF Held
    <3>2. Held # Null
      BY <2>1 DEF Fits
    <3>. QED
      BY <1>4, <3>1, <3>2 DEF Extends
  <2>2. CASE ~Fits(type)
    <3>1. PICK e : e = Emptied(type)
      OBVIOUS
    <3>2. Typed(e) /\ Extends(heap, e) /\ DOMAIN e = DOMAIN heap
      <4>1. CASE Held = Null
        BY <1>4, <2>2, <3>1, <4>1 DEF Emptied, Extends
      <4>2. CASE Held # Null
        BY <1>1, <1>4, <2>2, <3>1, <4>2, DestroyType, DestroyKeeps DEF Emptied
      <4>. QED
        BY <4>1, <4>2
    <3>3. Here[1] \in DOMAIN e /\ Here[2] \in 1 .. Len(e[Here[1]].to)
      BY <1>4, <3>2, SlotStays
    <3>4. filled = Created(e, << Here[1], Here[2] >>, type, MemResource(There))
      BY <1>4, <1>6, <2>2, <3>1
    <3>5. /\ Typed(filled) /\ Extends(e, filled)
          /\ Adds(e, filled, << Here[1], Here[2] >>, type, MemResource(There))
      <4>1. PICK a \in DOMAIN e : a = Here[1]
        BY <3>3
      <4>2. PICK b \in 1 .. Len(e[a].to) : b = Here[2]
        BY <3>3, <4>1
      <4>3. PICK by \in Resources : by = MemResource(There)
        BY <1>4
      <4>4. filled = Created(e, << a, b >>, type, by)
        BY <3>4, <4>1, <4>2, <4>3
      <4>5. program \in Programs /\ Typed(e) /\ type \in Types
        BY <1>4, <1>5, <3>2
      <4>. QED
        <5>1. /\ Typed(filled) /\ Extends(e, filled)
              /\ Adds(e, filled, << a, b >>, type, by)
          BY <4>4, <4>5, CreatedType
        <5>. QED
          BY <4>1, <4>2, <4>3, <5>1
    <3>6. Extends(heap, filled)
      BY <3>2, <3>5, ExtendsTransitive
    <3>. QED
      BY <1>4, <1>7, <3>2, <3>5, <3>6 DEF Adds
  <2>. QED
    BY <2>1, <2>2
<1>13. p \in Int
  BY <1>12, ObjectsAreNumbers
<1>14. Leading(info, filled)
  BY <1>11, <1>12, LeadingOn
<1>15. Leading(i, filled)
  BY <1>9, <1>12, <1>13, <1>14 DEF Leading, Info
<1>16. Leads(infos, filled)
  BY <1>12, LeadsOn DEF TypeInv
<1>17. Leads(infos', filled) /\ DOMAIN infos' = DOMAIN infos \union {id}
  BY <1>10, <1>15, <1>16, WithType
<1>18. Typed(heap') /\ Extends(filled, heap')
  BY <1>4, <1>10, <1>12, SweepType
<1>19. DOMAIN heap' = DOMAIN filled /\ \A q \in DOMAIN filled : heap'[q].by = filled[q].by
  <2>1. PICK gone : heap' = Bury(filled, gone, {}, << >>)
    BY <1>10 DEF Sweep
  <2>2. ASSUME NEW q \in DOMAIN filled PROVE heap'[q].by = filled[q].by
    <3>1. filled[q] \in Object
      BY <1>12 DEF Typed
    <3>. QED
      BY <2>1, <3>1, Zenon DEF Bury, Object
  <2>3. DOMAIN heap' = DOMAIN filled
    BY <2>1, Zenon DEF Bury
  <2>. QED
    BY <2>2, <2>3
<1>20. Extends(heap, heap') /\ Leads(infos', heap')
  BY <1>12, <1>17, <1>18, ExtendsTransitive, LeadsOn
<1>. QED
  BY <1>10, <1>12, <1>17, <1>18, <1>19, <1>20

-----------------------------------------------------------------------------
(***************************************************************************)
(* The type invariant.                                                     *)
(***************************************************************************)
LEMMA FrameType ==
  ASSUME NEW p \in Int, NEW id \in Int, NEW prev \in Resources
  PROVE  Frame(p, id, prev) \in Frames
BY DEF Frame, Frames

LEMMA TypeInit == Init => TypeInv
<1>. SUFFICES ASSUME Init PROVE TypeInv
  OBVIOUS
<1>1. program \in Programs /\ program.context \in STRING /\ resource = program.context
  BY ProgramType DEF Init
<1>2. NewDelete \in Resources /\ resource \in Resources
  BY <1>1 DEF Resources
<1>3. PICK o : o = NewObject("Root", NewDelete)
  OBVIOUS
<1>4. /\ o \in Object /\ o.type = "Root" /\ Len(o.to) = Len(PointersOf("Root"))
      /\ \A i \in 1 .. Len(o.to) : o.to[i] = Null
  BY <1>1, <1>2, <1>3, NewObjectType, SMTT(30)
<1>5. heap = [ p \in {0} |-> o ]
  BY <1>3 DEF Init, Root
<1>6. DOMAIN heap = {0} /\ heap[0] = o /\ 0 .. 1 - 1 = {0} /\ 1 \in Nat \ {0}
  BY <1>5
<1>7. Typed(heap)
  BY <1>4, <1>5, <1>6 DEF Typed
<1>8. Leads(infos, heap)
  <2>1. infos = [ id \in {} |-> 0 ]
    BY DEF Init
  <2>. QED
    BY <2>1, FS_EmptySet DEF Leads
<1>9. stack = << Frame(0, 0, NewDelete) >> /\ Frame(0, 0, NewDelete) \in Frames
  BY <1>2, FrameType DEF Init, Root
<1>10. stack \in Seq(Frames) /\ Len(stack) = 1 /\ stack[1].at = 0
  BY <1>9 DEF Frame
<1>11. Found(stack, infos, heap)
  BY <1>6, <1>10 DEF Found
<1>. QED
  BY <1>1, <1>2, <1>7, <1>8, <1>10, <1>11 DEF TypeInv

\* The invariant of the next state, from what is true of it when its program
\* is the same.
LEMMA TypeNow ==
  ASSUME program' = program, program \in Programs, Typed(heap'), Leads(infos', heap'),
         resource' \in Resources, stack' \in Seq(Frames), Found(stack', infos', heap')
  PROVE  TypeInv'
<1>1. Typed(heap)'
  BY DEF Typed, PointersOf
<1>2. Leads(infos, heap)' /\ Found(stack, infos, heap)'
  BY DEF Leads, Found
<1>. QED
  BY <1>1, <1>2, Zenon DEF TypeInv

LEMMA GoesOnKept ==
  ASSUME TypeInv, AtSlot, GoesOn, stack' = Moved, UNCHANGED <<program, resource>>
  PROVE  TypeInv'
<1>1. Moved \in Seq(Frames) /\ Found(Moved, infos', heap')
  BY MovedType, MovedFound DEF GoesOn
<1>. QED
  BY <1>1, TypeNow DEF GoesOn, TypeInv

\* The stack while one more object is read.
LEMMA PushedFound ==
  ASSUME TypeInv, AtSlot, NEW h, Typed(h), Extends(heap, h), NEW is, DOMAIN infos \subseteq DOMAIN is,
         NEW p \in DOMAIN h, NEW id \in DOMAIN is, id \in Int, NEW prev \in Resources
  PROVE  LET s == Append(Moved, Frame(p, id, prev))
         IN  /\ s \in Seq(Frames) /\ Len(s) = Len(stack) + 1 /\ Found(s, is, h)
             /\ \A k \in 1 .. Len(stack) : s[k] = Moved[k]
             /\ s[Len(stack) + 1] = Frame(p, id, prev)
<1>1. PICK n \in Nat \ {0} : n = Len(stack)
  BY HereType
<1>2. PICK m : m = Moved
  OBVIOUS
<1>3. PICK f : f = Frame(p, id, prev)
  OBVIOUS
<1>4. f \in Frames /\ f.at = p /\ f.id = id
  BY <1>3, FrameType, ObjectsAreNumbers DEF Frame
<1>5. m \in Seq(Frames) /\ Len(m) = n /\ m[n].slot = Here[2] + 1 /\ m[n].at = Here[1]
  BY <1>1, <1>2, MovedType, HereType DEF Here
<1>6. PICK s : s = Append(m, f)
  OBVIOUS
<1>7. s \in Seq(Frames) /\ Len(s) = n + 1 /\ s[n + 1] = f /\ \A k \in 1 .. n : s[k] = m[k]
  BY <1>4, <1>5, <1>6, AppendProperties
<1>8. Found(m, is, h)
  BY <1>2, MovedFound
<1>9. Here[1] \in DOMAIN heap /\ Here[2] \in 1 .. Len(heap[Here[1]].to)
  BY HereType
<1>10. m[n].slot - 1 \in 1 .. Len(h[m[n].at].to)
  <2>1. Len(h[Here[1]].to) = Len(heap[Here[1]].to)
    BY <1>9, SlotStays DEF TypeInv
  <2>2. (Here[2] + 1) - 1 = Here[2]
    BY <1>9
  <2>. QED
    BY <1>5, <1>9, <2>1, <2>2
<1>11. \A k \in 1 .. n + 1 : s[k].at \in DOMAIN h
  <2>1. \A k \in 1 .. n : s[k].at \in DOMAIN h
    BY <1>5, <1>7, <1>8 DEF Found
  <2>. QED
    BY <1>4, <1>7, <2>1
<1>12. ASSUME NEW k \in 1 .. n
       PROVE  s[k].slot - 1 \in 1 .. Len(h[s[k].at].to) /\ s[k + 1].id \in DOMAIN is
  <2>1. CASE k = n
    BY <1>4, <1>7, <1>10, <2>1
  <2>2. CASE k # n
    <3>1. k \in 1 .. n - 1 /\ k + 1 \in 1 .. n
      BY <2>2
    <3>. QED
      BY <1>5, <1>7, <1>8, <3>1 DEF Found
  <2>. QED
    BY <2>1, <2>2
<1>13. (n + 1) - 1 = n
  OBVIOUS
<1>14. Found(s, is, h)
  BY <1>7, <1>11, <1>12, <1>13 DEF Found
<1>. QED
  BY <1>1, <1>2, <1>3, <1>6, <1>7, <1>14

\* The object that is done, the slot that leads to it, and the frames below.
LEMMA ReturnType ==
  ASSUME TypeInv, ReadReturn, NEW n, n = Len(stack)
  PROVE  /\ n \in Nat /\ n > 1 /\ Last(stack) = stack[n]
         /\ stack[n - 1].at \in DOMAIN heap
         /\ stack[n - 1].slot - 1 \in 1 .. Len(heap[stack[n - 1].at].to)
         /\ Last(stack).id \in DOMAIN infos /\ Last(stack).id \in Int
         /\ Last(stack).prevResource \in Resources
         /\ stack' \in Seq(Frames) /\ Len(stack') = n - 1
         /\ \A k \in 1 .. n - 1 : stack'[k] = stack[k]
<1>0. n \in Nat /\ n > 1
  BY DEF TypeInv, ReadReturn
<1>1. n \in Nat /\ n > 1 /\ Last(stack) = stack[n] /\ stack \in Seq(Frames) /\ stack' = SubSeq(stack, 1, n - 1)
  BY DEF TypeInv, ReadReturn, Last, Front
<1>2. PICK m \in Nat \ {0} : m = n - 1
  BY <1>0
<1>3. m \in 1 .. Len(stack) - 1 /\ m \in 1 .. Len(stack) /\ m + 1 = n /\ n \in 1 .. Len(stack)
  BY <1>1, <1>2
<1>4. stack[m].at \in DOMAIN heap /\ stack[m].slot - 1 \in 1 .. Len(heap[stack[m].at].to)
      /\ stack[n].id \in DOMAIN infos
  BY <1>3 DEF TypeInv, Found
<1>5. stack[n] \in Frames
  BY <1>1, <1>3
<1>6. SubSeq(stack, 1, m) \in Seq(Frames) /\ Len(SubSeq(stack, 1, m)) = m
      /\ \A k \in 1 .. m : SubSeq(stack, 1, m)[k] = stack[k]
  BY <1>1, <1>3, SubSeqProperties
<1>. QED
  BY <1>1, <1>2, <1>4, <1>5, <1>6 DEF Frames

LEMMA ReadReturnGoes ==
  ASSUME TypeInv, ReadReturn
  PROVE  GoesOn
<1>1. PICK n : n = Len(stack)
  OBVIOUS
<1>2. PICK p \in DOMAIN heap : p = stack[n - 1].at
  BY <1>1, ReturnType
<1>3. PICK i \in 1 .. Len(heap[p].to) : i = stack[n - 1].slot - 1
  BY <1>1, <1>2, ReturnType
<1>4. PICK id \in DOMAIN infos : id = Last(stack).id
  BY <1>1, ReturnType
<1>5. PICK s : s = <<p, i>>
  OBVIOUS
<1>6. PICK info : info = infos[id]
  OBVIOUS
<1>7. /\ IF IsShared(Declared(heap, s))
           THEN Shares(heap, s, id, [ info EXCEPT !.sharedState = IF @ = Null THEN At(heap, s) ELSE @ ])
           ELSE /\ infos' = With(id, Claimed(info, At(heap, s)))
                /\ heap' = Linked(heap, info, At(heap, s))
      /\ id \in Int
  BY <1>1, <1>2, <1>3, <1>4, <1>5, <1>6, ReturnType DEF ReadReturn
<1>8. Leading(info, heap) /\ DOMAIN infos \union {id} = DOMAIN infos
  BY <1>6 DEF TypeInv, Leads, Leading
<1>9. PICK q \in DOMAIN heap \union {Null} : q = At(heap, s)
  BY <1>5, SlotType DEF TypeInv
<1>10. q \in Int
  BY ObjectsAreNumbers DEF TypeInv
<1>11. CASE IsShared(Declared(heap, s))
  <2>1. PICK j : j = [ info EXCEPT !.sharedState = IF @ = Null THEN q ELSE @ ]
    OBVIOUS
  <2>2. Leading(j, heap)
    BY <1>8, <1>10, <2>1 DEF Leading, Info
  <2>3. Shares(heap, <<p, i>>, id, j)
    BY <1>5, <1>7, <1>9, <1>11, <2>1
  <2>4. /\ Typed(heap') /\ Extends(heap, heap') /\ Leads(infos', heap')
        /\ DOMAIN infos' = DOMAIN infos \union {id}
    BY <1>7, <2>2, <2>3, SharesType
  <2>. QED
    BY <2>3, <2>4, SharesKeeps DEF GoesOn
<1>12. CASE ~IsShared(Declared(heap, s))
  <2>1. infos' = With(id, Claimed(info, q)) /\ heap' = Linked(heap, info, q)
    BY <1>7, <1>9, <1>12
  <2>2. Leads(infos', heap) /\ DOMAIN infos' = DOMAIN infos \union {id}
    BY <1>7, <1>8, <1>10, <2>1, ClaimedType, WithType DEF TypeInv
  <2>3. Typed(heap') /\ Extends(heap, heap') /\ DOMAIN heap' = DOMAIN heap
    BY <2>1, LinkedType DEF TypeInv
  <2>4. Leads(infos', heap')
    BY <2>2, <2>3, LeadsOn
  <2>. QED
    BY <2>2, <2>3, <2>4 DEF GoesOn
<1>. QED
  BY <1>11, <1>12

\* The frames that are left after a return.
LEMMA ReturnedFound ==
  ASSUME TypeInv, ReadReturn, GoesOn
  PROVE  Found(stack', infos', heap')
<1>1. PICK n : n = Len(stack)
  OBVIOUS
<1>2. PICK t : t = stack'
  OBVIOUS
<1>3. n \in Nat /\ n > 1 /\ Len(t) = n - 1 /\ \A k \in 1 .. n - 1 : t[k] = stack[k]
  BY <1>1, <1>2, ReturnType
<1>4. PICK m \in Nat \ {0} : m = n - 1
  BY <1>3
<1>5. PICK h : h = heap'
  OBVIOUS
<1>6. \A k \in 1 .. m : t[k].at \in DOMAIN heap /\ t[k].at \in DOMAIN h /\ t[k] = stack[k]
  <2>1. \A k \in 1 .. m : k \in 1 .. n
    BY <1>3, <1>4
  <2>. QED
    BY <1>1, <1>3, <1>4, <1>5, <2>1 DEF GoesOn, TypeInv, Found, Extends
<1>7. ASSUME NEW k \in 1 .. m - 1
      PROVE  t[k].slot - 1 \in 1 .. Len(h[t[k].at].to) /\ t[k + 1].id \in DOMAIN infos'
  <2>1. k \in 1 .. m /\ k + 1 \in 1 .. m /\ k \in 1 .. n - 1
    BY <1>3, <1>4
  <2>2. stack[k].slot - 1 \in 1 .. Len(heap[stack[k].at].to) /\ stack[k + 1].id \in DOMAIN infos
    BY <1>1, <2>1 DEF TypeInv, Found
  <2>3. t[k] = stack[k] /\ t[k + 1] = stack[k + 1] /\ stack[k].at \in DOMAIN heap
    BY <1>6, <2>1
  <2>4. Len(h[stack[k].at].to) = Len(heap[stack[k].at].to)
    BY <1>5, <2>3, SlotStays DEF GoesOn, TypeInv
  <2>. QED
    BY <2>2, <2>3, <2>4 DEF GoesOn
<1>. QED
  BY <1>2, <1>3, <1>4, <1>5, <1>6, <1>7 DEF Found

LEMMA EmptyStack ==
  ASSUME stack' = << >>
  PROVE  stack' \in Seq(Frames) /\ Found(stack', infos', heap')
BY DEF Found

LEMMA TypeNext ==
  ASSUME TypeInv, [Next]_vars
  PROVE  TypeInv'
<1>. USE TypeInv
<1>0. /\ program \in Programs /\ Typed(heap) /\ Leads(infos, heap) /\ resource \in Resources
      /\ stack \in Seq(Frames) /\ Found(stack, infos, heap)
  BY DEF TypeInv
<1>1. CASE ReadNull
  BY <1>1, ReadNullGoes, GoesOnKept DEF ReadNull
<1>2. CASE ReadObserver
  BY <1>2, ReadObserverGoes, GoesOnKept DEF ReadObserver
<1>3. CASE ReadKnown
  BY <1>3, ReadKnownGoes, GoesOnKept DEF ReadKnown
<1>4. CASE ReadUnknownType
  BY <1>4, ReadUnknownTypeGoes, GoesOnKept DEF ReadUnknownType
<1>5. CASE ReadObject
  <2>1. AtSlot /\ program' = program
        /\ resource' = IF Propagates(There) THEN MemResource(There) ELSE resource
    BY <1>5 DEF ReadObject
  <2>2. resource' \in Resources
    BY <1>0, <2>1, HereType
  <2>3. /\ Typed(heap') /\ Extends(heap, heap') /\ Leads(infos', heap')
        /\ \E p \in DOMAIN heap', id \in DOMAIN infos' :
             /\ stack' = Append(Moved, Frame(p, id, resource))
             /\ DOMAIN infos \subseteq DOMAIN infos'
    BY <1>5, ReadObjectGoes
  <2>4. PICK p \in DOMAIN heap', id \in DOMAIN infos' :
             /\ stack' = Append(Moved, Frame(p, id, resource))
             /\ DOMAIN infos \subseteq DOMAIN infos'
    BY <2>3
  <2>5. id \in Int
    BY <2>3 DEF Leads
  <2>6. stack' \in Seq(Frames) /\ Found(stack', infos', heap')
    BY <1>0, <2>1, <2>3, <2>4, <2>5, PushedFound
  <2>. QED
    BY <1>0, <2>1, <2>2, <2>3, <2>6, TypeNow
<1>6. CASE ThrowBadWeakPtr
  <2>1. AtSlot /\ program' = program /\ heap' = heap /\ resource' = resource /\ stack' = << >>
    BY <1>6 DEF ThrowBadWeakPtr
  <2>2. PICK id \in Unclaimed : infos' = With(id, InfoById(id, There.kind))
    BY <1>6 DEF ThrowBadWeakPtr
  <2>3. There.kind \in Kinds /\ id \in Int
    BY <1>0, <2>1, HereType, IdType DEF Pointers
  <2>4. Leading(InfoById(id, There.kind), heap)
    BY <1>0, <2>3, InfoByIdType
  <2>5. Leads(infos', heap)
    BY <1>0, <2>2, <2>3, <2>4, WithType
  <2>. QED
    BY <1>0, <2>1, <2>5, EmptyStack, TypeNow
<1>7. CASE ReadReturn
  <2>1. GoesOn
    BY <1>7, ReadReturnGoes
  <2>2. Found(stack', infos', heap')
    BY <1>7, <2>1, ReturnedFound
  <2>3. PICK n : n = Len(stack)
    OBVIOUS
  <2>4. stack' \in Seq(Frames) /\ Last(stack).prevResource \in Resources
    BY <1>7, <2>3, ReturnType
  <2>5. program' = program /\ resource' \in {Last(stack).prevResource, resource}
    BY <1>7 DEF ReadReturn, Restored
  <2>. QED
    BY <1>0, <2>1, <2>2, <2>4, <2>5, TypeNow DEF GoesOn
<1>8. CASE EndOfData
  BY <1>0, <1>8, TypeNow DEF EndOfData
<1>9. CASE Finish
  BY <1>0, <1>9, EmptyStack, TypeNow DEF Finish
<1>10. CASE ClearSharedState
  <2>1. program' = program /\ resource' = resource /\ stack' = stack
        /\ infos' = [ id \in DOMAIN infos |-> [ infos[id] EXCEPT !.sharedState = Null ] ]
        /\ heap' = Sweep(heap, {}, {}, << >>)
    BY <1>10 DEF ClearSharedState
  <2>2. Typed(heap') /\ Extends(heap, heap')
    BY <1>0, <2>1, SweepType
  <2>3. PICK is : is = infos'
    OBVIOUS
  <2>4. DOMAIN is = DOMAIN infos
        /\ \A id \in DOMAIN infos : is[id] = [ infos[id] EXCEPT !.sharedState = Null ]
    BY <2>1, <2>3
  <2>5. \A id \in DOMAIN infos : Leading(is[id], heap)
    BY <1>0, <2>4 DEF Leads, Leading, Info, Null
  <2>6. is \in [ DOMAIN is -> Info ]
    BY <2>1, <2>3, <2>4, <2>5 DEF Leading
  <2>7. Leads(is, heap)
    BY <1>0, <2>4, <2>5, <2>6 DEF Leads, Leading
  <2>8. Leads(infos', heap')
    BY <2>2, <2>3, <2>7, LeadsOn
  <2>9. Found(stack', infos', heap')
    <3>1. ASSUME NEW k \in 1 .. Len(stack) PROVE stack[k].at \in DOMAIN heap'
      BY <1>0, <2>2 DEF Found, Extends
    <3>2. ASSUME NEW k \in 1 .. Len(stack) - 1
          PROVE  stack[k].slot - 1 \in 1 .. Len(heap'[stack[k].at].to) /\ stack[k + 1].id \in DOMAIN infos'
      <4>1. stack[k].at \in DOMAIN heap
        BY <1>0 DEF Found
      <4>2. Len(heap'[stack[k].at].to) = Len(heap[stack[k].at].to)
        BY <1>0, <2>2, <4>1, SlotStays
      <4>. QED
        BY <1>0, <2>3, <2>4, <4>2 DEF Found
    <3>. QED
      BY <2>1, <3>1, <3>2 DEF Found
  <2>. QED
    BY <1>0, <2>1, <2>2, <2>8, <2>9, TypeNow
<1>11. CASE NextDocument
  <2>1. /\ program' = program /\ heap' = heap /\ resource' = program.context
        /\ infos' = [ id \in {} |-> 0 ] /\ stack' = << Frame(0, 0, NewDelete) >>
    BY <1>11 DEF NextDocument, Root
  <2>2. resource' \in Resources /\ NewDelete \in Resources
    BY <1>0, <2>1, ProgramType DEF Resources
  <2>3. Leads(infos', heap')
    BY <2>1, FS_EmptySet DEF Leads
  <2>4. Frame(0, 0, NewDelete) \in Frames /\ Frame(0, 0, NewDelete).at = 0
    BY <2>2, FrameType DEF Frame
  <2>5. stack' \in Seq(Frames) /\ Len(stack') = 1 /\ stack'[1].at = 0
    BY <2>1, <2>4
  <2>6. Found(stack', infos', heap')
    BY <1>0, <2>1, <2>5, ObjectsAreNumbers DEF Found
  <2>. QED
    BY <1>0, <2>1, <2>2, <2>3, <2>5, <2>6, TypeNow
<1>12. CASE UNCHANGED vars
  BY <1>0, <1>12, TypeNow DEF vars
<1>. QED
  BY <1>1, <1>2, <1>3, <1>4, <1>5, <1>6, <1>7, <1>8, <1>9, <1>10, <1>11, <1>12 DEF Next

-----------------------------------------------------------------------------
(***************************************************************************)
(* The resource at hand.                                                   *)
(***************************************************************************)
\* The declarations of the pointers whose objects are being read, from the
\* outermost to the innermost.
Outers(frames, h) ==
  [ k \in 1 .. Len(frames) - 1 |-> Declared(h, << frames[k].at, frames[k].slot - 1 >>) ]

\* Those of the outer k - 1 that propagate.
Propagating(f, k) == { j \in 1 .. k - 1 : Propagates(f[j]) }

Innermost(S) == CHOOSE k \in S : \A j \in S : j <= k

\* The resource doc/design/pointers.md names for pointers of the object k.
Inside(f, k) ==
  IF Propagating(f, k) = {} THEN program.context ELSE f[Innermost(Propagating(f, k))].resource

\* The context has that resource, and each extension in progress remembers
\* the one that was there before its own.
ResourceInv ==
  \A k \in 1 .. Len(stack) :
    Inside(Outers(stack, heap), k) = IF k = Len(stack) THEN resource ELSE stack[k + 1].prevResource

LEMMA LeastNumber ==
  ASSUME NEW T, T \subseteq Nat, T # {}
  PROVE  \E t \in T : \A y \in T : t <= y
<1>1. PICK t \in T : \A y \in T : ~ (<<y, t>> \in OpToRel(<, Nat))
  BY NatLessThanWellFounded, WFMin, Zenon
<1>2. ASSUME NEW y \in T PROVE t <= y
  <2>1. y \in Nat /\ t \in Nat
    OBVIOUS
  <2>2. CASE y < t
    <3>1. PICK z : z = <<y, t>>
      OBVIOUS
    <3>2. z \in Nat \X Nat /\ z[1] < z[2]
      BY <2>1, <2>2, <3>1
    <3>3. z \in OpToRel(<, Nat)
      BY <3>2 DEF OpToRel
    <3>. QED
      BY <1>1, <3>1, <3>3, Zenon
  <2>. QED
    BY <2>1, <2>2
<1>. QED
  BY <1>2

LEMMA GreatestNumber ==
  ASSUME NEW k \in Nat, NEW S, S \subseteq 1 .. k - 1, S # {}
  PROVE  \E m \in S : \A j \in S : j <= m
<1>1. PICK T : T = { k - x : x \in S }
  OBVIOUS
<1>2. T \subseteq Nat /\ T # {}
  <2>1. \A x \in S : k - x \in Nat
    OBVIOUS
  <2>. QED
    BY <1>1, <2>1
<1>3. PICK t \in T : \A y \in T : t <= y
  BY <1>2, LeastNumber
<1>4. PICK m \in S : t = k - m
  BY <1>1
<1>5. \A j \in S : j <= m
  BY <1>1, <1>3, <1>4
<1>. QED
  BY <1>5

LEMMA InsideFirst ==
  ASSUME NEW f
  PROVE  Inside(f, 1) = program.context
BY DEF Inside, Propagating

LEMMA InsideSame ==
  ASSUME NEW f, NEW g, NEW k \in Nat, \A j \in 1 .. k - 1 : f[j] = g[j]
  PROVE  Inside(f, k) = Inside(g, k)
<1>1. Propagating(f, k) = Propagating(g, k)
  BY DEF Propagating
<1>2. Propagating(f, k) \subseteq 1 .. k - 1
  BY DEF Propagating
<1>3. CASE Propagating(f, k) = {}
  BY <1>1, <1>3 DEF Inside
<1>4. CASE Propagating(f, k) # {}
  <2>1. PICK S : S = Propagating(f, k)
    OBVIOUS
  <2>2. S \in SUBSET (1 .. k - 1) /\ S # {}
    BY <1>2, <1>4, <2>1
  <2>3. Innermost(S) \in S
    BY <2>2, GreatestNumber DEF Innermost
  <2>4. f[Innermost(S)] = g[Innermost(S)]
    BY <2>2, <2>3
  <2>. QED
    BY <1>1, <1>4, <2>1, <2>4 DEF Inside
<1>. QED
  BY <1>3, <1>4

\* One object further in.
LEMMA InsideNext ==
  ASSUME NEW f, NEW k \in Nat \ {0}
  PROVE  Inside(f, k + 1) = IF Propagates(f[k]) THEN f[k].resource ELSE Inside(f, k)
<1>1. (k + 1) - 1 = k /\ 1 .. k = (1 .. k - 1) \union {k}
  OBVIOUS
<1>2. CASE Propagates(f[k])
  <2>1. PICK S : S = Propagating(f, k + 1)
    OBVIOUS
  <2>2. k \in S /\ S \subseteq 1 .. k
    BY <1>1, <1>2, <2>1 DEF Propagating
  <2>3. \A j \in S : j <= k
    BY <2>2
  <2>4. \A m \in S : (\A j \in S : j <= m) => m = k
    BY <2>2
  <2>5. Innermost(S) = k
    BY <2>2, <2>3, <2>4 DEF Innermost
  <2>. QED
    BY <1>2, <2>1, <2>2, <2>5 DEF Inside
<1>3. CASE ~Propagates(f[k])
  <2>1. Propagating(f, k + 1) = Propagating(f, k)
    BY <1>1, <1>3 DEF Propagating
  <2>. QED
    BY <1>3, <2>1 DEF Inside
<1>. QED
  BY <1>2, <1>3

\* Frames that lead to the same slots.
LEMMA InsideKept ==
  ASSUME TypeInv, NEW h, Typed(h), Extends(heap, h), NEW t, Len(t) \in Nat,
         NEW m \in 1 .. Len(stack), m <= Len(t),
         \A k \in 1 .. m - 1 : t[k].at = stack[k].at /\ t[k].slot = stack[k].slot,
         NEW k \in 1 .. m
  PROVE  Inside(Outers(t, h), k) = Inside(Outers(stack, heap), k)
<1>1. PICK f : f = Outers(stack, heap)
  OBVIOUS
<1>2. PICK g : g = Outers(t, h)
  OBVIOUS
<1>3. m \in Nat /\ k \in Nat /\ Len(stack) \in Nat
  BY DEF TypeInv
<1>4. ASSUME NEW j \in 1 .. k - 1 PROVE g[j] = f[j]
  <2>1. j \in 1 .. Len(stack) - 1 /\ j \in 1 .. Len(t) - 1 /\ j \in 1 .. m - 1 /\ j \in 1 .. Len(stack)
    BY <1>3
  <2>2. g[j] = Declared(h, << stack[j].at, stack[j].slot - 1 >>)
    BY <1>2, <2>1 DEF Outers
  <2>3. f[j] = Declared(heap, << stack[j].at, stack[j].slot - 1 >>)
    BY <1>1, <2>1 DEF Outers
  <2>4. stack[j].at \in DOMAIN heap
    BY <2>1 DEF TypeInv, Found
  <2>. QED
    BY <2>2, <2>3, <2>4, SlotStays DEF TypeInv
<1>. QED
  BY <1>1, <1>2, <1>3, <1>4, InsideSame

LEMMA ResourceNow ==
  ASSUME program' = program,
         \A k \in 1 .. Len(stack') :
           Inside(Outers(stack', heap'), k) = IF k = Len(stack') THEN resource' ELSE stack'[k + 1].prevResource
  PROVE  ResourceInv'
<1>1. Outers(stack, heap)' = Outers(stack', heap')
  BY DEF Outers, Declared, PointersOf
<1>2. PICK f : f = Outers(stack', heap')
  OBVIOUS
<1>3. ASSUME NEW k PROVE Inside(Outers(stack, heap), k)' = Inside(f, k)
  BY <1>1, <1>2 DEF Inside
<1>. QED
  BY <1>2, <1>3 DEF ResourceInv

LEMMA ResourceMoved ==
  ASSUME TypeInv, ResourceInv, AtSlot, GoesOn, stack' = Moved, UNCHANGED <<program, resource>>
  PROVE  ResourceInv'
<1>1. PICK n \in Nat \ {0} : n = Len(stack)
  BY HereType
<1>2. PICK t : t = stack'
  OBVIOUS
<1>3. PICK h : h = heap'
  OBVIOUS
<1>4. Len(t) = n /\ \A k \in 1 .. n - 1 : t[k] = stack[k]
  BY <1>1, <1>2, MovedType
<1>5. \A k \in 1 .. n : t[k].prevResource = stack[k].prevResource
  BY <1>1, <1>2, MovedType
<1>6. Typed(h) /\ Extends(heap, h)
  BY <1>3 DEF GoesOn
<1>7. ASSUME NEW k \in 1 .. n
      PROVE  Inside(Outers(t, h), k) = IF k = n THEN resource ELSE t[k + 1].prevResource
  <2>1. Inside(Outers(t, h), k) = Inside(Outers(stack, heap), k)
    BY <1>1, <1>4, <1>6, InsideKept
  <2>2. Inside(Outers(stack, heap), k) = IF k = n THEN resource ELSE stack[k + 1].prevResource
    BY <1>1 DEF ResourceInv
  <2>3. k # n => k + 1 \in 1 .. n
    OBVIOUS
  <2>. QED
    BY <1>5, <2>1, <2>2, <2>3
<1>. QED
  BY <1>2, <1>3, <1>4, <1>7, ResourceNow

LEMMA ResourcePushed ==
  ASSUME TypeInv, ResourceInv, ReadObject
  PROVE  ResourceInv'
<1>0. AtSlot /\ program' = program
      /\ resource' = IF Propagates(There) THEN MemResource(There) ELSE resource
  BY DEF ReadObject
<1>1. PICK n \in Nat \ {0} : n = Len(stack)
  BY <1>0, HereType
<1>2. PICK t : t = stack'
  OBVIOUS
<1>3. PICK h : h = heap'
  OBVIOUS
<1>4. Typed(h) /\ Extends(heap, h)
  BY <1>3, ReadObjectGoes
<1>5. PICK p \in DOMAIN h, id \in DOMAIN infos' :
        /\ stack' = Append(Moved, Frame(p, id, resource))
        /\ DOMAIN infos \subseteq DOMAIN infos'
  BY <1>3, ReadObjectGoes
<1>6. PICK is : is = infos'
  OBVIOUS
<1>7. id \in Int /\ resource \in Resources
  BY ReadObjectGoes DEF Leads, TypeInv
<1>8. /\ Len(t) = n + 1 /\ Found(t, is, h)
      /\ \A k \in 1 .. n : t[k] = Moved[k]
      /\ t[n + 1] = Frame(p, id, resource)
  BY <1>0, <1>1, <1>2, <1>4, <1>5, <1>6, <1>7, PushedFound
<1>9. /\ \A k \in 1 .. n - 1 : t[k] = stack[k]
      /\ \A k \in 1 .. n : t[k].prevResource = stack[k].prevResource /\ t[k].at = stack[k].at
      /\ t[n].slot = Here[2] + 1 /\ t[n].at = Here[1]
  BY <1>0, <1>1, <1>8, MovedType, HereType DEF Here
<1>10. PICK i : i = Here[2]
  OBVIOUS
<1>11. i \in 1 .. Len(heap[Here[1]].to) /\ Here[1] \in DOMAIN heap /\ Here = << Here[1], i >>
  BY <1>0, <1>10, HereType
<1>12. (i + 1) - 1 = i
  BY <1>11
<1>13. Outers(t, h)[n] = There
  <2>1. Outers(t, h)[n] = Declared(h, << t[n].at, t[n].slot - 1 >>)
    BY <1>8 DEF Outers
  <2>2. << t[n].at, t[n].slot - 1 >> = << Here[1], i >>
    BY <1>9, <1>10, <1>12
  <2>3. Declared(h, << Here[1], i >>) = Declared(heap, << Here[1], i >>)
    BY <1>4, <1>11, SlotStays DEF TypeInv
  <2>. QED
    BY <1>11, <2>1, <2>2, <2>3 DEF There
<1>14. ASSUME NEW k \in 1 .. n
       PROVE  Inside(Outers(t, h), k) = Inside(Outers(stack, heap), k)
  <2>1. n \in 1 .. Len(stack) /\ n <= Len(t) /\ Len(t) \in Nat
    BY <1>1, <1>8
  <2>2. \A j \in 1 .. n - 1 : t[j].at = stack[j].at /\ t[j].slot = stack[j].slot
    BY <1>9
  <2>. QED
    BY <1>4, <2>1, <2>2, InsideKept
<1>15. ASSUME NEW k \in 1 .. n - 1
       PROVE  Inside(Outers(t, h), k) = t[k + 1].prevResource
  <2>1. k \in 1 .. n /\ k + 1 \in 1 .. n /\ k # n
    OBVIOUS
  <2>2. Inside(Outers(stack, heap), k) = stack[k + 1].prevResource
    BY <1>1, <2>1 DEF ResourceInv
  <2>. QED
    BY <1>9, <1>14, <2>1, <2>2
<1>16. Inside(Outers(t, h), n) = resource
  BY <1>1, <1>14 DEF ResourceInv
<1>17. t[n + 1].prevResource = resource
  BY <1>8 DEF Frame
<1>18. Inside(Outers(t, h), n + 1) = resource'
  <2>1. Inside(Outers(t, h), n + 1) =
          IF Propagates(There) THEN There.resource ELSE Inside(Outers(t, h), n)
    BY <1>13, InsideNext
  <2>2. Propagates(There) => MemResource(There) = There.resource
    BY DEF Propagates, MemResource
  <2>. QED
    BY <1>0, <1>16, <2>1, <2>2
<1>19. ASSUME NEW k \in 1 .. n + 1
       PROVE  Inside(Outers(t, h), k) = IF k = n + 1 THEN resource' ELSE t[k + 1].prevResource
  <2>1. \/ k \in 1 .. n - 1 /\ k # n + 1
        \/ k = n /\ k # n + 1
        \/ k = n + 1
    OBVIOUS
  <2>. QED
    BY <1>15, <1>16, <1>17, <1>18, <2>1
<1>. QED
  BY <1>0, <1>2, <1>3, <1>8, <1>19, ResourceNow

LEMMA ResourceReturned ==
  ASSUME TypeInv, ResourceInv, ReadReturn
  PROVE  ResourceInv'
<1>1. PICK n : n = Len(stack)
  OBVIOUS
<1>2. PICK t : t = stack'
  OBVIOUS
<1>3. PICK h : h = heap'
  OBVIOUS
<1>4. n \in Nat /\ n > 1 /\ Last(stack) = stack[n] /\ Len(t) = n - 1 /\ \A k \in 1 .. n - 1 : t[k] = stack[k]
  BY <1>1, <1>2, ReturnType
<1>5. PICK m \in Nat \ {0} : m = n - 1
  BY <1>4
<1>6. n = m + 1 /\ m \in 1 .. Len(stack) /\ Len(t) = m /\ m \in 1 .. Len(stack) - 1
  BY <1>1, <1>4, <1>5
<1>7. Typed(h) /\ Extends(heap, h)
  BY <1>3, ReadReturnGoes DEF GoesOn
<1>8. PICK spec : spec = Declared(heap, << stack[m].at, stack[m].slot - 1 >>)
  OBVIOUS
<1>9. Outers(stack, heap)[m] = spec
  BY <1>6, <1>8 DEF Outers
<1>10. program' = program /\ resource' = IF Propagates(spec) THEN stack[n].prevResource ELSE resource
  BY <1>1, <1>4, <1>5, <1>8 DEF ReadReturn, Restored
<1>11. Inside(Outers(stack, heap), m) = stack[n].prevResource
  <2>1. m # Len(stack) /\ m + 1 = n
    BY <1>1, <1>6
  <2>. QED
    BY <1>6, <2>1 DEF ResourceInv
<1>12. Inside(Outers(stack, heap), n) = resource
  BY <1>1, <1>4 DEF ResourceInv
<1>13. ~Propagates(spec) => Inside(Outers(stack, heap), m) = Inside(Outers(stack, heap), n)
  BY <1>6, <1>9, InsideNext
<1>14. \A k \in 1 .. m : Inside(Outers(t, h), k) = Inside(Outers(stack, heap), k)
  BY <1>4, <1>5, <1>6, <1>7, InsideKept
<1>15. ASSUME NEW k \in 1 .. m
       PROVE  Inside(Outers(t, h), k) = IF k = m THEN resource' ELSE t[k + 1].prevResource
  <2>1. CASE k = m
    BY <1>10, <1>11, <1>12, <1>13, <1>14, <2>1
  <2>2. CASE k # m
    <3>1. k + 1 \in 1 .. n - 1 /\ k \in 1 .. Len(stack) /\ k # Len(stack)
      BY <1>1, <1>6, <2>2
    <3>2. Inside(Outers(stack, heap), k) = stack[k + 1].prevResource
      BY <3>1 DEF ResourceInv
    <3>. QED
      BY <1>4, <1>14, <2>2, <3>1, <3>2
  <2>. QED
    BY <2>1, <2>2
<1>. QED
  BY <1>2, <1>3, <1>6, <1>10, <1>15, ResourceNow

LEMMA ResourceNext ==
  ASSUME TypeInv, ResourceInv, [Next]_vars
  PROVE  ResourceInv'
<1>1. CASE ReadNull
  BY <1>1, ReadNullGoes, ResourceMoved DEF ReadNull
<1>2. CASE ReadObserver
  BY <1>2, ReadObserverGoes, ResourceMoved DEF ReadObserver
<1>3. CASE ReadKnown
  BY <1>3, ReadKnownGoes, ResourceMoved DEF ReadKnown
<1>4. CASE ReadUnknownType
  BY <1>4, ReadUnknownTypeGoes, ResourceMoved DEF ReadUnknownType
<1>5. CASE ReadObject
  BY <1>5, ResourcePushed
<1>6. CASE ThrowBadWeakPtr
  <2>1. program' = program /\ stack' = << >>
    BY <1>6 DEF ThrowBadWeakPtr
  <2>. QED
    BY <2>1, ResourceNow
<1>7. CASE ReadReturn
  BY <1>7, ResourceReturned
<1>8. CASE EndOfData
  BY <1>8, ResourceNow DEF EndOfData, ResourceInv
<1>9. CASE Finish
  <2>1. program' = program /\ stack' = << >>
    BY <1>9 DEF Finish
  <2>. QED
    BY <2>1, ResourceNow
<1>10. CASE ClearSharedState
  <2>1. program' = program /\ resource' = resource /\ stack' = stack /\ heap' = Sweep(heap, {}, {}, << >>)
    BY <1>10 DEF ClearSharedState
  <2>2. PICK h : h = heap'
    OBVIOUS
  <2>3. Typed(h) /\ Extends(heap, h)
    BY <2>1, <2>2, SweepType DEF TypeInv
  <2>4. ASSUME NEW k \in 1 .. Len(stack)
        PROVE  Inside(Outers(stack, h), k) = IF k = Len(stack) THEN resource ELSE stack[k + 1].prevResource
    <3>1. Len(stack) \in Nat /\ Len(stack) \in 1 .. Len(stack)
      BY DEF TypeInv
    <3>2. Inside(Outers(stack, h), k) = Inside(Outers(stack, heap), k)
      BY <2>3, <3>1, InsideKept
    <3>. QED
      BY <3>2 DEF ResourceInv
  <2>. QED
    BY <2>1, <2>2, <2>4, ResourceNow
<1>11. CASE NextDocument
  <2>1. /\ program' = program /\ resource' = program.context
        /\ stack' = << Frame(Root, 0, NewDelete) >>
    BY <1>11 DEF NextDocument
  <2>2. Len(stack') = 1
    BY <2>1
  <2>3. \A k \in 1 .. 1 : k = 1
    OBVIOUS
  <2>4. Inside(Outers(stack', heap'), 1) = program.context
    BY InsideFirst
  <2>. QED
    BY <2>1, <2>2, <2>3, <2>4, ResourceNow
<1>12. CASE UNCHANGED vars
  BY <1>12, ResourceNow DEF vars, ResourceInv
<1>. QED
  BY <1>1, <1>2, <1>3, <1>4, <1>5, <1>6, <1>7, <1>8, <1>9, <1>10, <1>11, <1>12 DEF Next

LEMMA ResourceInit == Init => ResourceInv
<1>. SUFFICES ASSUME Init PROVE ResourceInv
  OBVIOUS
<1>1. Len(stack) = 1 /\ resource = program.context
  BY DEF Init
<1>2. \A k \in 1 .. 1 : k = 1
  OBVIOUS
<1>. QED
  BY <1>1, <1>2, InsideFirst DEF ResourceInv

-----------------------------------------------------------------------------
\* Only ReadObject creates objects.
LEMMA OnlyReadObjectCreates ==
  ASSUME TypeInv, [Next]_vars, ~ReadObject
  PROVE  DOMAIN heap' = DOMAIN heap
<1>1. CASE ReadNull
  BY <1>1, ReadNullGoes DEF GoesOn
<1>2. CASE ReadObserver
  BY <1>2, ReadObserverGoes DEF GoesOn
<1>3. CASE ReadKnown
  BY <1>3, ReadKnownGoes DEF GoesOn
<1>4. CASE ReadUnknownType
  BY <1>4, ReadUnknownTypeGoes DEF GoesOn
<1>5. CASE ReadReturn
  BY <1>5, ReadReturnGoes DEF GoesOn
<1>6. CASE ClearSharedState
  BY <1>6, Zenon DEF ClearSharedState, Sweep, Bury
<1>7. CASE ThrowBadWeakPtr \/ EndOfData \/ Finish \/ NextDocument \/ UNCHANGED vars
  BY <1>7 DEF ThrowBadWeakPtr, EndOfData, Finish, NextDocument, vars
<1>. QED
  BY <1>1, <1>2, <1>3, <1>4, <1>5, <1>6, <1>7 DEF Next

\* The resource at hand is the documented one.
LEMMA AtHandIsDocumented ==
  ASSUME TypeInv, ResourceInv, AtSlot
  PROVE  MemResource(There) = Documented(stack, There)
<1>1. PICK n \in Nat \ {0} : n = Len(stack)
  BY HereType
<1>2. PICK f : f = Outers(stack, heap)
  OBVIOUS
<1>3. n \in 1 .. n
  OBVIOUS
<1>4. Inside(f, n) = resource
  BY <1>1, <1>2, <1>3 DEF ResourceInv
<1>. DEFINE outer(k) == Declared(heap, << stack[k].at, stack[k].slot - 1 >>)
            P == { k \in 1 .. n - 1 : outer(k).resource # NewDelete /\ outer(k).propagate }
<1>5. \A k \in 1 .. n - 1 : f[k] = outer(k)
  BY <1>1, <1>2 DEF Outers
<1>6. P = Propagating(f, n)
  BY <1>5 DEF Propagating, Propagates
<1>7. P # {} => Innermost(P) \in P
  <2>1. P \subseteq 1 .. n - 1
    OBVIOUS
  <2>. HIDE DEF P
  <2>. QED
    BY <2>1, GreatestNumber, Zenon DEF Innermost
<1>8. P # {} => f[Innermost(P)] = outer(Innermost(P))
  BY <1>5, <1>7, Zenon
<1>9. Documented(stack, There) =
        IF There.resource # NewDelete THEN There.resource
        ELSE IF P = {} THEN program.context
        ELSE outer(CHOOSE k \in P : \A j \in P : j <= k).resource
  BY <1>1 DEF Documented
<1>. HIDE DEF P
<1>10. Documented(stack, There) =
         IF There.resource # NewDelete THEN There.resource
         ELSE IF P = {} THEN program.context ELSE outer(Innermost(P)).resource
  BY <1>9 DEF Innermost
<1>. HIDE DEF outer
<1>11. Documented(stack, There) = IF There.resource # NewDelete THEN There.resource ELSE Inside(f, n)
  BY <1>6, <1>8, <1>10 DEF Inside
<1>. QED
  BY <1>4, <1>11 DEF MemResource

\* The objects and the infos have their types, pointers lead to objects, and
\* every frame leads to the next one, for all programs and all documents.
THEOREM TypeCorrect == Spec => []TypeInv
BY TypeInit, TypeNext, PTL DEF Spec

\* Whatever a document says, and however it ends: an object is allocated with
\* the resource that doc/design/pointers.md names for the pointer that creates
\* it, through every nesting of pointers that propagate theirs, and although
\* the extension keeps the one it replaced in a local variable.
THEOREM AllocationFollowsTheDeclarations == Spec => AllocatedAsDocumented
<1>. DEFINE New == \A p \in DOMAIN heap' \ DOMAIN heap : heap'[p].by = Documented(stack, There)
<1>1. Init => TypeInv /\ ResourceInv
  BY TypeInit, ResourceInit
<1>2. TypeInv /\ ResourceInv /\ [Next]_vars => TypeInv' /\ ResourceInv'
  BY TypeNext, ResourceNext
<1>3. TypeInv /\ ResourceInv /\ [Next]_vars => [New]_vars
  <2>. SUFFICES ASSUME TypeInv, ResourceInv, [Next]_vars PROVE New
    OBVIOUS
  <2>1. CASE ReadObject
    <3>1. AtSlot
      BY <2>1 DEF ReadObject
    <3>2. \A p \in DOMAIN heap' \ DOMAIN heap : heap'[p].by = MemResource(There)
      BY <2>1, ReadObjectGoes
    <3>. QED
      BY <3>1, <3>2, AtHandIsDocumented
  <2>2. CASE ~ReadObject
    BY <2>2, OnlyReadObjectCreates
  <2>. QED
    BY <2>1, <2>2
<1>. QED
  BY <1>1, <1>2, <1>3, PTL DEF Spec, AllocatedAsDocumented

-----------------------------------------------------------------------------
(***************************************************************************)
(* Which objects die with one that is released.                            *)
(***************************************************************************)
\* Pointer i of object p.
IsSlot(h, p, i) == p \in DOMAIN h /\ i \in 1 .. Len(h[p].to)
KindOf(h, p, i) == PointersOf(h[p].type)[i].kind

\* Induction over the rounds of a loop, with a set for what is to be shown.
LEMMA Induction ==
  ASSUME NEW n \in Nat, NEW K, 0 \in K,
         \A k \in 0 .. n - 1 : k \in K => k + 1 \in K
  PROVE  \A k \in 0 .. n : k \in K
<1>. SUFFICES ASSUME NEW m \in 0 .. n, m \notin K PROVE FALSE
  OBVIOUS
<1>. DEFINE T == { k \in 0 .. n : k \notin K }
<1>1. PICK t \in T : \A y \in T : t <= y
  <2>1. T \subseteq Nat /\ T # {}
    OBVIOUS
  <2>. HIDE DEF T
  <2>. QED
    BY <2>1, LeastNumber
<1>2. t - 1 \in 0 .. n - 1 /\ t = (t - 1) + 1
  OBVIOUS
<1>3. t - 1 \in K
  BY <1>1, <1>2
<1>. QED
  BY <1>1, <1>2, <1>3

LEMMA SlotsOfHeap ==
  ASSUME NEW h, Typed(h)
  PROVE  /\ \A p, i : IsSlot(h, p, i) => <<p, i>> \in SlotsOf(h)
         /\ \A s \in SlotsOf(h) : s = << s[1], s[2] >> /\ IsSlot(h, s[1], s[2])
         /\ \A p, i : Declared(h, <<p, i>>).kind = KindOf(h, p, i) /\ At(h, <<p, i>>) = h[p].to[i]
<1>1. \A p \in DOMAIN h : DOMAIN h[p].to = 1 .. Len(h[p].to)
  <2>1. \A p \in DOMAIN h : h[p].to \in Seq(Int)
    BY DEF Typed, Object
  <2>. QED
    BY <2>1
<1>2. \A p, i : IsSlot(h, p, i) => <<p, i>> \in SlotsOf(h)
  BY <1>1 DEF IsSlot, SlotsOf
<1>3. ASSUME NEW s \in SlotsOf(h) PROVE s = << s[1], s[2] >> /\ IsSlot(h, s[1], s[2])
  <2>1. PICK p \in DOMAIN h : s \in { <<p, i>> : i \in DOMAIN h[p].to }
    BY DEF SlotsOf
  <2>2. PICK i \in DOMAIN h[p].to : s = <<p, i>>
    BY <2>1
  <2>. QED
    BY <1>1, <2>2 DEF IsSlot
<1>4. \A p, i : <<p, i>>[1] = p /\ <<p, i>>[2] = i
  OBVIOUS
<1>5. \A p, i : Declared(h, <<p, i>>).kind = KindOf(h, p, i) /\ At(h, <<p, i>>) = h[p].to[i]
  BY <1>4 DEF Declared, At, KindOf
<1>. QED
  BY <1>2, <1>3, <1>5

\* Why an object dies when those of gone do.
OwnedBy(h, q, gone) ==
  \E p, i : IsSlot(h, p, i) /\ KindOf(h, p, i) = "Owner" /\ p \in gone /\ h[p].to[i] = q
Unshared(h, q, states, gone) ==
  /\ h[q].deleter # << >> /\ q \notin states
  /\ \A p, i : IsSlot(h, p, i) /\ KindOf(h, p, i) = "SharedOwner" /\ Lives(h, p) /\ p \notin gone
                 => h[p].to[i] # q

LEMMA DiesBy ==
  ASSUME NEW h, Typed(h), NEW states, NEW gone, NEW q \in DieNext(h, states, gone)
  PROVE  q \in DOMAIN h /\ Lives(h, q) /\ (OwnedBy(h, q, gone) \/ Unshared(h, q, states, gone))
<1>. DEFINE held(kind) == { s \in SlotsOf(h) : Declared(h, s).kind = kind }
            left == { At(h, s) : s \in { t \in held("SharedOwner") : Lives(h, t[1]) /\ t[1] \notin gone } }
<1>1. /\ q \in DOMAIN h /\ Lives(h, q)
      /\ \/ \E s \in held("Owner") : s[1] \in gone /\ At(h, s) = q
         \/ h[q].deleter # << >> /\ q \notin left \union states
  BY DEF DieNext
<1>2. CASE \E s \in held("Owner") : s[1] \in gone /\ At(h, s) = q
  <2>1. PICK s \in SlotsOf(h) : Declared(h, s).kind = "Owner" /\ s[1] \in gone /\ At(h, s) = q
    BY <1>2
  <2>2. s = << s[1], s[2] >> /\ IsSlot(h, s[1], s[2])
    BY SlotsOfHeap
  <2>3. KindOf(h, s[1], s[2]) = "Owner" /\ h[s[1]].to[s[2]] = q
    BY <2>1, <2>2, SlotsOfHeap
  <2>4. OwnedBy(h, q, gone)
    BY <2>1, <2>2, <2>3 DEF OwnedBy
  <2>. QED
    BY <1>1, <2>4
<1>3. CASE h[q].deleter # << >> /\ q \notin left \union states
  <2>1. ASSUME NEW p, NEW i, IsSlot(h, p, i), KindOf(h, p, i) = "SharedOwner", Lives(h, p), p \notin gone
        PROVE  h[p].to[i] # q
    <3>1. <<p, i>> \in SlotsOf(h) /\ Declared(h, <<p, i>>).kind = "SharedOwner" /\ At(h, <<p, i>>) = h[p].to[i]
      BY <2>1, SlotsOfHeap
    <3>2. <<p, i>> \in held("SharedOwner")
      BY <3>1
    <3>3. <<p, i>>[1] = p
      OBVIOUS
    <3>4. h[p].to[i] \in left
      BY <2>1, <3>1, <3>2, <3>3
    <3>. QED
      BY <1>3, <3>4
  <2>2. Unshared(h, q, states, gone)
    BY <1>3, <2>1 DEF Unshared
  <2>. QED
    BY <1>1, <2>2
<1>. QED
  BY <1>1, <1>2, <1>3

\* The rounds in which they die, and the objects that have died by each.
Rounds(h, states, first, round) ==
  LET n == Cardinality(DOMAIN h)
  IN  /\ n \in Nat /\ round[0] = first /\ Dying(h, states, first) = round[n]
      /\ \A k \in 0 .. n - 1 : round[k + 1] = round[k] \union DieNext(h, states, round[k])

LEMMA DyingRounds ==
  ASSUME NEW h, Typed(h), NEW states, NEW first
  PROVE  \E round : Rounds(h, states, first, round)
<1>1. PICK n \in Nat : n = Cardinality(DOMAIN h)
  <2>1. PICK n \in Nat \ {0} : DOMAIN h = 0 .. n - 1
    BY DEF Typed
  <2>. QED
    BY <2>1, FS_Interval
<1>. DEFINE Step(gone) == gone \union DieNext(h, states, gone)
            Upto(m) == \E f : f = [ k \in 0 .. m |-> IF k = 0 THEN first ELSE Step(f[k - 1]) ]
            K == { m \in 0 .. n : Upto(m) }
<1>2. Upto(0)
  <2>1. PICK f : f = [ k \in 0 .. 0 |-> first ]
    OBVIOUS
  <2>2. f = [ k \in 0 .. 0 |-> IF k = 0 THEN first ELSE Step(f[k - 1]) ]
    <3>. HIDE DEF Step
    <3>. QED
      BY <2>1
  <2>. QED
    BY <2>2
<1>3. ASSUME NEW m \in 0 .. n - 1, Upto(m)
      PROVE  Upto(m + 1)
  <2>1. PICK f : f = [ k \in 0 .. m |-> IF k = 0 THEN first ELSE Step(f[k - 1]) ]
    BY <1>3
  <2>. HIDE DEF Step
  <2>2. PICK g : g = [ k \in 0 .. m + 1 |-> IF k = m + 1 THEN Step(f[m]) ELSE f[k] ]
    OBVIOUS
  <2>3. ASSUME NEW k \in 0 .. m + 1
        PROVE  g[k] = IF k = 0 THEN first ELSE Step(g[k - 1])
    <3>1. CASE k = 0
      BY <2>1, <2>2, <3>1
    <3>2. CASE k = m + 1
      <4>1. k - 1 = m /\ k # 0 /\ m # m + 1 /\ m \in 0 .. m + 1
        BY <3>2
      <4>. QED
        BY <2>2, <3>2, <4>1
    <3>3. CASE k # 0 /\ k # m + 1
      <4>1. k \in 0 .. m /\ k - 1 \in 0 .. m + 1 /\ k - 1 # m + 1
        BY <3>3
      <4>2. g[k] = f[k] /\ g[k - 1] = f[k - 1]
        BY <2>2, <3>3, <4>1
      <4>. QED
        BY <2>1, <3>3, <4>1, <4>2
    <3>. QED
      BY <3>1, <3>2, <3>3
  <2>4. g = [ k \in 0 .. m + 1 |-> IF k = 0 THEN first ELSE Step(g[k - 1]) ]
    <3>1. g = [ k \in 0 .. m + 1 |-> g[k] ]
      BY <2>2
    <3>. QED
      BY <2>3, <3>1
  <2>. QED
    BY <2>4 DEF Step
<1>. HIDE DEF Upto
<1>4. 0 \in K /\ \A m \in 0 .. n - 1 : m \in K => m + 1 \in K
  BY <1>2, <1>3
<1>. HIDE DEF K
<1>5. n \in K
  BY <1>4, Induction
<1>6. Upto(n)
  BY <1>5 DEF K
<1>. HIDE DEF Step
<1>7. \E f : f = [ k \in 0 .. n |-> IF k = 0 THEN first ELSE Step(f[k - 1]) ]
  BY <1>6 DEF Upto
<1>. DEFINE round == CHOOSE f : f = [ k \in 0 .. n |-> IF k = 0 THEN first ELSE Step(f[k - 1]) ]
<1>8. round = [ k \in 0 .. n |-> IF k = 0 THEN first ELSE Step(round[k - 1]) ]
  BY <1>7
<1>9. Dying(h, states, first) = round[n]
  BY <1>1 DEF Dying, Step
<1>. HIDE DEF round
<1>10. round[0] = first
  BY <1>8
<1>11. ASSUME NEW k \in 0 .. n - 1 PROVE round[k + 1] = Step(round[k])
  <2>1. k + 1 \in 0 .. n /\ k + 1 # 0 /\ (k + 1) - 1 = k
    OBVIOUS
  <2>. QED
    BY <1>8, <2>1
<1>12. Rounds(h, states, first, round)
  BY <1>1, <1>9, <1>10, <1>11 DEF Rounds, Step
<1>. QED
  BY <1>12

\* What dies was released first, or lived and lost who held it.
LEMMA DyingWhy ==
  ASSUME NEW h, Typed(h), NEW states, NEW first, NEW q \in Dying(h, states, first), q \notin first
  PROVE  /\ q \in DOMAIN h /\ Lives(h, q)
         /\ \/ OwnedBy(h, q, Dying(h, states, first))
            \/ \E gone \in SUBSET Dying(h, states, first) : Unshared(h, q, states, gone)
<1>1. PICK round : Rounds(h, states, first, round)
  BY DyingRounds
<1>2. PICK n \in Nat : n = Cardinality(DOMAIN h)
  BY <1>1 DEF Rounds
<1>3. /\ round[0] = first /\ Dying(h, states, first) = round[n]
      /\ \A k \in 0 .. n - 1 : round[k + 1] = round[k] \union DieNext(h, states, round[k])
  BY <1>1, <1>2 DEF Rounds
<1>. DEFINE T == { k \in 0 .. n : q \in round[k] }
<1>4. PICK t \in T : \A y \in T : t <= y
  <2>1. T \subseteq Nat /\ n \in T
    BY <1>3
  <2>. HIDE DEF T
  <2>. QED
    BY <2>1, LeastNumber
<1>5. t # 0 /\ t - 1 \in 0 .. n - 1 /\ (t - 1) + 1 = t /\ t - 1 \notin T /\ t - 1 \in 0 .. n
  BY <1>3, <1>4
<1>6. PICK gone : gone = round[t - 1]
  OBVIOUS
<1>7. q \in DieNext(h, states, gone)
  BY <1>3, <1>4, <1>5, <1>6
<1>8. gone \subseteq round[n]
  <2>. DEFINE K == { j \in 0 .. n : j < t - 1 \/ gone \subseteq round[j] }
  <2>1. 0 \in K
    BY <1>5, <1>6
  <2>2. ASSUME NEW j \in 0 .. n - 1, j \in K PROVE j + 1 \in K
    <3>1. CASE j + 1 < t - 1
      BY <3>1
    <3>2. CASE j + 1 = t - 1
      BY <1>6, <3>2
    <3>3. CASE j + 1 > t - 1
      <4>1. gone \subseteq round[j]
        BY <1>5, <2>2, <3>3
      <4>. QED
        BY <1>3, <4>1
    <3>. QED
      BY <1>5, <3>1, <3>2, <3>3
  <2>. HIDE DEF K
  <2>3. n \in K
    BY <2>1, <2>2, Induction
  <2>. QED
    BY <1>5, <2>3 DEF K
<1>9. q \in DOMAIN h /\ Lives(h, q) /\ (OwnedBy(h, q, gone) \/ Unshared(h, q, states, gone))
  BY <1>7, DiesBy
<1>10. OwnedBy(h, q, gone) => OwnedBy(h, q, round[n])
  BY <1>8 DEF OwnedBy
<1>. QED
  BY <1>3, <1>8, <1>9, <1>10

\* Objects of which none is released first, and that only each other can
\* take along, do not die.
LEMMA DyingSpares ==
  ASSUME NEW h, Typed(h), NEW states, NEW first, NEW X, X \intersect first = {},
         \A q \in X : \A gone : X \intersect gone = {} =>
             ~ OwnedBy(h, q, gone) /\ ~ Unshared(h, q, states, gone)
  PROVE  X \intersect Dying(h, states, first) = {}
<1>1. PICK round : Rounds(h, states, first, round)
  BY DyingRounds
<1>2. PICK n \in Nat : n = Cardinality(DOMAIN h)
  BY <1>1 DEF Rounds
<1>3. /\ round[0] = first /\ Dying(h, states, first) = round[n]
      /\ \A k \in 0 .. n - 1 : round[k + 1] = round[k] \union DieNext(h, states, round[k])
  BY <1>1, <1>2 DEF Rounds
<1>. DEFINE K == { k \in 0 .. n : X \intersect round[k] = {} }
<1>4. 0 \in K
  BY <1>3
<1>5. ASSUME NEW k \in 0 .. n - 1, k \in K PROVE k + 1 \in K
  <2>1. PICK gone : gone = round[k]
    OBVIOUS
  <2>2. X \intersect gone = {}
    BY <1>5, <2>1
  <2>3. \A q \in X : q \notin DieNext(h, states, gone)
    BY <2>2, DiesBy
  <2>4. round[k + 1] = gone \union DieNext(h, states, gone)
    BY <1>3, <2>1
  <2>. QED
    BY <2>2, <2>3, <2>4
<1>. HIDE DEF K
<1>6. n \in K
  BY <1>4, <1>5, Induction
<1>. QED
  BY <1>3, <1>6 DEF K

-----------------------------------------------------------------------------
(***************************************************************************)
(* What the operations on the heap do to an object's life and pointers.    *)
(***************************************************************************)
\* w is the object o, but for where its pointers lead.
SameObject(o, w) ==
  /\ w.type = o.type /\ w.by = o.by /\ w.deleter = o.deleter /\ w.released = o.released
  /\ Len(w.to) = Len(o.to)

\* Pointer i of p is set to q.
Sets(h, g, p, i, q) ==
  /\ DOMAIN g = DOMAIN h
  /\ \A r \in DOMAIN h : SameObject(h[r], g[r])
  /\ \A r, j : IsSlot(h, r, j) => g[r].to[j] = IF r = p /\ j = i THEN q ELSE h[r].to[j]

\* Some observers are set.
Links(h, g) ==
  /\ DOMAIN g = DOMAIN h
  /\ \A r \in DOMAIN h : SameObject(h[r], g[r])
  /\ \A r, j : IsSlot(h, r, j) /\ KindOf(h, r, j) # "Observer" => g[r].to[j] = h[r].to[j]

\* Pointer i of p is set to a new object n.
Makes(h, g, p, i, n, type, by) ==
  /\ n \notin DOMAIN h /\ DOMAIN g = DOMAIN h \union {n}
  /\ \A r \in DOMAIN h : SameObject(h[r], g[r])
  /\ \A r, j : IsSlot(h, r, j) => g[r].to[j] = IF r = p /\ j = i THEN n ELSE h[r].to[j]
  /\ g[n].type = type /\ g[n].by = by /\ g[n].released = << >>
  /\ g[n].deleter = IF KindOf(h, p, i) \in {"SharedOwner", "SharedObserver"} THEN << by, type >> ELSE << >>
  /\ \A j : IsSlot(g, n, j) => g[n].to[j] = Null

\* The objects of gone are released.
Way1(o) == IF o.deleter # << >> THEN o.deleter ELSE << o.by, o.type >>
Buries(h, g, gone, first, how) ==
  /\ DOMAIN g = DOMAIN h
  /\ \A r \in DOMAIN h : /\ g[r].type = h[r].type /\ g[r].by = h[r].by /\ g[r].deleter = h[r].deleter
                         /\ Len(g[r].to) = Len(h[r].to)
                         /\ g[r].released = IF r \notin gone THEN h[r].released
                                            ELSE Append(h[r].released, IF r \in first THEN how ELSE Way1(h[r]))
  /\ \A r, j : IsSlot(h, r, j) =>
       g[r].to[j] = IF h[r].to[j] \in gone /\ KindOf(h, r, j) = "SharedObserver" THEN Null ELSE h[r].to[j]

LEMMA ObjectFields ==
  ASSUME NEW h, Typed(h), NEW p \in DOMAIN h
  PROVE  /\ h[p] \in Object /\ h[p].to \in Seq(Int) /\ h[p].released \in Seq(Way)
         /\ h[p].deleter \in {<< >>} \union Way /\ h[p].by \in Resources
         /\ h[p].type \in Types \union {"Root"}
BY DEF Typed, Object

LEMMA AssignSets ==
  ASSUME program \in Programs, NEW h, Typed(h), NEW p, NEW i, IsSlot(h, p, i),
         NEW q \in DOMAIN h \union {Null}
  PROVE  Sets(h, Assign(h, <<p, i>>, q), p, i, q)
<1>1. p \in DOMAIN h /\ i \in 1 .. Len(h[p].to)
  BY DEF IsSlot
<1>2. PICK f : f = [ h[p].to EXCEPT ![i] = q ]
  OBVIOUS
<1>3. PICK o : o = [ h[p] EXCEPT !.to = f ]
  OBVIOUS
<1>4. PICK g : g = [ h EXCEPT ![p] = o ]
  OBVIOUS
<1>5. Assign(h, <<p, i>>, q) = g
  BY <1>2, <1>3, <1>4 DEF Assign
<1>6. q \in Int /\ h[p] \in Object /\ h[p].to \in Seq(Int) /\ h \in [ DOMAIN h -> Object ]
  BY <1>1, ObjectFields, ObjectsAreNumbers DEF Typed
<1>7. Len(f) = Len(h[p].to) /\ \A j \in 1 .. Len(h[p].to) : f[j] = IF j = i THEN q ELSE h[p].to[j]
  BY <1>1, <1>2, <1>6
<1>8. SameObject(h[p], o) /\ o.to = f
  BY <1>3, <1>6, <1>7 DEF SameObject, Object
<1>9. DOMAIN g = DOMAIN h /\ g[p] = o /\ \A r \in DOMAIN h \ {p} : g[r] = h[r]
  BY <1>1, <1>4, <1>6
<1>10. \A r \in DOMAIN h : SameObject(h[r], g[r])
  <2>1. \A r \in DOMAIN h \ {p} : SameObject(h[r], g[r])
    BY <1>9 DEF SameObject
  <2>. QED
    BY <1>8, <1>9, <2>1
<1>11. ASSUME NEW r, NEW j, IsSlot(h, r, j)
       PROVE  g[r].to[j] = IF r = p /\ j = i THEN q ELSE h[r].to[j]
  <2>1. r \in DOMAIN h /\ j \in 1 .. Len(h[r].to)
    BY <1>11 DEF IsSlot
  <2>2. CASE r = p
    BY <1>7, <1>8, <1>9, <2>1, <2>2
  <2>3. CASE r # p
    BY <1>9, <2>1, <2>3
  <2>. QED
    BY <2>2, <2>3
<1>. QED
  BY <1>5, <1>9, <1>10, <1>11 DEF Sets

\* The pointers in the list are observers.
Waits(h, info) ==
  \A s \in info.observers : \E p, i : s = <<p, i>> /\ IsSlot(h, p, i) /\ KindOf(h, p, i) = "Observer"

LEMMA LinkedLinks ==
  ASSUME NEW h, Typed(h), NEW info, Waits(h, info), NEW q
  PROVE  Links(h, Linked(h, info, q))
<1>. DEFINE F(r) == [ i \in DOMAIN h[r].to |-> IF <<r, i>> \in info.observers THEN q ELSE h[r].to[i] ]
<1>1. PICK g : g = Linked(h, info, q)
  OBVIOUS
<1>2. DOMAIN g = DOMAIN h /\ \A r \in DOMAIN h : g[r] = [ h[r] EXCEPT !.to = F(r) ]
  BY <1>1 DEF Linked
<1>3. ASSUME NEW r \in DOMAIN h
      PROVE  /\ SameObject(h[r], g[r])
             /\ \A j \in 1 .. Len(h[r].to) : KindOf(h, r, j) # "Observer" => g[r].to[j] = h[r].to[j]
  <2>1. h[r] \in Object /\ h[r].to \in Seq(Int)
    BY ObjectFields
  <2>2. DOMAIN h[r].to = 1 .. Len(h[r].to) /\ Len(h[r].to) \in Nat
    BY <2>1
  <2>3. DOMAIN F(r) = 1 .. Len(h[r].to)
    BY <2>2
  <2>4. Len(F(r)) = Len(h[r].to)
    BY <2>2, <2>3
  <2>5. ASSUME NEW j \in 1 .. Len(h[r].to), KindOf(h, r, j) # "Observer"
        PROVE  F(r)[j] = h[r].to[j]
    <3>1. <<r, j>> \notin info.observers
      <4>1. ASSUME <<r, j>> \in info.observers PROVE FALSE
        <5>1. PICK p, i : <<r, j>> = <<p, i>> /\ KindOf(h, p, i) = "Observer"
          BY <4>1 DEF Waits
        <5>2. r = p /\ j = i
          BY <5>1
        <5>. QED
          BY <2>5, <5>1, <5>2
      <4>. QED
        BY <4>1
    <3>. QED
      BY <2>2, <3>1
  <2>. HIDE DEF F
  <2>6. g[r].to = F(r) /\ g[r].type = h[r].type /\ g[r].by = h[r].by /\ g[r].deleter = h[r].deleter
        /\ g[r].released = h[r].released
    BY <1>2, <2>1 DEF Object
  <2>. QED
    BY <2>4, <2>5, <2>6 DEF SameObject
<1>4. \A r, j : IsSlot(h, r, j) /\ KindOf(h, r, j) # "Observer" => g[r].to[j] = h[r].to[j]
  BY <1>3 DEF IsSlot
<1>. QED
  BY <1>1, <1>2, <1>3, <1>4 DEF Links

LEMMA CreatedMakes ==
  ASSUME program \in Programs, NEW h, Typed(h), NEW p, NEW i, IsSlot(h, p, i),
         NEW t \in Types, NEW by \in Resources
  PROVE  \E n : /\ Makes(h, Created(h, <<p, i>>, t, by), p, i, n, t, by)
                /\ Created(h, <<p, i>>, t, by)[p].to[i] = n
<1>1. PICK n \in Nat \ {0} : DOMAIN h = 0 .. n - 1
  BY DEF Typed
<1>2. Cardinality(DOMAIN h) = n /\ n \notin DOMAIN h
  BY <1>1, FS_Interval
<1>3. PICK s : s = <<p, i>>
  OBVIOUS
<1>4. PICK kind : kind = KindOf(h, p, i)
  OBVIOUS
<1>5. IsShared(Declared(h, s)) <=> kind \in {"SharedOwner", "SharedObserver"}
  BY <1>3, <1>4, SlotsOfHeap DEF IsShared
<1>6. PICK b : b = Assign(h, <<p, i>>, n)
  OBVIOUS
<1>7. PICK new : new = IF IsShared(Declared(h, s)) THEN SharedObject(t, by) ELSE NewObject(t, by)
  OBVIOUS
<1>8. PICK g : g = Created(h, s, t, by)
  OBVIOUS
<1>9. DOMAIN g = DOMAIN h \union {n} /\ g[n] = new /\ \A q \in DOMAIN h : g[q] = b[q]
  BY <1>2, <1>3, <1>6, <1>7, <1>8 DEF Created
<1>10. t \in Types \union {"Root"}
  OBVIOUS
<1>11. /\ NewObject(t, by).type = t /\ NewObject(t, by).by = by
       /\ NewObject(t, by).deleter = << >> /\ NewObject(t, by).released = << >>
  BY DEF NewObject
<1>12. /\ SharedObject(t, by).type = t /\ SharedObject(t, by).by = by
       /\ SharedObject(t, by).deleter = << by, t >> /\ SharedObject(t, by).released = << >>
       /\ SharedObject(t, by).to = NewObject(t, by).to
  BY DEF NewObject, SharedObject
<1>13. \A j \in 1 .. Len(NewObject(t, by).to) : NewObject(t, by).to[j] = Null
  BY <1>10, NewObjectType
<1>14. /\ new.type = t /\ new.by = by /\ new.released = << >> /\ new.to = NewObject(t, by).to
       /\ new.deleter = IF kind \in {"SharedOwner", "SharedObserver"} THEN << by, t >> ELSE << >>
  BY <1>5, <1>7, <1>11, <1>12
<1>15. \A j : IsSlot(g, n, j) => g[n].to[j] = Null
  BY <1>9, <1>13, <1>14 DEF IsSlot
\* As AssignSets, of a number that is no object yet.
<1>16. Sets(h, b, p, i, n)
  <2>1. p \in DOMAIN h /\ i \in 1 .. Len(h[p].to)
    BY DEF IsSlot
  <2>2. PICK f : f = [ h[p].to EXCEPT ![i] = n ]
    OBVIOUS
  <2>3. PICK o : o = [ h[p] EXCEPT !.to = f ]
    OBVIOUS
  <2>4. b = [ h EXCEPT ![p] = o ]
    BY <1>6, <2>2, <2>3 DEF Assign
  <2>5. n \in Int /\ h[p] \in Object /\ h[p].to \in Seq(Int) /\ h \in [ DOMAIN h -> Object ]
    <3>1. n \in Int /\ h \in [ DOMAIN h -> Object ]
      BY DEF Typed
    <3>. QED
      BY <2>1, <3>1, ObjectFields
  <2>6. Len(f) = Len(h[p].to) /\ \A j \in 1 .. Len(h[p].to) : f[j] = IF j = i THEN n ELSE h[p].to[j]
    BY <2>1, <2>2, <2>5
  <2>7. SameObject(h[p], o) /\ o.to = f
    BY <2>3, <2>5, <2>6 DEF SameObject, Object
  <2>8. DOMAIN b = DOMAIN h /\ b[p] = o /\ \A r \in DOMAIN h \ {p} : b[r] = h[r]
    BY <2>1, <2>4, <2>5
  <2>9. \A r \in DOMAIN h : SameObject(h[r], b[r])
    <3>1. \A r \in DOMAIN h \ {p} : SameObject(h[r], b[r])
      BY <2>8 DEF SameObject
    <3>. QED
      BY <2>7, <2>8, <3>1
  <2>10. ASSUME NEW r, NEW j, IsSlot(h, r, j)
         PROVE  b[r].to[j] = IF r = p /\ j = i THEN n ELSE h[r].to[j]
    <3>1. r \in DOMAIN h /\ j \in 1 .. Len(h[r].to)
      BY <2>10 DEF IsSlot
    <3>2. CASE r = p
      BY <2>6, <2>7, <2>8, <3>1, <3>2
    <3>3. CASE r # p
      BY <2>8, <3>1, <3>3
    <3>. QED
      BY <3>2, <3>3
  <2>. QED
    BY <2>8, <2>9, <2>10 DEF Sets
<1>17. \A r \in DOMAIN h : SameObject(h[r], g[r])
  BY <1>9, <1>16 DEF Sets
<1>18. \A r, j : IsSlot(h, r, j) => g[r].to[j] = IF r = p /\ j = i THEN n ELSE h[r].to[j]
  BY <1>9, <1>16 DEF Sets, IsSlot
<1>19. Makes(h, g, p, i, n, t, by)
  BY <1>2, <1>4, <1>9, <1>14, <1>15, <1>17, <1>18 DEF Makes
<1>. QED
  BY <1>3, <1>8, <1>18, <1>19

LEMMA BuryBuries ==
  ASSUME NEW h, Typed(h), NEW gone, NEW first, NEW how
  PROVE  Buries(h, Bury(h, gone, first, how), gone, first, how)
<1>. DEFINE R(p) == IF p \notin gone THEN h[p].released
                    ELSE Append(h[p].released, IF p \in first THEN how ELSE Way1(h[p]))
            F(p) == [ i \in DOMAIN h[p].to |->
                        IF h[p].to[i] \in gone /\ PointersOf(h[p].type)[i].kind = "SharedObserver"
                          THEN Null ELSE h[p].to[i] ]
<1>1. PICK g : g = Bury(h, gone, first, how)
  OBVIOUS
<1>2. DOMAIN g = DOMAIN h /\ \A p \in DOMAIN h : g[p] = [ h[p] EXCEPT !.released = R(p), !.to = F(p) ]
  BY <1>1, Zenon DEF Bury, Way1
<1>3. ASSUME NEW r \in DOMAIN h
      PROVE  /\ g[r].type = h[r].type /\ g[r].by = h[r].by /\ g[r].deleter = h[r].deleter
             /\ Len(g[r].to) = Len(h[r].to) /\ g[r].released = R(r)
             /\ \A j \in 1 .. Len(h[r].to) :
                  g[r].to[j] = IF h[r].to[j] \in gone /\ KindOf(h, r, j) = "SharedObserver"
                                 THEN Null ELSE h[r].to[j]
  <2>1. h[r] \in Object /\ h[r].to \in Seq(Int)
    BY ObjectFields
  <2>2. DOMAIN h[r].to = 1 .. Len(h[r].to) /\ Len(h[r].to) \in Nat
    BY <2>1
  <2>3. Len(F(r)) = Len(h[r].to)
    BY <2>2
  <2>4. \A j \in 1 .. Len(h[r].to) :
           F(r)[j] = IF h[r].to[j] \in gone /\ KindOf(h, r, j) = "SharedObserver"
                       THEN Null ELSE h[r].to[j]
    BY <2>2 DEF KindOf
  <2>. HIDE DEF F, R
  <2>5. g[r].to = F(r) /\ g[r].type = h[r].type /\ g[r].by = h[r].by /\ g[r].deleter = h[r].deleter
        /\ g[r].released = R(r)
    BY <1>2, <2>1, ZenonT(30) DEF Object
  <2>. QED
    BY <2>3, <2>4, <2>5
<1>4. \A r, j : IsSlot(h, r, j) =>
       g[r].to[j] = IF h[r].to[j] \in gone /\ KindOf(h, r, j) = "SharedObserver" THEN Null ELSE h[r].to[j]
  BY <1>3 DEF IsSlot
<1>5. Buries(h, g, gone, first, how)
  BY <1>2, <1>3, <1>4, Zenon DEF Buries
<1>. QED
  BY <1>1, <1>5

-----------------------------------------------------------------------------
(***************************************************************************)
(* Heaps in which no pointer that owns or shares an object dangles.        *)
(***************************************************************************)
\* What pointer i of p may hold.
Holds(h, p, i, q) ==
  /\ KindOf(h, p, i) = "Owner" => h[q].deleter = << >> /\ q # Root
  /\ KindOf(h, p, i) \in {"SharedOwner", "SharedObserver"} => h[q].deleter # << >>
  /\ KindOf(h, p, i) \in {"Owner", "SharedOwner"} /\ Lives(h, p) => Lives(h, q)
  /\ KindOf(h, p, i) = "SharedObserver" => Lives(h, q)

Kept(h) ==
  /\ Root \in DOMAIN h /\ Lives(h, Root) /\ h[Root].deleter = << >>
  /\ \A p, i : IsSlot(h, p, i) /\ h[p].to[i] # Null => Holds(h, p, i, h[p].to[i])
  /\ \A p, i, r, j : /\ IsSlot(h, p, i) /\ KindOf(h, p, i) = "Owner" /\ h[p].to[i] # Null
                     /\ IsSlot(h, r, j) /\ KindOf(h, r, j) = "Owner" /\ h[r].to[j] = h[p].to[i]
                     => p = r /\ i = j

\* Objects of X live, and are held by each other or by states.
HeldUp(X, h, states) ==
  /\ \A q \in X : q \in DOMAIN h /\ Lives(h, q)
  /\ \A q \in X : h[q].deleter = << >> /\ q # Root =>
       \E p, i : IsSlot(h, p, i) /\ KindOf(h, p, i) = "Owner" /\ h[p].to[i] = q /\ p \in X
  /\ \A q \in X : h[q].deleter # << >> /\ q \notin states =>
       \E p, i : IsSlot(h, p, i) /\ KindOf(h, p, i) = "SharedOwner" /\ h[p].to[i] = q /\ p \in X

\* They do not die with what is released.
LEMMA HeldUpStays ==
  ASSUME NEW h, Typed(h), Kept(h), NEW states, NEW first, NEW X, HeldUp(X, h, states),
         X \intersect first = {}
  PROVE  X \intersect Dying(h, states, first) = {}
<1>1. ASSUME NEW q \in X, NEW gone, X \intersect gone = {}
      PROVE  ~ OwnedBy(h, q, gone) /\ ~ Unshared(h, q, states, gone)
  <2>0. q \in DOMAIN h /\ q # Null
    BY ObjectsAreNumbers DEF HeldUp, Typed, Null
  <2>1. ASSUME OwnedBy(h, q, gone) PROVE FALSE
    <3>1. PICK p, i : IsSlot(h, p, i) /\ KindOf(h, p, i) = "Owner" /\ p \in gone /\ h[p].to[i] = q
      BY <2>1 DEF OwnedBy
    <3>2. h[q].deleter = << >> /\ q # Root
      BY <2>0, <3>1 DEF Kept, Holds
    <3>3. PICK r, j : IsSlot(h, r, j) /\ KindOf(h, r, j) = "Owner" /\ h[r].to[j] = q /\ r \in X
      BY <3>2 DEF HeldUp
    <3>4. p = r
      BY <2>0, <3>1, <3>3 DEF Kept
    <3>. QED
      BY <1>1, <3>1, <3>3, <3>4
  <2>2. ASSUME Unshared(h, q, states, gone) PROVE FALSE
    <3>1. h[q].deleter # << >> /\ q \notin states
      BY <2>2 DEF Unshared
    <3>2. PICK r, j : IsSlot(h, r, j) /\ KindOf(h, r, j) = "SharedOwner" /\ h[r].to[j] = q /\ r \in X
      BY <3>1 DEF HeldUp
    <3>3. Lives(h, r) /\ r \notin gone
      BY <1>1, <3>2 DEF HeldUp
    <3>. QED
      BY <2>2, <3>2, <3>3 DEF Unshared
  <2>. QED
    BY <2>1, <2>2
<1>. QED
  BY <1>1, DyingSpares

\* Nor does what a pointer of an object that lives on owns or shares, except
\* what is released itself.
LEMMA HeldStays ==
  ASSUME NEW h, Typed(h), Kept(h), NEW states, NEW first,
         NEW p, NEW i, IsSlot(h, p, i), KindOf(h, p, i) \in {"Owner", "SharedOwner"},
         Lives(h, p), p \notin Dying(h, states, first), h[p].to[i] # Null, h[p].to[i] \notin first
  PROVE  h[p].to[i] \notin Dying(h, states, first)
<1>. SUFFICES ASSUME h[p].to[i] \in Dying(h, states, first) PROVE FALSE
  OBVIOUS
<1>1. PICK q : q = h[p].to[i]
  OBVIOUS
<1>2. PICK D : D = Dying(h, states, first)
  OBVIOUS
<1>3. OwnedBy(h, q, D) \/ \E gone \in SUBSET D : Unshared(h, q, states, gone)
  BY <1>1, <1>2, DyingWhy
<1>4. CASE OwnedBy(h, q, D)
  <2>1. PICK r, j : IsSlot(h, r, j) /\ KindOf(h, r, j) = "Owner" /\ r \in D /\ h[r].to[j] = q
    BY <1>4 DEF OwnedBy
  <2>2. h[q].deleter = << >>
    BY <1>1, <2>1 DEF Kept, Holds
  <2>3. KindOf(h, p, i) = "Owner"
    BY <1>1, <2>2 DEF Kept, Holds
  <2>4. p = r
    BY <1>1, <2>1, <2>3 DEF Kept
  <2>. QED
    BY <1>2, <2>1, <2>4
<1>5. CASE \E gone \in SUBSET D : Unshared(h, q, states, gone)
  <2>1. PICK gone \in SUBSET D : Unshared(h, q, states, gone)
    BY <1>5
  <2>2. h[q].deleter # << >>
    BY <2>1 DEF Unshared
  <2>3. KindOf(h, p, i) = "SharedOwner"
    BY <1>1, <2>2 DEF Kept, Holds
  <2>. QED
    BY <1>1, <1>2, <2>1, <2>3 DEF Unshared
<1>. QED
  BY <1>3, <1>4, <1>5

\* A sweep releases some objects and changes no pointers but weak ones to
\* them.
Swept(h, g, D) ==
  /\ DOMAIN g = DOMAIN h
  /\ \A r \in DOMAIN h : /\ g[r].type = h[r].type /\ g[r].by = h[r].by /\ g[r].deleter = h[r].deleter
                         /\ Len(g[r].to) = Len(h[r].to)
                         /\ Lives(g, r) <=> Lives(h, r) /\ r \notin D
  /\ \A r, j : IsSlot(h, r, j) =>
       g[r].to[j] = IF h[r].to[j] \in D /\ KindOf(h, r, j) = "SharedObserver" THEN Null ELSE h[r].to[j]

LEMMA SweepSwept ==
  ASSUME NEW h, Typed(h), NEW states, NEW first, NEW how
  PROVE  Swept(h, Sweep(h, states, first, how), Dying(h, states, first))
<1>1. PICK D : D = Dying(h, states, first)
  OBVIOUS
<1>2. PICK g : g = Bury(h, D, first, how)
  OBVIOUS
<1>3. Buries(h, g, D, first, how)
  BY <1>2, BuryBuries
<1>4. ASSUME NEW r \in DOMAIN h PROVE Lives(g, r) <=> Lives(h, r) /\ r \notin D
  <2>1. h[r].released \in Seq(Way)
    BY ObjectFields
  <2>2. r \in DOMAIN g /\ g[r].released = IF r \notin D THEN h[r].released
                           ELSE Append(h[r].released, IF r \in first THEN how ELSE Way1(h[r]))
    BY <1>3 DEF Buries
  <2>3. \A x : Append(h[r].released, x) # << >>
    BY <2>1
  <2>. QED
    BY <2>2, <2>3 DEF Lives
<1>5. Swept(h, g, D)
  BY <1>3, <1>4 DEF Buries, Swept
<1>6. Sweep(h, states, first, how) = g
  BY <1>1, <1>2 DEF Sweep
<1>. QED
  BY <1>1, <1>5, <1>6

LEMMA SlotsSame ==
  ASSUME NEW h, NEW g, DOMAIN g = DOMAIN h,
         \A r \in DOMAIN h : g[r].type = h[r].type /\ Len(g[r].to) = Len(h[r].to)
  PROVE  \A r, j : /\ IsSlot(g, r, j) <=> IsSlot(h, r, j)
                   /\ IsSlot(h, r, j) => KindOf(g, r, j) = KindOf(h, r, j)
BY DEF IsSlot, KindOf

\* What is released is not owned by another pointer.
Loose(h, first) ==
  \A q \in first : /\ q # Null /\ q # Root
                   /\ \A p, i : IsSlot(h, p, i) /\ KindOf(h, p, i) \in {"Owner", "SharedOwner"}
                                  => h[p].to[i] # q

LEMMA SweepKept ==
  ASSUME NEW h, Typed(h), Kept(h), NEW states, NEW first, Loose(h, first), NEW how
  PROVE  Kept(Sweep(h, states, first, how))
<1>1. PICK D : D = Dying(h, states, first)
  OBVIOUS
<1>2. PICK g : g = Sweep(h, states, first, how)
  OBVIOUS
<1>3. Swept(h, g, D)
  BY <1>1, <1>2, SweepSwept
<1>4. \A r, j : /\ IsSlot(g, r, j) <=> IsSlot(h, r, j)
                /\ IsSlot(h, r, j) => KindOf(g, r, j) = KindOf(h, r, j)
  BY <1>3, SlotsSame DEF Swept
<1>5. Root \in DOMAIN g /\ Lives(g, Root) /\ g[Root].deleter = << >>
  <2>1. HeldUp({Root}, h, states)
    BY DEF HeldUp, Kept
  <2>2. {Root} \intersect first = {}
    BY DEF Loose
  <2>3. Root \notin D
    BY <1>1, <2>1, <2>2, HeldUpStays
  <2>. QED
    BY <1>3, <2>3 DEF Kept, Swept
<1>6. ASSUME NEW p, NEW i, IsSlot(g, p, i), g[p].to[i] # Null
      PROVE  Holds(g, p, i, g[p].to[i])
  <2>1. PICK q : q = g[p].to[i]
    OBVIOUS
  <2>2. IsSlot(h, p, i) /\ h[p].to[i] = q /\ KindOf(g, p, i) = KindOf(h, p, i)
        /\ ~ (q \in D /\ KindOf(h, p, i) = "SharedObserver")
    BY <1>3, <1>4, <1>6, <2>1 DEF Swept
  <2>3. p \in DOMAIN h /\ q \in DOMAIN h
    BY <1>6, <2>1, <2>2 DEF IsSlot, Typed
  <2>4. Holds(h, p, i, q)
    BY <1>6, <2>1, <2>2 DEF Kept
  <2>5. /\ Lives(g, p) <=> Lives(h, p) /\ p \notin D
        /\ Lives(g, q) <=> Lives(h, q) /\ q \notin D
        /\ g[q].deleter = h[q].deleter
    BY <1>3, <2>3 DEF Swept
  <2>6. ASSUME KindOf(h, p, i) \in {"Owner", "SharedOwner"}, Lives(g, p)
        PROVE  Lives(g, q)
    <3>1. q \notin first
      BY <2>2, <2>6 DEF Loose
    <3>2. q \notin D
      BY <1>1, <1>6, <2>1, <2>2, <2>5, <2>6, <3>1, HeldStays
    <3>. QED
      BY <2>4, <2>5, <2>6, <3>2 DEF Holds
  <2>7. Holds(g, p, i, q)
    BY <2>2, <2>4, <2>5, <2>6 DEF Holds
  <2>. QED
    BY <2>1, <2>7
<1>7. ASSUME NEW p, NEW i, NEW r, NEW j,
             IsSlot(g, p, i), KindOf(g, p, i) = "Owner", g[p].to[i] # Null,
             IsSlot(g, r, j), KindOf(g, r, j) = "Owner", g[r].to[j] = g[p].to[i]
      PROVE  p = r /\ i = j
  <2>1. IsSlot(h, p, i) /\ KindOf(h, p, i) = "Owner" /\ IsSlot(h, r, j) /\ KindOf(h, r, j) = "Owner"
    BY <1>4, <1>7
  <2>2. g[p].to[i] = h[p].to[i] /\ g[r].to[j] = h[r].to[j]
    BY <1>3, <2>1 DEF Swept
  <2>. QED
    BY <1>7, <2>1, <2>2 DEF Kept
<1>8. Kept(g)
  BY <1>5, <1>6, <1>7 DEF Kept
<1>. QED
  BY <1>2, <1>8

-----------------------------------------------------------------------------
(***************************************************************************)
(* What is being read, and what this document has to do with.              *)
(***************************************************************************)
\* What was read in this document, or is being read.
ReadSet(f, is) ==
  ({ is[id].ownerPtr : id \in DOMAIN is } \ {Null}) \union { f[k].at : k \in 1 .. Len(f) }

\* Object k + 1 of those in progress is in a pointer of object k, and its
\* info is its own.
Nested(f, is, h) ==
  /\ Len(f) \in Nat \ {0} /\ f[1].at = Root
  /\ \A k \in 1 .. Len(f) : f[k].at \in DOMAIN h /\ f[k].slot \in Nat
  /\ \A j, k \in 1 .. Len(f) : f[j].at = f[k].at => j = k
  /\ \A k \in 1 .. Len(f) - 1 :
       /\ IsSlot(h, f[k].at, f[k].slot - 1)
       /\ h[f[k].at].to[f[k].slot - 1] = f[k + 1].at
       /\ KindOf(h, f[k].at, f[k].slot - 1) # "Observer"
       /\ KindOf(h, f[k].at, f[k].slot - 1) = "SharedObserver" => is[f[k + 1].id].sharedState = f[k + 1].at
       /\ f[k + 1].id \in DOMAIN is
       /\ is[f[k + 1].id].sharedState \in {Null, f[k + 1].at}
       /\ is[f[k + 1].id].ownerPtr \in {Null, f[k + 1].at}
       /\ is[f[k + 1].id].ownership # "Observer"
  /\ \A j, k \in 2 .. Len(f) : f[j].id = f[k].id => j = k

\* What an info says is so.
Told(h, info) ==
  /\ info.sharedState # Null => /\ info.sharedState \in DOMAIN h /\ Lives(h, info.sharedState)
                                /\ h[info.sharedState].deleter # << >>
                                /\ info.ownerPtr \in {Null, info.sharedState}
  /\ info.ownership = "Observer" => info.ownerPtr = Null /\ info.sharedState = Null
  /\ Waits(h, info)

Informed(is, h) ==
  /\ \E m \in Nat : DOMAIN is = 1 .. m
  /\ \A id \in DOMAIN is : Told(h, is[id])

\* What was read lives.  It is in a pointer that was read, or in the shared
\* state.  An object in progress has led so far only to what is in the
\* pointers before the next one, and observers wait only in what was read.
Visited(f, is, h) ==
  /\ \A q \in ReadSet(f, is) : q \in DOMAIN h /\ Lives(h, q)
  /\ \A q \in ReadSet(f, is) : h[q].deleter = << >> /\ q # Root =>
       \E p, i : IsSlot(h, p, i) /\ KindOf(h, p, i) = "Owner" /\ h[p].to[i] = q /\ p \in ReadSet(f, is)
  /\ \A q \in ReadSet(f, is) : h[q].deleter # << >> /\ q \notin States(is) =>
       \E k \in 1 .. Len(f) - 1 : f[k + 1].at = q /\ KindOf(h, f[k].at, f[k].slot - 1) = "SharedOwner"
  /\ \A k \in 1 .. Len(f) : \A i : IsSlot(h, f[k].at, i) /\ KindOf(h, f[k].at, i) = "Owner"
                               /\ h[f[k].at].to[i] \in ReadSet(f, is) => i < f[k].slot
  /\ \A id \in DOMAIN is : \A s \in is[id].observers : s[1] \in ReadSet(f, is)

Reading(f, is, h) == Nested(f, is, h) /\ Informed(is, h) /\ Visited(f, is, h)

\* A change to observers, to the pointer that is read next, and to objects
\* that are new.
Changes(h, g, p, i) ==
  /\ DOMAIN h \subseteq DOMAIN g
  /\ \A r \in DOMAIN h : SameObject(h[r], g[r])
  /\ \A r, j : IsSlot(h, r, j) /\ KindOf(h, r, j) # "Observer" /\ ~ (r = p /\ j = i)
                 => g[r].to[j] = h[r].to[j]
  /\ IsSlot(h, p, i) /\ KindOf(h, p, i) = "Owner" => g[p].to[i] = h[p].to[i] \/ g[p].to[i] \notin DOMAIN h

LEMMA SlotsKept ==
  ASSUME NEW h, NEW g, DOMAIN h \subseteq DOMAIN g, \A r \in DOMAIN h : SameObject(h[r], g[r])
  PROVE  \A r \in DOMAIN h : \A j : /\ IsSlot(g, r, j) <=> IsSlot(h, r, j)
                                    /\ KindOf(g, r, j) = KindOf(h, r, j)
                                    /\ Lives(g, r) <=> Lives(h, r)
BY DEF IsSlot, KindOf, SameObject, Lives

LEMMA WaitsOn ==
  ASSUME NEW h, NEW g, DOMAIN h \subseteq DOMAIN g,
         \A r \in DOMAIN h : g[r].type = h[r].type /\ Len(g[r].to) = Len(h[r].to),
         NEW info, Waits(h, info)
  PROVE  Waits(g, info)
<1>1. \A r, j : IsSlot(h, r, j) => IsSlot(g, r, j) /\ KindOf(g, r, j) = KindOf(h, r, j)
  BY DEF IsSlot, KindOf
<1>. QED
  BY <1>1 DEF Waits

LEMMA ReadingChanged ==
  ASSUME NEW f, NEW is, NEW h, Reading(f, is, h), NEW g, NEW p, NEW i, Changes(h, g, p, i),
         p = f[Len(f)].at, KindOf(h, p, i) = "Owner" => i \in Nat /\ i >= f[Len(f)].slot
  PROVE  Reading(f, is, g)
<1>1. PICK n \in Nat \ {0} : n = Len(f)
  BY DEF Reading, Nested
<1>2. \A r \in DOMAIN h : \A j : /\ IsSlot(g, r, j) <=> IsSlot(h, r, j)
                                 /\ KindOf(g, r, j) = KindOf(h, r, j)
                                 /\ Lives(g, r) <=> Lives(h, r)
  BY SlotsKept DEF Changes
<1>3. \A k \in 1 .. n : f[k].at \in DOMAIN h /\ f[k].slot \in Nat
  BY <1>1 DEF Reading, Nested
<1>4. PICK V : V = ReadSet(f, is)
  OBVIOUS
<1>5. \A q \in V : q \in DOMAIN h /\ Lives(h, q)
  BY <1>4 DEF Reading, Visited
<1>6. \A k \in 1 .. n - 1 : IsSlot(h, f[k].at, f[k].slot - 1) /\ KindOf(h, f[k].at, f[k].slot - 1) # "Observer"
  BY <1>1 DEF Reading, Nested
<1>7. ASSUME NEW k \in 1 .. n - 1
      PROVE  g[f[k].at].to[f[k].slot - 1] = h[f[k].at].to[f[k].slot - 1]
  <2>1. k \in 1 .. n /\ n \in 1 .. n /\ k # n
    OBVIOUS
  <2>2. f[k].at # p
    BY <1>1, <2>1 DEF Reading, Nested
  <2>. QED
    BY <1>6, <2>2 DEF Changes
<1>8. Nested(f, is, g)
  <2>1. \A k \in 1 .. n : f[k].at \in DOMAIN g /\ f[k].slot \in Nat
    BY <1>3 DEF Changes
  <2>2. \A j, k \in 1 .. n : f[j].at = f[k].at => j = k
    BY <1>1 DEF Reading, Nested
  <2>3. ASSUME NEW k \in 1 .. n - 1
        PROVE  /\ IsSlot(g, f[k].at, f[k].slot - 1)
               /\ g[f[k].at].to[f[k].slot - 1] = f[k + 1].at
               /\ KindOf(g, f[k].at, f[k].slot - 1) # "Observer"
               /\ KindOf(g, f[k].at, f[k].slot - 1) = "SharedObserver" => is[f[k + 1].id].sharedState = f[k + 1].at
    <3>1. k \in 1 .. n
      OBVIOUS
    <3>2. f[k].at \in DOMAIN h
      BY <1>3, <3>1
    <3>3. /\ h[f[k].at].to[f[k].slot - 1] = f[k + 1].at
          /\ KindOf(h, f[k].at, f[k].slot - 1) = "SharedObserver" => is[f[k + 1].id].sharedState = f[k + 1].at
      BY <1>1 DEF Reading, Nested
    <3>. QED
      BY <1>2, <1>6, <1>7, <3>2, <3>3
  <2>. QED
    BY <1>1, <2>1, <2>2, <2>3 DEF Reading, Nested
<1>9. Informed(is, g)
  <2>1. \A id \in DOMAIN is : Waits(g, is[id])
    <3>1. \A r \in DOMAIN h : g[r].type = h[r].type /\ Len(g[r].to) = Len(h[r].to)
      BY DEF Changes, SameObject
    <3>. QED
      BY <3>1, WaitsOn DEF Changes, Reading, Informed, Told
  <2>2. ASSUME NEW id \in DOMAIN is, is[id].sharedState # Null
        PROVE  /\ is[id].sharedState \in DOMAIN g
               /\ Lives(g, is[id].sharedState)
               /\ g[is[id].sharedState].deleter # << >>
               /\ is[id].ownerPtr \in {Null, is[id].sharedState}
    BY <1>2, <2>2 DEF Changes, SameObject, Reading, Informed, Told
  <2>. QED
    BY <2>1, <2>2 DEF Reading, Informed, Told
<1>10. Visited(f, is, g)
  <2>1. \A q \in V : q \in DOMAIN g /\ Lives(g, q) /\ g[q].deleter = h[q].deleter
    BY <1>2, <1>5 DEF Changes, SameObject
  <2>2. ASSUME NEW q \in V, g[q].deleter = << >>, q # Root
        PROVE  \E r, j : IsSlot(g, r, j) /\ KindOf(g, r, j) = "Owner" /\ g[r].to[j] = q /\ r \in V
    <3>1. PICK r, j : IsSlot(h, r, j) /\ KindOf(h, r, j) = "Owner" /\ h[r].to[j] = q /\ r \in V
      BY <1>4, <2>1, <2>2 DEF Reading, Visited
    <3>2. ~ (r = p /\ j = i)
      <4>1. ASSUME r = p, j = i PROVE FALSE
        <5>1. n \in 1 .. n /\ r = f[n].at
          BY <1>1, <4>1
        <5>2. i < f[n].slot
          BY <1>1, <1>4, <3>1, <4>1, <5>1 DEF Reading, Visited
        <5>3. i \in Nat /\ i >= f[n].slot
          BY <1>1, <3>1, <4>1
        <5>. QED
          BY <1>1, <1>3, <5>1, <5>2, <5>3
      <4>. QED
        BY <4>1
    <3>3. g[r].to[j] = q
      BY <3>1, <3>2 DEF Changes
    <3>4. IsSlot(g, r, j) /\ KindOf(g, r, j) = "Owner"
      BY <1>2, <1>5, <3>1
    <3>. QED
      BY <3>1, <3>3, <3>4
  <2>3. ASSUME NEW q \in V, g[q].deleter # << >>, q \notin States(is)
        PROVE  \E k \in 1 .. n - 1 : f[k + 1].at = q /\ KindOf(g, f[k].at, f[k].slot - 1) = "SharedOwner"
    <3>1. PICK k \in 1 .. n - 1 : f[k + 1].at = q /\ KindOf(h, f[k].at, f[k].slot - 1) = "SharedOwner"
      BY <1>1, <1>4, <2>1, <2>3 DEF Reading, Visited
    <3>2. k \in 1 .. n
      OBVIOUS
    <3>. QED
      BY <1>2, <1>3, <3>1, <3>2
  <2>4. ASSUME NEW k \in 1 .. n, NEW j, IsSlot(g, f[k].at, j), KindOf(g, f[k].at, j) = "Owner",
               g[f[k].at].to[j] \in V
        PROVE  j < f[k].slot
    <3>1. IsSlot(h, f[k].at, j) /\ KindOf(h, f[k].at, j) = "Owner"
      BY <1>2, <1>3, <2>4
    <3>2. g[f[k].at].to[j] = h[f[k].at].to[j]
      BY <1>5, <2>4, <3>1 DEF Changes
    <3>. QED
      BY <1>1, <1>4, <2>4, <3>1, <3>2 DEF Reading, Visited
  <2>5. \A id \in DOMAIN is : \A s \in is[id].observers : s[1] \in V
    BY <1>4 DEF Reading, Visited
  <2>. QED
    BY <1>1, <1>4, <2>1, <2>2, <2>3, <2>4, <2>5 DEF Visited
<1>. QED
  BY <1>8, <1>9, <1>10 DEF Reading

LEMMA LinksChange ==
  ASSUME NEW h, NEW g, Links(h, g), NEW p, NEW i
  PROVE  Changes(h, g, p, i)
BY DEF Links, Changes

LEMMA SetsChange ==
  ASSUME NEW h, NEW g, NEW p, NEW i, NEW q, Sets(h, g, p, i, q),
         KindOf(h, p, i) = "Owner" => q \notin DOMAIN h \/ q = h[p].to[i]
  PROVE  Changes(h, g, p, i)
BY DEF Sets, Changes

LEMMA MakesChange ==
  ASSUME NEW h, NEW g, NEW p, NEW i, NEW n, NEW t, NEW by, Makes(h, g, p, i, n, t, by)
  PROVE  Changes(h, g, p, i)
BY DEF Makes, Changes

LEMMA KeptChanged ==
  ASSUME NEW h, Typed(h), Kept(h), NEW g, NEW p, NEW i, Changes(h, g, p, i),
         IsSlot(h, p, i) /\ KindOf(h, p, i) # "Observer" /\ g[p].to[i] # Null => Holds(g, p, i, g[p].to[i]),
         \A r \in DOMAIN g \ DOMAIN h : \A j : IsSlot(g, r, j) => g[r].to[j] = Null
  PROVE  Kept(g)
<1>1. \A r \in DOMAIN h : \A j : /\ IsSlot(g, r, j) <=> IsSlot(h, r, j)
                                 /\ KindOf(g, r, j) = KindOf(h, r, j)
                                 /\ Lives(g, r) <=> Lives(h, r)
  BY SlotsKept DEF Changes
<1>2. \A r \in DOMAIN h : g[r].deleter = h[r].deleter /\ r \in DOMAIN g
  BY DEF Changes, SameObject
<1>3. Root \in DOMAIN g /\ Lives(g, Root) /\ g[Root].deleter = << >>
  BY <1>1, <1>2 DEF Kept
<1>4. ASSUME NEW r, NEW j, IsSlot(g, r, j), g[r].to[j] # Null
      PROVE  r \in DOMAIN h /\ IsSlot(h, r, j) /\ KindOf(g, r, j) = KindOf(h, r, j)
  <2>1. r \in DOMAIN h
    BY <1>4 DEF IsSlot
  <2>. QED
    BY <1>1, <1>4, <2>1
<1>5. ASSUME NEW r, NEW j, IsSlot(g, r, j), g[r].to[j] # Null
      PROVE  Holds(g, r, j, g[r].to[j])
  <2>1. r \in DOMAIN h /\ IsSlot(h, r, j) /\ KindOf(g, r, j) = KindOf(h, r, j)
    BY <1>4, <1>5
  <2>2. CASE KindOf(h, r, j) = "Observer"
    BY <2>1, <2>2 DEF Holds
  <2>3. CASE r = p /\ j = i /\ KindOf(h, r, j) # "Observer"
    BY <1>5, <2>1, <2>3
  <2>4. CASE ~ (r = p /\ j = i) /\ KindOf(h, r, j) # "Observer"
    <3>1. PICK q : q = h[r].to[j]
      OBVIOUS
    <3>2. g[r].to[j] = q
      BY <2>1, <2>4, <3>1 DEF Changes
    <3>3. Holds(h, r, j, q) /\ q \in DOMAIN h
      BY <1>5, <2>1, <3>1, <3>2 DEF Kept, Typed, IsSlot
    <3>4. Holds(g, r, j, q)
      BY <1>1, <1>2, <2>1, <3>3 DEF Holds
    <3>. QED
      BY <3>2, <3>4
  <2>. QED
    BY <2>2, <2>3, <2>4
<1>6. ASSUME NEW r, NEW j, NEW s, NEW k, NEW q, q # Null,
             IsSlot(g, r, j), KindOf(g, r, j) = "Owner", g[r].to[j] = q,
             IsSlot(g, s, k), KindOf(g, s, k) = "Owner", g[s].to[k] = q
      PROVE  r = s /\ j = k
  <2>1. IsSlot(h, r, j) /\ KindOf(h, r, j) = "Owner" /\ IsSlot(h, s, k) /\ KindOf(h, s, k) = "Owner"
    BY <1>4, <1>6
  <2>2. ASSUME NEW a, NEW b, IsSlot(h, a, b), KindOf(h, a, b) = "Owner", g[a].to[b] = q
        PROVE  h[a].to[b] = q \/ (a = p /\ b = i /\ q \notin DOMAIN h)
    BY <2>2 DEF Changes
  <2>3. ASSUME NEW a, NEW b, IsSlot(h, a, b), h[a].to[b] = q
        PROVE  q \in DOMAIN h
    BY <1>6, <2>3 DEF Typed, IsSlot
  <2>4. \/ h[r].to[j] = q /\ h[s].to[k] = q
        \/ r = p /\ j = i /\ s = p /\ k = i
    <3>1. h[r].to[j] = q \/ (r = p /\ j = i /\ q \notin DOMAIN h)
      BY <1>6, <2>1, <2>2
    <3>2. h[s].to[k] = q \/ (s = p /\ k = i /\ q \notin DOMAIN h)
      BY <1>6, <2>1, <2>2
    <3>3. (h[r].to[j] = q => q \in DOMAIN h) /\ (h[s].to[k] = q => q \in DOMAIN h)
      BY <2>1, <2>3
    <3>. QED
      BY <3>1, <3>2, <3>3
  <2>. QED
    BY <1>6, <2>1, <2>4 DEF Kept
<1>. QED
  BY <1>3, <1>5, <1>6 DEF Kept

\* Nothing that is being read, was read or is in the shared state dies with
\* what is released.
LEMMA ReadingSpared ==
  ASSUME NEW f, NEW is, NEW h, Typed(h), Kept(h), Reading(f, is, h), NEW first,
         ReadSet(f, is) \intersect first = {}, States(is) \intersect first = {}
  PROVE  (ReadSet(f, is) \union States(is)) \intersect Dying(h, States(is), first) = {}
<1>1. PICK V : V = ReadSet(f, is)
  OBVIOUS
<1>2. PICK X : X = V \union States(is)
  OBVIOUS
<1>3. \A q \in X : q \in DOMAIN h /\ Lives(h, q)
  BY <1>1, <1>2 DEF Reading, Visited, Informed, Told, States
<1>4. ASSUME NEW q \in X, h[q].deleter = << >>, q # Root
      PROVE  \E p, i : IsSlot(h, p, i) /\ KindOf(h, p, i) = "Owner" /\ h[p].to[i] = q /\ p \in X
  <2>1. q \notin States(is)
    BY <1>4 DEF Reading, Informed, Told, States
  <2>. QED
    BY <1>1, <1>2, <1>4, <2>1 DEF Reading, Visited
<1>5. ASSUME NEW q \in X, h[q].deleter # << >>, q \notin States(is)
      PROVE  \E p, i : IsSlot(h, p, i) /\ KindOf(h, p, i) = "SharedOwner" /\ h[p].to[i] = q /\ p \in X
  <2>1. PICK k \in 1 .. Len(f) - 1 : f[k + 1].at = q /\ KindOf(h, f[k].at, f[k].slot - 1) = "SharedOwner"
    BY <1>1, <1>2, <1>5 DEF Reading, Visited
  <2>2. IsSlot(h, f[k].at, f[k].slot - 1) /\ h[f[k].at].to[f[k].slot - 1] = f[k + 1].at
    BY DEF Reading, Nested
  <2>3. k \in 1 .. Len(f)
    BY DEF Reading, Nested
  <2>4. f[k].at \in X
    BY <1>1, <1>2, <2>3 DEF ReadSet
  <2>. QED
    BY <2>1, <2>2, <2>4
<1>6. HeldUp(X, h, States(is))
  BY <1>3, <1>4, <1>5 DEF HeldUp
<1>7. X \intersect first = {}
  BY <1>1, <1>2
<1>. QED
  BY <1>1, <1>2, <1>6, <1>7, HeldUpStays

LEMMA ReadingSwept ==
  ASSUME NEW f, NEW is, NEW h, Typed(h), Kept(h), Reading(f, is, h), NEW first,
         ReadSet(f, is) \intersect first = {}, States(is) \intersect first = {}, NEW how
  PROVE  Reading(f, is, Sweep(h, States(is), first, how))
<1>1. PICK D : D = Dying(h, States(is), first)
  OBVIOUS
<1>2. PICK g : g = Sweep(h, States(is), first, how)
  OBVIOUS
<1>3. Swept(h, g, D)
  BY <1>1, <1>2, SweepSwept
<1>4. PICK V : V = ReadSet(f, is)
  OBVIOUS
<1>5. (V \union States(is)) \intersect D = {}
  BY <1>1, <1>4, ReadingSpared
<1>6. \A r, j : /\ IsSlot(g, r, j) <=> IsSlot(h, r, j)
                /\ IsSlot(h, r, j) => KindOf(g, r, j) = KindOf(h, r, j)
  BY <1>3, SlotsSame DEF Swept
<1>7. PICK n \in Nat \ {0} : n = Len(f)
  BY DEF Reading, Nested
<1>8. Nested(f, is, g)
  <2>1. ASSUME NEW k \in 1 .. n - 1
        PROVE  /\ IsSlot(g, f[k].at, f[k].slot - 1)
               /\ g[f[k].at].to[f[k].slot - 1] = f[k + 1].at
               /\ KindOf(g, f[k].at, f[k].slot - 1) # "Observer"
               /\ KindOf(g, f[k].at, f[k].slot - 1) = "SharedObserver" => is[f[k + 1].id].sharedState = f[k + 1].at
    <3>1. /\ IsSlot(h, f[k].at, f[k].slot - 1)
          /\ h[f[k].at].to[f[k].slot - 1] = f[k + 1].at
          /\ KindOf(h, f[k].at, f[k].slot - 1) # "Observer"
          /\ KindOf(h, f[k].at, f[k].slot - 1) = "SharedObserver" => is[f[k + 1].id].sharedState = f[k + 1].at
      BY <1>7 DEF Reading, Nested
    <3>2. f[k + 1].at \in V
      <4>1. k + 1 \in 1 .. n
        OBVIOUS
      <4>. QED
        BY <1>4, <1>7, <4>1 DEF ReadSet
    <3>3. f[k + 1].at \notin D
      BY <1>5, <3>2
    <3>. QED
      BY <1>3, <1>6, <3>1, <3>3 DEF Swept
  <2>2. \A k \in 1 .. n : f[k].at \in DOMAIN g /\ f[k].slot \in Nat
    BY <1>3, <1>7 DEF Swept, Reading, Nested
  <2>. QED
    BY <1>7, <2>1, <2>2 DEF Reading, Nested
<1>9. Informed(is, g)
  <2>1. \A id \in DOMAIN is : Waits(g, is[id])
    BY <1>3, WaitsOn DEF Swept, Reading, Informed, Told
  <2>2. ASSUME NEW id \in DOMAIN is, is[id].sharedState # Null
        PROVE  /\ is[id].sharedState \in DOMAIN g
               /\ Lives(g, is[id].sharedState)
               /\ g[is[id].sharedState].deleter # << >>
               /\ is[id].ownerPtr \in {Null, is[id].sharedState}
    <3>1. is[id].sharedState \notin D
      BY <1>5, <2>2 DEF States
    <3>. QED
      BY <1>3, <2>2, <3>1 DEF Swept, Reading, Informed, Told
  <2>. QED
    BY <2>1, <2>2 DEF Reading, Informed, Told
<1>10. Visited(f, is, g)
  <2>1. \A q \in V : q \in DOMAIN g /\ Lives(g, q) /\ g[q].deleter = h[q].deleter
    BY <1>3, <1>4, <1>5 DEF Swept, Reading, Visited
  <2>2. ASSUME NEW q \in V, g[q].deleter = << >>, q # Root
        PROVE  \E r, j : IsSlot(g, r, j) /\ KindOf(g, r, j) = "Owner" /\ g[r].to[j] = q /\ r \in V
    <3>1. PICK r, j : IsSlot(h, r, j) /\ KindOf(h, r, j) = "Owner" /\ h[r].to[j] = q /\ r \in V
      BY <1>4, <2>1, <2>2 DEF Reading, Visited
    <3>2. g[r].to[j] = q
      BY <1>3, <3>1 DEF Swept
    <3>. QED
      BY <1>6, <3>1, <3>2
  <2>3. ASSUME NEW q \in V, g[q].deleter # << >>, q \notin States(is)
        PROVE  \E k \in 1 .. n - 1 : f[k + 1].at = q /\ KindOf(g, f[k].at, f[k].slot - 1) = "SharedOwner"
    <3>1. PICK k \in 1 .. n - 1 : f[k + 1].at = q /\ KindOf(h, f[k].at, f[k].slot - 1) = "SharedOwner"
      BY <1>4, <1>7, <2>1, <2>3 DEF Reading, Visited
    <3>2. IsSlot(h, f[k].at, f[k].slot - 1)
      BY <1>7 DEF Reading, Nested
    <3>. QED
      BY <1>6, <3>1, <3>2
  <2>4. ASSUME NEW k \in 1 .. n, NEW j, IsSlot(g, f[k].at, j), KindOf(g, f[k].at, j) = "Owner",
               g[f[k].at].to[j] \in V
        PROVE  j < f[k].slot
    <3>1. IsSlot(h, f[k].at, j) /\ KindOf(h, f[k].at, j) = "Owner"
      BY <1>6, <2>4
    <3>2. g[f[k].at].to[j] = h[f[k].at].to[j]
      BY <1>3, <3>1 DEF Swept
    <3>. QED
      BY <1>4, <1>7, <2>4, <3>1, <3>2 DEF Reading, Visited
  <2>5. \A id \in DOMAIN is : \A s \in is[id].observers : s[1] \in V
    BY <1>4 DEF Reading, Visited
  <2>. QED
    BY <1>4, <1>7, <2>1, <2>2, <2>3, <2>4, <2>5 DEF Visited
<1>11. Reading(f, is, g)
  BY <1>8, <1>9, <1>10 DEF Reading
<1>. QED
  BY <1>2, <1>11

\* Going on to the next pointer.
LEMMA ReadingMoved ==
  ASSUME NEW f, NEW is, NEW h, Reading(f, is, h), NEW m, Len(m) = Len(f),
         \A k \in 1 .. Len(f) : m[k].at = f[k].at /\ m[k].id = f[k].id,
         \A k \in 1 .. Len(f) - 1 : m[k].slot = f[k].slot,
         m[Len(f)].slot = f[Len(f)].slot + 1
  PROVE  Reading(m, is, h) /\ ReadSet(m, is) = ReadSet(f, is)
<1>1. PICK n \in Nat \ {0} : n = Len(f)
  BY DEF Reading, Nested
<1>2. \A k \in 1 .. n : /\ m[k].at = f[k].at /\ m[k].id = f[k].id
                        /\ f[k].slot \in Nat /\ m[k].slot \in Nat /\ m[k].slot >= f[k].slot
  <2>1. \A k \in 1 .. n : f[k].slot \in Nat
    BY <1>1 DEF Reading, Nested
  <2>2. \A k \in 1 .. n : k \in 1 .. n - 1 \/ k = n
    OBVIOUS
  <2>. QED
    BY <1>1, <2>1, <2>2, SMTT(30)
<1>3. ReadSet(m, is) = ReadSet(f, is)
  BY <1>1, <1>2, SMTT(30) DEF ReadSet
<1>4. \A k \in 1 .. n - 1 : m[k].at = f[k].at /\ m[k].slot = f[k].slot /\ m[k + 1].at = f[k + 1].at /\ m[k + 1].id = f[k + 1].id
  BY <1>1, <1>2
<1>5. Nested(m, is, h)
  <2>1. Len(m) = n /\ m[1].at = Root
    BY <1>1, <1>2 DEF Reading, Nested
  <2>2. \A k \in 1 .. n : m[k].at \in DOMAIN h /\ m[k].slot \in Nat
    BY <1>1, <1>2 DEF Reading, Nested
  <2>3. \A j, k \in 1 .. n : m[j].at = m[k].at => j = k
    BY <1>1, <1>2 DEF Reading, Nested
  <2>4. \A j, k \in 2 .. n : m[j].id = m[k].id => j = k
    BY <1>1, <1>2 DEF Reading, Nested
  <2>5. ASSUME NEW k \in 1 .. n - 1
        PROVE  /\ IsSlot(h, m[k].at, m[k].slot - 1)
               /\ h[m[k].at].to[m[k].slot - 1] = m[k + 1].at
               /\ KindOf(h, m[k].at, m[k].slot - 1) # "Observer"
               /\ KindOf(h, m[k].at, m[k].slot - 1) = "SharedObserver" => is[m[k + 1].id].sharedState = m[k + 1].at
               /\ m[k + 1].id \in DOMAIN is
               /\ is[m[k + 1].id].sharedState \in {Null, m[k + 1].at}
               /\ is[m[k + 1].id].ownerPtr \in {Null, m[k + 1].at}
               /\ is[m[k + 1].id].ownership # "Observer"
    BY <1>1, <1>4, SMTT(30) DEF Reading, Nested
  <2>. QED
    BY <1>1, <2>1, <2>2, <2>3, <2>4, <2>5 DEF Nested
<1>6. Visited(m, is, h)
  <2>1. PICK V : V = ReadSet(f, is)
    OBVIOUS
  <2>2. ASSUME NEW k \in 1 .. n, NEW j, IsSlot(h, m[k].at, j), KindOf(h, m[k].at, j) = "Owner",
               h[m[k].at].to[j] \in V
        PROVE  j < m[k].slot
    <3>1. j \in Nat
      BY <2>2 DEF IsSlot
    <3>2. IsSlot(h, f[k].at, j) /\ KindOf(h, f[k].at, j) = "Owner" /\ h[f[k].at].to[j] \in V
      BY <1>2, <2>2
    <3>3. j < f[k].slot
      BY <1>1, <2>1, <3>2 DEF Reading, Visited
    <3>. QED
      BY <1>2, <3>1, <3>3
  <2>3. ASSUME NEW q \in V, h[q].deleter # << >>, q \notin States(is)
        PROVE  \E k \in 1 .. n - 1 : m[k + 1].at = q /\ KindOf(h, m[k].at, m[k].slot - 1) = "SharedOwner"
    <3>1. PICK k \in 1 .. n - 1 : f[k + 1].at = q /\ KindOf(h, f[k].at, f[k].slot - 1) = "SharedOwner"
      BY <1>1, <2>1, <2>3 DEF Reading, Visited
    <3>. QED
      BY <1>4, <3>1
  <2>4. /\ \A q \in V : q \in DOMAIN h /\ Lives(h, q)
        /\ \A q \in V : h[q].deleter = << >> /\ q # Root =>
             \E p, i : IsSlot(h, p, i) /\ KindOf(h, p, i) = "Owner" /\ h[p].to[i] = q /\ p \in V
        /\ \A id \in DOMAIN is : \A s \in is[id].observers : s[1] \in V
    BY <2>1 DEF Reading, Visited
  <2>5. V = ReadSet(m, is) /\ Len(m) = n
    BY <1>1, <1>3, <2>1
  <2>. QED
    BY <2>2, <2>3, <2>4, <2>5 DEF Visited
<1>7. Informed(is, h)
  BY DEF Reading
<1>. QED
  BY <1>3, <1>5, <1>6, <1>7 DEF Reading

\* From now on info is known of id.
Tells(f, is, h, w, id, info) ==
  /\ DOMAIN w = DOMAIN is \union {id} /\ \E m \in Nat : DOMAIN w = 1 .. m
  /\ \A j \in DOMAIN w : w[j] = IF j = id THEN info ELSE is[j]
  /\ Told(h, info)
  /\ id \in DOMAIN is => /\ is[id].sharedState \in {Null, info.sharedState}
                         /\ is[id].ownerPtr \in {Null, info.ownerPtr}
                         /\ is[id].ownership # "Observer" => info.ownership # "Observer"
  /\ \A k \in 2 .. Len(f) : f[k].id = id =>
       info.sharedState \in {Null, f[k].at} /\ info.ownerPtr \in {Null, f[k].at}
  /\ \A s \in info.observers : s[1] \in ReadSet(f, is)

\* What was read is in a pointer that was read, or in the shared state.
InReach(f, h, info) ==
  LET q == info.ownerPtr
      p == f[Len(f)].at
  IN  /\ q \in DOMAIN h /\ Lives(h, q)
      /\ h[q].deleter # << >> => info.sharedState = q
      /\ h[q].deleter = << >> => \E i : /\ IsSlot(h, p, i) /\ KindOf(h, p, i) = "Owner"
                                        /\ h[p].to[i] = q /\ i < f[Len(f)].slot

LEMMA ReadSetTold ==
  ASSUME NEW f, NEW is, NEW h, NEW w, NEW id, NEW info, Tells(f, is, h, w, id, info)
  PROVE  /\ ReadSet(f, w) = ReadSet(f, is) \union ({ info.ownerPtr } \ {Null})
         /\ States(is) \subseteq States(w)
         /\ info.sharedState # Null => info.sharedState \in States(w)
<1>1. DOMAIN w = DOMAIN is \union {id} /\ \A j \in DOMAIN w : w[j] = IF j = id THEN info ELSE is[j]
  BY DEF Tells
<1>2. id \in DOMAIN is => is[id].sharedState \in {Null, info.sharedState} /\ is[id].ownerPtr \in {Null, info.ownerPtr}
  BY DEF Tells
<1>3. { w[j].ownerPtr : j \in DOMAIN w } \ {Null} =
        ({ is[j].ownerPtr : j \in DOMAIN is } \ {Null}) \union ({ info.ownerPtr } \ {Null})
  BY <1>1, <1>2
<1>4. ReadSet(f, w) = ReadSet(f, is) \union ({ info.ownerPtr } \ {Null})
  BY <1>3 DEF ReadSet
<1>5. States(is) \subseteq States(w) /\ (info.sharedState # Null => info.sharedState \in States(w))
  BY <1>1, <1>2 DEF States
<1>. QED
  BY <1>4, <1>5

LEMMA ReadingTold ==
  ASSUME NEW f, NEW is, NEW h, Kept(h), Reading(f, is, h),
         NEW w, NEW id, NEW info, Tells(f, is, h, w, id, info),
         info.ownerPtr \in ReadSet(f, is) \union {Null} \/ InReach(f, h, info)
  PROVE  Reading(f, w, h)
<1>1. PICK n \in Nat \ {0} : n = Len(f)
  BY DEF Reading, Nested
<1>2. PICK V : V = ReadSet(f, is)
  OBVIOUS
<1>3. PICK q : q = info.ownerPtr
  OBVIOUS
<1>4. PICK W : W = ReadSet(f, w)
  OBVIOUS
<1>5. W = V \union ({q} \ {Null}) /\ States(is) \subseteq States(w)
      /\ (info.sharedState # Null => info.sharedState \in States(w))
  BY <1>2, <1>3, <1>4, ReadSetTold
<1>6. /\ DOMAIN w = DOMAIN is \union {id}
      /\ \A j \in DOMAIN w : w[j] = IF j = id THEN info ELSE is[j]
  BY DEF Tells
<1>7. Nested(f, w, h)
  <2>1. ASSUME NEW k \in 1 .. n - 1
        PROVE  /\ KindOf(h, f[k].at, f[k].slot - 1) = "SharedObserver" => w[f[k + 1].id].sharedState = f[k + 1].at
               /\ f[k + 1].id \in DOMAIN w
               /\ w[f[k + 1].id].sharedState \in {Null, f[k + 1].at}
               /\ w[f[k + 1].id].ownerPtr \in {Null, f[k + 1].at}
               /\ w[f[k + 1].id].ownership # "Observer"
    <3>1. /\ KindOf(h, f[k].at, f[k].slot - 1) = "SharedObserver" => is[f[k + 1].id].sharedState = f[k + 1].at
          /\ f[k + 1].id \in DOMAIN is
          /\ is[f[k + 1].id].sharedState \in {Null, f[k + 1].at}
          /\ is[f[k + 1].id].ownerPtr \in {Null, f[k + 1].at}
          /\ is[f[k + 1].id].ownership # "Observer"
      BY <1>1 DEF Reading, Nested
    <3>2. CASE f[k + 1].id # id
      BY <1>6, <3>1, <3>2
    <3>3. CASE f[k + 1].id = id
      <4>1. PICK m \in 2 .. n : m = k + 1
        OBVIOUS
      <4>2. info.sharedState \in {Null, f[m].at} /\ info.ownerPtr \in {Null, f[m].at}
        BY <1>1, <3>3, <4>1 DEF Tells
      <4>3. is[id].sharedState \in {Null, info.sharedState} /\ info.ownership # "Observer"
        BY <3>1, <3>3 DEF Tells
      <4>4. f[m].at \in DOMAIN h
        BY <1>1, <4>1 DEF Reading, Nested
      <4>5. w[id] = info /\ id \in DOMAIN w
        BY <1>6
      <4>6. is[id].sharedState = f[m].at => info.sharedState = f[m].at
        BY <4>2, <4>3
      <4>. QED
        BY <3>1, <3>3, <4>1, <4>2, <4>3, <4>5, <4>6
    <3>. QED
      BY <3>2, <3>3
  <2>. QED
    BY <1>1, <2>1 DEF Reading, Nested
<1>8. Informed(w, h)
  <2>1. \E m \in Nat : DOMAIN w = 1 .. m
    BY DEF Tells
  <2>2. Told(h, info) /\ \A j \in DOMAIN is : Told(h, is[j])
    BY DEF Tells, Reading, Informed
  <2>. QED
    BY <1>6, <2>1, <2>2 DEF Informed
<1>9. CASE info.ownerPtr \in V \union {Null}
  <2>1. W = V
    BY <1>3, <1>5, <1>9
  <2>2. /\ \A r \in V : r \in DOMAIN h /\ Lives(h, r)
        /\ \A r \in V : h[r].deleter = << >> /\ r # Root =>
             \E p, i : IsSlot(h, p, i) /\ KindOf(h, p, i) = "Owner" /\ h[p].to[i] = r /\ p \in V
        /\ \A k \in 1 .. n : \A i : IsSlot(h, f[k].at, i) /\ KindOf(h, f[k].at, i) = "Owner"
                                     /\ h[f[k].at].to[i] \in V => i < f[k].slot
    BY <1>1, <1>2 DEF Reading, Visited
  <2>3. ASSUME NEW r \in V, h[r].deleter # << >>, r \notin States(w)
        PROVE  \E k \in 1 .. n - 1 : f[k + 1].at = r /\ KindOf(h, f[k].at, f[k].slot - 1) = "SharedOwner"
    BY <1>1, <1>2, <1>5, <2>3 DEF Reading, Visited
  <2>4. \A j \in DOMAIN w : \A s \in w[j].observers : s[1] \in V
    BY <1>2, <1>6 DEF Tells, Reading, Visited
  <2>5. Visited(f, w, h)
    BY <1>1, <1>4, <2>1, <2>2, <2>3, <2>4 DEF Visited
  <2>. QED
    BY <1>7, <1>8, <2>5 DEF Reading
<1>10. CASE InReach(f, h, info)
  <2>1. PICK p : p = f[n].at
    OBVIOUS
  <2>2. p \in V
    <3>1. n \in 1 .. n
      OBVIOUS
    <3>. QED
      BY <1>1, <1>2, <2>1, <3>1 DEF ReadSet
  <2>3. q \in DOMAIN h /\ Lives(h, q) /\ (h[q].deleter # << >> => q = info.sharedState)
    BY <1>3, <1>10 DEF InReach
  <2>4. h[q].deleter = << >> => \E i : /\ IsSlot(h, p, i) /\ KindOf(h, p, i) = "Owner"
                                        /\ h[p].to[i] = q /\ i < f[n].slot
    BY <1>1, <1>3, <1>10, <2>1 DEF InReach
  <2>5. \A r \in W : r \in DOMAIN h /\ Lives(h, r)
    BY <1>2, <1>5, <2>3 DEF Reading, Visited
  <2>6. ASSUME NEW r \in W, h[r].deleter = << >>, r # Root
        PROVE  \E a, b : IsSlot(h, a, b) /\ KindOf(h, a, b) = "Owner" /\ h[a].to[b] = r /\ a \in W
    <3>1. CASE r \in V
      <4>1. PICK a, b : IsSlot(h, a, b) /\ KindOf(h, a, b) = "Owner" /\ h[a].to[b] = r /\ a \in V
        BY <1>2, <2>6, <3>1 DEF Reading, Visited
      <4>. QED
        BY <1>5, <4>1
    <3>2. CASE r = q
      BY <1>5, <2>2, <2>4, <2>6, <3>2
    <3>. QED
      BY <1>5, <3>1, <3>2
  <2>7. ASSUME NEW r \in W, h[r].deleter # << >>, r \notin States(w)
        PROVE  \E k \in 1 .. n - 1 : f[k + 1].at = r /\ KindOf(h, f[k].at, f[k].slot - 1) = "SharedOwner"
    <3>1. r \in V
      BY <1>5, <2>3, <2>7
    <3>. QED
      BY <1>1, <1>2, <1>5, <2>7, <3>1 DEF Reading, Visited
  <2>8. ASSUME NEW k \in 1 .. n, NEW i, IsSlot(h, f[k].at, i), KindOf(h, f[k].at, i) = "Owner",
               h[f[k].at].to[i] \in W
        PROVE  i < f[k].slot
    <3>1. CASE h[f[k].at].to[i] \in V
      BY <1>1, <1>2, <2>8, <3>1 DEF Reading, Visited
    <3>2. CASE h[f[k].at].to[i] = q /\ q # Null
      <4>1. h[q].deleter = << >>
        BY <2>8, <3>2 DEF Kept, Holds
      <4>2. PICK j : IsSlot(h, p, j) /\ KindOf(h, p, j) = "Owner" /\ h[p].to[j] = q /\ j < f[n].slot
        BY <2>4, <4>1
      <4>3. f[k].at = p /\ i = j
        BY <2>8, <3>2, <4>2 DEF Kept
      <4>4. k = n
        <5>1. n \in 1 .. n
          OBVIOUS
        <5>. QED
          BY <1>1, <2>1, <4>3, <5>1 DEF Reading, Nested
      <4>. QED
        BY <4>2, <4>3, <4>4
    <3>. QED
      BY <1>5, <2>8, <3>1, <3>2
  <2>9. \A j \in DOMAIN w : \A s \in w[j].observers : s[1] \in W
    <3>1. \A s \in info.observers : s[1] \in V
      BY <1>2 DEF Tells
    <3>2. \A j \in DOMAIN is : \A s \in is[j].observers : s[1] \in V
      BY <1>2 DEF Reading, Visited
    <3>. QED
      BY <1>5, <1>6, <3>1, <3>2
  <2>10. Visited(f, w, h)
    BY <1>1, <1>4, <2>5, <2>6, <2>7, <2>8, <2>9 DEF Visited
  <2>. QED
    BY <1>7, <1>8, <2>10 DEF Reading
<1>. QED
  BY <1>2, <1>9, <1>10

LEMMA KindIsOne ==
  ASSUME program \in Programs, NEW h, Typed(h), NEW p, NEW i, IsSlot(h, p, i)
  PROVE  KindOf(h, p, i) \in Kinds
<1>1. p \in DOMAIN h /\ i \in 1 .. Len(h[p].to)
  BY DEF IsSlot
<1>2. Declared(h, <<p, i>>) \in Pointers
  BY <1>1, SlotType
<1>. QED
  BY <1>2, SlotsOfHeap DEF Pointers

LEMMA NullIsNoObject ==
  ASSUME NEW h, Typed(h)
  PROVE  Null \notin DOMAIN h
BY DEF Typed, Null

\* One more object is read, which is in the pointer that was come to.
LEMMA ReadingPushed ==
  ASSUME program \in Programs,
         NEW f, NEW is, NEW h, Typed(h), Kept(h), Reading(f, is, h), NEW n \in Nat \ {0}, n = Len(f),
         NEW p, p = f[n].at, NEW i, i = f[n].slot - 1, IsSlot(h, p, i), NEW q, h[p].to[i] = q,
         q \in DOMAIN h, Lives(h, q), q # Null, q \notin ReadSet(f, is), KindOf(h, p, i) # "Observer",
         NEW id \in DOMAIN is, is[id].ownership # "Observer", is[id].ownerPtr = Null,
         is[id].sharedState \in {Null, q},
         KindOf(h, p, i) = "SharedObserver" => is[id].sharedState = q,
         \A k \in 2 .. n : f[k].id # id,
         NEW g, Len(g) = n + 1, \A k \in 1 .. n : g[k] = f[k],
         g[n + 1].at = q, g[n + 1].id = id, g[n + 1].slot = 1
  PROVE  Reading(g, is, h)
<1>1. PICK V : V = ReadSet(f, is)
  OBVIOUS
<1>2. PICK W : W = ReadSet(g, is)
  OBVIOUS
<1>3. \A k \in 1 .. n + 1 : k \in 1 .. n \/ k = n + 1
  OBVIOUS
<1>4. { g[k].at : k \in 1 .. n + 1 } = { f[k].at : k \in 1 .. n } \union {q}
  BY <1>3
<1>5. W = V \union {q}
  BY <1>1, <1>2, <1>4 DEF ReadSet
<1>6. \A k \in 1 .. n : f[k].at \in V /\ f[k].at # q
  BY <1>1 DEF ReadSet
<1>7. f[n].slot \in Nat /\ f[n].slot = i + 1 /\ n \in 1 .. n /\ i \in Nat
  <2>1. n \in 1 .. n
    OBVIOUS
  <2>2. f[n].slot \in Nat /\ i \in Nat
    BY <2>1 DEF Reading, Nested, IsSlot
  <2>. QED
    BY <2>1, <2>2
<1>8. Nested(g, is, h)
  <2>1. g[1].at = Root
    BY DEF Reading, Nested
  <2>2. \A k \in 1 .. n + 1 : g[k].at \in DOMAIN h /\ g[k].slot \in Nat
    BY <1>3 DEF Reading, Nested
  <2>3. ASSUME NEW j \in 1 .. n + 1, NEW k \in 1 .. n + 1, g[j].at = g[k].at PROVE j = k
    <3>1. CASE j \in 1 .. n /\ k \in 1 .. n
      BY <2>3, <3>1 DEF Reading, Nested
    <3>2. CASE j = n + 1 \/ k = n + 1
      BY <1>3, <1>6, <2>3, <3>2
    <3>. QED
      BY <1>3, <3>1, <3>2
  <2>4. ASSUME NEW j \in 2 .. n + 1, NEW k \in 2 .. n + 1, g[j].id = g[k].id PROVE j = k
    <3>0. (j \in 2 .. n \/ j = n + 1) /\ (k \in 2 .. n \/ k = n + 1) /\ (\A m \in 2 .. n : m \in 1 .. n)
      OBVIOUS
    <3>1. CASE j \in 2 .. n /\ k \in 2 .. n
      BY <2>4, <3>0, <3>1 DEF Reading, Nested
    <3>2. CASE j = n + 1 \/ k = n + 1
      BY <2>4, <3>0, <3>2
    <3>. QED
      BY <3>0, <3>1, <3>2
  <2>5. ASSUME NEW k \in 1 .. n
        PROVE  /\ IsSlot(h, g[k].at, g[k].slot - 1)
               /\ h[g[k].at].to[g[k].slot - 1] = g[k + 1].at
               /\ KindOf(h, g[k].at, g[k].slot - 1) # "Observer"
               /\ KindOf(h, g[k].at, g[k].slot - 1) = "SharedObserver" => is[g[k + 1].id].sharedState = g[k + 1].at
               /\ g[k + 1].id \in DOMAIN is
               /\ is[g[k + 1].id].sharedState \in {Null, g[k + 1].at}
               /\ is[g[k + 1].id].ownerPtr \in {Null, g[k + 1].at}
               /\ is[g[k + 1].id].ownership # "Observer"
    <3>1. CASE k = n
      BY <1>7, <3>1
    <3>2. CASE k # n
      <4>1. k \in 1 .. n - 1 /\ k + 1 \in 1 .. n
        BY <3>2
      <4>2. g[k] = f[k] /\ g[k + 1] = f[k + 1]
        BY <4>1
      <4>. QED
        BY <4>1, <4>2 DEF Reading, Nested
    <3>. QED
      BY <3>1, <3>2
  <2>6. Len(g) - 1 = n /\ Len(g) = n + 1 /\ n + 1 \in Nat \ {0}
    OBVIOUS
  <2>. QED
    BY <2>1, <2>2, <2>3, <2>4, <2>5, <2>6 DEF Nested
<1>9. Holds(h, p, i, q)
  BY DEF Kept
<1>10. KindOf(h, p, i) \in {"Owner", "SharedOwner", "SharedObserver"}
  BY KindIsOne DEF Kinds
<1>11. \A a, b : IsSlot(h, a, b) /\ KindOf(h, a, b) = "Owner" /\ h[a].to[b] = q
                  => a = p /\ b = i
  <2>1. ASSUME NEW a, NEW b, IsSlot(h, a, b), KindOf(h, a, b) = "Owner", h[a].to[b] = q
        PROVE  a = p /\ b = i
    <3>1. h[q].deleter = << >>
      BY <2>1 DEF Kept, Holds
    <3>2. KindOf(h, p, i) = "Owner"
      BY <1>9, <1>10, <3>1 DEF Holds
    <3>. QED
      BY <2>1, <3>2 DEF Kept
  <2>. QED
    BY <2>1
<1>12. Visited(g, is, h)
  <2>1. \A r \in W : r \in DOMAIN h /\ Lives(h, r)
    BY <1>1, <1>5 DEF Reading, Visited
  <2>2. ASSUME NEW r \in W, h[r].deleter = << >>, r # Root
        PROVE  \E a, b : IsSlot(h, a, b) /\ KindOf(h, a, b) = "Owner" /\ h[a].to[b] = r /\ a \in W
    <3>1. CASE r \in V
      BY <1>1, <1>5, <2>2, <3>1 DEF Reading, Visited
    <3>2. CASE r = q
      <4>1. KindOf(h, p, i) = "Owner"
        BY <1>9, <1>10, <2>2, <3>2 DEF Holds
      <4>2. p \in W
        BY <1>5, <1>6, <1>7
      <4>. QED
        BY <3>2, <4>1, <4>2
    <3>. QED
      BY <1>5, <3>1, <3>2
  <2>3. ASSUME NEW r \in W, h[r].deleter # << >>, r \notin States(is)
        PROVE  \E k \in 1 .. n : g[k + 1].at = r /\ KindOf(h, g[k].at, g[k].slot - 1) = "SharedOwner"
    <3>1. CASE r \in V
      <4>1. PICK k \in 1 .. n - 1 : f[k + 1].at = r /\ KindOf(h, f[k].at, f[k].slot - 1) = "SharedOwner"
        BY <1>1, <2>3, <3>1 DEF Reading, Visited
      <4>2. k \in 1 .. n /\ k + 1 \in 1 .. n
        OBVIOUS
      <4>. QED
        BY <4>1, <4>2
    <3>2. CASE r = q
      <4>1. is[id].sharedState # q
        BY <2>3, <3>2 DEF States
      <4>2. KindOf(h, p, i) = "SharedOwner"
        BY <1>9, <1>10, <2>3, <3>2, <4>1 DEF Holds
      <4>. QED
        BY <1>7, <3>2, <4>2
    <3>. QED
      BY <1>5, <3>1, <3>2
  <2>4. ASSUME NEW k \in 1 .. n + 1, NEW j, IsSlot(h, g[k].at, j), KindOf(h, g[k].at, j) = "Owner",
               h[g[k].at].to[j] \in W
        PROVE  j < g[k].slot
    <3>1. PICK r : r = h[g[k].at].to[j]
      OBVIOUS
    <3>2. CASE r = q
      <4>0. PICK a : a = g[k].at
        OBVIOUS
      <4>1. a = p /\ j = i
        <5>1. IsSlot(h, a, j) /\ KindOf(h, a, j) = "Owner" /\ h[a].to[j] = q
          BY <2>4, <3>1, <3>2, <4>0
        <5>. QED
          BY ONLY <1>11, <5>1
      <4>2. k = n
        <5>1. k \in 1 .. n
          BY <1>3, <1>6, <1>7, <4>0, <4>1, ZenonT(30)
        <5>. QED
          BY <1>7, <4>0, <4>1, <5>1, ZenonT(30) DEF Reading, Nested
      <4>3. g[k].slot = i + 1 /\ i \in Nat
        BY <1>7, <4>2
      <4>4. \A x \in Nat : x < x + 1
        OBVIOUS
      <4>5. i < g[k].slot
        BY ONLY <4>3, <4>4
      <4>. QED
        BY <4>1, <4>5
    <3>3. CASE r \in V /\ k \in 1 .. n
      BY <1>1, <2>4, <3>1, <3>3 DEF Reading, Visited
    <3>4. CASE r \in V /\ k = n + 1
      <4>1. r # Null
        BY <1>1, <2>4, <3>1, <3>4, NullIsNoObject DEF Reading, Visited
      <4>2. h[r].deleter = << >> /\ r # Root
        BY <2>4, <3>1, <4>1 DEF Kept, Holds
      <4>3. PICK a, b : IsSlot(h, a, b) /\ KindOf(h, a, b) = "Owner" /\ h[a].to[b] = r /\ a \in V
        BY <1>1, <3>4, <4>2 DEF Reading, Visited
      <4>4. a = q
        BY <2>4, <3>1, <3>4, <4>1, <4>3 DEF Kept
      <4>. QED
        BY <1>1, <4>3, <4>4
    <3>. QED
      BY <1>3, <1>5, <2>4, <3>1, <3>2, <3>3, <3>4
  <2>5. \A j \in DOMAIN is : \A s \in is[j].observers : s[1] \in W
    BY <1>1, <1>5 DEF Reading, Visited
  <2>6. Len(g) - 1 = n /\ Len(g) = n + 1
    OBVIOUS
  <2>. QED
    BY <1>2, <2>1, <2>2, <2>3, <2>4, <2>5, <2>6 DEF Visited
<1>. QED
  BY <1>8, <1>12 DEF Reading

\* The object that is read last is done: its info says what it is.
LEMMA ReadingPopped ==
  ASSUME NEW f, NEW is, NEW h, Typed(h), Reading(f, is, h), NEW n \in Nat, n > 1, n = Len(f),
         is[f[n].id].ownerPtr = f[n].at,
         h[f[n].at].deleter # << >> => f[n].at \in States(is),
         NEW g, Len(g) = n - 1, \A k \in 1 .. n - 1 : g[k] = f[k]
  PROVE  Reading(g, is, h)
<1>0. n - 1 \in Nat \ {0}
  BY SMT
<1>1. PICK m \in Nat \ {0} : m = n - 1
  BY <1>0
<1>2. m + 1 = n /\ (\A k \in 1 .. m : k \in 1 .. n) /\ (\A k \in 1 .. n : k \in 1 .. m \/ k = n)
      /\ (\A k \in 1 .. m - 1 : k \in 1 .. m /\ k + 1 \in 1 .. m) /\ m \in 1 .. n - 1 /\ Len(g) = m
      /\ (\A k \in 2 .. m : k \in 2 .. n) /\ n \in 1 .. n /\ (\A k \in 2 .. m : k \in 1 .. m)
      /\ 1 \in 1 .. m
  BY <1>1
<1>3. \A k \in 1 .. m : g[k] = f[k]
  BY <1>1
<1>4. PICK q : q = f[n].at
  OBVIOUS
<1>5. f[n].id \in DOMAIN is /\ q \in DOMAIN h
  BY <1>2, <1>4 DEF Reading, Nested
<1>6. PICK O : O = { is[id].ownerPtr : id \in DOMAIN is } \ {Null}
  OBVIOUS
<1>7. q \in O
  BY <1>4, <1>5, <1>6, NullIsNoObject
<1>8. { f[k].at : k \in 1 .. n } = { g[k].at : k \in 1 .. m } \union {q}
  BY <1>2, <1>3, <1>4
<1>9. ReadSet(g, is) = ReadSet(f, is)
  BY <1>2, <1>6, <1>7, <1>8 DEF ReadSet
<1>10. Nested(g, is, h)
  <2>1. Len(g) \in Nat \ {0} /\ Len(g) = m /\ g[1].at = Root
    BY <1>2, <1>3 DEF Reading, Nested
  <2>2. \A k \in 1 .. m : g[k].at \in DOMAIN h /\ g[k].slot \in Nat
    BY <1>2, <1>3 DEF Reading, Nested
  <2>3. \A j, k \in 1 .. m : g[j].at = g[k].at => j = k
    BY <1>2, <1>3 DEF Reading, Nested
  <2>4. \A j, k \in 2 .. m : g[j].id = g[k].id => j = k
    BY <1>2, <1>3 DEF Reading, Nested
  <2>5. ASSUME NEW k \in 1 .. m - 1
        PROVE  /\ IsSlot(h, g[k].at, g[k].slot - 1)
               /\ h[g[k].at].to[g[k].slot - 1] = g[k + 1].at
               /\ KindOf(h, g[k].at, g[k].slot - 1) # "Observer"
               /\ KindOf(h, g[k].at, g[k].slot - 1) = "SharedObserver" => is[g[k + 1].id].sharedState = g[k + 1].at
               /\ g[k + 1].id \in DOMAIN is
               /\ is[g[k + 1].id].sharedState \in {Null, g[k + 1].at}
               /\ is[g[k + 1].id].ownerPtr \in {Null, g[k + 1].at}
               /\ is[g[k + 1].id].ownership # "Observer"
    <3>1. k \in 1 .. n - 1 /\ g[k] = f[k] /\ g[k + 1] = f[k + 1]
      BY <1>2, <1>3
    <3>. QED
      BY <3>1 DEF Reading, Nested
  <2>. QED
    BY <2>1, <2>2, <2>3, <2>4, <2>5 DEF Nested
<1>11. Visited(g, is, h)
  <2>1. PICK V : V = ReadSet(f, is)
    OBVIOUS
  <2>2. /\ \A r \in V : r \in DOMAIN h /\ Lives(h, r)
        /\ \A r \in V : h[r].deleter = << >> /\ r # Root =>
             \E p, i : IsSlot(h, p, i) /\ KindOf(h, p, i) = "Owner" /\ h[p].to[i] = r /\ p \in V
        /\ \A id \in DOMAIN is : \A s \in is[id].observers : s[1] \in V
    BY <2>1 DEF Reading, Visited
  <2>3. ASSUME NEW r \in V, h[r].deleter # << >>, r \notin States(is)
        PROVE  \E k \in 1 .. m - 1 : g[k + 1].at = r /\ KindOf(h, g[k].at, g[k].slot - 1) = "SharedOwner"
    <3>1. PICK k \in 1 .. n - 1 : f[k + 1].at = r /\ KindOf(h, f[k].at, f[k].slot - 1) = "SharedOwner"
      BY <2>1, <2>3 DEF Reading, Visited
    <3>2. k + 1 # n
      BY <2>3, <3>1
    <3>3. k \in 1 .. m - 1
      BY <1>1, <3>2
    <3>4. g[k] = f[k] /\ g[k + 1] = f[k + 1]
      BY <1>2, <1>3, <3>3
    <3>. QED
      BY <3>1, <3>3, <3>4
  <2>4. ASSUME NEW k \in 1 .. m, NEW j, IsSlot(h, g[k].at, j), KindOf(h, g[k].at, j) = "Owner",
               h[g[k].at].to[j] \in V
        PROVE  j < g[k].slot
    <3>1. k \in 1 .. n /\ g[k] = f[k]
      BY <1>2, <1>3
    <3>. QED
      BY <2>1, <2>4, <3>1 DEF Reading, Visited
  <2>5. ReadSet(g, is) = V /\ Len(g) = m
    BY <1>2, <1>9, <2>1
  <2>. QED
    BY <2>2, <2>3, <2>4, <2>5 DEF Visited
<1>12. Informed(is, h)
  BY DEF Reading
<1>. QED
  BY <1>10, <1>11, <1>12 DEF Reading

-----------------------------------------------------------------------------
(***************************************************************************)
(* Programs whose documents do not part what its pointers share, and that  *)
(* have no polymorphic weak pointers: nothing keeps the object of one while *)
(* it is read.                                                             *)
(***************************************************************************)
Disciplined ==
  /\ ~ program.aliases
  /\ WeakPointersArePlain

LivesInv ==
  /\ Kept(heap)
  /\ phase = "reading" => Reading(stack, infos, heap)
  /\ phase # "reading" => stack = << >>

\* The pointer that is read, and the objects around it.
IsHere(n, p, i) ==
  /\ n \in Nat \ {0} /\ n = Len(stack) /\ p = stack[n].at /\ i = stack[n].slot /\ i \in Nat
  /\ Here = <<p, i>> /\ IsSlot(heap, p, i) /\ KindOf(heap, p, i) = There.kind /\ Held = heap[p].to[i]

LEMMA HereIs ==
  ASSUME TypeInv, AtSlot
  PROVE  /\ \E n, p, i : IsHere(n, p, i)
         /\ phase = "reading" /\ There.kind \in Kinds /\ Typed(heap) /\ program \in Programs
<1>1. PICK n \in Nat \ {0} : n = Len(stack) /\ Last(stack) = stack[n]
  BY HereType
<1>2. PICK p : p = stack[n].at
  OBVIOUS
<1>3. PICK i : i = stack[n].slot
  OBVIOUS
<1>4. Here = <<p, i>>
  BY <1>1, <1>2, <1>3 DEF Here
<1>5. Here[1] = p /\ Here[2] = i
  BY <1>4
<1>6. p \in DOMAIN heap /\ i \in 1 .. Len(heap[p].to) /\ There \in Pointers
  BY <1>5, HereType
<1>7. Typed(heap) /\ program \in Programs
  BY DEF TypeInv
<1>8. KindOf(heap, p, i) = There.kind /\ Held = heap[p].to[i]
  BY <1>4, <1>7, SlotsOfHeap DEF There, Held
<1>9. i \in Nat
  BY <1>6
<1>10. IsHere(n, p, i)
  BY <1>1, <1>2, <1>3, <1>4, <1>6, <1>8, <1>9 DEF IsHere, IsSlot
<1>. QED
  BY <1>6, <1>7, <1>10 DEF AtSlot, Pointers

LEMMA MovedReading ==
  ASSUME TypeInv, AtSlot, NEW is, NEW h, Reading(stack, is, h)
  PROVE  Reading(Moved, is, h) /\ ReadSet(Moved, is) = ReadSet(stack, is)
<1>1. PICK n, p, i : IsHere(n, p, i)
  BY HereIs
<1>2. PICK m : m = Moved
  OBVIOUS
<1>3. n = Len(stack) /\ Here[2] = stack[n].slot
  BY <1>1 DEF IsHere
<1>4. /\ Len(m) = n
      /\ \A k \in 1 .. n - 1 : m[k] = stack[k]
      /\ \A k \in 1 .. n : m[k].at = stack[k].at /\ m[k].id = stack[k].id
      /\ m[n].slot = stack[n].slot + 1
  BY <1>2, <1>3, MovedType
<1>. QED
  BY <1>2, <1>3, <1>4, ReadingMoved

LEMMA NewIdIsNext ==
  ASSUME NEW h, Informed(infos, h)
  PROVE  \E m \in Nat : DOMAIN infos = 1 .. m /\ NewId = m + 1
<1>1. PICK m \in Nat : DOMAIN infos = 1 .. m
  BY DEF Informed
<1>2. Cardinality(DOMAIN infos) = m
  BY <1>1, FS_Interval
<1>. QED
  BY <1>1, <1>2 DEF NewId

LEMMA WithTells ==
  ASSUME NEW f, NEW h, Informed(infos, h), NEW id \in DOMAIN infos \union {NewId}, NEW info,
         Told(h, info),
         id \in DOMAIN infos => /\ infos[id].sharedState \in {Null, info.sharedState}
                                /\ infos[id].ownerPtr \in {Null, info.ownerPtr}
                                /\ infos[id].ownership # "Observer" => info.ownership # "Observer",
         \A k \in 2 .. Len(f) : f[k].id = id =>
           info.sharedState \in {Null, f[k].at} /\ info.ownerPtr \in {Null, f[k].at},
         \A s \in info.observers : s[1] \in ReadSet(f, infos)
  PROVE  Tells(f, infos, h, With(id, info), id, info)
<1>1. PICK w : w = With(id, info)
  OBVIOUS
<1>2. DOMAIN w = DOMAIN infos \union {id} /\ \A j \in DOMAIN w : w[j] = IF j = id THEN info ELSE infos[j]
  BY <1>1 DEF With
<1>3. \E m \in Nat : DOMAIN w = 1 .. m
  <2>1. PICK m \in Nat : DOMAIN infos = 1 .. m /\ NewId = m + 1
    BY NewIdIsNext
  <2>2. CASE id \in DOMAIN infos
    BY <1>2, <2>1, <2>2
  <2>3. CASE id = NewId
    <3>1. DOMAIN w = 1 .. m + 1 /\ m + 1 \in Nat
      BY <1>2, <2>1, <2>3
    <3>. QED
      BY <3>1
  <2>. QED
    BY <2>2, <2>3
<1>4. Tells(f, infos, h, w, id, info)
  BY <1>2, <1>3 DEF Tells
<1>. QED
  BY <1>1, <1>4

\* What an id may be that an owner is read for, and its info.
Fresh(f, id, info) ==
  /\ id \in DOMAIN infos \union {NewId}
  /\ info.ownerPtr = Null /\ info.sharedState = Null /\ info.ownership # "Observer"
  /\ id \in DOMAIN infos => infos[id].ownerPtr = Null /\ infos[id].sharedState = Null
  /\ \A k \in 2 .. Len(f) : f[k].id # id
  /\ \A s \in info.observers : s[1] \in ReadSet(f, infos)
  /\ Waits(heap, info)

LEMMA UnclaimedIsFresh ==
  ASSUME TypeInv, NEW f, Reading(f, infos, heap), NEW id \in Unclaimed, NEW kind \in Kinds \ {"Observer"}
  PROVE  Fresh(f, id, InfoById(id, kind))
<1>1. PICK info : info = InfoById(id, kind)
  OBVIOUS
<1>2. PICK m \in Nat : DOMAIN infos = 1 .. m /\ NewId = m + 1
  BY NewIdIsNext DEF Reading
<1>3. (id = NewId /\ id \notin DOMAIN infos) \/ (id \in DOMAIN infos /\ infos[id].ownership = "Observer")
  <2>1. NewId \notin DOMAIN infos
    <3>1. m + 1 \notin 1 .. m
      OBVIOUS
    <3>. QED
      BY <1>2, <3>1
  <2>. QED
    BY <2>1 DEF Unclaimed
<1>4. ASSUME NEW k \in 2 .. Len(f) PROVE f[k].id # id
  <2>0. Len(f) \in Nat
    BY DEF Reading, Nested
  <2>1. PICK j \in 1 .. Len(f) - 1 : k = j + 1
    <3>1. k - 1 \in 1 .. Len(f) - 1 /\ k = (k - 1) + 1
      BY <2>0
    <3>. QED
      BY <3>1
  <2>2. f[k].id \in DOMAIN infos /\ infos[f[k].id].ownership # "Observer"
    BY <2>1 DEF Reading, Nested
  <2>. QED
    BY <1>3, <2>2
<1>5. CASE id \in DOMAIN infos
  <2>1. infos[id].ownership = "Observer" /\ infos[id].ownerPtr = Null /\ infos[id].sharedState = Null
    BY <1>3, <1>5, <1>2 DEF Reading, Informed, Told
  <2>2. info = [ infos[id] EXCEPT !.ownership = kind ]
    BY <1>1, <1>5, <2>1 DEF InfoById, Update
  <2>3. /\ info.ownerPtr = Null /\ info.sharedState = Null /\ info.ownership = kind
        /\ info.observers = infos[id].observers
    BY <1>5, <2>1, <2>2 DEF TypeInv, Leads, Info
  <2>4. Waits(heap, infos[id]) /\ \A s \in infos[id].observers : s[1] \in ReadSet(f, infos)
    BY <1>5 DEF Reading, Informed, Told, Visited
  <2>5. Waits(heap, info)
    BY <2>3, <2>4 DEF Waits
  <2>6. Fresh(f, id, info)
    BY <1>4, <1>5, <2>1, <2>3, <2>4, <2>5 DEF Fresh
  <2>. QED
    BY <1>1, <2>6
<1>6. CASE id \notin DOMAIN infos
  <2>1. info = NewInfo(kind)
    BY <1>1, <1>6 DEF InfoById
  <2>2. /\ info.ownerPtr = Null /\ info.sharedState = Null /\ info.ownership = kind
        /\ info.observers = {}
    BY <2>1 DEF NewInfo
  <2>3. Fresh(f, id, info)
    BY <1>3, <1>4, <1>6, <2>2 DEF Fresh, Waits
  <2>. QED
    BY <1>1, <2>3
<1>. QED
  BY <1>5, <1>6

\* Emptying the pointer that is read.
LEMMA EmptiedLife ==
  ASSUME TypeInv, AtSlot, Held # Null, Kept(heap), Reading(stack, infos, heap), NEW r
  PROVE  Kept(DestroyPtr(Here, r)) /\ Reading(stack, infos, DestroyPtr(Here, r))
<1>1. PICK n, p, i : IsHere(n, p, i)
  BY HereIs
<1>2. /\ n \in Nat \ {0} /\ n = Len(stack) /\ p = stack[n].at /\ i = stack[n].slot /\ i \in Nat
      /\ Here = <<p, i>> /\ IsSlot(heap, p, i) /\ KindOf(heap, p, i) = There.kind /\ Held = heap[p].to[i]
  BY <1>1 DEF IsHere
<1>3. Typed(heap) /\ program \in Programs /\ There.kind \in Kinds
  BY HereIs
<1>4. PICK a : a = Assign(heap, Here, Null)
  OBVIOUS
<1>5. Sets(heap, a, p, i, Null)
  BY <1>2, <1>3, <1>4, AssignSets
<1>6. Typed(a)
  BY <1>2, <1>3, <1>4, AssignType DEF IsSlot
<1>7. Null \notin DOMAIN heap
  BY <1>3, NullIsNoObject
<1>8. Changes(heap, a, p, i)
  BY <1>5, <1>7, SetsChange
<1>9. a[p].to[i] = Null /\ DOMAIN a = DOMAIN heap
  BY <1>2, <1>5 DEF Sets
<1>10. Kept(a)
  BY <1>3, <1>8, <1>9, KeptChanged
<1>11. Reading(stack, infos, a)
  BY <1>2, <1>8, ReadingChanged
<1>12. PICK d : d = DestroyPtr(Here, r)
  OBVIOUS
<1>13. CASE There.kind = "Owner"
  <2>1. PICK how : d = Sweep(a, States(infos), { Held }, how)
    BY <1>4, <1>12, <1>13 DEF DestroyPtr, Delete, There, Held
  <2>2. Holds(heap, p, i, Held)
    BY <1>2, SMTT(30) DEF Kept
  <2>3. heap[Held].deleter = << >> /\ Held # Root
    BY <1>2, <1>13, <2>2 DEF Holds
  <2>4. Held \notin ReadSet(stack, infos)
    <3>1. ASSUME Held \in ReadSet(stack, infos) PROVE FALSE
      <4>1. n \in 1 .. n
        BY <1>2
      <4>2. i < stack[n].slot
        BY <1>2, <1>13, <3>1, <4>1 DEF Reading, Visited
      <4>. QED
        BY <1>2, <4>2
    <3>. QED
      BY <3>1
  <2>5. Held \notin States(infos)
    BY <2>3 DEF Reading, Informed, Told, States
  <2>6. ASSUME NEW s, NEW j, IsSlot(a, s, j), KindOf(a, s, j) \in {"Owner", "SharedOwner"}
        PROVE  a[s].to[j] # Held
    <3>1. IsSlot(heap, s, j) /\ KindOf(heap, s, j) \in {"Owner", "SharedOwner"}
      <4>1. \A q \in DOMAIN heap : a[q].type = heap[q].type /\ Len(a[q].to) = Len(heap[q].to)
        BY <1>5 DEF Sets, SameObject
      <4>. QED
        BY <1>9, <2>6, <4>1, SlotsSame
    <3>2. CASE s = p /\ j = i
      BY <1>9, <3>2
    <3>3. CASE ~ (s = p /\ j = i)
      <4>1. a[s].to[j] = heap[s].to[j]
        BY <1>5, <3>1, <3>3 DEF Sets
      <4>2. ASSUME heap[s].to[j] = Held PROVE FALSE
        <5>1. Holds(heap, s, j, Held)
          BY <3>1, <4>2 DEF Kept
        <5>2. KindOf(heap, s, j) = "Owner"
          BY <2>3, <3>1, <5>1 DEF Holds
        <5>. QED
          BY <1>2, <1>13, <3>1, <3>3, <4>2, <5>2 DEF Kept
      <4>. QED
        BY <4>1, <4>2
    <3>. QED
      BY <3>2, <3>3
  <2>7. Loose(a, { Held })
    BY <2>3, <2>6 DEF Loose
  <2>8. Kept(d)
    BY <1>6, <1>10, <2>1, <2>7, SweepKept
  <2>9. Reading(stack, infos, d)
    BY <1>6, <1>10, <1>11, <2>1, <2>4, <2>5, ReadingSwept
  <2>. QED
    BY <1>12, <2>8, <2>9
<1>14. CASE There.kind # "Owner"
  <2>1. d = Sweep(a, States(infos), {}, << >>)
    BY <1>4, <1>12, <1>14 DEF DestroyPtr, There
  <2>2. Loose(a, {})
    BY DEF Loose
  <2>3. Kept(d)
    BY <1>6, <1>10, <2>1, <2>2, SweepKept
  <2>4. Reading(stack, infos, d)
    BY <1>6, <1>10, <1>11, <2>1, ReadingSwept
  <2>. QED
    BY <1>12, <2>3, <2>4
<1>. QED
  BY <1>13, <1>14

\* Observers that wait are linked.
LEMMA LinkedLife ==
  ASSUME NEW f, NEW is, NEW h, Typed(h), Kept(h), Reading(f, is, h), NEW info, Waits(h, info), NEW q
  PROVE  Kept(Linked(h, info, q)) /\ Reading(f, is, Linked(h, info, q))
<1>1. PICK g : g = Linked(h, info, q)
  OBVIOUS
<1>2. Links(h, g)
  BY <1>1, LinkedLinks
<1>3. PICK p : p = f[Len(f)].at
  OBVIOUS
<1>4. PICK i : i = f[Len(f)].slot
  OBVIOUS
<1>5. Len(f) \in 1 .. Len(f)
  BY DEF Reading, Nested
<1>6. i \in Nat /\ i >= f[Len(f)].slot
  <2>1. i \in Nat
    BY <1>4, <1>5 DEF Reading, Nested
  <2>. QED
    BY <1>4, <2>1
<1>7. Changes(h, g, p, i) /\ Changes(h, g, Null, i)
  BY <1>2, LinksChange
<1>8. Reading(f, is, g)
  BY <1>3, <1>6, <1>7, ReadingChanged
<1>9. ~ IsSlot(h, Null, i) /\ DOMAIN g = DOMAIN h
  BY <1>2, NullIsNoObject DEF IsSlot, Links
<1>10. Kept(g)
  BY <1>7, <1>9, KeptChanged
<1>. QED
  BY <1>1, <1>8, <1>10

\* A pointer of the object in progress gets a share, with those that wait.
LEMMA SharesLife ==
  ASSUME program \in Programs, Typed(heap), Kept(heap),
         NEW s, NEW p, NEW i, s = <<p, i>>, IsSlot(heap, p, i),
         KindOf(heap, p, i) \in {"SharedOwner", "SharedObserver"},
         NEW id, NEW info, Shares(heap, s, id, info), Waits(heap, info),
         NEW f, Reading(f, infos', heap), p = f[Len(f)].at,
         info.sharedState # Null => /\ info.sharedState \in DOMAIN heap /\ Lives(heap, info.sharedState)
                                    /\ heap[info.sharedState].deleter # << >>
  PROVE  Kept(heap') /\ Reading(f, infos', heap')
<1>1. PICK is : is = infos'
  OBVIOUS
<1>2. PICK q : q = info.sharedState
  OBVIOUS
<1>3. PICK l : l = Linked(heap, info, q)
  OBVIOUS
<1>4. PICK a : a = Assign(l, <<p, i>>, q)
  OBVIOUS
<1>5. heap' = Sweep(a, States(is), {}, << >>)
  BY <1>1, <1>2, <1>3, <1>4 DEF Shares
<1>6. Kept(l) /\ Reading(f, is, l)
  BY <1>1, <1>3, LinkedLife
<1>7. q \in DOMAIN heap \union {Null}
  BY <1>2
<1>8. Typed(l)
  BY <1>3, <1>7, LinkedType
<1>9. Links(heap, l)
  BY <1>3, LinkedLinks
<1>10. IsSlot(l, p, i) /\ KindOf(l, p, i) = KindOf(heap, p, i)
  BY <1>9 DEF Links, SameObject, IsSlot, KindOf
<1>11. Sets(l, a, p, i, q)
  <2>1. q \in DOMAIN l \union {Null}
    BY <1>7, <1>9 DEF Links
  <2>. QED
    BY <1>4, <1>8, <1>10, <2>1, AssignSets
<1>12. Typed(a)
  BY <1>4, <1>7, <1>8, <1>9, <1>10, AssignType DEF IsSlot, Links
<1>13. Changes(l, a, p, i)
  BY <1>10, <1>11, SetsChange
<1>14. a[p].to[i] = q /\ DOMAIN a = DOMAIN l
  BY <1>10, <1>11 DEF Sets
<1>15. q # Null => Holds(a, p, i, q)
  <2>1. ASSUME q # Null
        PROVE  a[q].deleter # << >> /\ Lives(a, q)
    <3>1. q \in DOMAIN heap /\ Lives(heap, q) /\ heap[q].deleter # << >>
      BY <1>2, <2>1
    <3>. QED
      BY <1>9, <1>11, <3>1 DEF Links, Sets, SameObject, Lives
  <2>2. KindOf(a, p, i) = KindOf(heap, p, i)
    BY <1>10, <1>11 DEF Sets, SameObject, KindOf, IsSlot
  <2>. QED
    BY <2>1, <2>2 DEF Holds
<1>16. Kept(a)
  BY <1>6, <1>8, <1>13, <1>14, <1>15, KeptChanged
<1>17. Reading(f, is, a)
  BY <1>6, <1>10, <1>13, ReadingChanged
<1>18. Loose(a, {})
  BY DEF Loose
<1>19. Kept(Sweep(a, States(is), {}, << >>))
  BY <1>12, <1>16, <1>18, SweepKept
<1>20. Reading(f, is, Sweep(a, States(is), {}, << >>))
  BY <1>12, <1>16, <1>17, ReadingSwept
<1>. QED
  BY <1>1, <1>5, <1>19, <1>20

LEMMA ReadNullLives ==
  ASSUME TypeInv, LivesInv, ReadNull
  PROVE  Kept(heap') /\ Reading(stack', infos', heap')
<1>1. AtSlot /\ infos' = infos /\ stack' = Moved
  BY DEF ReadNull
<1>2. Kept(heap) /\ Reading(stack, infos, heap)
  BY <1>1 DEF LivesInv, AtSlot
<1>3. CASE heap' = heap
  BY <1>1, <1>2, <1>3, MovedReading
<1>4. CASE Held # Null /\ heap' = DestroyPtr(Here, MemResource(There))
  <2>1. Kept(heap') /\ Reading(stack, infos, heap')
    BY <1>1, <1>2, <1>4, EmptiedLife
  <2>. QED
    BY <1>1, <2>1, MovedReading
<1>. QED
  BY <1>3, <1>4 DEF ReadNull

LEMMA ReadObserverLives ==
  ASSUME TypeInv, LivesInv, ReadObserver
  PROVE  Kept(heap') /\ Reading(stack', infos', heap')
<1>1. AtSlot /\ There.kind = "Observer" /\ stack' = Moved
  BY DEF ReadObserver
<1>2. Kept(heap) /\ Reading(stack, infos, heap) /\ Typed(heap) /\ program \in Programs
  BY <1>1 DEF LivesInv, AtSlot, TypeInv
<1>3. PICK id \in DOMAIN infos \union {NewId} :
        LET info == InfoById(id, "Observer")
        IN  IF info.ownerPtr = Null
              THEN /\ infos' = With(id, [ info EXCEPT !.observers = @ \union {Here} ])
                   /\ UNCHANGED heap
              ELSE /\ infos' = With(id, info)
                   /\ heap' = Assign(heap, Here, info.ownerPtr)
  BY DEF ReadObserver
<1>4. PICK info : info = InfoById(id, "Observer")
  OBVIOUS
<1>5. IF info.ownerPtr = Null
        THEN infos' = With(id, [ info EXCEPT !.observers = @ \union {Here} ]) /\ heap' = heap
        ELSE infos' = With(id, info) /\ heap' = Assign(heap, Here, info.ownerPtr)
  BY <1>3, <1>4
<1>6. PICK n, p, i : IsHere(n, p, i)
  BY <1>1, HereIs
<1>7. /\ n = Len(stack) /\ n \in Nat \ {0} /\ p = stack[n].at
      /\ Here = <<p, i>> /\ IsSlot(heap, p, i) /\ KindOf(heap, p, i) = "Observer"
  BY <1>1, <1>6 DEF IsHere
<1>8. PICK V : V = ReadSet(stack, infos)
  OBVIOUS
<1>9. p \in V
  <2>1. n \in 1 .. n
    BY <1>7
  <2>. QED
    BY <1>7, <1>8, <2>1 DEF ReadSet
\* The info is the one that is there, or a new one.
<1>10. /\ info \in Info
       /\ id \in DOMAIN infos => /\ info.ownerPtr = infos[id].ownerPtr
                                 /\ info.sharedState = infos[id].sharedState
                                 /\ info.ownership = infos[id].ownership
                                 /\ info.observers = infos[id].observers
       /\ id \notin DOMAIN infos => /\ info.ownerPtr = Null /\ info.sharedState = Null
                                    /\ info.ownership = "Observer" /\ info.observers = {}
  <2>1. info \in Info
    BY <1>4, InfoByIdType DEF TypeInv, Kinds, Leading
  <2>2. CASE id \in DOMAIN infos
    <3>1. infos[id] \in Info
      BY <2>2 DEF TypeInv, Leads
    <3>2. info = [ infos[id] EXCEPT !.ownership = infos[id].ownership ]
      BY <1>4, <2>2 DEF InfoById, Update
    <3>. QED
      BY <2>1, <2>2, <3>1, <3>2 DEF Info
  <2>3. CASE id \notin DOMAIN infos
    BY <1>4, <2>1, <2>3 DEF InfoById, NewInfo
  <2>. QED
    BY <2>2, <2>3
<1>11. Told(heap, info)
  <2>1. CASE id \in DOMAIN infos
    <3>1. Told(heap, infos[id])
      BY <1>2, <2>1 DEF Reading, Informed
    <3>. QED
      BY <1>10, <2>1, <3>1 DEF Told, Waits
  <2>2. CASE id \notin DOMAIN infos
    BY <1>10, <2>2 DEF Told, Waits
  <2>. QED
    BY <2>1, <2>2
<1>12. ASSUME NEW k \in 2 .. n, stack[k].id = id
       PROVE  info.sharedState \in {Null, stack[k].at} /\ info.ownerPtr \in {Null, stack[k].at}
  <2>1. PICK j \in 1 .. n - 1 : k = j + 1
    <3>1. k - 1 \in 1 .. n - 1 /\ k = (k - 1) + 1
      BY <1>7
    <3>. QED
      BY <3>1
  <2>. QED
    BY <1>2, <1>7, <1>10, <1>12, <2>1 DEF Reading, Nested
<1>13. \A s \in info.observers : s[1] \in V
  BY <1>2, <1>8, <1>10 DEF Reading, Visited
<1>14. info.ownerPtr \in V \union {Null}
  BY <1>8, <1>10 DEF ReadSet
<1>15. CASE info.ownerPtr = Null
  <2>1. PICK o : o = [ info EXCEPT !.observers = info.observers \union {Here} ]
    OBVIOUS
  <2>2. infos' = With(id, o) /\ heap' = heap
    BY <1>5, <1>15, <2>1
  <2>3. /\ o.ownerPtr = info.ownerPtr /\ o.sharedState = info.sharedState /\ o.ownership = info.ownership
        /\ o.observers = info.observers \union {Here}
    BY <1>10, <2>1 DEF Info
  <2>4. Waits(heap, o)
    <3>1. Waits(heap, info)
      BY <1>11 DEF Told
    <3>. QED
      BY <1>7, <2>3, <3>1 DEF Waits
  <2>5. Told(heap, o)
    BY <1>11, <2>3, <2>4 DEF Told
  <2>6. \A s \in o.observers : s[1] \in V
    <3>1. Here[1] = p
      BY <1>7
    <3>. QED
      BY <1>9, <1>13, <2>3, <3>1
  <2>7. Tells(stack, infos, heap, With(id, o), id, o)
    <3>1. Informed(infos, heap)
      BY <1>2 DEF Reading
    <3>. QED
      BY <1>7, <1>8, <1>10, <1>12, <2>3, <2>5, <2>6, <3>1, WithTells
  <2>8. Reading(stack, infos', heap)
    BY <1>2, <1>15, <2>2, <2>3, <2>7, ReadingTold
  <2>. QED
    BY <1>1, <1>2, <2>2, <2>8, MovedReading
<1>16. CASE info.ownerPtr # Null
  <2>1. infos' = With(id, info) /\ heap' = Assign(heap, Here, info.ownerPtr)
    BY <1>5, <1>16
  <2>2. Tells(stack, infos, heap, With(id, info), id, info)
    <3>1. Informed(infos, heap)
      BY <1>2 DEF Reading
    <3>. QED
      BY <1>7, <1>8, <1>10, <1>11, <1>12, <1>13, <3>1, WithTells
  <2>3. Reading(stack, infos', heap)
    BY <1>2, <1>8, <1>14, <2>1, <2>2, ReadingTold
  <2>4. info.ownerPtr \in DOMAIN heap
    BY <1>2, <1>8, <1>14, <1>16 DEF Reading, Visited
  <2>5. Sets(heap, heap', p, i, info.ownerPtr)
    BY <1>2, <1>7, <2>1, <2>4, AssignSets
  <2>6. Changes(heap, heap', p, i)
    BY <1>7, <2>5, SetsChange
  <2>7. Kept(heap')
    <3>1. DOMAIN heap' = DOMAIN heap
      BY <2>5 DEF Sets
    <3>. QED
      BY <1>2, <1>7, <2>6, <3>1, KeptChanged
  <2>8. Reading(stack, infos', heap')
    BY <1>7, <2>3, <2>6, ReadingChanged
  <2>. QED
    BY <1>1, <2>7, <2>8, MovedReading
<1>. QED
  BY <1>15, <1>16

LEMMA ReadKnownLives ==
  ASSUME TypeInv, LivesInv, ReadKnown
  PROVE  Kept(heap') /\ Reading(stack', infos', heap')
<1>1. AtSlot /\ stack' = Moved
  BY DEF ReadKnown
<1>2. Kept(heap) /\ Reading(stack, infos, heap) /\ Typed(heap) /\ program \in Programs
  BY <1>1 DEF LivesInv, AtSlot, TypeInv
<1>3. PICK id \in Known(There) : Shares(heap, Here, id, InfoById(id, There.kind))
  BY DEF ReadKnown
<1>4. id \in DOMAIN infos /\ infos[id].sharedState # Null /\ There.kind \in {"SharedOwner", "SharedObserver"}
  BY <1>3 DEF Known, IsShared
<1>5. PICK info : info = InfoById(id, There.kind)
  OBVIOUS
<1>6. infos[id] \in Info /\ Told(heap, infos[id])
  BY <1>2, <1>4 DEF TypeInv, Leads, Reading, Informed
<1>7. /\ info \in Info /\ info.ownership # "Observer"
      /\ info.ownerPtr = infos[id].ownerPtr /\ info.sharedState = infos[id].sharedState
      /\ info.observers = infos[id].observers
  <2>1. info = [ infos[id] EXCEPT !.ownership = Update(infos[id].ownership, There.kind) ]
    BY <1>4, <1>5 DEF InfoById
  <2>2. Update(infos[id].ownership, There.kind) \in Kinds \ {"Observer"}
    BY <1>4, <1>6 DEF Update, Kinds, Info
  <2>. QED
    BY <1>6, <2>1, <2>2 DEF Info
<1>8. PICK q : q = info.sharedState
  OBVIOUS
<1>9. q # Null /\ q \in DOMAIN heap /\ Lives(heap, q) /\ heap[q].deleter # << >> /\ info.ownerPtr \in {Null, q}
  BY <1>4, <1>6, <1>7, <1>8 DEF Told
<1>10. PICK c : c = Claimed(info, q)
  OBVIOUS
<1>11. c.ownerPtr = q /\ c.sharedState = q /\ c.ownership # "Observer" /\ c.observers = {}
  BY <1>7, <1>8, <1>10 DEF Claimed, Info
<1>12. infos' = With(id, c)
  BY <1>3, <1>5, <1>8, <1>10 DEF Shares
<1>13. Told(heap, c)
  BY <1>9, <1>11 DEF Told, Waits
<1>14. PICK n, p, i : IsHere(n, p, i)
  BY <1>1, HereIs
<1>15. /\ n = Len(stack) /\ n \in Nat \ {0} /\ p = stack[n].at
       /\ Here = <<p, i>> /\ IsSlot(heap, p, i) /\ KindOf(heap, p, i) = There.kind
  BY <1>14 DEF IsHere
<1>16. ASSUME NEW k \in 2 .. n, stack[k].id = id
       PROVE  c.sharedState \in {Null, stack[k].at} /\ c.ownerPtr \in {Null, stack[k].at}
  <2>1. PICK j \in 1 .. n - 1 : k = j + 1
    <3>1. k - 1 \in 1 .. n - 1 /\ k = (k - 1) + 1
      BY <1>15
    <3>. QED
      BY <3>1
  <2>2. infos[id].sharedState \in {Null, stack[k].at}
    BY <1>2, <1>15, <1>16, <2>1 DEF Reading, Nested
  <2>. QED
    BY <1>4, <1>7, <1>8, <1>11, <2>2
<1>17. Tells(stack, infos, heap, With(id, c), id, c)
  <2>1. Informed(infos, heap)
    BY <1>2 DEF Reading
  <2>2. infos[id].sharedState \in {Null, c.sharedState} /\ infos[id].ownerPtr \in {Null, c.ownerPtr}
    BY <1>7, <1>8, <1>9, <1>11
  <2>. QED
    BY <1>4, <1>11, <1>13, <1>15, <1>16, <2>1, <2>2, WithTells
<1>18. InReach(stack, heap, c)
  BY <1>9, <1>11 DEF InReach
<1>19. Reading(stack, infos', heap)
  BY <1>2, <1>12, <1>17, <1>18, ReadingTold
<1>20. Shares(heap, Here, id, info) /\ Waits(heap, info)
  BY <1>3, <1>5, <1>6, <1>7 DEF Told, Waits
<1>21. Kept(heap') /\ Reading(stack, infos', heap')
  BY <1>2, <1>4, <1>8, <1>9, <1>15, <1>19, <1>20, SharesLife
<1>. QED
  BY <1>1, <1>21, MovedReading

LEMMA WeakIsPlain ==
  ASSUME TypeInv, Disciplined, AtSlot, There.polymorphic
  PROVE  There.kind # "SharedObserver"
<1>1. PICK n, p, i : IsHere(n, p, i)
  BY HereIs
<1>2. Here = <<p, i>> /\ p \in DOMAIN heap /\ i \in 1 .. Len(heap[p].to)
  BY <1>1 DEF IsHere, IsSlot
<1>3. heap[p].type \in Types \union {"Root"} /\ Len(heap[p].to) = Len(PointersOf(heap[p].type))
  BY <1>2 DEF TypeInv, Typed, Object
<1>4. There = PointersOf(heap[p].type)[i]
  BY <1>2 DEF There, Declared
<1>. QED
  BY <1>2, <1>3, <1>4 DEF Disciplined, WeakPointersArePlain

LEMMA ReadUnknownTypeLives ==
  ASSUME TypeInv, LivesInv, Disciplined, ReadUnknownType
  PROVE  Kept(heap') /\ Reading(stack', infos', heap')
<1>1. AtSlot /\ stack' = Moved /\ There.kind # "Observer" /\ There.polymorphic
  BY DEF ReadUnknownType
<1>2. Kept(heap) /\ Reading(stack, infos, heap) /\ Typed(heap) /\ program \in Programs
  BY <1>1 DEF LivesInv, AtSlot, TypeInv
<1>3. PICK id \in Unclaimed :
         LET info == InfoById(id, There.kind)
         IN  IF IsShared(There)
               THEN Shares(heap, Here, id, [ info EXCEPT !.sharedState = Held ])
               ELSE /\ infos' = With(id, Claimed(info, Held))
                    /\ heap' = Linked(heap, info, Held)
  BY DEF ReadUnknownType
<1>4. There.kind \in {"Owner", "SharedOwner"}
  BY <1>1, HereIs, WeakIsPlain DEF Kinds
<1>5. PICK info : info = InfoById(id, There.kind)
  OBVIOUS
<1>6. info \in Info
  BY <1>4, <1>5, InfoByIdType DEF TypeInv, Kinds, Leading
<1>7. PICK m : m = Moved
  OBVIOUS
<1>8. Reading(m, infos, heap)
  BY <1>1, <1>2, <1>7, MovedReading
<1>9. Fresh(m, id, info)
  BY <1>4, <1>5, <1>8, UnclaimedIsFresh DEF Kinds
<1>10. PICK n, p, i : IsHere(n, p, i)
  BY <1>1, HereIs
<1>11. /\ n = Len(stack) /\ n \in Nat \ {0} /\ p = stack[n].at /\ i = stack[n].slot /\ i \in Nat
       /\ Here = <<p, i>> /\ IsSlot(heap, p, i) /\ KindOf(heap, p, i) = There.kind /\ Held = heap[p].to[i]
  BY <1>10 DEF IsHere
<1>12. Len(m) = n /\ m[n].at = p /\ m[n].slot = i + 1
  <2>1. Here[2] = i /\ n \in 1 .. n
    BY <1>11
  <2>. QED
    BY <1>1, <1>7, <1>11, <2>1, MovedType
<1>13. Lives(heap, p) /\ p \in DOMAIN heap
  <2>1. n \in 1 .. n
    BY <1>11
  <2>2. p \in ReadSet(stack, infos)
    BY <1>11, <2>1, SMTT(30) DEF ReadSet
  <2>. QED
    BY <1>2, <2>2 DEF Reading, Visited
<1>14. Held # Null => /\ Held \in DOMAIN heap /\ Lives(heap, Held)
                      /\ There.kind = "SharedOwner" => heap[Held].deleter # << >>
                      /\ There.kind = "Owner" => heap[Held].deleter = << >>
  <2>1. Held \in DOMAIN heap \union {Null}
    BY <1>1, HereType
  <2>2. Held # Null => Holds(heap, p, i, Held)
    BY <1>2, <1>11 DEF Kept
  <2>. QED
    BY <1>4, <1>11, <1>13, <2>1, <2>2 DEF Holds
\* The info afterwards.
<1>15. PICK o : o = IF IsShared(There) THEN [ info EXCEPT !.sharedState = Held ] ELSE info
  OBVIOUS
<1>16. PICK c : c = Claimed(o, Held)
  OBVIOUS
<1>17. /\ c.ownerPtr = Held /\ c.observers = {} /\ c.ownership # "Observer"
       /\ o.observers = info.observers
       /\ o.sharedState = IF There.kind = "SharedOwner" THEN Held ELSE Null
       /\ c.sharedState = o.sharedState
  BY <1>4, <1>6, <1>9, <1>15, <1>16 DEF Claimed, Info, IsShared, Fresh
<1>18. infos' = With(id, c)
  BY <1>3, <1>4, <1>5, <1>15, <1>16, <1>17 DEF Shares, IsShared
<1>19. Told(heap, c)
  <2>1. Waits(heap, c)
    BY <1>17 DEF Waits
  <2>. QED
    BY <1>14, <1>17, <2>1 DEF Told
<1>20. Tells(m, infos, heap, With(id, c), id, c)
  <2>1. Informed(infos, heap)
    BY <1>2 DEF Reading
  <2>. QED
    BY <1>9, <1>17, <1>19, <2>1, WithTells, Zenon DEF Fresh
<1>21. Held = Null \/ InReach(m, heap, c)
  <2>1. ASSUME Held # Null PROVE InReach(m, heap, c)
    <3>1. heap[Held].deleter # << >> => c.sharedState = Held
      BY <1>4, <1>14, <1>17, <2>1
    <3>2. heap[Held].deleter = << >> => KindOf(heap, p, i) = "Owner" /\ i < m[n].slot
      <4>1. i < i + 1
        BY <1>11
      <4>. QED
        BY <1>4, <1>11, <1>12, <1>14, <2>1, <4>1
    <3>. QED
      BY <1>11, <1>12, <1>14, <1>17, <2>1, <3>1, <3>2, ZenonT(30) DEF InReach
  <2>. QED
    BY <2>1
<1>22. Reading(m, infos', heap)
  BY <1>2, <1>8, <1>17, <1>18, <1>20, <1>21, ReadingTold
<1>23. Waits(heap, o)
  BY <1>9, <1>17 DEF Fresh, Waits
<1>24. CASE There.kind = "SharedOwner"
  <2>1. Shares(heap, Here, id, o)
    BY <1>3, <1>5, <1>15, <1>24 DEF IsShared
  <2>2. o.sharedState # Null => /\ o.sharedState \in DOMAIN heap /\ Lives(heap, o.sharedState)
                                /\ heap[o.sharedState].deleter # << >>
    BY <1>14, <1>17, <1>24
  <2>3. Kept(heap') /\ Reading(m, infos', heap')
    BY <1>2, <1>11, <1>12, <1>22, <1>23, <1>24, <2>1, <2>2, SharesLife
  <2>. QED
    BY <1>1, <1>7, <2>3
<1>25. CASE There.kind = "Owner"
  <2>1. heap' = Linked(heap, o, Held)
    BY <1>3, <1>5, <1>15, <1>25 DEF IsShared
  <2>2. Kept(heap') /\ Reading(m, infos', heap')
    BY <1>2, <1>22, <1>23, <2>1, LinkedLife
  <2>. QED
    BY <1>1, <1>7, <2>2
<1>. QED
  BY <1>4, <1>24, <1>25

\* What ReadObject reads: the object in the pointer, or a new one.
LEMMA FilledLife ==
  ASSUME TypeInv, AtSlot, Kept(heap), Reading(stack, infos, heap), There.kind # "Observer",
         NEW n, NEW p, NEW i, IsHere(n, p, i),
         NEW type \in Types, Fits(type) => Held \notin ReadSet(stack, infos),
         NEW h, h = IF ~ Fits(type) THEN Created(Emptied(type), Here, type, MemResource(There)) ELSE heap
  PROVE  \E q : /\ At(h, Here) = q /\ h[p].to[i] = q /\ q \notin ReadSet(stack, infos) /\ q # Null
                /\ q \in DOMAIN h /\ Lives(h, q)
                /\ IsSlot(h, p, i) /\ KindOf(h, p, i) = There.kind
                /\ Typed(h) /\ Extends(heap, h) /\ Kept(h) /\ Reading(stack, infos, h)
                /\ There.kind \in {"SharedOwner", "SharedObserver"} => h[q].deleter # << >>
<1>1. /\ n = Len(stack) /\ n \in Nat \ {0} /\ p = stack[n].at /\ i = stack[n].slot /\ i \in Nat
      /\ Here = <<p, i>> /\ IsSlot(heap, p, i) /\ KindOf(heap, p, i) = There.kind /\ Held = heap[p].to[i]
  BY DEF IsHere
<1>2. Typed(heap) /\ program \in Programs /\ There.kind \in Kinds
  BY HereIs
<1>3. PICK V : V = ReadSet(stack, infos)
  OBVIOUS
<1>4. p \in V
  <2>1. n \in 1 .. n
    BY <1>1, SMTT(30)
  <2>. QED
    BY <1>1, <1>3, <2>1 DEF ReadSet
<1>5. CASE Fits(type)
  <2>1. h = heap /\ Held # Null /\ Held \notin V
    BY <1>3, <1>5 DEF Fits
  <2>2. Held \in DOMAIN heap
    BY <2>1, HereType
  <2>3. Holds(heap, p, i, Held)
    BY <1>1, <2>1 DEF Kept
  <2>4. Lives(heap, p)
    BY <1>3, <1>4, SMTT(30) DEF Reading, Visited
  <2>5. Lives(heap, Held)
    <3>1. KindOf(heap, p, i) = There.kind
      BY <1>1
    <3>2. There.kind \in {"Owner", "SharedOwner", "SharedObserver"}
      BY <1>2 DEF Kinds
    <3>. QED
      BY <2>3, <2>4, <3>1, <3>2, Zenon DEF Holds
  <2>6. There.kind \in {"SharedOwner", "SharedObserver"} => heap[Held].deleter # << >>
    BY <1>1, <2>3 DEF Holds
  <2>7. At(heap, Here) = Held
    BY DEF Held
  <2>8. Extends(heap, heap)
    BY DEF Extends
  <2>. QED
    BY <1>1, <1>2, <1>3, <2>1, <2>2, <2>5, <2>6, <2>7, <2>8, ZenonT(30)
<1>6. CASE ~ Fits(type)
  <2>1. PICK e : e = Emptied(type)
    OBVIOUS
  <2>2. PICK by \in Resources : by = MemResource(There)
    BY HereType
  <2>3. \/ e = heap
        \/ Held # Null /\ e = DestroyPtr(Here, by)
    BY <1>6, <2>1, <2>2 DEF Emptied
  <2>4. Typed(e) /\ Extends(heap, e) /\ DOMAIN e = DOMAIN heap /\ Kept(e) /\ Reading(stack, infos, e)
    <3>1. CASE e = heap
      BY <1>2, <3>1 DEF Extends
    <3>2. CASE Held # Null /\ e = DestroyPtr(Here, by)
      BY <3>2, DestroyType, DestroyKeeps, EmptiedLife
    <3>. QED
      BY <2>3, <3>1, <3>2
  <2>5. IsSlot(e, p, i) /\ KindOf(e, p, i) = There.kind
    <3>1. p \in DOMAIN heap /\ i \in 1 .. Len(heap[p].to)
      BY <1>1 DEF IsSlot
    <3>2. e[p].type = heap[p].type /\ Len(e[p].to) = Len(heap[p].to)
      BY <1>2, <2>4, <3>1 DEF Extends, Typed
    <3>. QED
      BY <1>1, <2>4, <3>1, <3>2 DEF IsSlot, KindOf
  <2>6. h = Created(e, <<p, i>>, type, by)
    BY <1>1, <1>6, <2>1, <2>2
  <2>7. PICK q : Makes(e, h, p, i, q, type, by) /\ h[p].to[i] = q
    BY <1>2, <2>4, <2>5, <2>6, CreatedMakes
  <2>8. Typed(h) /\ Extends(e, h)
    <3>1. p \in DOMAIN e /\ i \in 1 .. Len(e[p].to)
      BY <2>5 DEF IsSlot
    <3>. QED
      BY <1>2, <2>4, <2>6, <3>1, CreatedType
  <2>9. Changes(e, h, p, i)
    BY <2>7, MakesChange
  <2>10. /\ q \notin DOMAIN e /\ q \in DOMAIN h /\ h[q].released = << >>
         /\ h[q].deleter = IF There.kind \in {"SharedOwner", "SharedObserver"} THEN << by, type >> ELSE << >>
         /\ \A r \in DOMAIN h \ DOMAIN e : r = q
         /\ \A j : IsSlot(h, q, j) => h[q].to[j] = Null
    BY <2>5, <2>7 DEF Makes
  <2>11. IsSlot(h, p, i) /\ KindOf(h, p, i) = There.kind /\ Lives(h, q)
    <3>1. h[p].type = e[p].type /\ Len(h[p].to) = Len(e[p].to) /\ p \in DOMAIN h
      BY <2>5, <2>7 DEF Makes, SameObject, IsSlot
    <3>. QED
      BY <2>5, <2>10, <3>1 DEF IsSlot, KindOf, Lives
  <2>12. << by, type >> # << >>
    OBVIOUS
  <2>13. q # Root /\ q # Null
    BY <2>4, <2>8, <2>10, NullIsNoObject DEF Kept
  <2>14. Holds(h, p, i, q)
    BY <2>10, <2>11, <2>12, <2>13 DEF Holds
  <2>15. Kept(h)
    BY <2>4, <2>7, <2>9, <2>10, <2>14, KeptChanged
  <2>16. Reading(stack, infos, h)
    <3>1. i >= stack[n].slot
      BY <1>1
    <3>. QED
      BY <1>1, <2>4, <2>9, <3>1, ReadingChanged
  <2>17. q \notin V
    BY <1>3, <2>4, <2>10 DEF Reading, Visited
  <2>18. At(h, Here) = q
    <3>1. At(h, <<p, i>>) = h[p].to[i]
      BY <2>8, SlotsOfHeap
    <3>. QED
      BY <1>1, <2>7, <3>1
  <2>19. Extends(heap, h)
    BY <2>4, <2>8, ExtendsTransitive
  <2>. QED
    BY <1>3, <2>7, <2>8, <2>19, <2>10, <2>11, <2>12, <2>13, <2>15, <2>16, <2>17, <2>18
<1>. QED
  BY <1>5, <1>6

LEMMA ReadObjectLives ==
  ASSUME TypeInv, LivesInv, Disciplined, ReadObject
  PROVE  Kept(heap') /\ Reading(stack', infos', heap')
<1>1. AtSlot /\ There.kind # "Observer"
  BY DEF ReadObject
<1>2. Kept(heap) /\ Reading(stack, infos, heap) /\ Typed(heap) /\ program \in Programs /\ There.kind \in Kinds
  BY <1>1, HereIs DEF LivesInv, AtSlot, TypeInv
<1>3. PICK id \in Unclaimed, index \in 1 .. Len(There.types) :
       LET type    == There.types[index]
           creates == ~Fits(type)
           filled  == IF creates
                        THEN Created(Emptied(type), Here, type, MemResource(There)) ELSE heap
           p       == At(filled, Here)
           info    == InfoById(id, There.kind)
           is      == With(id, [ info EXCEPT !.sharedState =
                                   IF SavedBefore(There, creates) THEN p ELSE @ ])
       IN  /\ creates => Cardinality(DOMAIN heap) <= program.objects
           /\ program.aliases \/ creates \/ p \notin ReadNow
           /\ infos' = is
           /\ heap' = Sweep(filled, States(is), {}, << >>)
           /\ stack' = Append(Moved, Frame(p, id, resource))
  BY DEF ReadObject
<1>4. PICK type : type = There.types[index]
  OBVIOUS
<1>5. type \in Types
  <2>1. There.types \in Seq(Types)
    BY <1>1, HereType DEF Pointers
  <2>. QED
    BY <1>4, <2>1
<1>6. PICK n, p, i : IsHere(n, p, i)
  BY <1>1, HereIs
<1>7. /\ n = Len(stack) /\ n \in Nat \ {0} /\ p = stack[n].at /\ i = stack[n].slot /\ i \in Nat
      /\ Here = <<p, i>>
  BY <1>6 DEF IsHere
<1>8. PICK h : h = IF ~ Fits(type) THEN Created(Emptied(type), Here, type, MemResource(There)) ELSE heap
  OBVIOUS
<1>9. PICK info : info = InfoById(id, There.kind)
  OBVIOUS
<1>10. PICK o : o = [ info EXCEPT !.sharedState = IF SavedBefore(There, ~Fits(type)) THEN At(h, Here) ELSE @ ]
  OBVIOUS
<1>11. /\ program.aliases \/ ~ Fits(type) \/ At(h, Here) \notin ReadNow
       /\ infos' = With(id, o)
       /\ heap' = Sweep(h, States(With(id, o)), {}, << >>)
       /\ stack' = Append(Moved, Frame(At(h, Here), id, resource))
  BY <1>3, <1>4, <1>8, <1>9, <1>10
<1>12. Fits(type) => Held \notin ReadSet(stack, infos)
  BY <1>8, <1>11 DEF Disciplined, ReadNow, ReadSet, Held
<1>13. PICK q : /\ At(h, Here) = q /\ h[p].to[i] = q /\ q \notin ReadSet(stack, infos) /\ q # Null
                /\ q \in DOMAIN h /\ Lives(h, q)
                /\ IsSlot(h, p, i) /\ KindOf(h, p, i) = There.kind
                /\ Typed(h) /\ Extends(heap, h) /\ Kept(h) /\ Reading(stack, infos, h)
                /\ There.kind \in {"SharedOwner", "SharedObserver"} => h[q].deleter # << >>
  BY <1>1, <1>2, <1>5, <1>6, <1>8, <1>12, FilledLife
<1>14. PICK m : m = Moved
  OBVIOUS
<1>15. Reading(m, infos, heap) /\ Reading(m, infos, h) /\ ReadSet(m, infos) = ReadSet(stack, infos)
  BY <1>1, <1>2, <1>13, <1>14, MovedReading
<1>16. Fresh(m, id, info)
  BY <1>1, <1>2, <1>9, <1>15, UnclaimedIsFresh
<1>17. info \in Info
  BY <1>2, <1>9, InfoByIdType DEF TypeInv, Leading
<1>18. /\ Len(m) = n /\ m[n].at = p /\ m[n].slot = i + 1 /\ m \in Seq(Frames)
  <2>1. Here[2] = i /\ n \in 1 .. n
    BY <1>7
  <2>. QED
    BY <1>1, <1>7, <1>14, <2>1, MovedType
<1>19. /\ o.ownerPtr = Null /\ o.ownership # "Observer" /\ o.observers = info.observers
       /\ o.sharedState = IF SavedBefore(There, ~Fits(type)) THEN q ELSE Null
  BY <1>10, <1>13, <1>16, <1>17 DEF Fresh, Info
<1>20. /\ SavedBefore(There, ~Fits(type)) => There.kind \in {"SharedOwner", "SharedObserver"}
       /\ There.kind = "SharedObserver" => SavedBefore(There, ~Fits(type))
  BY <1>1, WeakIsPlain DEF SavedBefore, IsShared
<1>21. Told(h, o)
  <2>1. Waits(heap, info)
    BY <1>16 DEF Fresh
  <2>2. Waits(heap, o)
    BY <1>19, <2>1 DEF Waits
  <2>3. Waits(h, o)
    <3>1. Typed(h) /\ Extends(heap, h)
      BY <1>13
    <3>2. DOMAIN heap \subseteq DOMAIN h
          /\ \A r \in DOMAIN heap : h[r].type = heap[r].type /\ Len(h[r].to) = Len(heap[r].to)
      BY <1>2, <3>1 DEF Extends, Typed
    <3>. QED
      BY <2>2, <3>2, WaitsOn
  <2>. QED
    BY <1>13, <1>19, <1>20, <2>3 DEF Told
<1>22. PICK w : w = With(id, o)
  OBVIOUS
<1>23. Tells(m, infos, h, w, id, o)
  <2>1. Informed(infos, h)
    BY <1>15 DEF Reading
  <2>2. \A s \in o.observers : s[1] \in ReadSet(m, infos)
    BY <1>16, <1>19 DEF Fresh
  <2>. QED
    BY <1>16, <1>19, <1>21, <1>22, <2>1, <2>2, WithTells DEF Fresh
<1>24. Reading(m, w, h)
  <2>1. Kept(h) /\ Reading(m, infos, h) /\ o.ownerPtr \in ReadSet(m, infos) \union {Null}
    BY <1>13, <1>15, <1>19
  <2>. QED
    BY <1>23, <2>1, ReadingTold
<1>25. ReadSet(m, w) = ReadSet(stack, infos)
  <2>1. ReadSet(m, w) = ReadSet(m, infos) \union ({ o.ownerPtr } \ {Null})
    BY <1>23, ReadSetTold
  <2>. QED
    BY <1>15, <1>19, <2>1
<1>26. w[id] = o /\ id \in DOMAIN w
  BY <1>23 DEF Tells
<1>27. PICK s : s = Append(m, Frame(q, id, resource))
  OBVIOUS
<1>28. Len(s) = n + 1 /\ (\A k \in 1 .. n : s[k] = m[k]) /\ s[n + 1].at = q /\ s[n + 1].id = id /\ s[n + 1].slot = 1
  BY <1>7, <1>18, <1>27, AppendProperties DEF Frame
<1>29. Reading(s, w, h)
  <2>1. i = m[n].slot - 1
    BY <1>7, <1>18
  <2>2. o.sharedState \in {Null, q} /\ (KindOf(h, p, i) = "SharedObserver" => o.sharedState = q)
    BY <1>13, <1>19, <1>20
  <2>3. \A k \in 2 .. n : m[k].id # id
    BY <1>16, <1>18 DEF Fresh
  <2>4. /\ program \in Programs /\ Typed(h) /\ Kept(h) /\ n \in Nat \ {0} /\ n = Len(m) /\ p = m[n].at
        /\ IsSlot(h, p, i) /\ h[p].to[i] = q /\ q \in DOMAIN h /\ Lives(h, q) /\ q # Null
        /\ q \notin ReadSet(m, w) /\ KindOf(h, p, i) # "Observer"
    BY <1>1, <1>2, <1>7, <1>13, <1>18, <1>25
  <2>5. /\ id \in DOMAIN w /\ w[id].ownership # "Observer" /\ w[id].ownerPtr = Null
        /\ w[id].sharedState \in {Null, q}
        /\ KindOf(h, p, i) = "SharedObserver" => w[id].sharedState = q
    BY <1>19, <1>26, <2>2
  <2>. QED
    BY <1>24, <1>28, <2>1, <2>3, <2>4, <2>5, ReadingPushed, SMTT(30)
<1>30. heap' = Sweep(h, States(w), {}, << >>) /\ infos' = w /\ stack' = s
  BY <1>11, <1>13, <1>14, <1>22, <1>27
<1>31. Loose(h, {})
  BY DEF Loose
<1>32. Kept(heap')
  BY <1>13, <1>30, <1>31, SweepKept
<1>33. Reading(s, w, heap')
  BY <1>13, <1>29, <1>30, ReadingSwept
<1>. QED
  BY <1>30, <1>32, <1>33

LEMMA ReadReturnLives ==
  ASSUME TypeInv, LivesInv, ReadReturn
  PROVE  Kept(heap') /\ Reading(stack', infos', heap')
<1>1. phase = "reading" /\ Len(stack) > 1
  BY DEF ReadReturn
<1>2. Kept(heap) /\ Reading(stack, infos, heap) /\ Typed(heap) /\ program \in Programs
  BY <1>1 DEF LivesInv, TypeInv
<1>3. PICK n \in Nat : n = Len(stack) /\ n > 1 /\ Last(stack) = stack[n]
  <2>1. PICK n : n = Len(stack)
    OBVIOUS
  <2>. QED
    BY <2>1, ReturnType
<1>4. Len(stack') = n - 1 /\ \A k \in 1 .. n - 1 : stack'[k] = stack[k]
  BY <1>3, ReturnType
<1>5. PICK m \in Nat \ {0} : m = n - 1
  <2>1. n - 1 \in Nat \ {0}
    BY <1>3, SMT
  <2>. QED
    BY <2>1
<1>6. /\ m \in 1 .. n - 1 /\ m + 1 = n /\ m \in 1 .. n /\ n \in 1 .. n /\ n \in 2 .. n
      /\ \A k \in 2 .. n : k \in 1 .. n
  BY <1>3, <1>5
<1>7. PICK p : p = stack[m].at
  OBVIOUS
<1>8. PICK i : i = stack[m].slot - 1
  OBVIOUS
<1>9. PICK q : q = stack[n].at
  OBVIOUS
<1>10. PICK id : id = stack[n].id
  OBVIOUS
<1>11. PICK info : info = infos[id]
  OBVIOUS
<1>12. PICK s : s = <<p, i>>
  OBVIOUS
<1>13. /\ IsSlot(heap, p, i) /\ heap[p].to[i] = q /\ KindOf(heap, p, i) # "Observer"
       /\ KindOf(heap, p, i) = "SharedObserver" => info.sharedState = q
       /\ id \in DOMAIN infos
       /\ info.sharedState \in {Null, q} /\ info.ownerPtr \in {Null, q} /\ info.ownership # "Observer"
  BY <1>2, <1>3, <1>6, <1>7, <1>8, <1>9, <1>10, <1>11 DEF Reading, Nested
<1>14. \A k \in 2 .. n : stack[k].id = id => k = n
  BY <1>2, <1>3, <1>6, <1>10 DEF Reading, Nested
<1>15. q \in ReadSet(stack, infos) /\ p \in ReadSet(stack, infos)
  BY <1>3, <1>6, <1>7, <1>9 DEF ReadSet
<1>16. q \in DOMAIN heap /\ Lives(heap, q) /\ q # Null
  BY <1>2, <1>15, NullIsNoObject DEF Reading, Visited
<1>17. KindOf(heap, p, i) \in {"Owner", "SharedOwner", "SharedObserver"}
  BY <1>2, <1>13, KindIsOne DEF Kinds
<1>18. Holds(heap, p, i, q)
  BY <1>2, <1>13, <1>16 DEF Kept
<1>19. /\ At(heap, s) = q
       /\ IsShared(Declared(heap, s)) <=> KindOf(heap, p, i) \in {"SharedOwner", "SharedObserver"}
  <2>1. At(heap, <<p, i>>) = heap[p].to[i] /\ Declared(heap, <<p, i>>).kind = KindOf(heap, p, i)
    BY <1>2, SlotsOfHeap
  <2>. QED
    BY <1>12, <1>13, <2>1 DEF IsShared
<1>20. IF IsShared(Declared(heap, s))
         THEN Shares(heap, s, id, [ info EXCEPT !.sharedState = IF @ = Null THEN At(heap, s) ELSE @ ])
         ELSE /\ infos' = With(id, Claimed(info, At(heap, s)))
              /\ heap' = Linked(heap, info, At(heap, s))
  BY <1>3, <1>5, <1>7, <1>8, <1>10, <1>11, <1>12 DEF ReadReturn
<1>21. info \in Info /\ Told(heap, info)
  BY <1>2, <1>11, <1>13 DEF TypeInv, Leads, Reading, Informed
\* The info afterwards.
<1>23. PICK o : o = IF KindOf(heap, p, i) \in {"SharedOwner", "SharedObserver"}
                      THEN [ info EXCEPT !.sharedState = IF @ = Null THEN q ELSE @ ] ELSE info
  OBVIOUS
<1>24. PICK c : c = Claimed(o, q)
  OBVIOUS
<1>25. /\ o.observers = info.observers /\ o.sharedState \in {Null, q}
       /\ KindOf(heap, p, i) \in {"SharedOwner", "SharedObserver"} => o.sharedState = q
       /\ info.sharedState = q => o.sharedState = q
       /\ c.ownerPtr = q /\ c.sharedState = o.sharedState /\ c.observers = {} /\ c.ownership # "Observer"
  <2>1. CASE KindOf(heap, p, i) \in {"SharedOwner", "SharedObserver"}
    <3>1. o = [ info EXCEPT !.sharedState = IF @ = Null THEN q ELSE @ ]
      BY <1>23, <2>1
    <3>. QED
      BY <1>13, <1>21, <1>24, <3>1 DEF Info, Claimed
  <2>2. CASE KindOf(heap, p, i) \notin {"SharedOwner", "SharedObserver"}
    BY <1>13, <1>21, <1>23, <1>24, <2>2 DEF Info, Claimed
  <2>. QED
    BY <2>1, <2>2
<1>26. infos' = With(id, c)
  <2>1. CASE KindOf(heap, p, i) \in {"SharedOwner", "SharedObserver"}
    <3>1. Shares(heap, s, id, o)
      BY <1>19, <1>20, <1>23, <2>1
    <3>2. o.sharedState = q
      BY <1>25, <2>1
    <3>. QED
      BY <1>24, <3>1, <3>2 DEF Shares
  <2>2. CASE KindOf(heap, p, i) \notin {"SharedOwner", "SharedObserver"}
    BY <1>19, <1>20, <1>23, <1>24, <2>2
  <2>. QED
    BY <2>1, <2>2
<1>27. c.sharedState # Null => heap[q].deleter # << >>
  <2>1. info.sharedState = q => heap[q].deleter # << >>
    BY <1>16, <1>21 DEF Told
  <2>2. KindOf(heap, p, i) \in {"SharedOwner", "SharedObserver"} => heap[q].deleter # << >>
    BY <1>18 DEF Holds
  <2>3. KindOf(heap, p, i) \notin {"SharedOwner", "SharedObserver"} => o.sharedState = info.sharedState
    BY <1>23
  <2>. QED
    BY <1>13, <1>25, <2>1, <2>2, <2>3
<1>28. Told(heap, c)
  <2>1. Waits(heap, c)
    BY <1>25 DEF Waits
  <2>. QED
    BY <1>16, <1>25, <1>27, <2>1 DEF Told
<1>29. PICK w : w = infos'
  OBVIOUS
<1>30. Tells(stack, infos, heap, w, id, c)
  <2>1. Informed(infos, heap)
    BY <1>2 DEF Reading
  <2>2. infos[id].sharedState \in {Null, c.sharedState} /\ infos[id].ownerPtr \in {Null, c.ownerPtr}
    BY <1>11, <1>13, <1>25
  <2>3. \A k \in 2 .. Len(stack) : stack[k].id = id =>
          c.sharedState \in {Null, stack[k].at} /\ c.ownerPtr \in {Null, stack[k].at}
    BY <1>3, <1>9, <1>14, <1>25
  <2>. QED
    BY <1>13, <1>25, <1>26, <1>28, <1>29, <2>1, <2>2, <2>3, WithTells
<1>31. Reading(stack, w, heap)
  <2>1. c.ownerPtr \in ReadSet(stack, infos) \union {Null}
    BY <1>15, <1>25
  <2>. QED
    BY <1>2, <1>30, <2>1, ReadingTold
<1>32. PICK f : f = stack'
  OBVIOUS
<1>33. Reading(f, w, heap)
  <2>1. w[stack[n].id].ownerPtr = stack[n].at
    BY <1>9, <1>10, <1>25, <1>30 DEF Tells
  <2>2. heap[stack[n].at].deleter # << >> => stack[n].at \in States(w)
    <3>1. heap[q].deleter # << >> => c.sharedState = q
      BY <1>17, <1>18, <1>25 DEF Holds
    <3>2. c.sharedState # Null => c.sharedState \in States(w)
      BY <1>30, ReadSetTold
    <3>. QED
      BY <1>9, <1>16, <3>1, <3>2
  <2>. QED
    BY <1>2, <1>3, <1>4, <1>31, <1>32, <2>1, <2>2, ReadingPopped
<1>34. Waits(heap, info) /\ Waits(heap, o)
  BY <1>21, <1>25 DEF Told, Waits
<1>35. CASE KindOf(heap, p, i) \in {"SharedOwner", "SharedObserver"}
  <2>1. Shares(heap, s, id, o)
    BY <1>19, <1>20, <1>23, <1>35
  <2>2. o.sharedState # Null => /\ o.sharedState \in DOMAIN heap /\ Lives(heap, o.sharedState)
                                /\ heap[o.sharedState].deleter # << >>
    BY <1>16, <1>25, <1>27
  <2>3. Len(f) = m /\ f[m].at = p
    BY <1>4, <1>5, <1>6, <1>7, <1>32
  <2>4. Kept(heap') /\ Reading(f, infos', heap')
    BY <1>2, <1>12, <1>13, <1>29, <1>33, <1>34, <1>35, <2>1, <2>2, <2>3, SharesLife
  <2>. QED
    BY <1>32, <2>4
<1>36. CASE KindOf(heap, p, i) \notin {"SharedOwner", "SharedObserver"}
  <2>1. heap' = Linked(heap, info, q)
    BY <1>19, <1>20, <1>36
  <2>2. Kept(heap') /\ Reading(f, w, heap')
    BY <1>2, <1>33, <1>34, <2>1, LinkedLife
  <2>. QED
    BY <1>29, <1>32, <2>2
<1>. QED
  BY <1>35, <1>36

\* The first frame of a document.
LEMMA ReadingBegun ==
  ASSUME NEW h, Typed(h), Kept(h), NEW f, f = << Frame(Root, 0, NewDelete) >>,
         NEW is, is = [ id \in {} |-> 0 ]
  PROVE  Reading(f, is, h)
<1>1. Len(f) = 1 /\ f[1].at = Root /\ f[1].slot = 1
  BY DEF Frame
<1>2. DOMAIN is = {}
  OBVIOUS
<1>3. ReadSet(f, is) = {Root}
  <2>1. { f[k].at : k \in 1 .. 1 } = {Root}
    BY <1>1
  <2>. QED
    BY <1>1, <1>2, <2>1 DEF ReadSet
<1>4. Root \in DOMAIN h /\ Lives(h, Root) /\ h[Root].deleter = << >> /\ Root # Null
  BY NullIsNoObject DEF Kept
<1>5. Nested(f, is, h)
  BY <1>1, <1>4 DEF Nested
<1>6. Informed(is, h)
  <2>1. DOMAIN is = 1 .. 0
    BY <1>2
  <2>. QED
    BY <1>2, <2>1 DEF Informed
<1>7. \A p, i : IsSlot(h, p, i) /\ KindOf(h, p, i) = "Owner" => h[p].to[i] # Root
  BY <1>4 DEF Kept, Holds
<1>8. Visited(f, is, h)
  BY <1>1, <1>2, <1>3, <1>4, <1>7 DEF Visited
<1>. QED
  BY <1>5, <1>6, <1>8 DEF Reading

LEMMA KeptInit ==
  ASSUME Init
  PROVE  Kept(heap)
<1>1. TypeInv
  BY TypeInit
<1>2. PICK o : o = NewObject("Root", NewDelete)
  OBVIOUS
<1>3. o.released = << >> /\ o.deleter = << >>
  BY <1>2 DEF NewObject
<1>4. DOMAIN heap = {Root} /\ heap[Root] = o
  BY <1>2 DEF Init
<1>5. \A i \in 1 .. Len(o.to) : o.to[i] = Null
  <2>1. NewDelete \in Resources /\ "Root" \in Types \union {"Root"} /\ program \in Programs
    BY <1>1 DEF Resources, TypeInv
  <2>. QED
    BY <1>2, <2>1, NewObjectType, SMTT(30)
<1>6. \A p, i : IsSlot(heap, p, i) => heap[p].to[i] = Null
  BY <1>4, <1>5 DEF IsSlot
<1>. QED
  BY <1>3, <1>4, <1>6 DEF Kept, Lives

-----------------------------------------------------------------------------
(***************************************************************************)
(* All steps.                                                              *)
(***************************************************************************)
LEMMA LivesNow ==
  ASSUME program' = program, Kept(heap'),
         phase' = "reading" => Reading(stack', infos', heap'),
         phase' # "reading" => stack' = << >>
  PROVE  LivesInv'
<1>1. Kept(heap)'
  BY DEF Kept, Holds, IsSlot, KindOf, PointersOf, Lives
<1>2. Reading(stack, infos, heap)' <=> Reading(stack', infos', heap')
  <2>1. Nested(stack, infos, heap)' <=> Nested(stack', infos', heap')
    BY DEF Nested, IsSlot, KindOf, PointersOf
  <2>2. Informed(infos, heap)' <=> Informed(infos', heap')
    BY DEF Informed, Told, Waits, IsSlot, KindOf, PointersOf, Lives
  <2>3. Visited(stack, infos, heap)' <=> Visited(stack', infos', heap')
    BY DEF Visited, ReadSet, States, IsSlot, KindOf, PointersOf, Lives
  <2>. QED
    BY <2>1, <2>2, <2>3 DEF Reading
<1>. QED
  BY <1>1, <1>2 DEF LivesInv

LEMMA LivesInit == Init => LivesInv
<1>. SUFFICES ASSUME Init PROVE LivesInv
  OBVIOUS
<1>1. Kept(heap) /\ Typed(heap)
  BY KeptInit, TypeInit DEF TypeInv
<1>2. phase = "reading" /\ stack = << Frame(Root, 0, NewDelete) >> /\ infos = [ id \in {} |-> 0 ]
  BY DEF Init
<1>3. Reading(stack, infos, heap)
  BY <1>1, <1>2, ReadingBegun
<1>. QED
  BY <1>1, <1>2, <1>3 DEF LivesInv

LEMMA DisciplinedNext == Disciplined' /\ [Next]_vars => Disciplined
<1>. SUFFICES ASSUME Disciplined', [Next]_vars PROVE Disciplined
  OBVIOUS
<1>1. program' = program
  BY Zenon DEF Next, vars, ReadNull, ReadObserver, ReadKnown, ReadObject, ReadUnknownType,
               ThrowBadWeakPtr, ReadReturn, EndOfData, Finish, ClearSharedState, NextDocument
<1>. QED
  BY <1>1 DEF Disciplined, WeakPointersArePlain, PointersOf

LEMMA LivesNext ==
  ASSUME TypeInv, LivesInv, Disciplined, [Next]_vars
  PROVE  LivesInv'
<1>1. CASE ReadNull
  BY <1>1, ReadNullLives, LivesNow DEF ReadNull, AtSlot
<1>2. CASE ReadObserver
  BY <1>2, ReadObserverLives, LivesNow DEF ReadObserver, AtSlot
<1>3. CASE ReadKnown
  BY <1>3, ReadKnownLives, LivesNow DEF ReadKnown, AtSlot
<1>4. CASE ReadObject
  <2>1. program' = program /\ phase' = phase /\ phase = "reading"
    BY <1>4, Zenon DEF ReadObject, AtSlot
  <2>. QED
    BY <1>4, <2>1, ReadObjectLives, LivesNow
<1>5. CASE ReadUnknownType
  <2>1. program' = program /\ phase' = phase /\ phase = "reading"
    BY <1>5, Zenon DEF ReadUnknownType, AtSlot
  <2>. QED
    BY <1>5, <2>1, ReadUnknownTypeLives, LivesNow
<1>6. CASE ReadReturn
  <2>1. program' = program /\ phase' = phase /\ phase = "reading"
    BY <1>6, Zenon DEF ReadReturn
  <2>. QED
    BY <1>6, <2>1, ReadReturnLives, LivesNow
<1>7. CASE ThrowBadWeakPtr
  <2>1. program' = program /\ heap' = heap /\ phase' = "thrown" /\ stack' = << >>
    BY <1>7 DEF ThrowBadWeakPtr
  <2>. QED
    BY <2>1, LivesNow DEF LivesInv
<1>8. CASE Finish
  <2>1. program' = program /\ heap' = heap /\ phase' = "read" /\ stack' = << >>
    BY <1>8 DEF Finish
  <2>. QED
    BY <2>1, LivesNow DEF LivesInv
<1>9. CASE EndOfData \/ UNCHANGED vars
  <2>1. program' = program /\ heap' = heap /\ phase' = phase /\ stack' = stack /\ infos' = infos
    BY <1>9 DEF EndOfData, vars
  <2>. QED
    BY <2>1, LivesNow DEF LivesInv
<1>10. CASE ClearSharedState
  <2>1. /\ program' = program /\ phase = "read" /\ phase' = "cleared" /\ stack' = stack
        /\ heap' = Sweep(heap, {}, {}, << >>)
    BY <1>10 DEF ClearSharedState
  <2>2. Loose(heap, {})
    BY DEF Loose
  <2>3. Kept(heap')
    BY <2>1, <2>2, SweepKept DEF LivesInv, TypeInv
  <2>4. stack' = << >>
    BY <2>1 DEF LivesInv
  <2>. QED
    BY <2>1, <2>3, <2>4, LivesNow
<1>11. CASE NextDocument
  <2>1. /\ program' = program /\ phase' = "reading" /\ heap' = heap
        /\ stack' = << Frame(Root, 0, NewDelete) >> /\ infos' = [ id \in {} |-> 0 ]
    BY <1>11 DEF NextDocument
  <2>2. Typed(heap') /\ Kept(heap')
    BY <2>1 DEF LivesInv, TypeInv
  <2>3. Reading(stack', infos', heap')
    BY <2>1, <2>2, ReadingBegun
  <2>. QED
    BY <2>1, <2>2, <2>3, LivesNow
<1>. QED
  BY <1>1, <1>2, <1>3, <1>4, <1>5, <1>6, <1>7, <1>8, <1>9, <1>10, <1>11 DEF Next

LEMMA LivesSuffices == LivesInv => InUseIsLive
<1>. SUFFICES ASSUME LivesInv PROVE InUseIsLive
  OBVIOUS
<1>1. CASE phase = "reading"
  <2>1. \A q \in ReadSet(stack, infos) : Lives(heap, q)
    BY <1>1 DEF LivesInv, Reading, Visited
  <2>2. \A k \in 1 .. Len(stack) : stack[k].at \in ReadSet(stack, infos)
    BY DEF ReadSet
  <2>3. \A id \in DOMAIN infos : \A s \in infos[id].observers : s[1] \in ReadSet(stack, infos)
    BY <1>1 DEF LivesInv, Reading, Visited
  <2>. QED
    BY <2>1, <2>2, <2>3 DEF InUseIsLive
<1>2. CASE phase # "reading"
  <2>1. stack = << >>
    BY <1>2 DEF LivesInv
  <2>2. 1 .. Len(stack) = {}
    BY <2>1
  <2>. QED
    BY <1>2, <2>2 DEF InUseIsLive
<1>. QED
  BY <1>1, <1>2

\* In a program whose documents keep together what its pointers share, and
\* whose weak pointers are not polymorphic: whatever the documents say and
\* however they end, no object is released while it is read, or while one of
\* its pointers waits in the list of observers.  The reader releases objects
\* in the middle of a document, of its own pointers and, with the last share,
\* of pointers elsewhere, and keeps raw pointers to others on its call stack.
THEOREM InUseStaysLive == Spec => [](~ program.aliases => InUseStays)
<1>. DEFINE Inv == TypeInv /\ (Disciplined => LivesInv)
<1>1. Init => Inv
  BY TypeInit, LivesInit
<1>2. Inv /\ [Next]_vars => Inv'
  BY TypeNext, LivesNext, DisciplinedNext
<1>3. Inv => (~ program.aliases => InUseStays)
  BY LivesSuffices DEF Disciplined, InUseStays
<1>. QED
  BY <1>1, <1>2, <1>3, PTL DEF Spec

\* At any time, also in the middle of a document: what the unique and the
\* shared pointers of a live object hold lives, and so does what any weak
\* pointer holds; no two unique pointers hold the same object, and none
\* holds one that is shared.
Own(p, i) == IsSlot(heap, p, i) /\ KindOf(heap, p, i) = "Owner" /\ heap[p].to[i] # Null

OwnersKeep ==
  /\ \A p, i : /\ IsSlot(heap, p, i) /\ Lives(heap, p) /\ heap[p].to[i] # Null
               /\ KindOf(heap, p, i) \in Kinds \ {"Observer"}
               => Lives(heap, heap[p].to[i])
  /\ \A p, i : Own(p, i) => heap[heap[p].to[i]].deleter = << >>
  /\ \A p, i, r, j : Own(p, i) /\ Own(r, j) /\ heap[p].to[i] = heap[r].to[j] => p = r /\ i = j

\* Such a program never has two owners of one object, nor an owner of one
\* that was released: a type that does not fit is destroyed through the
\* pointer that owns it, and the pointer is emptied in the same step.
THEOREM OwnersNeverDangle == Spec => [](Disciplined => OwnersKeep)
<1>. DEFINE Inv == TypeInv /\ (Disciplined => LivesInv)
<1>1. Init => Inv
  BY TypeInit, LivesInit
<1>2. Inv /\ [Next]_vars => Inv'
  BY TypeNext, LivesNext, DisciplinedNext
<1>3. Inv => (Disciplined => OwnersKeep)
  <2>. SUFFICES ASSUME Kept(heap) PROVE OwnersKeep
    BY DEF LivesInv
  <2>1. \A p, i : /\ IsSlot(heap, p, i) /\ Lives(heap, p) /\ heap[p].to[i] # Null
                  /\ KindOf(heap, p, i) \in Kinds \ {"Observer"}
                  => Lives(heap, heap[p].to[i])
    BY DEF Kept, Holds, Kinds
  <2>2. \A p, i : Own(p, i) => heap[heap[p].to[i]].deleter = << >>
    BY DEF Kept, Holds, Own
  <2>3. \A p, i, r, j : Own(p, i) /\ Own(r, j) /\ heap[p].to[i] = heap[r].to[j] => p = r /\ i = j
    BY DEF Kept, Own
  <2>. QED
    BY <2>1, <2>2, <2>3 DEF OwnersKeep
<1>. QED
  BY <1>1, <1>2, <1>3, PTL DEF Spec

-----------------------------------------------------------------------------
(***************************************************************************)
(* Programs in which an object with pointers is read with the same         *)
(* resource in the context whichever pointer leads to it.                  *)
(***************************************************************************)
SpecOf(h, p, i) == PointersOf(h[p].type)[i]

HasPointers(t) == Len(PointersOf(t)) > 0

\* The resource that is in the context inside a pointer, and the one at hand
\* for it, where the context has r around it.
Inner(spec, r)  == IF Propagates(spec) THEN spec.resource ELSE r
AtHand(spec, r) == IF spec.resource # NewDelete THEN spec.resource ELSE r

\* levels has what a pointer may hold with what the context has inside, and
\* if others may share that, inside is always the same.
AlikeBehind(levels, inside, spec, r) ==
  \A j \in 1 .. Len(spec.types) :
    /\ << spec.types[j], Inner(spec, r) >> \in levels
    /\ IsShared(spec) /\ HasPointers(spec.types[j]) => inside[spec.types[j]] = Inner(spec, r)

Alike(levels, inside) ==
  /\ << "Root", program.context >> \in levels
  /\ \A l \in levels : \A i \in 1 .. Len(PointersOf(l[1])) :
       PointersOf(l[1])[i].kind # "Observer" => AlikeBehind(levels, inside, PointersOf(l[1])[i], l[2])

DeclaredAlike ==
  \E levels \in SUBSET ((Types \union {"Root"}) \X Resources), inside \in [ Types -> Resources ] :
    Alike(levels, inside)

\* What pointer i of p holds is of a type it may hold, read with the resource
\* it asks for and, if p owns it, allocated with it.
Suits(h, inh, p, i, q) ==
  /\ \E j \in 1 .. Len(SpecOf(h, p, i).types) : h[q].type = SpecOf(h, p, i).types[j]
  /\ HasPointers(h[q].type) => inh[q] = Inner(SpecOf(h, p, i), inh[p])
  /\ KindOf(h, p, i) = "Owner" => h[q].by = AtHand(SpecOf(h, p, i), inh[p])

\* inh has for each object the resource that is in the context inside.
Proper(h, inh, levels, inside, q) ==
  /\ << h[q].type, inh[q] >> \in levels
  /\ h[q].deleter \in { << >>, << h[q].by, h[q].type >> }
  /\ h[q].released \in { << >>, << << h[q].by, h[q].type >> >> }
  /\ h[q].deleter # << >> /\ HasPointers(h[q].type) => inh[q] = inside[h[q].type]

Inherits(h, inh, levels, inside) ==
  /\ Root \in DOMAIN h /\ inh[Root] = program.context
  /\ \A q \in DOMAIN h : Proper(h, inh, levels, inside, q)
  /\ \A p, i : IsSlot(h, p, i) /\ KindOf(h, p, i) # "Observer" /\ h[p].to[i] # Null =>
       Suits(h, inh, p, i, h[p].to[i])

\* The objects in progress are read with theirs.
InForceUpto(f, h, inh, m) ==
  \A k \in 1 .. m : HasPointers(h[f[k].at].type) => Inside(Outers(f, h), k) = inh[f[k].at]
InForce(f, h, inh) == InForceUpto(f, h, inh, Len(f))

ReleaseInv ==
  \E levels \in SUBSET ((Types \union {"Root"}) \X Resources), inside \in [ Types -> Resources ] :
    /\ Alike(levels, inside)
    /\ \E inh : Inherits(heap, inh, levels, inside) /\ InForce(stack, heap, inh)

\* A pointer that is not polymorphic can hold objects of one type.
LEMMA PlainHasOneType ==
  ASSUME program \in Programs, NEW t \in Types \union {"Root"}, NEW i \in 1 .. Len(PointersOf(t))
  PROVE  PointersOf(t)[i].polymorphic \/ Len(PointersOf(t)[i].types) = 1
<1>1. CASE t = "Root"
  BY <1>1, ElementAssumption DEF PointersOf
<1>2. CASE t # "Root"
  <2>1. t \in Types /\ PointersOf(t) = program.members[t]
    BY <1>2 DEF PointersOf
  <2>2. program.members[t] \in {program.root} \union { program.members[type] : type \in Types }
    BY <2>1
  <2>3. \A j \in 1 .. Len(program.members[t]) :
           program.members[t][j].polymorphic \/ Len(program.members[t][j].types) = 1
    BY <2>2, ElementAssumption
  <2>. QED
    BY <2>1, <2>3
<1>. QED
  BY <1>1, <1>2

\* A slot, and what declares it.
LEMMA SlotSpec ==
  ASSUME program \in Programs, NEW h, Typed(h), NEW p, NEW i, IsSlot(h, p, i)
  PROVE  /\ p \in DOMAIN h /\ h[p].type \in Types \union {"Root"} /\ i \in 1 .. Len(PointersOf(h[p].type))
         /\ HasPointers(h[p].type)
         /\ SpecOf(h, p, i) \in Pointers /\ SpecOf(h, p, i).kind = KindOf(h, p, i)
         /\ Declared(h, <<p, i>>) = SpecOf(h, p, i)
         /\ SpecOf(h, p, i).polymorphic \/ Len(SpecOf(h, p, i).types) = 1
         /\ h[p].to[i] \in DOMAIN h \union {Null}
<1>1. p \in DOMAIN h /\ i \in 1 .. Len(h[p].to) /\ h[p].type \in Types \union {"Root"}
      /\ Len(h[p].to) = Len(PointersOf(h[p].type)) /\ h[p].to[i] \in DOMAIN h \union {Null}
  BY ObjectFields DEF IsSlot, Typed
<1>2. PointersOf(h[p].type) \in Seq(Pointers) /\ PointersOf(h[p].type)[i] \in Pointers
  BY <1>1, PointersType
<1>3. Len(PointersOf(h[p].type)) > 0
  BY <1>1, <1>2
<1>4. <<p, i>>[1] = p /\ <<p, i>>[2] = i
  OBVIOUS
<1>5. SpecOf(h, p, i).polymorphic \/ Len(SpecOf(h, p, i).types) = 1
  BY <1>1, PlainHasOneType DEF SpecOf
<1>. QED
  BY <1>1, <1>2, <1>3, <1>4, <1>5 DEF HasPointers, SpecOf, KindOf, Declared

LEMMA InheritsChanged ==
  ASSUME program \in Programs, NEW h, Typed(h), NEW inh, NEW levels, NEW inside,
         Inherits(h, inh, levels, inside),
         NEW g, NEW p, NEW i, Changes(h, g, p, i), NEW inj, \A r \in DOMAIN h : inj[r] = inh[r],
         \A r \in DOMAIN g \ DOMAIN h : /\ Proper(g, inj, levels, inside, r)
                                        /\ \A j : IsSlot(g, r, j) => g[r].to[j] = Null,
         IsSlot(h, p, i) /\ KindOf(h, p, i) # "Observer" /\ g[p].to[i] # Null
           => Suits(g, inj, p, i, g[p].to[i])
  PROVE  Inherits(g, inj, levels, inside)
<1>1. /\ DOMAIN h \subseteq DOMAIN g
      /\ \A r \in DOMAIN h : /\ g[r].type = h[r].type /\ g[r].by = h[r].by /\ g[r].deleter = h[r].deleter
                             /\ g[r].released = h[r].released
      /\ \A r \in DOMAIN h : \A j : /\ IsSlot(g, r, j) <=> IsSlot(h, r, j)
                                    /\ KindOf(g, r, j) = KindOf(h, r, j)
  BY SlotsKept, SMTT(30) DEF Changes, SameObject
<1>2. Root \in DOMAIN g /\ inj[Root] = program.context
  BY <1>1 DEF Inherits
<1>3. ASSUME NEW q \in DOMAIN g
      PROVE  Proper(g, inj, levels, inside, q)
  <2>1. CASE q \in DOMAIN h
    <3>1. Proper(h, inh, levels, inside, q)
      BY <2>1 DEF Inherits
    <3>. QED
      BY <1>1, <2>1, <3>1 DEF Proper
  <2>. QED
    BY <2>1
<1>4. ASSUME NEW r, NEW j, IsSlot(g, r, j), KindOf(g, r, j) # "Observer", g[r].to[j] # Null
      PROVE  Suits(g, inj, r, j, g[r].to[j])
  <2>1. r \in DOMAIN h
    BY <1>4 DEF IsSlot
  <2>2. IsSlot(h, r, j) /\ KindOf(h, r, j) # "Observer"
    BY <1>1, <1>4, <2>1
  <2>3. CASE r = p /\ j = i
    BY <1>4, <2>2, <2>3
  <2>4. CASE ~ (r = p /\ j = i)
    <3>1. g[r].to[j] = h[r].to[j]
      BY <2>2, <2>4 DEF Changes
    <3>2. h[r].to[j] \in DOMAIN h
      <4>1. h[r].to[j] \in DOMAIN h \union {Null}
        BY <2>2, SlotSpec
      <4>. QED
        BY <1>4, <3>1, <4>1
    <3>3. Suits(h, inh, r, j, h[r].to[j])
      BY <1>4, <2>2, <3>1 DEF Inherits
    <3>4. SpecOf(g, r, j) = SpecOf(h, r, j) /\ KindOf(g, r, j) = KindOf(h, r, j)
      BY <1>1, <2>1 DEF SpecOf
    <3>. QED
      BY <1>1, <2>1, <3>1, <3>2, <3>3, <3>4 DEF Suits
  <2>. QED
    BY <2>3, <2>4
<1>. QED
  BY <1>2, <1>3, <1>4 DEF Inherits

\* A sweep releases the way objects were allocated, if it begins with that.
LEMMA InheritsSwept ==
  ASSUME program \in Programs, NEW h, Typed(h), NEW inh, NEW levels, NEW inside,
         Inherits(h, inh, levels, inside), NEW states, NEW first, NEW how,
         \A q \in first : q \in DOMAIN h /\ Lives(h, q) /\ how = << h[q].by, h[q].type >>
  PROVE  Inherits(Sweep(h, states, first, how), inh, levels, inside)
<1>1. PICK D : D = Dying(h, states, first)
  OBVIOUS
<1>2. PICK g : g = Bury(h, D, first, how)
  OBVIOUS
<1>3. Buries(h, g, D, first, how)
  BY <1>2, BuryBuries
<1>4. /\ DOMAIN g = DOMAIN h
      /\ \A r \in DOMAIN h : g[r].type = h[r].type /\ g[r].by = h[r].by /\ g[r].deleter = h[r].deleter
                             /\ Len(g[r].to) = Len(h[r].to)
  BY <1>3 DEF Buries
<1>5. \A r, j : /\ IsSlot(g, r, j) <=> IsSlot(h, r, j)
                /\ IsSlot(h, r, j) => KindOf(g, r, j) = KindOf(h, r, j)
  BY <1>4, SlotsSame
<1>6. ASSUME NEW q \in DOMAIN g
      PROVE  Proper(g, inh, levels, inside, q)
  <2>1. Proper(h, inh, levels, inside, q)
    BY <1>4 DEF Inherits
  <2>2. g[q].released \in { << >>, << << h[q].by, h[q].type >> >> }
    <3>1. CASE q \notin D
      BY <1>3, <1>4, <2>1, <3>1 DEF Buries, Proper
    <3>2. CASE q \in D
      <4>1. h[q].released = << >>
        BY <1>1, <3>2, DyingWhy DEF Lives
      <4>2. g[q].released = Append(h[q].released, IF q \in first THEN how ELSE Way1(h[q]))
        BY <1>3, <1>4, <3>2 DEF Buries
      <4>3. (IF q \in first THEN how ELSE Way1(h[q])) = << h[q].by, h[q].type >>
        BY <2>1 DEF Proper, Way1
      <4>4. Append(<< >>, << h[q].by, h[q].type >>) = << << h[q].by, h[q].type >> >>
        OBVIOUS
      <4>. QED
        BY <4>1, <4>2, <4>3, <4>4
    <3>. QED
      BY <3>1, <3>2
  <2>. QED
    BY <1>4, <2>1, <2>2 DEF Proper
<1>7. ASSUME NEW r, NEW j, IsSlot(g, r, j), KindOf(g, r, j) # "Observer", g[r].to[j] # Null
      PROVE  Suits(g, inh, r, j, g[r].to[j])
  <2>1. IsSlot(h, r, j) /\ KindOf(h, r, j) # "Observer" /\ KindOf(g, r, j) = KindOf(h, r, j)
    BY <1>5, <1>7
  <2>2. g[r].to[j] = h[r].to[j]
    BY <1>3, <1>7, <2>1 DEF Buries
  <2>3. r \in DOMAIN h /\ h[r].to[j] \in DOMAIN h
    BY <1>7, <2>1, <2>2, SlotSpec
  <2>4. Suits(h, inh, r, j, h[r].to[j])
    BY <1>7, <2>1, <2>2 DEF Inherits
  <2>5. SpecOf(g, r, j) = SpecOf(h, r, j)
    BY <1>4, <2>3 DEF SpecOf
  <2>. QED
    BY <1>4, <2>1, <2>2, <2>3, <2>4, <2>5 DEF Suits
<1>8. Inherits(g, inh, levels, inside)
  BY <1>4, <1>6, <1>7 DEF Inherits
<1>9. Sweep(h, states, first, how) = g
  BY <1>1, <1>2 DEF Sweep
<1>. QED
  BY <1>8, <1>9

\* An object that is shared suits every shared pointer that may hold it.
LEMMA SharedSuits ==
  ASSUME program \in Programs, NEW h, Typed(h), NEW inh, NEW levels, NEW inside,
         Alike(levels, inside), Inherits(h, inh, levels, inside),
         NEW p, NEW i, IsSlot(h, p, i), KindOf(h, p, i) \in {"SharedOwner", "SharedObserver"},
         NEW q \in DOMAIN h, h[q].deleter # << >>,
         \E j \in 1 .. Len(SpecOf(h, p, i).types) : h[q].type = SpecOf(h, p, i).types[j]
  PROVE  Suits(h, inh, p, i, q)
<1>1. PICK spec : spec = SpecOf(h, p, i)
  OBVIOUS
<1>2. PICK j \in 1 .. Len(spec.types) : h[q].type = spec.types[j]
  BY <1>1
<1>3. /\ p \in DOMAIN h /\ i \in 1 .. Len(PointersOf(h[p].type)) /\ spec = PointersOf(h[p].type)[i]
      /\ spec.kind \in {"SharedOwner", "SharedObserver"}
  <2>1. p \in DOMAIN h /\ i \in 1 .. Len(PointersOf(h[p].type)) /\ spec.kind = KindOf(h, p, i)
    BY <1>1, SlotSpec, ZenonT(30)
  <2>. QED
    BY <1>1, <2>1 DEF SpecOf
<1>4. PICK l \in levels : l = << h[p].type, inh[p] >>
  BY <1>3 DEF Inherits, Proper
<1>5. l[1] = h[p].type /\ l[2] = inh[p]
  BY <1>4
<1>6. AlikeBehind(levels, inside, spec, inh[p])
  BY <1>3, <1>5 DEF Alike
<1>7. HasPointers(h[q].type) => inside[h[q].type] = Inner(spec, inh[p])
  BY <1>2, <1>3, <1>6 DEF AlikeBehind, IsShared
<1>8. HasPointers(h[q].type) => inh[q] = inside[h[q].type]
  BY DEF Inherits, Proper
<1>9. SpecOf(h, p, i) = spec /\ KindOf(h, p, i) # "Owner"
  BY <1>1
<1>. QED
  BY <1>2, <1>7, <1>8, <1>9 DEF Suits

\* The first m objects in progress are those of the stack.
Along(f, m) ==
  /\ Len(f) \in Nat /\ m \in 1 .. Len(stack) /\ m <= Len(f)
  /\ \A k \in 1 .. m - 1 : f[k].at = stack[k].at /\ f[k].slot = stack[k].slot
  /\ f[m].at = stack[m].at

LEMMA ForceKept ==
  ASSUME TypeInv, NEW inh, InForce(stack, heap, inh), NEW h, Typed(h), Extends(heap, h),
         NEW f, NEW m, Along(f, m)
  PROVE  InForceUpto(f, h, inh, m)
<1>1. PICK n \in Nat : n = Len(stack)
  BY DEF TypeInv
<1>. SUFFICES ASSUME NEW k \in 1 .. m
              PROVE  HasPointers(h[f[k].at].type) => Inside(Outers(f, h), k) = inh[f[k].at]
  BY DEF InForceUpto
<1>2. k \in 1 .. n /\ f[k].at = stack[k].at
  <2>1. k = m \/ k \in 1 .. m - 1
    BY <1>1 DEF Along
  <2>. QED
    BY <1>1, <2>1 DEF Along
<1>3. stack[k].at \in DOMAIN heap
  BY <1>1, <1>2 DEF TypeInv, Found
<1>4. h[f[k].at].type = heap[stack[k].at].type
  BY <1>2, <1>3 DEF Extends
<1>5. Inside(Outers(f, h), k) = Inside(Outers(stack, heap), k)
  BY InsideKept DEF Along
<1>. QED
  BY <1>1, <1>2, <1>4, <1>5 DEF InForce, InForceUpto

\* Objects that are new are not in progress.
LEMMA ForceSame ==
  ASSUME TypeInv, NEW inh, InForce(stack, heap, inh), NEW inj, \A r \in DOMAIN heap : inj[r] = inh[r]
  PROVE  InForce(stack, heap, inj)
BY DEF InForce, InForceUpto, TypeInv, Found

\* The next slot of the same object.
LEMMA ForceMoved ==
  ASSUME TypeInv, AtSlot, NEW inh, InForce(stack, heap, inh), NEW h, Typed(h), Extends(heap, h)
  PROVE  InForce(Moved, h, inh)
<1>1. PICK n \in Nat \ {0} : n = Len(stack)
  BY HereType
<1>2. PICK f : f = Moved
  OBVIOUS
<1>3. Len(f) = n /\ (\A k \in 1 .. n - 1 : f[k] = stack[k]) /\ \A k \in 1 .. n : f[k].at = stack[k].at
  BY <1>1, <1>2, MovedType
<1>4. Along(f, n)
  BY <1>1, <1>3 DEF Along
<1>5. InForceUpto(f, h, inh, n)
  BY <1>4, ForceKept
<1>. QED
  BY <1>2, <1>3, <1>5 DEF InForce

\* The resource that the reader takes is the one the object around asks for.
LEMMA HereInherits ==
  ASSUME TypeInv, ResourceInv, AtSlot, NEW inh, InForce(stack, heap, inh),
         NEW n, NEW p, NEW i, IsHere(n, p, i)
  PROVE  resource = inh[p] /\ There = SpecOf(heap, p, i) /\ MemResource(There) = AtHand(There, inh[p])
<1>1. n \in Nat \ {0} /\ n = Len(stack) /\ p = stack[n].at /\ Here = <<p, i>> /\ IsSlot(heap, p, i)
  BY DEF IsHere
<1>2. program \in Programs /\ Typed(heap)
  BY DEF TypeInv
<1>3. There = SpecOf(heap, p, i)
  BY <1>1, <1>2, SlotSpec DEF There
<1>4. HasPointers(heap[p].type)
  BY <1>1, <1>2, SlotSpec
<1>5. n \in 1 .. n
  BY <1>1
<1>6. Inside(Outers(stack, heap), n) = inh[p]
  BY <1>1, <1>4, <1>5 DEF InForce, InForceUpto
<1>7. Inside(Outers(stack, heap), n) = resource
  BY <1>1, <1>5 DEF ResourceInv
<1>8. resource = inh[p]
  BY <1>6, <1>7
<1>. QED
  BY <1>3, <1>8 DEF MemResource, AtHand

\* The object in a pointer is given back to where it is from.
LEMMA DestroyedInherits ==
  ASSUME TypeInv, ResourceInv, AtSlot, Held # Null, Kept(heap), Reading(stack, infos, heap),
         NEW inh, NEW levels, NEW inside, Alike(levels, inside), Inherits(heap, inh, levels, inside),
         InForce(stack, heap, inh)
  PROVE  Inherits(DestroyPtr(Here, MemResource(There)), inh, levels, inside)
<1>1. PICK n, p, i : IsHere(n, p, i)
  BY HereIs
<1>2. /\ n \in Nat \ {0} /\ n = Len(stack) /\ p = stack[n].at
      /\ Here = <<p, i>> /\ IsSlot(heap, p, i) /\ KindOf(heap, p, i) = There.kind /\ Held = heap[p].to[i]
  BY <1>1 DEF IsHere
<1>3. Typed(heap) /\ program \in Programs /\ Held \in DOMAIN heap
  BY HereIs, HereType
<1>4. PICK a : a = Assign(heap, Here, Null)
  OBVIOUS
<1>5. Sets(heap, a, p, i, Null)
  BY <1>2, <1>3, <1>4, AssignSets
<1>6. Typed(a)
  BY <1>2, <1>3, <1>4, AssignType DEF IsSlot
<1>7. Null \notin DOMAIN heap
  BY <1>3, NullIsNoObject
<1>8. Changes(heap, a, p, i)
  BY <1>5, <1>7, SetsChange
<1>9. a[p].to[i] = Null /\ DOMAIN a = DOMAIN heap
  BY <1>2, <1>5 DEF Sets
<1>10. Inherits(a, inh, levels, inside)
  BY <1>3, <1>8, <1>9, InheritsChanged
<1>11. PICK r : r = MemResource(There)
  OBVIOUS
<1>12. PICK d : d = DestroyPtr(Here, r)
  OBVIOUS
<1>13. CASE There.kind = "Owner"
  <2>1. d = Sweep(a, States(infos), { Held }, << r, ReleasedType(Held, There) >>)
    BY <1>4, <1>12, <1>13 DEF DestroyPtr, Delete, There, Held
  <2>2. Suits(heap, inh, p, i, Held)
    BY <1>2, <1>13 DEF Inherits
  <2>3. There = SpecOf(heap, p, i) /\ r = AtHand(There, inh[p])
    BY <1>1, <1>11, HereInherits, SMTT(30)
  <2>4. heap[Held].by = r
    BY <1>2, <1>13, <2>2, <2>3 DEF Suits
  <2>5. ReleasedType(Held, There) = heap[Held].type
    <3>1. PICK j \in 1 .. Len(There.types) : heap[Held].type = There.types[j]
      BY <2>2, <2>3 DEF Suits
    <3>2. There.polymorphic \/ Len(There.types) = 1
      <4>1. SpecOf(heap, p, i).polymorphic \/ Len(SpecOf(heap, p, i).types) = 1
        BY <1>2, <1>3, SlotSpec
      <4>. QED
        BY <2>3, <4>1
    <3>3. Len(There.types) = 1 => j = 1
      BY <3>1, SMTT(30)
    <3>. QED
      BY <3>1, <3>2, <3>3 DEF ReleasedType, HandledType, ElementType
  <2>6. Lives(heap, Held)
    <3>1. n \in 1 .. n
      BY <1>2
    <3>2. p \in ReadSet(stack, infos)
      BY <1>2, <3>1 DEF ReadSet
    <3>3. Lives(heap, p)
      BY <3>2 DEF Reading, Visited
    <3>4. Holds(heap, p, i, Held)
      BY <1>2 DEF Kept
    <3>. QED
      BY <1>2, <1>13, <3>3, <3>4 DEF Holds
  <2>7. a[Held].by = heap[Held].by /\ a[Held].type = heap[Held].type /\ Lives(a, Held)
    BY <1>3, <1>5, <2>6 DEF Sets, SameObject, Lives
  <2>8. Inherits(Sweep(a, States(infos), { Held }, << r, ReleasedType(Held, There) >>), inh, levels, inside)
    <3>1. << r, ReleasedType(Held, There) >> = << a[Held].by, a[Held].type >>
      BY <2>4, <2>5, <2>7
    <3>. QED
      BY <1>3, <1>6, <1>9, <1>10, <2>7, <3>1, InheritsSwept
  <2>. QED
    BY <1>11, <1>12, <2>1, <2>8
<1>14. CASE There.kind # "Owner"
  <2>1. d = Sweep(a, States(infos), {}, << >>)
    BY <1>4, <1>12, <1>14 DEF DestroyPtr, There
  <2>2. Inherits(d, inh, levels, inside)
    BY <1>3, <1>6, <1>10, <2>1, InheritsSwept
  <2>. QED
    BY <1>11, <1>12, <2>2
<1>. QED
  BY <1>13, <1>14

LEMMA LinkedInherits ==
  ASSUME program \in Programs, NEW h, Typed(h), NEW inh, NEW levels, NEW inside,
         Inherits(h, inh, levels, inside), NEW info, Waits(h, info), NEW q
  PROVE  Inherits(Linked(h, info, q), inh, levels, inside)
<1>1. PICK g : g = Linked(h, info, q)
  OBVIOUS
<1>2. Links(h, g)
  BY <1>1, LinkedLinks
<1>3. Changes(h, g, Null, 0)
  BY <1>2, LinksChange
<1>4. ~ IsSlot(h, Null, 0) /\ DOMAIN g = DOMAIN h
  BY <1>2, NullIsNoObject DEF IsSlot, Links
<1>5. Inherits(g, inh, levels, inside)
  BY <1>3, <1>4, InheritsChanged
<1>. QED
  BY <1>1, <1>5

LEMMA SharesInherits ==
  ASSUME program \in Programs, Typed(heap), NEW inh, NEW levels, NEW inside,
         Alike(levels, inside), Inherits(heap, inh, levels, inside),
         NEW s, NEW p, NEW i, s = <<p, i>>, IsSlot(heap, p, i),
         KindOf(heap, p, i) \in {"SharedOwner", "SharedObserver"},
         NEW id, NEW info, Shares(heap, s, id, info), Waits(heap, info),
         info.sharedState # Null =>
           /\ info.sharedState \in DOMAIN heap /\ heap[info.sharedState].deleter # << >>
           /\ \E j \in 1 .. Len(SpecOf(heap, p, i).types) :
                heap[info.sharedState].type = SpecOf(heap, p, i).types[j]
  PROVE  Inherits(heap', inh, levels, inside)
<1>1. PICK is : is = infos'
  OBVIOUS
<1>2. PICK q : q = info.sharedState
  OBVIOUS
<1>3. PICK l : l = Linked(heap, info, q)
  OBVIOUS
<1>4. PICK a : a = Assign(l, <<p, i>>, q)
  OBVIOUS
<1>5. heap' = Sweep(a, States(is), {}, << >>)
  BY <1>1, <1>2, <1>3, <1>4 DEF Shares
<1>6. Inherits(l, inh, levels, inside)
  BY <1>3, LinkedInherits
<1>7. q \in DOMAIN heap \union {Null}
  BY <1>2
<1>8. Typed(l)
  BY <1>3, <1>7, LinkedType
<1>9. Links(heap, l)
  BY <1>3, LinkedLinks
<1>10. IsSlot(l, p, i) /\ KindOf(l, p, i) = KindOf(heap, p, i) /\ SpecOf(l, p, i) = SpecOf(heap, p, i)
  BY <1>9 DEF Links, SameObject, IsSlot, KindOf, SpecOf
<1>11. Sets(l, a, p, i, q)
  <2>1. q \in DOMAIN l \union {Null}
    BY <1>7, <1>9 DEF Links
  <2>. QED
    BY <1>4, <1>8, <1>10, <2>1, AssignSets
<1>12. Typed(a)
  BY <1>4, <1>7, <1>8, <1>9, <1>10, AssignType DEF IsSlot, Links
<1>13. Changes(l, a, p, i)
  BY <1>10, <1>11, SetsChange
<1>14. a[p].to[i] = q /\ DOMAIN a = DOMAIN l
  BY <1>10, <1>11 DEF Sets
<1>15. q # Null => Suits(a, inh, p, i, q)
  <2>1. ASSUME q # Null PROVE Suits(a, inh, p, i, q)
    <3>1. q \in DOMAIN heap /\ heap[q].deleter # << >>
          /\ \E j \in 1 .. Len(SpecOf(heap, p, i).types) : heap[q].type = SpecOf(heap, p, i).types[j]
      BY <1>2, <2>1
    <3>2. Suits(heap, inh, p, i, q)
      BY <3>1, SharedSuits
    <3>3. /\ a[q].type = heap[q].type /\ a[q].by = heap[q].by
          /\ SpecOf(a, p, i) = SpecOf(heap, p, i) /\ KindOf(a, p, i) = KindOf(heap, p, i)
      BY <1>9, <1>10, <1>11, <3>1 DEF Links, Sets, SameObject, SpecOf, KindOf, IsSlot
    <3>. QED
      BY <3>2, <3>3 DEF Suits
  <2>. QED
    BY <2>1
<1>16. Inherits(a, inh, levels, inside)
  BY <1>6, <1>8, <1>13, <1>14, <1>15, InheritsChanged
<1>17. Inherits(Sweep(a, States(is), {}, << >>), inh, levels, inside)
  BY <1>12, <1>16, InheritsSwept
<1>. QED
  BY <1>5, <1>17

-----------------------------------------------------------------------------
(***************************************************************************)
(* What each step leaves of that.                                          *)
(***************************************************************************)
\* The resources of objects, afterwards.
Released(levels, inside) == \E inj : Inherits(heap', inj, levels, inside) /\ InForce(stack', heap', inj)

LEMMA ReadNullReleases ==
  ASSUME TypeInv, ResourceInv, LivesInv, ReadNull,
         NEW levels, NEW inside, NEW inh, Alike(levels, inside), Inherits(heap, inh, levels, inside),
         InForce(stack, heap, inh)
  PROVE  Released(levels, inside)
<1>1. AtSlot /\ stack' = Moved /\ (heap' = heap \/ (Held # Null /\ heap' = DestroyPtr(Here, MemResource(There))))
  BY DEF ReadNull
<1>2. Kept(heap) /\ Reading(stack, infos, heap)
  BY <1>1 DEF LivesInv, AtSlot
<1>3. Inherits(heap', inh, levels, inside)
  BY <1>1, <1>2, DestroyedInherits
<1>4. InForce(stack', heap', inh)
  <2>1. Typed(heap') /\ Extends(heap, heap')
    BY ReadNullGoes DEF GoesOn
  <2>2. InForce(Moved, heap', inh)
    BY <1>1, <2>1, ForceMoved
  <2>. QED
    BY <1>1, <2>2
<1>. QED
  BY <1>3, <1>4 DEF Released

LEMMA ReadObserverReleases ==
  ASSUME TypeInv, ReadObserver,
         NEW levels, NEW inside, NEW inh, Inherits(heap, inh, levels, inside), InForce(stack, heap, inh)
  PROVE  Released(levels, inside)
<1>1. AtSlot /\ stack' = Moved /\ There.kind = "Observer"
  BY DEF ReadObserver
<1>2. PICK n, p, i : IsHere(n, p, i)
  BY <1>1, HereIs
<1>3. Here = <<p, i>> /\ IsSlot(heap, p, i) /\ KindOf(heap, p, i) = "Observer"
  BY <1>1, <1>2 DEF IsHere
<1>4. Typed(heap) /\ program \in Programs
  BY DEF TypeInv
<1>5. heap' = heap \/ \E id \in DOMAIN infos \union {NewId} :
        LET info == InfoById(id, "Observer")
        IN  info.ownerPtr # Null /\ heap' = Assign(heap, Here, info.ownerPtr)
  BY DEF ReadObserver
<1>6. ASSUME \E id \in DOMAIN infos \union {NewId} :
               LET info == InfoById(id, "Observer")
               IN  info.ownerPtr # Null /\ heap' = Assign(heap, Here, info.ownerPtr)
      PROVE  Inherits(heap', inh, levels, inside)
  <2>1. PICK id \in DOMAIN infos \union {NewId} :
          InfoById(id, "Observer").ownerPtr # Null
          /\ heap' = Assign(heap, Here, InfoById(id, "Observer").ownerPtr)
    BY <1>6
  <2>2. PICK q : q = InfoById(id, "Observer").ownerPtr
    OBVIOUS
  <2>3. q \in DOMAIN heap
    <3>1. Leading(InfoById(id, "Observer"), heap)
      BY InfoByIdType DEF TypeInv, Kinds
    <3>. QED
      BY <2>1, <2>2, <3>1 DEF Leading
  <2>4. Sets(heap, heap', p, i, q)
    BY <1>3, <1>4, <2>1, <2>2, <2>3, AssignSets
  <2>5. Changes(heap, heap', p, i) /\ DOMAIN heap' = DOMAIN heap
    BY <1>3, <2>4, SetsChange DEF Sets
  <2>. QED
    BY <1>3, <1>4, <2>5, InheritsChanged
<1>7. Inherits(heap', inh, levels, inside)
  BY <1>5, <1>6, Zenon
<1>8. InForce(stack', heap', inh)
  <2>1. Typed(heap') /\ Extends(heap, heap')
    BY ReadObserverGoes DEF GoesOn
  <2>2. InForce(Moved, heap', inh)
    BY <1>1, <2>1, ForceMoved
  <2>. QED
    BY <1>1, <2>2
<1>. QED
  BY <1>7, <1>8 DEF Released

LEMMA ReadKnownReleases ==
  ASSUME TypeInv, LivesInv, ReadKnown,
         NEW levels, NEW inside, NEW inh, Alike(levels, inside), Inherits(heap, inh, levels, inside),
         InForce(stack, heap, inh)
  PROVE  Released(levels, inside)
<1>1. AtSlot /\ stack' = Moved
  BY DEF ReadKnown
<1>2. Reading(stack, infos, heap) /\ Typed(heap) /\ program \in Programs
  BY <1>1 DEF LivesInv, AtSlot, TypeInv
<1>3. PICK id \in Known(There) : Shares(heap, Here, id, InfoById(id, There.kind))
  BY DEF ReadKnown
<1>4. /\ id \in DOMAIN infos /\ infos[id].sharedState # Null /\ There.kind \in {"SharedOwner", "SharedObserver"}
      /\ \E j \in 1 .. Len(There.types) : heap[infos[id].sharedState].type = There.types[j]
  BY <1>3 DEF Known, IsShared
<1>5. PICK info : info = InfoById(id, There.kind)
  OBVIOUS
<1>6. infos[id] \in Info /\ Told(heap, infos[id])
  BY <1>2, <1>4 DEF TypeInv, Leads, Reading, Informed
<1>7. info.sharedState = infos[id].sharedState /\ info.observers = infos[id].observers
  <2>1. info = [ infos[id] EXCEPT !.ownership = Update(infos[id].ownership, There.kind) ]
    BY <1>4, <1>5 DEF InfoById
  <2>. QED
    BY <1>6, <2>1 DEF Info
<1>8. PICK n, p, i : IsHere(n, p, i)
  BY <1>1, HereIs
<1>9. Here = <<p, i>> /\ IsSlot(heap, p, i) /\ KindOf(heap, p, i) = There.kind /\ There = SpecOf(heap, p, i)
  <2>1. Here = <<p, i>> /\ IsSlot(heap, p, i) /\ KindOf(heap, p, i) = There.kind
    BY <1>8 DEF IsHere
  <2>2. Declared(heap, <<p, i>>) = SpecOf(heap, p, i)
    BY <1>2, <2>1, SlotSpec
  <2>. QED
    BY <2>1, <2>2 DEF There
<1>10. Shares(heap, Here, id, info) /\ Waits(heap, info)
  BY <1>3, <1>5, <1>6, <1>7 DEF Told, Waits
<1>11. /\ info.sharedState \in DOMAIN heap /\ heap[info.sharedState].deleter # << >>
       /\ \E j \in 1 .. Len(SpecOf(heap, p, i).types) :
            heap[info.sharedState].type = SpecOf(heap, p, i).types[j]
  BY <1>4, <1>6, <1>7, <1>9 DEF Told
<1>12. Inherits(heap', inh, levels, inside)
  BY <1>2, <1>4, <1>9, <1>10, <1>11, SharesInherits
<1>13. InForce(stack', heap', inh)
  <2>1. Typed(heap') /\ Extends(heap, heap')
    BY ReadKnownGoes DEF GoesOn
  <2>2. InForce(Moved, heap', inh)
    BY <1>1, <2>1, ForceMoved
  <2>. QED
    BY <1>1, <2>2
<1>. QED
  BY <1>12, <1>13 DEF Released

LEMMA ReadUnknownTypeReleases ==
  ASSUME TypeInv, LivesInv, ReadUnknownType,
         NEW levels, NEW inside, NEW inh, Alike(levels, inside), Inherits(heap, inh, levels, inside),
         InForce(stack, heap, inh)
  PROVE  Released(levels, inside)
<1>1. AtSlot /\ stack' = Moved /\ There.kind # "Observer"
  BY DEF ReadUnknownType
<1>2. Kept(heap) /\ Reading(stack, infos, heap) /\ Typed(heap) /\ program \in Programs
  BY <1>1 DEF LivesInv, AtSlot, TypeInv
<1>3. PICK id \in Unclaimed :
         LET info == InfoById(id, There.kind)
         IN  IF IsShared(There)
               THEN Shares(heap, Here, id, [ info EXCEPT !.sharedState = Held ])
               ELSE /\ infos' = With(id, Claimed(info, Held))
                    /\ heap' = Linked(heap, info, Held)
  BY DEF ReadUnknownType
<1>4. There.kind \in {"Owner", "SharedOwner", "SharedObserver"}
  BY <1>1, HereIs DEF Kinds
<1>5. PICK info : info = InfoById(id, There.kind)
  OBVIOUS
<1>6. info \in Info
  BY <1>4, <1>5, InfoByIdType DEF TypeInv, Kinds, Leading
<1>7. PICK m : m = Moved
  OBVIOUS
<1>8. Reading(m, infos, heap)
  BY <1>1, <1>2, <1>7, MovedReading
<1>9. Fresh(m, id, info)
  BY <1>4, <1>5, <1>8, UnclaimedIsFresh DEF Kinds
<1>10. PICK n, p, i : IsHere(n, p, i)
  BY <1>1, HereIs
<1>11. Here = <<p, i>> /\ IsSlot(heap, p, i) /\ KindOf(heap, p, i) = There.kind /\ Held = heap[p].to[i]
  BY <1>10 DEF IsHere
<1>12. PICK o : o = [ info EXCEPT !.sharedState = Held ]
  OBVIOUS
<1>13. Waits(heap, info) /\ Waits(heap, o) /\ o.sharedState = Held
  BY <1>6, <1>9, <1>12 DEF Fresh, Waits, Info
<1>14. Inherits(heap', inh, levels, inside)
  <2>1. CASE IsShared(There)
    <3>1. Shares(heap, Here, id, o)
      BY <1>3, <1>5, <1>12, <2>1
    <3>2. ASSUME Held # Null
          PROVE  /\ Held \in DOMAIN heap /\ heap[Held].deleter # << >>
                 /\ \E j \in 1 .. Len(SpecOf(heap, p, i).types) :
                      heap[Held].type = SpecOf(heap, p, i).types[j]
      <4>1. Held \in DOMAIN heap \union {Null}
        BY <1>1, HereType
      <4>2. Holds(heap, p, i, Held)
        BY <1>2, <1>11, <3>2 DEF Kept
      <4>3. heap[Held].deleter # << >>
        BY <1>11, <2>1, <4>2 DEF Holds, IsShared
      <4>4. Suits(heap, inh, p, i, Held)
        BY <1>1, <1>11, <3>2 DEF Inherits
      <4>. QED
        BY <3>2, <4>1, <4>3, <4>4 DEF Suits
    <3>3. KindOf(heap, p, i) \in {"SharedOwner", "SharedObserver"}
      BY <1>11, <2>1 DEF IsShared
    <3>4. o.sharedState # Null =>
           /\ o.sharedState \in DOMAIN heap /\ heap[o.sharedState].deleter # << >>
           /\ \E j \in 1 .. Len(SpecOf(heap, p, i).types) :
                heap[o.sharedState].type = SpecOf(heap, p, i).types[j]
      BY <1>13, <3>2
    <3>. QED
      BY <1>2, <1>11, <1>13, <3>1, <3>3, <3>4, SharesInherits
  <2>2. CASE ~ IsShared(There)
    <3>1. heap' = Linked(heap, info, Held)
      BY <1>3, <1>5, <2>2
    <3>. QED
      BY <1>2, <1>13, <3>1, LinkedInherits
  <2>. QED
    BY <2>1, <2>2
<1>15. InForce(stack', heap', inh)
  <2>1. Typed(heap') /\ Extends(heap, heap')
    BY ReadUnknownTypeGoes DEF GoesOn
  <2>2. InForce(Moved, heap', inh)
    BY <1>1, <2>1, ForceMoved
  <2>. QED
    BY <1>1, <2>2
<1>. QED
  BY <1>14, <1>15 DEF Released

LEMMA FilledInherits ==
  ASSUME TypeInv, ResourceInv, AtSlot, Kept(heap), Reading(stack, infos, heap), There.kind # "Observer",
         NEW levels, NEW inside, NEW inh, Alike(levels, inside), Inherits(heap, inh, levels, inside),
         InForce(stack, heap, inh),
         NEW n, NEW p, NEW i, IsHere(n, p, i),
         NEW index \in 1 .. Len(There.types), NEW type, type = There.types[index],
         NEW h, h = IF ~ Fits(type) THEN Created(Emptied(type), Here, type, MemResource(There)) ELSE heap
  PROVE  \E inj : /\ \A r \in DOMAIN heap : inj[r] = inh[r]
                  /\ Inherits(h, inj, levels, inside)
                  /\ HasPointers(h[At(h, Here)].type) => inj[At(h, Here)] = Inner(There, inh[p])
<1>1. Here = <<p, i>> /\ IsSlot(heap, p, i) /\ KindOf(heap, p, i) = There.kind /\ Held = heap[p].to[i]
  BY DEF IsHere
<1>2. Typed(heap) /\ program \in Programs /\ There.kind \in Kinds
  BY HereIs
<1>3. There = SpecOf(heap, p, i) /\ MemResource(There) = AtHand(There, inh[p])
  BY HereInherits
<1>4. type \in Types
  <2>1. There.types \in Seq(Types)
    BY HereType DEF Pointers
  <2>. QED
    BY <2>1
<1>5. CASE Fits(type)
  <2>1. h = heap /\ Held # Null /\ At(h, Here) = Held
    BY <1>5 DEF Fits, Held
  <2>2. Suits(heap, inh, p, i, Held)
    BY <1>1, <2>1 DEF Inherits
  <2>3. HasPointers(h[At(h, Here)].type) => inh[At(h, Here)] = Inner(There, inh[p])
    BY <1>3, <2>1, <2>2 DEF Suits
  <2>. QED
    BY <2>1, <2>3
<1>6. CASE ~ Fits(type)
  <2>1. PICK e : e = Emptied(type)
    OBVIOUS
  <2>2. PICK by \in Resources : by = MemResource(There)
    BY HereType
  <2>3. \/ e = heap
        \/ Held # Null /\ e = DestroyPtr(Here, by)
    BY <1>6, <2>1, <2>2 DEF Emptied
  <2>4. Typed(e) /\ Extends(heap, e) /\ DOMAIN e = DOMAIN heap /\ Inherits(e, inh, levels, inside)
    <3>1. CASE e = heap
      BY <1>2, <3>1 DEF Extends
    <3>2. CASE Held # Null /\ e = DestroyPtr(Here, by)
      <4>1. Typed(e) /\ Extends(heap, e) /\ DOMAIN e = DOMAIN heap
        BY <3>2, DestroyType, DestroyKeeps
      <4>2. Inherits(e, inh, levels, inside)
        BY <2>2, <3>2, DestroyedInherits
      <4>. QED
        BY <4>1, <4>2
    <3>. QED
      BY <2>3, <3>1, <3>2
  <2>5. IsSlot(e, p, i) /\ KindOf(e, p, i) = There.kind /\ p \in DOMAIN heap /\ e[p].type = heap[p].type
    <3>1. p \in DOMAIN heap /\ i \in 1 .. Len(heap[p].to)
      BY <1>1 DEF IsSlot
    <3>2. e[p].type = heap[p].type /\ Len(e[p].to) = Len(heap[p].to)
      BY <1>2, <2>4, <3>1 DEF Extends, Typed
    <3>. QED
      BY <1>1, <2>4, <3>1, <3>2 DEF IsSlot, KindOf
  <2>6. h = Created(e, <<p, i>>, type, by)
    BY <1>1, <1>6, <2>1, <2>2
  <2>7. PICK q : Makes(e, h, p, i, q, type, by) /\ h[p].to[i] = q
    BY <1>2, <1>4, <2>4, <2>5, <2>6, CreatedMakes
  <2>8. Typed(h)
    <3>1. p \in DOMAIN e /\ i \in 1 .. Len(e[p].to)
      BY <2>5 DEF IsSlot
    <3>. QED
      BY <1>2, <1>4, <2>4, <2>6, <3>1, CreatedType
  <2>9. Changes(e, h, p, i)
    BY <2>7, MakesChange, SMTT(30)
  <2>10. /\ q \notin DOMAIN e /\ q \in DOMAIN h /\ h[q].released = << >> /\ h[q].type = type /\ h[q].by = by
         /\ h[q].deleter = IF There.kind \in {"SharedOwner", "SharedObserver"} THEN << by, type >> ELSE << >>
         /\ DOMAIN h = DOMAIN e \union {q}
         /\ \A j : IsSlot(h, q, j) => h[q].to[j] = Null
    BY <2>5, <2>7, SMTT(30) DEF Makes
  <2>11. KindOf(h, p, i) = There.kind /\ SpecOf(h, p, i) = There /\ p \in DOMAIN h
    <3>1. h[p].type = e[p].type
      BY <2>4, <2>5, <2>7 DEF Makes, SameObject
    <3>. QED
      BY <1>1, <1>3, <2>4, <2>5, <2>10, <3>1, ZenonT(30) DEF KindOf, SpecOf
  <2>12. At(h, Here) = q
    <3>1. At(h, <<p, i>>) = h[p].to[i]
      BY <2>8, SlotsOfHeap
    <3>. QED
      BY <1>1, <2>7, <3>1
  <2>13. AlikeBehind(levels, inside, There, inh[p])
    <3>1. i \in 1 .. Len(PointersOf(heap[p].type))
      BY <1>1, <1>2, SlotSpec
    <3>2. There = PointersOf(heap[p].type)[i]
      BY <1>3 DEF SpecOf
    <3>3. PICK l \in levels : l = << heap[p].type, inh[p] >>
      BY <2>5 DEF Inherits, Proper
    <3>4. l[1] = heap[p].type /\ l[2] = inh[p]
      BY <3>3
    <3>. QED
      BY <3>1, <3>2, <3>4 DEF Alike
  <2>14. PICK x : x = Inner(There, inh[p])
    OBVIOUS
  <2>15. /\ << type, x >> \in levels
         /\ There.kind \in {"SharedOwner", "SharedObserver"} /\ HasPointers(type) => inside[type] = x
    BY <2>13, <2>14 DEF AlikeBehind, IsShared
  <2>16. PICK inj : inj = [ r \in DOMAIN h |-> IF r = q THEN x ELSE inh[r] ]
    OBVIOUS
  <2>17. inj[q] = x /\ \A r \in DOMAIN e : inj[r] = inh[r]
    BY <2>10, <2>16
  <2>18. Proper(h, inj, levels, inside, q)
    <3>1. << by, type >> # << >>
      BY SMTT(30)
    <3>. QED
      BY <2>10, <2>15, <2>17, <3>1 DEF Proper
  <2>19. Suits(h, inj, p, i, q)
    <3>1. inj[p] = inh[p]
      BY <2>4, <2>5, <2>17
    <3>2. h[q].by = AtHand(There, inh[p])
      BY <1>3, <2>2, <2>10
    <3>. QED
      BY <2>10, <2>11, <2>14, <2>17, <3>1, <3>2 DEF Suits
  <2>20. Inherits(h, inj, levels, inside)
    <3>1. \A r \in DOMAIN h \ DOMAIN e : /\ Proper(h, inj, levels, inside, r)
                                         /\ \A j : IsSlot(h, r, j) => h[r].to[j] = Null
      BY <2>10, <2>18
    <3>. QED
      BY <1>2, <2>4, <2>7, <2>9, <2>17, <2>19, <3>1, InheritsChanged
  <2>. QED
    BY <2>4, <2>12, <2>14, <2>17, <2>20
<1>. QED
  BY <1>5, <1>6

LEMMA ReadObjectReleases ==
  ASSUME TypeInv, ResourceInv, LivesInv, Disciplined, ReadObject,
         NEW levels, NEW inside, NEW inh, Alike(levels, inside), Inherits(heap, inh, levels, inside),
         InForce(stack, heap, inh)
  PROVE  Released(levels, inside)
<1>1. AtSlot /\ There.kind # "Observer"
  BY DEF ReadObject
<1>2. Kept(heap) /\ Reading(stack, infos, heap) /\ Typed(heap) /\ program \in Programs
  BY <1>1, HereIs DEF LivesInv, AtSlot, TypeInv
<1>3. PICK id \in Unclaimed, index \in 1 .. Len(There.types) :
       LET type    == There.types[index]
           creates == ~Fits(type)
           filled  == IF creates
                        THEN Created(Emptied(type), Here, type, MemResource(There)) ELSE heap
           p       == At(filled, Here)
           info    == InfoById(id, There.kind)
           is      == With(id, [ info EXCEPT !.sharedState =
                                   IF SavedBefore(There, creates) THEN p ELSE @ ])
       IN  /\ creates => Cardinality(DOMAIN heap) <= program.objects
           /\ program.aliases \/ creates \/ p \notin ReadNow
           /\ infos' = is
           /\ heap' = Sweep(filled, States(is), {}, << >>)
           /\ stack' = Append(Moved, Frame(p, id, resource))
  BY DEF ReadObject
<1>4. PICK type : type = There.types[index]
  OBVIOUS
<1>5. type \in Types
  <2>1. There.types \in Seq(Types)
    BY <1>1, HereType DEF Pointers
  <2>. QED
    BY <1>4, <2>1
<1>6. PICK n, p, i : IsHere(n, p, i)
  BY <1>1, HereIs
<1>7. /\ n = Len(stack) /\ n \in Nat \ {0} /\ n \in 1 .. n /\ p = stack[n].at /\ i \in Nat /\ Here = <<p, i>>
      /\ IsSlot(heap, p, i)
  BY <1>6 DEF IsHere
<1>8. PICK h : h = IF ~ Fits(type) THEN Created(Emptied(type), Here, type, MemResource(There)) ELSE heap
  OBVIOUS
<1>9. PICK is : is = infos'
  OBVIOUS
<1>10. /\ program.aliases \/ ~ Fits(type) \/ At(h, Here) \notin ReadNow
       /\ heap' = Sweep(h, States(is), {}, << >>)
       /\ stack' = Append(Moved, Frame(At(h, Here), id, resource))
  BY <1>3, <1>4, <1>8, <1>9
<1>11. Fits(type) => Held \notin ReadSet(stack, infos)
  BY <1>8, <1>10 DEF Disciplined, ReadNow, ReadSet, Held
<1>12. PICK q : /\ At(h, Here) = q /\ h[p].to[i] = q /\ q \notin ReadSet(stack, infos) /\ q # Null
                /\ q \in DOMAIN h /\ Lives(h, q)
                /\ IsSlot(h, p, i) /\ KindOf(h, p, i) = There.kind
                /\ Typed(h) /\ Extends(heap, h) /\ Kept(h) /\ Reading(stack, infos, h)
                /\ There.kind \in {"SharedOwner", "SharedObserver"} => h[q].deleter # << >>
  BY <1>1, <1>2, <1>5, <1>6, <1>8, <1>11, FilledLife
<1>13. PICK inj : /\ \A r \in DOMAIN heap : inj[r] = inh[r]
                  /\ Inherits(h, inj, levels, inside)
                  /\ HasPointers(h[At(h, Here)].type) => inj[At(h, Here)] = Inner(There, inh[p])
  BY <1>1, <1>2, <1>4, <1>6, <1>8, FilledInherits
<1>14. PICK g : g = heap'
  OBVIOUS
<1>15. Inherits(g, inj, levels, inside)
  BY <1>2, <1>10, <1>12, <1>13, <1>14, InheritsSwept
<1>16. Typed(g) /\ Extends(h, g) /\ Extends(heap, g)
  BY <1>2, <1>10, <1>12, <1>14, SweepType, ExtendsTransitive
<1>17. PICK t : t = stack'
  OBVIOUS
<1>18. /\ Moved \in Seq(Frames) /\ Len(Moved) = n /\ (\A k \in 1 .. n - 1 : Moved[k] = stack[k])
       /\ (\A k \in 1 .. n : Moved[k].at = stack[k].at) /\ Moved[n].slot = i + 1
  <2>1. Here[2] = i
    BY <1>7
  <2>. QED
    BY <1>1, <1>7, <2>1, MovedType
<1>19. /\ Len(t) = n + 1 /\ t[n + 1].at = q /\ (\A k \in 1 .. n : t[k].at = stack[k].at)
       /\ t[n].slot = i + 1 /\ \A k \in 1 .. n - 1 : t[k].at = stack[k].at /\ t[k].slot = stack[k].slot
  <2>1. PICK m : m = Moved
    OBVIOUS
  <2>2. t = Append(m, Frame(q, id, resource))
    BY <1>10, <1>12, <1>17, <2>1
  <2>3. Len(t) = n + 1 /\ t[n + 1] = Frame(q, id, resource) /\ \A k \in 1 .. n : t[k] = m[k]
    BY <1>7, <1>18, <2>1, <2>2, AppendProperties
  <2>4. \A k \in 1 .. n - 1 : k \in 1 .. n
    BY <1>7
  <2>5. \A k \in 1 .. n - 1 : t[k].at = stack[k].at /\ t[k].slot = stack[k].slot
    BY <1>18, <2>1, <2>3, <2>4
  <2>6. (\A k \in 1 .. n : t[k].at = stack[k].at) /\ t[n].slot = i + 1
    BY <1>7, <1>18, <2>1, <2>3
  <2>7. t[n + 1].at = q
    BY <2>3 DEF Frame
  <2>. QED
    BY <2>3, <2>5, <2>6, <2>7
<1>20. Along(t, n)
  BY <1>7, <1>19 DEF Along
<1>21. InForce(stack, heap, inj)
  BY <1>13, ForceSame
<1>22. InForceUpto(t, g, inj, n)
  BY <1>16, <1>20, <1>21, ForceKept
<1>23. p \in DOMAIN heap /\ HasPointers(heap[p].type)
  BY <1>2, <1>7, SlotSpec
<1>24. PICK f : f = Outers(t, g)
  OBVIOUS
<1>25. f[n] = There
  <2>1. f[n] = Declared(g, << t[n].at, t[n].slot - 1 >>)
    <3>1. Len(t) - 1 = n
      BY <1>7, <1>19
    <3>. QED
      BY <1>7, <1>24, <3>1 DEF Outers
  <2>2. << t[n].at, t[n].slot - 1 >> = << p, i >>
    BY <1>7, <1>19
  <2>3. Declared(g, << p, i >>) = Declared(heap, << p, i >>)
    BY <1>2, <1>16, <1>23, SlotStays
  <2>. QED
    BY <1>7, <2>1, <2>2, <2>3 DEF There
<1>26. Inside(f, n) = inh[p]
  <2>1. t[n].at = p /\ g[p].type = heap[p].type /\ inj[p] = inh[p]
    BY <1>7, <1>13, <1>16, <1>19, <1>23 DEF Extends
  <2>. QED
    BY <1>7, <1>22, <1>23, <1>24, <2>1 DEF InForceUpto
<1>27. Inside(f, n + 1) = Inner(There, inh[p])
  BY <1>7, <1>25, <1>26, InsideNext DEF Inner
<1>28. ASSUME NEW k \in 1 .. n + 1, HasPointers(g[t[k].at].type)
       PROVE  Inside(f, k) = inj[t[k].at]
  <2>1. CASE k \in 1 .. n
    BY <1>22, <1>24, <1>28, <2>1 DEF InForceUpto
  <2>2. CASE k = n + 1
    <3>1. t[k].at = q /\ g[q].type = h[q].type
      BY <1>12, <1>16, <1>19, <2>2 DEF Extends
    <3>. QED
      BY <1>12, <1>13, <1>27, <1>28, <2>2, <3>1
  <2>. QED
    BY <1>7, <2>1, <2>2
<1>29. InForce(t, g, inj)
  BY <1>19, <1>24, <1>28 DEF InForce, InForceUpto
<1>. QED
  BY <1>14, <1>15, <1>17, <1>29 DEF Released

LEMMA ReadReturnReleases ==
  ASSUME TypeInv, LivesInv, ReadReturn,
         NEW levels, NEW inside, NEW inh, Alike(levels, inside), Inherits(heap, inh, levels, inside),
         InForce(stack, heap, inh)
  PROVE  Released(levels, inside)
<1>1. phase = "reading"
  BY DEF ReadReturn
<1>2. Kept(heap) /\ Reading(stack, infos, heap) /\ Typed(heap) /\ program \in Programs
  BY <1>1 DEF LivesInv, TypeInv
<1>3. PICK n \in Nat : n = Len(stack) /\ n > 1 /\ Last(stack) = stack[n]
  <2>1. PICK n : n = Len(stack)
    OBVIOUS
  <2>. QED
    BY <2>1, ReturnType
<1>4. Len(stack') = n - 1 /\ \A k \in 1 .. n - 1 : stack'[k] = stack[k]
  BY <1>3, ReturnType
<1>5. PICK m \in Nat \ {0} : m = n - 1
  <2>1. n - 1 \in Nat \ {0}
    BY <1>3, SMT
  <2>. QED
    BY <2>1
<1>6. m \in 1 .. n - 1 /\ m + 1 = n /\ m \in 1 .. n /\ m <= m /\ \A k \in 1 .. m - 1 : k \in 1 .. n - 1
  BY <1>3, <1>5
<1>7. PICK p : p = stack[m].at
  OBVIOUS
<1>8. PICK i : i = stack[m].slot - 1
  OBVIOUS
<1>9. PICK q : q = stack[n].at
  OBVIOUS
<1>10. PICK id : id = stack[n].id
  OBVIOUS
<1>11. PICK info : info = infos[id]
  OBVIOUS
<1>12. PICK s : s = <<p, i>>
  OBVIOUS
<1>13. /\ IsSlot(heap, p, i) /\ heap[p].to[i] = q /\ KindOf(heap, p, i) # "Observer"
       /\ id \in DOMAIN infos /\ info.sharedState \in {Null, q} /\ q \in DOMAIN heap
  <2>1. n \in 1 .. n
    BY <1>3
  <2>. QED
    BY <1>2, <1>3, <1>6, <1>7, <1>8, <1>9, <1>10, <1>11, <2>1 DEF Reading, Nested
<1>14. q # Null
  BY <1>2, <1>13, NullIsNoObject
<1>15. Holds(heap, p, i, q)
  BY <1>2, <1>13, <1>14 DEF Kept
<1>16. Suits(heap, inh, p, i, q)
  BY <1>13, <1>14 DEF Inherits
<1>17. /\ At(heap, s) = q
       /\ IsShared(Declared(heap, s)) <=> KindOf(heap, p, i) \in {"SharedOwner", "SharedObserver"}
  <2>1. At(heap, <<p, i>>) = heap[p].to[i] /\ Declared(heap, <<p, i>>).kind = KindOf(heap, p, i)
    BY <1>2, SlotsOfHeap
  <2>. QED
    BY <1>12, <1>13, <2>1 DEF IsShared
<1>18. IF IsShared(Declared(heap, s))
         THEN Shares(heap, s, id, [ info EXCEPT !.sharedState = IF @ = Null THEN At(heap, s) ELSE @ ])
         ELSE /\ infos' = With(id, Claimed(info, At(heap, s)))
              /\ heap' = Linked(heap, info, At(heap, s))
  BY <1>3, <1>5, <1>7, <1>8, <1>10, <1>11, <1>12 DEF ReadReturn
<1>19. info \in Info /\ Waits(heap, info)
  BY <1>2, <1>11, <1>13 DEF TypeInv, Leads, Reading, Informed, Told
<1>20. ASSUME KindOf(heap, p, i) \in {"SharedOwner", "SharedObserver"}
       PROVE  Inherits(heap', inh, levels, inside)
  <2>1. PICK o : o = [ info EXCEPT !.sharedState = IF @ = Null THEN q ELSE @ ]
    OBVIOUS
  <2>2. o.observers = info.observers /\ o.sharedState = q
    BY <1>13, <1>14, <1>19, <2>1 DEF Info
  <2>3. Shares(heap, s, id, o) /\ Waits(heap, o)
    BY <1>17, <1>18, <1>19, <1>20, <2>1, <2>2 DEF Waits
  <2>4. o.sharedState # Null =>
          /\ o.sharedState \in DOMAIN heap /\ heap[o.sharedState].deleter # << >>
          /\ \E j \in 1 .. Len(SpecOf(heap, p, i).types) :
               heap[o.sharedState].type = SpecOf(heap, p, i).types[j]
    BY <1>13, <1>15, <1>16, <1>20, <2>2 DEF Holds, Suits
  <2>. QED
    BY <1>2, <1>12, <1>13, <1>20, <2>3, <2>4, SharesInherits
<1>21. ASSUME KindOf(heap, p, i) \notin {"SharedOwner", "SharedObserver"}
       PROVE  Inherits(heap', inh, levels, inside)
  <2>1. heap' = Linked(heap, info, q)
    BY <1>17, <1>18, <1>21
  <2>. QED
    BY <1>2, <1>19, <2>1, LinkedInherits
<1>22. PICK f : f = stack'
  OBVIOUS
<1>23. PICK h : h = heap'
  OBVIOUS
<1>24. Inherits(h, inh, levels, inside)
  BY <1>20, <1>21, <1>23
<1>25. Typed(h) /\ Extends(heap, h)
  BY <1>23, ReadReturnGoes DEF GoesOn
<1>26. Along(f, m)
  BY <1>3, <1>4, <1>5, <1>6, <1>22 DEF Along
<1>27. InForceUpto(f, h, inh, m)
  BY <1>25, <1>26, ForceKept
<1>28. InForce(f, h, inh)
  BY <1>4, <1>5, <1>22, <1>27 DEF InForce
<1>. QED
  BY <1>22, <1>23, <1>24, <1>28 DEF Released

-----------------------------------------------------------------------------
LEMMA ReleaseNow ==
  ASSUME program' = program,
         NEW levels \in SUBSET ((Types \union {"Root"}) \X Resources), NEW inside \in [ Types -> Resources ],
         Alike(levels, inside), Released(levels, inside)
  PROVE  ReleaseInv'
<1>1. PICK inj : Inherits(heap', inj, levels, inside) /\ InForce(stack', heap', inj)
  BY DEF Released
<1>2. Alike(levels, inside)'
  <2>1. \A t : PointersOf(t)' = PointersOf(t)
    BY DEF PointersOf
  <2>2. \A spec, r : AlikeBehind(levels, inside, spec, r)' <=> AlikeBehind(levels, inside, spec, r)
    BY <2>1 DEF AlikeBehind, HasPointers
  <2>. QED
    BY <2>1, <2>2 DEF Alike
<1>3. Inherits(heap, inj, levels, inside)'
  <2>1. \A q : Proper(heap, inj, levels, inside, q)' <=> Proper(heap', inj, levels, inside, q)
    BY DEF Proper, HasPointers, PointersOf
  <2>2. \A p, i, q : Suits(heap, inj, p, i, q)' <=> Suits(heap', inj, p, i, q)
    BY DEF Suits, SpecOf, KindOf, HasPointers, PointersOf
  <2>3. \A p, i : KindOf(heap, p, i)' = KindOf(heap', p, i) /\ (IsSlot(heap, p, i)' <=> IsSlot(heap', p, i))
    BY DEF KindOf, IsSlot, PointersOf
  <2>. QED
    BY <1>1, <2>1, <2>2, <2>3 DEF Inherits
<1>4. InForce(stack, heap, inj)'
  <2>1. Outers(stack, heap)' = Outers(stack', heap')
    BY DEF Outers, Declared, PointersOf
  <2>2. PICK f : f = Outers(stack', heap')
    OBVIOUS
  <2>3. ASSUME NEW k PROVE Inside(Outers(stack, heap), k)' = Inside(f, k)
    BY <2>1, <2>2 DEF Inside
  <2>4. \A t : HasPointers(t)' <=> HasPointers(t)
    BY DEF HasPointers, PointersOf
  <2>. QED
    BY <1>1, <2>2, <2>3, <2>4 DEF InForce, InForceUpto
<1>. QED
  BY <1>2, <1>3, <1>4 DEF ReleaseInv

\* What is left as it was, with as many objects in progress, or none.
LEMMA ReleaseStays ==
  ASSUME TypeInv, program' = program,
         NEW levels \in SUBSET ((Types \union {"Root"}) \X Resources), NEW inside \in [ Types -> Resources ],
         Alike(levels, inside), NEW inh, Inherits(heap', inh, levels, inside),
         stack' = << >> \/ (stack' = << Frame(Root, 0, NewDelete) >> )
  PROVE  ReleaseInv'
<1>1. PICK f : f = stack'
  OBVIOUS
<1>2. ASSUME NEW k \in 1 .. Len(f)
      PROVE  Inside(Outers(f, heap'), k) = inh[f[k].at]
  <2>1. f = << Frame(Root, 0, NewDelete) >>
    BY <1>1, <1>2
  <2>2. k = 1 /\ f[1].at = Root
    BY <1>2, <2>1 DEF Frame
  <2>. QED
    BY <2>2, InsideFirst DEF Inherits
<1>3. InForce(stack', heap', inh)
  BY <1>1, <1>2 DEF InForce, InForceUpto
<1>4. Released(levels, inside)
  BY <1>3 DEF Released
<1>. QED
  BY <1>4, ReleaseNow

LEMMA ReleaseInit == Init /\ DeclaredAlike => ReleaseInv
<1>. SUFFICES ASSUME Init, DeclaredAlike PROVE ReleaseInv
  OBVIOUS
<1>1. PICK levels \in SUBSET ((Types \union {"Root"}) \X Resources), inside \in [ Types -> Resources ] :
         Alike(levels, inside)
  BY DEF DeclaredAlike
<1>2. PICK inh : inh = [ q \in {Root} |-> program.context ]
  OBVIOUS
<1>3. inh[Root] = program.context
  BY <1>2
<1>4. PICK o : o = NewObject("Root", NewDelete)
  OBVIOUS
<1>5. o.released = << >> /\ o.deleter = << >> /\ o.type = "Root"
  BY <1>4 DEF NewObject
<1>6. DOMAIN heap = {Root} /\ heap[Root] = o
  BY <1>4 DEF Init
<1>7. \A i \in 1 .. Len(o.to) : o.to[i] = Null
  <2>1. NewDelete \in Resources /\ "Root" \in Types \union {"Root"} /\ program \in Programs
    BY DEF Resources, Init
  <2>. QED
    BY <1>4, <2>1, NewObjectType, ZenonT(30)
<1>8. \A p, i : IsSlot(heap, p, i) => heap[p].to[i] = Null
  BY <1>6, <1>7 DEF IsSlot
<1>9. << "Root", program.context >> \in levels
  BY <1>1 DEF Alike
<1>10. Proper(heap, inh, levels, inside, Root)
  BY <1>3, <1>5, <1>6, <1>9 DEF Proper
<1>11. Inherits(heap, inh, levels, inside)
  BY <1>3, <1>6, <1>8, <1>10 DEF Inherits
<1>12. InForce(stack, heap, inh)
  <2>1. Len(stack) = 1 /\ stack[1].at = Root
    BY DEF Init, Frame
  <2>2. \A k \in 1 .. 1 : k = 1
    OBVIOUS
  <2>. QED
    BY <1>3, <2>1, <2>2, InsideFirst DEF InForce, InForceUpto
<1>. QED
  BY <1>1, <1>11, <1>12 DEF ReleaseInv

LEMMA AlikeNext == DeclaredAlike' /\ [Next]_vars => DeclaredAlike
<1>. SUFFICES ASSUME DeclaredAlike', [Next]_vars PROVE DeclaredAlike
  OBVIOUS
<1>1. program' = program
  BY Zenon DEF Next, vars, ReadNull, ReadObserver, ReadKnown, ReadObject, ReadUnknownType,
               ThrowBadWeakPtr, ReadReturn, EndOfData, Finish, ClearSharedState, NextDocument
<1>2. \A levels, inside : Alike(levels, inside)' <=> Alike(levels, inside)
  BY <1>1 DEF Alike, AlikeBehind, HasPointers, PointersOf
<1>. QED
  BY <1>2 DEF DeclaredAlike

LEMMA ReleaseNext ==
  ASSUME TypeInv, ResourceInv, LivesInv, Disciplined, ReleaseInv, [Next]_vars
  PROVE  ReleaseInv'
<1>1. PICK levels \in SUBSET ((Types \union {"Root"}) \X Resources), inside \in [ Types -> Resources ] :
         /\ Alike(levels, inside)
         /\ \E inh : Inherits(heap, inh, levels, inside) /\ InForce(stack, heap, inh)
  BY DEF ReleaseInv
<1>2. PICK inh : Inherits(heap, inh, levels, inside) /\ InForce(stack, heap, inh)
  BY <1>1
<1>3. program' = program
  BY Zenon DEF Next, vars, ReadNull, ReadObserver, ReadKnown, ReadObject, ReadUnknownType,
               ThrowBadWeakPtr, ReadReturn, EndOfData, Finish, ClearSharedState, NextDocument
<1>4. CASE ReadNull
  BY <1>1, <1>2, <1>3, <1>4, ReadNullReleases, ReleaseNow
<1>5. CASE ReadObserver
  BY <1>1, <1>2, <1>3, <1>5, ReadObserverReleases, ReleaseNow
<1>6. CASE ReadKnown
  BY <1>1, <1>2, <1>3, <1>6, ReadKnownReleases, ReleaseNow
<1>7. CASE ReadObject
  BY <1>1, <1>2, <1>3, <1>7, ReadObjectReleases, ReleaseNow
<1>8. CASE ReadUnknownType
  BY <1>1, <1>2, <1>3, <1>8, ReadUnknownTypeReleases, ReleaseNow
<1>9. CASE ReadReturn
  BY <1>1, <1>2, <1>3, <1>9, ReadReturnReleases, ReleaseNow
<1>10. CASE ThrowBadWeakPtr \/ Finish
  <2>1. heap' = heap /\ stack' = << >>
    BY <1>10 DEF ThrowBadWeakPtr, Finish
  <2>. QED
    BY <1>1, <1>2, <1>3, <2>1, ReleaseStays
<1>11. CASE EndOfData \/ UNCHANGED vars
  <2>1. heap' = heap /\ stack' = stack
    BY <1>11 DEF EndOfData, vars
  <2>2. Released(levels, inside)
    BY <1>2, <2>1 DEF Released
  <2>. QED
    BY <1>1, <1>3, <2>2, ReleaseNow
<1>12. CASE ClearSharedState
  <2>1. heap' = Sweep(heap, {}, {}, << >>) /\ stack' = stack /\ phase = "read"
    BY <1>12 DEF ClearSharedState
  <2>2. stack' = << >>
    BY <2>1 DEF LivesInv
  <2>3. Inherits(heap', inh, levels, inside)
    BY <1>2, <2>1, InheritsSwept DEF TypeInv
  <2>. QED
    BY <1>1, <1>3, <2>2, <2>3, ReleaseStays
<1>13. CASE NextDocument
  <2>1. heap' = heap /\ stack' = << Frame(Root, 0, NewDelete) >>
    BY <1>13 DEF NextDocument
  <2>. QED
    BY <1>1, <1>2, <1>3, <2>1, ReleaseStays
<1>. QED
  BY <1>4, <1>5, <1>6, <1>7, <1>8, <1>9, <1>10, <1>11, <1>12, <1>13 DEF Next

\* In a program that is disciplined in that sense, and that reads an object
\* with pointers with the same resource in the context whichever of its
\* pointers leads to it: what was allocated is given back once, to the
\* resource it is from and with the type it was allocated for.  The pointer
\* it is given back through need not be the one it was allocated through,
\* and documents come between; the resource is not stored with an object that
\* a unique pointer owns, it is found again, each time, from the declarations
\* around the pointer.
THEOREM ReleasedTheWayAllocated == Spec => [](Disciplined /\ DeclaredAlike => ReleasedAsAllocated)
<1>. DEFINE Inv == TypeInv /\ ResourceInv /\ (Disciplined /\ DeclaredAlike => LivesInv /\ ReleaseInv)
<1>1. Init => Inv
  BY TypeInit, ResourceInit, LivesInit, ReleaseInit
<1>2. Inv /\ [Next]_vars => Inv'
  <2>. SUFFICES ASSUME Inv, [Next]_vars PROVE Inv'
    OBVIOUS
  <2>1. TypeInv' /\ ResourceInv'
    BY TypeNext, ResourceNext
  <2>2. ASSUME Disciplined', DeclaredAlike' PROVE LivesInv' /\ ReleaseInv'
    <3>1. Disciplined /\ DeclaredAlike
      BY <2>2, DisciplinedNext, AlikeNext
    <3>. QED
      BY <3>1, LivesNext, ReleaseNext
  <2>. QED
    BY <2>1, <2>2
<1>3. Inv => (Disciplined /\ DeclaredAlike => ReleasedAsAllocated)
  BY DEF ReleaseInv, Inherits, Proper, ReleasedAsAllocated
<1>. QED
  BY <1>1, <1>2, <1>3, PTL DEF Spec

-----------------------------------------------------------------------------
(***************************************************************************)
(* Owners of what lives.                                                   *)
(***************************************************************************)
\* A live object has q in a pointer of that kind.
HeldBy(h, kind, q) ==
  \E p, i : IsSlot(h, p, i) /\ KindOf(h, p, i) = kind /\ Lives(h, p) /\ h[p].to[i] = q

\* Objects that live have owners that live, but for those of lost.
Possessed(h, lost) ==
  \A q \in DOMAIN h \ (lost \union {Root}) :
    Lives(h, q) /\ h[q].deleter = << >> => HeldBy(h, "Owner", q)

\* Objects that are shared and live are in a shared state or have an owner.
Retained(h, states) ==
  \A q \in DOMAIN h \ {Root} :
    Lives(h, q) /\ h[q].deleter # << >> => q \in states \/ HeldBy(h, "SharedOwner", q)

OwnInv ==
  /\ Possessed(heap, {})
  /\ Retained(heap, States(infos))
  /\ phase = "cleared" => States(infos) = {}

LEMMA DiesIf ==
  ASSUME NEW h, Typed(h), NEW states, NEW gone, NEW q \in DOMAIN h, Lives(h, q),
         OwnedBy(h, q, gone) \/ Unshared(h, q, states, gone)
  PROVE  q \in DieNext(h, states, gone)
<1>. DEFINE held(kind) == { s \in SlotsOf(h) : Declared(h, s).kind = kind }
            left == { At(h, s) : s \in { t \in held("SharedOwner") : Lives(h, t[1]) /\ t[1] \notin gone } }
<1>1. CASE OwnedBy(h, q, gone)
  <2>1. PICK p, i : IsSlot(h, p, i) /\ KindOf(h, p, i) = "Owner" /\ p \in gone /\ h[p].to[i] = q
    BY <1>1 DEF OwnedBy
  <2>2. PICK s : s = <<p, i>>
    OBVIOUS
  <2>3. s \in SlotsOf(h) /\ Declared(h, s).kind = "Owner" /\ At(h, s) = q /\ s[1] = p
    BY <2>1, <2>2, SlotsOfHeap
  <2>4. \E t \in held("Owner") : t[1] \in gone /\ At(h, t) = q
    BY <2>1, <2>3
  <2>. QED
    BY <2>4 DEF DieNext
<1>2. CASE Unshared(h, q, states, gone)
  <2>1. h[q].deleter # << >> /\ q \notin states
    BY <1>2 DEF Unshared
  <2>2. ASSUME q \in left PROVE FALSE
    <3>1. PICK s \in SlotsOf(h) : /\ Declared(h, s).kind = "SharedOwner" /\ Lives(h, s[1]) /\ s[1] \notin gone
                                  /\ At(h, s) = q
      BY <2>2
    <3>2. s = << s[1], s[2] >> /\ IsSlot(h, s[1], s[2])
      BY SlotsOfHeap
    <3>3. KindOf(h, s[1], s[2]) = "SharedOwner" /\ h[s[1]].to[s[2]] = q
      BY <3>1, <3>2, SlotsOfHeap
    <3>. QED
      BY <1>2, <3>1, <3>2, <3>3 DEF Unshared
  <2>3. h[q].deleter # << >> /\ q \notin left \union states
    BY <2>1, <2>2
  <2>. QED
    BY <2>3 DEF DieNext
<1>. QED
  BY <1>1, <1>2

\* There are rounds enough: when they end, nothing is left that dies.
LEMMA DyingCloses ==
  ASSUME NEW h, Typed(h), NEW states, NEW first \in SUBSET DOMAIN h
  PROVE  /\ first \subseteq Dying(h, states, first)
         /\ DieNext(h, states, Dying(h, states, first)) \subseteq Dying(h, states, first)
<1>1. PICK round : Rounds(h, states, first, round)
  BY DyingRounds
<1>2. PICK n \in Nat : n = Cardinality(DOMAIN h)
  BY <1>1 DEF Rounds
<1>3. /\ round[0] = first /\ Dying(h, states, first) = round[n]
      /\ \A k \in 0 .. n - 1 : round[k + 1] = round[k] \union DieNext(h, states, round[k])
  BY <1>1, <1>2 DEF Rounds
<1>4. IsFiniteSet(DOMAIN h)
  <2>1. PICK m \in Nat \ {0} : DOMAIN h = 0 .. m - 1
    BY DEF Typed
  <2>. QED
    BY <2>1, FS_Interval
<1>5. \A gone : DieNext(h, states, gone) \subseteq DOMAIN h
  BY DEF DieNext
<1>. DEFINE K == { k \in 0 .. n : first \subseteq round[k] /\ round[k] \subseteq DOMAIN h }
<1>6. \A k \in 0 .. n : first \subseteq round[k] /\ round[k] \subseteq DOMAIN h
  <2>1. 0 \in K /\ \A k \in 0 .. n - 1 : k \in K => k + 1 \in K
    BY <1>3, <1>5
  <2>. HIDE DEF K
  <2>2. \A k \in 0 .. n : k \in K
    BY <2>1, Induction
  <2>. QED
    BY <2>2 DEF K
<1>. DEFINE Closed(k) == DieNext(h, states, round[k]) \subseteq round[k]
            C == { k \in 0 .. n : Closed(k) \/ Cardinality(round[k]) >= k }
<1>7. 0 \in C
  <2>1. Cardinality(round[0]) \in Nat
    BY <1>3, <1>4, FS_Subset, FS_CardinalityType
  <2>. QED
    BY <2>1
<1>8. ASSUME NEW k \in 0 .. n - 1, k \in C
      PROVE  k + 1 \in C
  <2>1. round[k + 1] = round[k] \union DieNext(h, states, round[k])
    BY <1>3
  <2>2. CASE Closed(k)
    <3>1. round[k + 1] = round[k]
      BY <2>1, <2>2
    <3>. QED
      BY <2>2, <3>1
  <2>3. CASE ~ Closed(k)
    <3>1. PICK x : x \in round[k + 1] /\ x \notin round[k]
      BY <2>1, <2>3
    <3>2. round[k] \subseteq DOMAIN h /\ round[k + 1] \subseteq DOMAIN h
      BY <1>6
    <3>3. IsFiniteSet(round[k]) /\ IsFiniteSet(round[k + 1])
      BY <1>4, <3>2, FS_Subset
    <3>4. Cardinality(round[k] \union {x}) = Cardinality(round[k]) + 1
      BY <3>1, <3>3, FS_AddElement
    <3>5. Cardinality(round[k] \union {x}) <= Cardinality(round[k + 1])
      <4>1. round[k] \union {x} \subseteq round[k + 1]
        BY <2>1, <3>1
      <4>. QED
        BY <3>3, <4>1, FS_Subset
    <3>6. Cardinality(round[k]) \in Nat /\ Cardinality(round[k + 1]) \in Nat
      BY <3>3, FS_CardinalityType
    <3>7. Cardinality(round[k]) >= k
      BY <1>8, <2>3
    <3>. QED
      BY <3>4, <3>5, <3>6, <3>7
  <2>. QED
    BY <2>2, <2>3
<1>9. n \in C
  <2>. HIDE DEF C
  <2>. QED
    BY <1>7, <1>8, Induction
<1>10. Closed(n)
  <2>1. CASE Cardinality(round[n]) >= n
    <3>1. round[n] \subseteq DOMAIN h
      BY <1>6
    <3>2. Cardinality(round[n]) <= n /\ Cardinality(round[n]) \in Nat
      BY <1>2, <1>4, <3>1, FS_Subset, FS_CardinalityType
    <3>3. round[n] = DOMAIN h
      BY <1>2, <1>4, <2>1, <3>1, <3>2, FS_Subset
    <3>. QED
      BY <1>5, <3>3
  <2>. QED
    BY <1>9, <2>1
<1>. QED
  BY <1>3, <1>6, <1>10

\* After a sweep what lives is held: by a live owner, or in a shared state.
LEMMA SweepHolds ==
  ASSUME NEW h, Typed(h), NEW states, NEW first \in SUBSET DOMAIN h, Possessed(h, first), NEW how
  PROVE  /\ Possessed(Sweep(h, states, first, how), {})
         /\ Retained(Sweep(h, states, first, how), states)
<1>1. PICK D : D = Dying(h, states, first)
  OBVIOUS
<1>2. PICK g : g = Sweep(h, states, first, how)
  OBVIOUS
<1>3. Swept(h, g, D)
  BY <1>1, <1>2, SweepSwept
<1>4. \A r, j : /\ IsSlot(g, r, j) <=> IsSlot(h, r, j)
                /\ IsSlot(h, r, j) => KindOf(g, r, j) = KindOf(h, r, j)
  BY <1>3, SlotsSame DEF Swept
<1>5. first \subseteq D /\ DieNext(h, states, D) \subseteq D
  BY <1>1, DyingCloses
<1>6. ASSUME NEW q \in DOMAIN g \ {Root}, Lives(g, q)
      PROVE  /\ q \in DOMAIN h /\ Lives(h, q) /\ q \notin D /\ g[q].deleter = h[q].deleter
             /\ ~ OwnedBy(h, q, D) /\ ~ Unshared(h, q, states, D)
  <2>1. q \in DOMAIN h /\ Lives(h, q) /\ q \notin D /\ g[q].deleter = h[q].deleter
    BY <1>3, <1>6 DEF Swept
  <2>. QED
    BY <1>5, <2>1, DiesIf
<1>7. ASSUME NEW p, NEW i, NEW q, IsSlot(h, p, i), KindOf(h, p, i) # "SharedObserver", Lives(h, p), p \notin D,
             h[p].to[i] = q
      PROVE  IsSlot(g, p, i) /\ KindOf(g, p, i) = KindOf(h, p, i) /\ Lives(g, p) /\ g[p].to[i] = q
  <2>1. p \in DOMAIN h
    BY <1>7 DEF IsSlot
  <2>. QED
    BY <1>3, <1>4, <1>7, <2>1 DEF Swept
<1>8. ASSUME NEW q \in DOMAIN g \ {Root}, Lives(g, q), g[q].deleter = << >>
      PROVE  HeldBy(g, "Owner", q)
  <2>1. HeldBy(h, "Owner", q)
    BY <1>5, <1>6, <1>8 DEF Possessed
  <2>2. PICK p, i : IsSlot(h, p, i) /\ KindOf(h, p, i) = "Owner" /\ Lives(h, p) /\ h[p].to[i] = q
    BY <2>1 DEF HeldBy
  <2>3. p \notin D
    BY <1>6, <1>8, <2>2 DEF OwnedBy
  <2>. QED
    BY <1>7, <2>2, <2>3 DEF HeldBy
<1>9. ASSUME NEW q \in DOMAIN g \ {Root}, Lives(g, q), g[q].deleter # << >>, q \notin states
      PROVE  HeldBy(g, "SharedOwner", q)
  <2>1. PICK p, i : /\ IsSlot(h, p, i) /\ KindOf(h, p, i) = "SharedOwner" /\ Lives(h, p) /\ p \notin D
                    /\ h[p].to[i] = q
    BY <1>6, <1>9 DEF Unshared
  <2>. QED
    BY <1>7, <2>1 DEF HeldBy
<1>. QED
  BY <1>2, <1>8, <1>9 DEF Possessed, Retained

\* A change to a pointer that owns nothing.
LEMMA PossessedChanged ==
  ASSUME NEW h, Typed(h), NEW g, NEW p, NEW i, Changes(h, g, p, i), Possessed(h, {}), NEW lost,
         IsSlot(h, p, i) /\ KindOf(h, p, i) = "Owner" /\ h[p].to[i] # Null
           => h[p].to[i] \in lost \/ g[p].to[i] = h[p].to[i],
         \A r \in DOMAIN g \ DOMAIN h : g[r].deleter # << >> \/ HeldBy(g, "Owner", r)
  PROVE  Possessed(g, lost)
<1>1. \A r \in DOMAIN h : \A j : /\ IsSlot(g, r, j) <=> IsSlot(h, r, j)
                                 /\ KindOf(g, r, j) = KindOf(h, r, j)
                                 /\ Lives(g, r) <=> Lives(h, r)
  BY SlotsKept DEF Changes
<1>. SUFFICES ASSUME NEW q \in DOMAIN g \ (lost \union {Root}), Lives(g, q), g[q].deleter = << >>
              PROVE  HeldBy(g, "Owner", q)
  BY DEF Possessed
<1>2. CASE q \notin DOMAIN h
  BY <1>2
<1>3. CASE q \in DOMAIN h
  <2>1. HeldBy(h, "Owner", q)
    BY <1>1, <1>3 DEF Possessed, Changes, SameObject
  <2>2. PICK r, j : IsSlot(h, r, j) /\ KindOf(h, r, j) = "Owner" /\ Lives(h, r) /\ h[r].to[j] = q
    BY <2>1 DEF HeldBy
  <2>3. r \in DOMAIN h /\ q # Null
    BY <1>3, <2>2, NullIsNoObject DEF IsSlot
  <2>4. g[r].to[j] = q
    BY <2>2, <2>3 DEF Changes
  <2>. QED
    BY <1>1, <2>2, <2>3, <2>4 DEF HeldBy
<1>. QED
  BY <1>2, <1>3

LEMMA OwnersUntouched ==
  ASSUME NEW h, Typed(h), NEW g, NEW p, NEW i, Changes(h, g, p, i), DOMAIN g = DOMAIN h,
         ~ IsSlot(h, p, i) \/ KindOf(h, p, i) = "Observer",
         Possessed(h, {}), NEW states, Retained(h, states), NEW more, states \subseteq more
  PROVE  Possessed(g, {}) /\ Retained(g, more)
<1>1. Possessed(g, {})
  BY PossessedChanged
<1>2. \A r \in DOMAIN h : \A j : /\ IsSlot(g, r, j) <=> IsSlot(h, r, j)
                                 /\ KindOf(g, r, j) = KindOf(h, r, j)
                                 /\ Lives(g, r) <=> Lives(h, r)
  BY SlotsKept DEF Changes
<1>3. ASSUME NEW q \in DOMAIN g \ {Root}, Lives(g, q), g[q].deleter # << >>, q \notin more
      PROVE  HeldBy(g, "SharedOwner", q)
  <2>1. HeldBy(h, "SharedOwner", q)
    BY <1>2, <1>3 DEF Retained, Changes, SameObject
  <2>2. PICK r, j : IsSlot(h, r, j) /\ KindOf(h, r, j) = "SharedOwner" /\ Lives(h, r) /\ h[r].to[j] = q
    BY <2>1 DEF HeldBy
  <2>3. r \in DOMAIN h
    BY <2>2 DEF IsSlot
  <2>4. g[r].to[j] = q
    BY <2>2 DEF Changes
  <2>. QED
    BY <1>2, <2>2, <2>3, <2>4 DEF HeldBy
<1>. QED
  BY <1>1, <1>3 DEF Retained

LEMMA LinkedHolds ==
  ASSUME NEW h, Typed(h), Possessed(h, {}), NEW states, Retained(h, states), NEW more, states \subseteq more,
         NEW info, Waits(h, info), NEW q
  PROVE  Possessed(Linked(h, info, q), {}) /\ Retained(Linked(h, info, q), more)
<1>1. PICK g : g = Linked(h, info, q)
  OBVIOUS
<1>2. Links(h, g)
  BY <1>1, LinkedLinks
<1>3. Changes(h, g, Null, 0) /\ DOMAIN g = DOMAIN h
  BY <1>2, LinksChange DEF Links
<1>4. ~ IsSlot(h, Null, 0)
  BY NullIsNoObject DEF IsSlot
<1>. QED
  BY <1>1, <1>3, <1>4, OwnersUntouched

LEMMA DestroyHolds ==
  ASSUME TypeInv, AtSlot, Held # Null, Possessed(heap, {}), NEW r
  PROVE  Possessed(DestroyPtr(Here, r), {}) /\ Retained(DestroyPtr(Here, r), States(infos))
<1>1. PICK n, p, i : IsHere(n, p, i)
  BY HereIs
<1>2. Here = <<p, i>> /\ IsSlot(heap, p, i) /\ KindOf(heap, p, i) = There.kind /\ Held = heap[p].to[i]
  BY <1>1 DEF IsHere
<1>3. Typed(heap) /\ program \in Programs /\ Held \in DOMAIN heap
  BY HereIs, HereType
<1>4. PICK a : a = Assign(heap, Here, Null)
  OBVIOUS
<1>5. Sets(heap, a, p, i, Null)
  BY <1>2, <1>3, <1>4, AssignSets
<1>6. Typed(a)
  BY <1>2, <1>3, <1>4, AssignType DEF IsSlot
<1>7. Null \notin DOMAIN heap
  BY <1>3, NullIsNoObject
<1>8. Changes(heap, a, p, i) /\ DOMAIN a = DOMAIN heap
  BY <1>5, <1>7, SetsChange DEF Sets
<1>9. PICK d : d = DestroyPtr(Here, r)
  OBVIOUS
<1>10. CASE There.kind = "Owner"
  <2>1. PICK how : d = Sweep(a, States(infos), { Held }, how)
    BY <1>4, <1>9, <1>10 DEF DestroyPtr, Delete, There, Held
  <2>2. Possessed(a, { Held })
    BY <1>2, <1>3, <1>8, PossessedChanged
  <2>. QED
    BY <1>3, <1>6, <1>8, <1>9, <2>1, <2>2, SweepHolds
<1>11. CASE There.kind # "Owner"
  <2>1. d = Sweep(a, States(infos), {}, << >>)
    BY <1>4, <1>9, <1>11 DEF DestroyPtr, There
  <2>2. Possessed(a, {})
    BY <1>2, <1>3, <1>8, <1>11, PossessedChanged
  <2>. QED
    BY <1>6, <1>9, <2>1, <2>2, SweepHolds
<1>. QED
  BY <1>10, <1>11

LEMMA SharesHolds ==
  ASSUME program \in Programs, Typed(heap), Possessed(heap, {}),
         NEW s, NEW p, NEW i, s = <<p, i>>, IsSlot(heap, p, i),
         KindOf(heap, p, i) \in {"SharedOwner", "SharedObserver"},
         NEW id, NEW info, Shares(heap, s, id, info), Waits(heap, info),
         info.sharedState \in DOMAIN heap \union {Null}
  PROVE  Possessed(heap', {}) /\ Retained(heap', States(infos'))
<1>1. PICK is : is = infos'
  OBVIOUS
<1>2. PICK q : q = info.sharedState
  OBVIOUS
<1>3. PICK l : l = Linked(heap, info, q)
  OBVIOUS
<1>4. PICK a : a = Assign(l, <<p, i>>, q)
  OBVIOUS
<1>5. heap' = Sweep(a, States(is), {}, << >>)
  BY <1>1, <1>2, <1>3, <1>4 DEF Shares
<1>6. Links(heap, l) /\ Typed(l)
  BY <1>2, <1>3, LinkedLinks, LinkedType
<1>7. Possessed(l, {})
  <2>1. Changes(heap, l, Null, 0) /\ DOMAIN l = DOMAIN heap
    BY <1>6, LinksChange DEF Links
  <2>2. ~ IsSlot(heap, Null, 0)
    BY NullIsNoObject DEF IsSlot
  <2>. QED
    BY <2>1, <2>2, PossessedChanged
<1>8. IsSlot(l, p, i) /\ KindOf(l, p, i) = KindOf(heap, p, i)
  BY <1>6 DEF Links, SameObject, IsSlot, KindOf
<1>9. Sets(l, a, p, i, q)
  <2>1. q \in DOMAIN l \union {Null}
    BY <1>2, <1>6 DEF Links
  <2>. QED
    BY <1>4, <1>6, <1>8, <2>1, AssignSets
<1>10. Typed(a)
  BY <1>2, <1>4, <1>6, <1>8, AssignType DEF IsSlot, Links
<1>11. Changes(l, a, p, i) /\ DOMAIN a = DOMAIN l
  BY <1>8, <1>9, SetsChange DEF Sets
<1>12. Possessed(a, {})
  BY <1>6, <1>7, <1>8, <1>11, PossessedChanged
<1>13. Possessed(Sweep(a, States(is), {}, << >>), {}) /\ Retained(Sweep(a, States(is), {}, << >>), States(is))
  BY <1>10, <1>12, SweepHolds
<1>. QED
  BY <1>1, <1>5, <1>13

LEMMA StatesKept ==
  ASSUME NEW id, NEW o, id \in DOMAIN infos => infos[id].sharedState \in {Null, o.sharedState}
  PROVE  States(infos) \subseteq States(With(id, o))
BY DEF States, With

LEMMA ReadNullHolds ==
  ASSUME TypeInv, OwnInv, ReadNull
  PROVE  Possessed(heap', {}) /\ Retained(heap', States(infos'))
<1>1. AtSlot /\ infos' = infos /\ (heap' = heap \/ (Held # Null /\ heap' = DestroyPtr(Here, MemResource(There))))
  BY DEF ReadNull
<1>2. Possessed(heap, {}) /\ Retained(heap, States(infos))
  BY DEF OwnInv
<1>. QED
  BY <1>1, <1>2, DestroyHolds

LEMMA ReadObserverHolds ==
  ASSUME TypeInv, OwnInv, ReadObserver
  PROVE  Possessed(heap', {}) /\ Retained(heap', States(infos'))
<1>1. AtSlot /\ There.kind = "Observer"
  BY DEF ReadObserver
<1>2. PICK n, p, i : IsHere(n, p, i)
  BY <1>1, HereIs
<1>3. Here = <<p, i>> /\ IsSlot(heap, p, i) /\ KindOf(heap, p, i) = "Observer"
  BY <1>1, <1>2 DEF IsHere
<1>4. Typed(heap) /\ program \in Programs /\ Possessed(heap, {}) /\ Retained(heap, States(infos))
  BY DEF TypeInv, OwnInv
<1>5. PICK id \in DOMAIN infos \union {NewId} :
        LET info == InfoById(id, "Observer")
        IN  IF info.ownerPtr = Null
              THEN /\ infos' = With(id, [ info EXCEPT !.observers = @ \union {Here} ])
                   /\ UNCHANGED heap
              ELSE /\ infos' = With(id, info)
                   /\ heap' = Assign(heap, Here, info.ownerPtr)
  BY DEF ReadObserver
<1>6. PICK info : info = InfoById(id, "Observer")
  OBVIOUS
<1>7. Leading(info, heap)
  BY <1>6, InfoByIdType DEF TypeInv, Kinds
<1>8. id \in DOMAIN infos => info.sharedState = infos[id].sharedState
  <2>1. ASSUME id \in DOMAIN infos PROVE info.sharedState = infos[id].sharedState
    <3>1. infos[id] \in Info /\ info = [ infos[id] EXCEPT !.ownership = infos[id].ownership ]
      BY <1>6, <2>1 DEF TypeInv, Leads, InfoById, Update
    <3>. QED
      BY <3>1 DEF Info
  <2>. QED
    BY <2>1
<1>9. CASE info.ownerPtr = Null
  <2>1. PICK o : o = [ info EXCEPT !.observers = info.observers \union {Here} ]
    OBVIOUS
  <2>2. infos' = With(id, o) /\ heap' = heap
    BY <1>5, <1>6, <1>9, <2>1
  <2>3. o.sharedState = info.sharedState
    BY <1>7, <2>1 DEF Leading, Info
  <2>4. States(infos) \subseteq States(infos')
    BY <1>8, <2>2, <2>3, StatesKept
  <2>. QED
    BY <1>4, <2>2, <2>4 DEF Retained
<1>10. CASE info.ownerPtr # Null
  <2>1. infos' = With(id, info) /\ heap' = Assign(heap, Here, info.ownerPtr)
    BY <1>5, <1>6, <1>10
  <2>2. States(infos) \subseteq States(infos')
    BY <1>8, <2>1, StatesKept
  <2>3. Sets(heap, heap', p, i, info.ownerPtr)
    BY <1>3, <1>4, <1>7, <2>1, AssignSets DEF Leading
  <2>4. Changes(heap, heap', p, i) /\ DOMAIN heap' = DOMAIN heap
    BY <1>3, <2>3, SetsChange DEF Sets
  <2>. QED
    BY <1>3, <1>4, <2>2, <2>4, OwnersUntouched
<1>. QED
  BY <1>9, <1>10

LEMMA ReadKnownHolds ==
  ASSUME TypeInv, LivesInv, OwnInv, ReadKnown
  PROVE  Possessed(heap', {}) /\ Retained(heap', States(infos'))
<1>1. AtSlot
  BY DEF ReadKnown
<1>2. Reading(stack, infos, heap) /\ Typed(heap) /\ program \in Programs /\ Possessed(heap, {})
  BY <1>1 DEF LivesInv, AtSlot, TypeInv, OwnInv
<1>3. PICK id \in Known(There) : Shares(heap, Here, id, InfoById(id, There.kind))
  BY DEF ReadKnown
<1>4. id \in DOMAIN infos /\ There.kind \in {"SharedOwner", "SharedObserver"}
  BY <1>3 DEF Known, IsShared
<1>5. PICK info : info = InfoById(id, There.kind)
  OBVIOUS
<1>6. infos[id] \in Info /\ Told(heap, infos[id])
  BY <1>2, <1>4 DEF TypeInv, Leads, Reading, Informed
<1>7. info.sharedState = infos[id].sharedState /\ info.observers = infos[id].observers
  <2>1. info = [ infos[id] EXCEPT !.ownership = Update(infos[id].ownership, There.kind) ]
    BY <1>4, <1>5 DEF InfoById
  <2>. QED
    BY <1>6, <2>1 DEF Info
<1>8. PICK n, p, i : IsHere(n, p, i)
  BY <1>1, HereIs
<1>9. Here = <<p, i>> /\ IsSlot(heap, p, i) /\ KindOf(heap, p, i) = There.kind
  BY <1>8 DEF IsHere
<1>10. Shares(heap, Here, id, info) /\ Waits(heap, info) /\ info.sharedState \in DOMAIN heap \union {Null}
  BY <1>3, <1>5, <1>6, <1>7 DEF Told, Waits
<1>. QED
  BY <1>2, <1>4, <1>9, <1>10, SharesHolds

LEMMA ReadUnknownTypeHolds ==
  ASSUME TypeInv, LivesInv, OwnInv, ReadUnknownType
  PROVE  Possessed(heap', {}) /\ Retained(heap', States(infos'))
<1>1. AtSlot /\ There.kind # "Observer"
  BY DEF ReadUnknownType
<1>2. Reading(stack, infos, heap) /\ Typed(heap) /\ program \in Programs
      /\ Possessed(heap, {}) /\ Retained(heap, States(infos))
  BY <1>1 DEF LivesInv, AtSlot, TypeInv, OwnInv
<1>3. PICK id \in Unclaimed :
         LET info == InfoById(id, There.kind)
         IN  IF IsShared(There)
               THEN Shares(heap, Here, id, [ info EXCEPT !.sharedState = Held ])
               ELSE /\ infos' = With(id, Claimed(info, Held))
                    /\ heap' = Linked(heap, info, Held)
  BY DEF ReadUnknownType
<1>4. There.kind \in Kinds
  BY <1>1, HereIs
<1>5. PICK info : info = InfoById(id, There.kind)
  OBVIOUS
<1>6. info \in Info
  BY <1>4, <1>5, InfoByIdType DEF TypeInv, Leading
<1>7. Fresh(stack, id, info)
  BY <1>1, <1>2, <1>4, <1>5, UnclaimedIsFresh
<1>8. PICK n, p, i : IsHere(n, p, i)
  BY <1>1, HereIs
<1>9. Here = <<p, i>> /\ IsSlot(heap, p, i) /\ KindOf(heap, p, i) = There.kind
  BY <1>8 DEF IsHere
<1>10. CASE IsShared(There)
  <2>1. PICK o : o = [ info EXCEPT !.sharedState = Held ]
    OBVIOUS
  <2>2. o.sharedState = Held /\ o.observers = info.observers
    BY <1>6, <2>1 DEF Info
  <2>3. Waits(heap, o) /\ o.sharedState \in DOMAIN heap \union {Null}
    BY <1>1, <1>7, <2>2, HereType DEF Fresh, Waits
  <2>4. Shares(heap, Here, id, o) /\ KindOf(heap, p, i) \in {"SharedOwner", "SharedObserver"}
    BY <1>3, <1>5, <1>9, <1>10, <2>1 DEF IsShared
  <2>. QED
    BY <1>2, <1>9, <2>3, <2>4, SharesHolds
<1>11. CASE ~ IsShared(There)
  <2>1. PICK c : c = Claimed(info, Held)
    OBVIOUS
  <2>2. infos' = With(id, c) /\ heap' = Linked(heap, info, Held)
    BY <1>3, <1>5, <1>11, <2>1
  <2>3. States(infos) \subseteq States(infos')
    BY <1>7, <2>2, StatesKept DEF Fresh
  <2>4. Waits(heap, info)
    BY <1>7 DEF Fresh
  <2>. QED
    BY <1>2, <2>2, <2>3, <2>4, LinkedHolds
<1>. QED
  BY <1>10, <1>11

\* The pointer is empty afterwards.
LEMMA DestroyEmpties ==
  ASSUME TypeInv, AtSlot, NEW p, NEW i, Here = <<p, i>>, IsSlot(heap, p, i), NEW r
  PROVE  DestroyPtr(Here, r)[p].to[i] = Null
<1>1. Typed(heap) /\ program \in Programs
  BY HereIs
<1>2. PICK a : a = Assign(heap, Here, Null)
  OBVIOUS
<1>3. Sets(heap, a, p, i, Null)
  BY <1>1, <1>2, AssignSets
<1>4. Typed(a)
  BY <1>1, <1>2, AssignType DEF IsSlot
<1>5. IsSlot(a, p, i) /\ a[p].to[i] = Null
  BY <1>3 DEF Sets, SameObject, IsSlot
<1>6. PICK first, how : DestroyPtr(Here, r) = Sweep(a, States(infos), first, how)
  BY <1>2, Zenon DEF DestroyPtr, Delete
<1>7. PICK d : d = DestroyPtr(Here, r)
  OBVIOUS
<1>8. Swept(a, d, Dying(a, States(infos), first))
  BY <1>4, <1>6, <1>7, SweepSwept
<1>. QED
  BY <1>5, <1>7, <1>8 DEF Swept

\* What ReadObject reads is held by the pointer that is read.
LEMMA FilledHolds ==
  ASSUME TypeInv, AtSlot, Kept(heap), Reading(stack, infos, heap), There.kind # "Observer",
         Possessed(heap, {}), NEW n, NEW p, NEW i, IsHere(n, p, i),
         NEW type \in Types, Fits(type) => Held \notin ReadSet(stack, infos),
         NEW h, h = IF ~ Fits(type) THEN Created(Emptied(type), Here, type, MemResource(There)) ELSE heap
  PROVE  Possessed(h, {})
<1>1. /\ n = Len(stack) /\ n \in Nat \ {0} /\ p = stack[n].at /\ Here = <<p, i>>
      /\ IsSlot(heap, p, i) /\ KindOf(heap, p, i) = There.kind /\ Held = heap[p].to[i]
  BY DEF IsHere
<1>2. Typed(heap) /\ program \in Programs /\ There.kind \in Kinds
  BY HereIs
<1>3. CASE Fits(type)
  BY <1>3
<1>4. CASE ~ Fits(type)
  <2>1. PICK e : e = Emptied(type)
    OBVIOUS
  <2>2. PICK by \in Resources : by = MemResource(There)
    BY HereType
  <2>3. \/ Held = Null /\ e = heap
        \/ Held # Null /\ e = DestroyPtr(Here, by)
    BY <1>4, <2>1, <2>2 DEF Emptied
  <2>4. Typed(e) /\ Extends(heap, e) /\ DOMAIN e = DOMAIN heap /\ Reading(stack, infos, e)
        /\ Possessed(e, {})
    <3>1. CASE e = heap
      BY <1>2, <3>1 DEF Extends
    <3>2. CASE Held # Null /\ e = DestroyPtr(Here, by)
      BY <3>2, DestroyType, DestroyKeeps, EmptiedLife, DestroyHolds
    <3>. QED
      BY <2>3, <3>1, <3>2
  <2>5. IsSlot(e, p, i) /\ KindOf(e, p, i) = There.kind
    <3>1. p \in DOMAIN heap /\ i \in 1 .. Len(heap[p].to)
      BY <1>1 DEF IsSlot
    <3>2. e[p].type = heap[p].type /\ Len(e[p].to) = Len(heap[p].to)
      BY <1>2, <2>4, <3>1 DEF Extends, Typed
    <3>. QED
      BY <1>1, <2>4, <3>1, <3>2 DEF IsSlot, KindOf
  <2>6. e[p].to[i] = Null
    <3>1. CASE Held = Null /\ e = heap
      BY <1>1, <3>1
    <3>2. CASE Held # Null /\ e = DestroyPtr(Here, by)
      BY <1>1, <3>2, DestroyEmpties
    <3>. QED
      BY <2>3, <3>1, <3>2
  <2>7. h = Created(e, <<p, i>>, type, by)
    BY <1>1, <1>4, <2>1, <2>2
  <2>8. PICK q : Makes(e, h, p, i, q, type, by) /\ h[p].to[i] = q
    BY <1>2, <2>4, <2>5, <2>7, CreatedMakes
  <2>9. Changes(e, h, p, i)
    BY <2>8, MakesChange
  <2>10. /\ q \in DOMAIN h /\ \A r \in DOMAIN h \ DOMAIN e : r = q
         /\ h[q].deleter = IF There.kind \in {"SharedOwner", "SharedObserver"} THEN << by, type >> ELSE << >>
    BY <2>5, <2>8 DEF Makes
  <2>11. h[q].deleter # << >> \/ HeldBy(h, "Owner", q)
    <3>1. CASE There.kind = "Owner"
      <4>1. Lives(e, p)
        <5>1. n \in 1 .. n
          BY <1>1
        <5>2. p \in ReadSet(stack, infos)
          BY <1>1, <5>1 DEF ReadSet
        <5>. QED
          BY <2>4, <5>2 DEF Reading, Visited
      <4>2. p \in DOMAIN e
        BY <2>5 DEF IsSlot
      <4>3. IsSlot(h, p, i) /\ KindOf(h, p, i) = "Owner" /\ Lives(h, p)
        BY <2>5, <2>9, <3>1, <4>1, <4>2, SlotsKept DEF Changes
      <4>. QED
        BY <2>8, <4>3 DEF HeldBy
    <3>2. CASE There.kind # "Owner"
      <4>1. There.kind \in {"SharedOwner", "SharedObserver"}
        BY <1>2, <3>2 DEF Kinds
      <4>2. << by, type >> # << >>
        OBVIOUS
      <4>. QED
        BY <2>10, <4>1, <4>2
    <3>. QED
      BY <3>1, <3>2
  <2>. QED
    BY <2>4, <2>6, <2>9, <2>10, <2>11, PossessedChanged
<1>. QED
  BY <1>3, <1>4

LEMMA ReadObjectHolds ==
  ASSUME TypeInv, LivesInv, Disciplined, OwnInv, ReadObject
  PROVE  Possessed(heap', {}) /\ Retained(heap', States(infos'))
<1>1. AtSlot /\ There.kind # "Observer"
  BY DEF ReadObject
<1>2. /\ Kept(heap) /\ Reading(stack, infos, heap) /\ Typed(heap) /\ program \in Programs
      /\ Possessed(heap, {})
  BY <1>1, HereIs DEF LivesInv, AtSlot, TypeInv, OwnInv
<1>3. PICK id \in Unclaimed, index \in 1 .. Len(There.types) :
       LET type    == There.types[index]
           creates == ~Fits(type)
           filled  == IF creates
                        THEN Created(Emptied(type), Here, type, MemResource(There)) ELSE heap
           p       == At(filled, Here)
           info    == InfoById(id, There.kind)
           is      == With(id, [ info EXCEPT !.sharedState =
                                   IF SavedBefore(There, creates) THEN p ELSE @ ])
       IN  /\ creates => Cardinality(DOMAIN heap) <= program.objects
           /\ program.aliases \/ creates \/ p \notin ReadNow
           /\ infos' = is
           /\ heap' = Sweep(filled, States(is), {}, << >>)
           /\ stack' = Append(Moved, Frame(p, id, resource))
  BY DEF ReadObject
<1>4. PICK type : type = There.types[index]
  OBVIOUS
<1>5. type \in Types
  <2>1. There.types \in Seq(Types)
    BY <1>1, HereType DEF Pointers
  <2>. QED
    BY <1>4, <2>1
<1>6. PICK n, p, i : IsHere(n, p, i)
  BY <1>1, HereIs
<1>7. PICK h : h = IF ~ Fits(type) THEN Created(Emptied(type), Here, type, MemResource(There)) ELSE heap
  OBVIOUS
<1>8. PICK is : is = infos'
  OBVIOUS
<1>9. /\ program.aliases \/ ~ Fits(type) \/ At(h, Here) \notin ReadNow
      /\ heap' = Sweep(h, States(is), {}, << >>)
  BY <1>3, <1>4, <1>7, <1>8
<1>10. Fits(type) => Held \notin ReadSet(stack, infos)
  BY <1>7, <1>9 DEF Disciplined, ReadNow, ReadSet, Held
<1>11. Typed(h)
  BY <1>1, <1>2, <1>5, <1>6, <1>7, <1>10, FilledLife
<1>12. Possessed(h, {})
  BY <1>1, <1>2, <1>5, <1>6, <1>7, <1>10, FilledHolds
<1>13. PICK g : g = heap'
  OBVIOUS
<1>14. Possessed(g, {}) /\ Retained(g, States(is))
  BY <1>9, <1>11, <1>12, <1>13, SweepHolds
<1>. QED
  BY <1>8, <1>13, <1>14

LEMMA ReadReturnHolds ==
  ASSUME TypeInv, LivesInv, OwnInv, ReadReturn
  PROVE  Possessed(heap', {}) /\ Retained(heap', States(infos'))
<1>1. phase = "reading"
  BY DEF ReadReturn
<1>2. /\ Kept(heap) /\ Reading(stack, infos, heap) /\ Typed(heap) /\ program \in Programs
      /\ Possessed(heap, {}) /\ Retained(heap, States(infos))
  BY <1>1 DEF LivesInv, TypeInv, OwnInv
<1>3. PICK n \in Nat : n = Len(stack) /\ n > 1 /\ Last(stack) = stack[n]
  <2>1. PICK n : n = Len(stack)
    OBVIOUS
  <2>. QED
    BY <2>1, ReturnType
<1>4. PICK m \in Nat \ {0} : m = n - 1
  <2>1. n - 1 \in Nat \ {0}
    BY <1>3, SMT
  <2>. QED
    BY <2>1
<1>5. m \in 1 .. n - 1 /\ m + 1 = n
  BY <1>3, <1>4
<1>6. PICK p : p = stack[m].at
  OBVIOUS
<1>7. PICK i : i = stack[m].slot - 1
  OBVIOUS
<1>8. PICK q : q = stack[n].at
  OBVIOUS
<1>9. PICK id : id = stack[n].id
  OBVIOUS
<1>10. PICK info : info = infos[id]
  OBVIOUS
<1>11. PICK s : s = <<p, i>>
  OBVIOUS
<1>12. /\ IsSlot(heap, p, i) /\ heap[p].to[i] = q /\ id \in DOMAIN infos
       /\ info.sharedState \in {Null, q} /\ q \in DOMAIN heap
  <2>1. n \in 1 .. n
    BY <1>3
  <2>. QED
    BY <1>2, <1>3, <1>5, <1>6, <1>7, <1>8, <1>9, <1>10, <2>1 DEF Reading, Nested
<1>13. q # Null
  BY <1>2, <1>12, NullIsNoObject
<1>14. /\ At(heap, s) = q
       /\ IsShared(Declared(heap, s)) <=> KindOf(heap, p, i) \in {"SharedOwner", "SharedObserver"}
  <2>1. At(heap, <<p, i>>) = heap[p].to[i] /\ Declared(heap, <<p, i>>).kind = KindOf(heap, p, i)
    BY <1>2, SlotsOfHeap
  <2>. QED
    BY <1>11, <1>12, <2>1 DEF IsShared
<1>15. IF IsShared(Declared(heap, s))
         THEN Shares(heap, s, id, [ info EXCEPT !.sharedState = IF @ = Null THEN At(heap, s) ELSE @ ])
         ELSE /\ infos' = With(id, Claimed(info, At(heap, s)))
              /\ heap' = Linked(heap, info, At(heap, s))
  BY <1>3, <1>4, <1>6, <1>7, <1>9, <1>10, <1>11 DEF ReadReturn
<1>16. info \in Info /\ Waits(heap, info)
  BY <1>2, <1>10, <1>12 DEF TypeInv, Leads, Reading, Informed, Told
<1>17. CASE IsShared(Declared(heap, s))
  <2>1. PICK o : o = [ info EXCEPT !.sharedState = IF @ = Null THEN q ELSE @ ]
    OBVIOUS
  <2>2. o.observers = info.observers /\ o.sharedState = q
    BY <1>12, <1>13, <1>16, <2>1 DEF Info
  <2>3. Shares(heap, s, id, o) /\ Waits(heap, o)
    BY <1>14, <1>15, <1>16, <1>17, <2>1, <2>2 DEF Waits
  <2>. QED
    BY <1>2, <1>11, <1>12, <1>14, <1>17, <2>2, <2>3, SharesHolds
<1>18. CASE ~ IsShared(Declared(heap, s))
  <2>1. PICK c : c = Claimed(info, q)
    OBVIOUS
  <2>2. infos' = With(id, c) /\ heap' = Linked(heap, info, q)
    BY <1>14, <1>15, <1>18, <2>1
  <2>3. c.sharedState = infos[id].sharedState
    BY <1>10, <1>16, <2>1 DEF Claimed, Info
  <2>4. States(infos) \subseteq States(infos')
    BY <2>2, <2>3, StatesKept
  <2>. QED
    BY <1>2, <1>16, <2>2, <2>4, LinkedHolds
<1>. QED
  BY <1>17, <1>18

-----------------------------------------------------------------------------
LEMMA OwnNow ==
  ASSUME program' = program, Possessed(heap', {}), Retained(heap', States(infos')),
         phase' = "cleared" => States(infos') = {}
  PROVE  OwnInv'
<1>1. \A kind, q : HeldBy(heap, kind, q)' <=> HeldBy(heap', kind, q)
  BY DEF HeldBy, IsSlot, KindOf, PointersOf, Lives
<1>2. Possessed(heap, {})' <=> Possessed(heap', {})
  BY <1>1 DEF Possessed, Lives
<1>3. States(infos)' = States(infos')
  BY DEF States
<1>4. PICK states : states = States(infos')
  OBVIOUS
<1>5. Retained(heap, States(infos))' <=> Retained(heap', states)
  BY <1>1, <1>3, <1>4 DEF Retained, Lives
<1>. QED
  BY <1>2, <1>3, <1>4, <1>5 DEF OwnInv

LEMMA OwnInit == Init => OwnInv
<1>. SUFFICES ASSUME Init PROVE OwnInv
  OBVIOUS
<1>1. DOMAIN heap = {Root} /\ phase = "reading"
  BY DEF Init
<1>. QED
  BY <1>1 DEF OwnInv, Possessed, Retained

\* No state is shared where there are no infos, or where each was cleared.
LEMMA NoStates ==
  ASSUME NEW is, \A id \in DOMAIN is : is[id].sharedState = Null
  PROVE  States(is) = {}
BY DEF States

LEMMA OwnNext ==
  ASSUME TypeInv, LivesInv, Disciplined, OwnInv, [Next]_vars
  PROVE  OwnInv'
<1>1. program' = program
  BY Zenon DEF Next, vars, ReadNull, ReadObserver, ReadKnown, ReadObject, ReadUnknownType,
               ThrowBadWeakPtr, ReadReturn, EndOfData, Finish, ClearSharedState, NextDocument
<1>2. Possessed(heap, {}) /\ Retained(heap, States(infos)) /\ Typed(heap)
  BY DEF OwnInv, TypeInv
<1>3. CASE ReadNull
  <2>1. phase' # "cleared"
    BY <1>3, Zenon DEF ReadNull, AtSlot
  <2>. QED
    BY <1>1, <1>3, <2>1, ReadNullHolds, OwnNow
<1>4. CASE ReadObserver
  <2>1. phase' # "cleared"
    BY <1>4, Zenon DEF ReadObserver, AtSlot
  <2>. QED
    BY <1>1, <1>4, <2>1, ReadObserverHolds, OwnNow
<1>5. CASE ReadKnown
  <2>1. phase' # "cleared"
    BY <1>5, Zenon DEF ReadKnown, AtSlot
  <2>. QED
    BY <1>1, <1>5, <2>1, ReadKnownHolds, OwnNow
<1>6. CASE ReadObject
  <2>1. phase' # "cleared"
    BY <1>6, Zenon DEF ReadObject, AtSlot
  <2>. QED
    BY <1>1, <1>6, <2>1, ReadObjectHolds, OwnNow
<1>7. CASE ReadUnknownType
  <2>1. phase' # "cleared"
    BY <1>7, Zenon DEF ReadUnknownType, AtSlot
  <2>. QED
    BY <1>1, <1>7, <2>1, ReadUnknownTypeHolds, OwnNow
<1>8. CASE ReadReturn
  <2>1. phase' # "cleared"
    BY <1>8, Zenon DEF ReadReturn
  <2>. QED
    BY <1>1, <1>8, <2>1, ReadReturnHolds, OwnNow
<1>9. CASE ThrowBadWeakPtr
  <2>1. AtSlot /\ There.polymorphic /\ There.kind = "SharedObserver"
    BY <1>9 DEF ThrowBadWeakPtr
  <2>. QED
    BY <2>1, WeakIsPlain
<1>10. CASE EndOfData \/ Finish \/ UNCHANGED vars
  <2>1. /\ heap' = heap /\ infos' = infos
        /\ phase' = "cleared" => phase = "cleared"
    BY <1>10 DEF EndOfData, Finish, vars
  <2>. QED
    BY <1>1, <1>2, <2>1, OwnNow DEF OwnInv
<1>11. CASE ClearSharedState
  <2>1. PICK is : is = infos'
    OBVIOUS
  <2>2. is = [ id \in DOMAIN infos |-> [ infos[id] EXCEPT !.sharedState = Null ] ]
    BY <1>11, <2>1 DEF ClearSharedState
  <2>3. \A id \in DOMAIN infos : infos[id] \in Info
    BY DEF TypeInv, Leads
  <2>4. States(is) = {}
    BY <2>2, <2>3, NoStates DEF Info
  <2>5. heap' = Sweep(heap, {}, {}, << >>)
    BY <1>11 DEF ClearSharedState
  <2>6. PICK g : g = heap'
    OBVIOUS
  <2>7. Possessed(g, {}) /\ Retained(g, {})
    BY <1>2, <2>5, <2>6, SweepHolds
  <2>. QED
    BY <1>1, <2>1, <2>4, <2>6, <2>7, OwnNow
<1>12. CASE NextDocument
  <2>1. /\ heap' = heap /\ phase = "cleared" /\ phase' = "reading" /\ DOMAIN infos' = {}
    BY <1>12 DEF NextDocument
  <2>2. States(infos) = {}
    BY <2>1 DEF OwnInv
  <2>3. Retained(heap, States(infos'))
    BY <1>2, <2>2 DEF Retained
  <2>. QED
    BY <1>1, <1>2, <2>1, <2>3, OwnNow
<1>. QED
  BY <1>3, <1>4, <1>5, <1>6, <1>7, <1>8, <1>9, <1>10, <1>11, <1>12 DEF Next

LEMMA OwnersHold ==
  ASSUME TypeInv, OwnInv
  PROVE  NothingLeaks
<1>. SUFFICES ASSUME phase = "cleared", NEW q \in DOMAIN heap \ {Root}, Lives(heap, q)
              PROVE  \E s \in SlotsOf(heap) : /\ At(heap, s) = q /\ Lives(heap, s[1])
                                              /\ Declared(heap, s).kind \in {"Owner", "SharedOwner"}
  BY DEF NothingLeaks
<1>1. PICK kind \in {"Owner", "SharedOwner"} : HeldBy(heap, kind, q)
  BY DEF OwnInv, Possessed, Retained
<1>2. PICK p, i : IsSlot(heap, p, i) /\ KindOf(heap, p, i) = kind /\ Lives(heap, p) /\ heap[p].to[i] = q
  BY <1>1 DEF HeldBy
<1>3. PICK s : s = <<p, i>>
  OBVIOUS
<1>4. s \in SlotsOf(heap) /\ At(heap, s) = q /\ Declared(heap, s).kind = kind /\ s[1] = p
  BY <1>2, <1>3, SlotsOfHeap DEF TypeInv
<1>. QED
  BY <1>2, <1>4

\* In a disciplined program: between documents every live object has a live
\* owner.  What a document replaced was released with everything it owned,
\* however long the chain, and so was what only the shared state of the
\* context kept, when that is cleared.
THEOREM ReplacedIsReleased == Spec => [](Disciplined => NothingLeaks)
<1>. DEFINE Inv == TypeInv /\ (Disciplined => LivesInv /\ OwnInv)
<1>1. Init => Inv
  BY TypeInit, LivesInit, OwnInit
<1>2. Inv /\ [Next]_vars => Inv'
  <2>. SUFFICES ASSUME Inv, [Next]_vars PROVE Inv'
    OBVIOUS
  <2>1. TypeInv'
    BY TypeNext
  <2>2. ASSUME Disciplined' PROVE LivesInv' /\ OwnInv'
    <3>1. Disciplined
      BY <2>2, DisciplinedNext
    <3>. QED
      BY <3>1, LivesNext, OwnNext
  <2>. QED
    BY <2>1, <2>2
<1>3. Inv => (Disciplined => NothingLeaks)
  BY OwnersHold
<1>. QED
  BY <1>1, <1>2, <1>3, PTL DEF Spec

-----------------------------------------------------------------------------
(***************************************************************************)
(* Objects do not own each other in a ring.                                *)
(***************************************************************************)
\* Pointer i of p owns or shares q.
Owns(h, p, i, q) ==
  IsSlot(h, p, i) /\ KindOf(h, p, i) \in {"Owner", "SharedOwner"} /\ h[p].to[i] = q

Ringless(h) ==
  \A S \in SUBSET DOMAIN h : S # {} => \E q \in S : \A p \in S : \A i : ~ Owns(h, p, i, q)

\* What is owned anew is in a set that owns nothing outside of it, and its
\* owner is not.
LEMMA RinglessGrown ==
  ASSUME NEW h, Typed(h), Ringless(h), NEW g, Typed(g), NEW C,
         \A p, i : \A q \in DOMAIN g : Owns(g, p, i, q) /\ p \in C => q \in C,
         \A p, i : \A q \in DOMAIN g : Owns(g, p, i, q) => Owns(h, p, i, q) \/ (q \in C /\ p \notin C)
  PROVE  Ringless(g)
<1>. SUFFICES ASSUME NEW S \in SUBSET DOMAIN g, S # {},
                     \A q \in S : \E p \in S : \E i : Owns(g, p, i, q)
              PROVE  FALSE
  BY DEF Ringless
<1>1. PICK T : T = IF S \subseteq C THEN S ELSE S \ C
  OBVIOUS
<1>2. T # {} /\ T \subseteq S
  BY <1>1
<1>3. ASSUME NEW q \in T
      PROVE  /\ \E p \in T : \E i : Owns(h, p, i, q)
             /\ q \in DOMAIN h
  <2>1. PICK p, i : p \in S /\ Owns(g, p, i, q)
    BY <1>2
  <2>2. q \in DOMAIN g
    BY <1>2
  <2>3. p \in T /\ Owns(h, p, i, q)
    BY <1>1, <2>1, <2>2
  <2>4. p \in DOMAIN h /\ i \in 1 .. Len(h[p].to) /\ h[p].to[i] = q
    BY <2>3 DEF Owns, IsSlot
  <2>5. q \in DOMAIN h \union {Null}
    BY <2>4 DEF Typed
  <2>6. q # Null
    BY <2>2, NullIsNoObject
  <2>. QED
    BY <2>3, <2>5, <2>6
<1>4. T \in SUBSET DOMAIN h
  BY <1>3
<1>. QED
  BY <1>2, <1>3, <1>4 DEF Ringless

\* Pointers but pointer i of p, and weak ones, lead where they led.
Keeps(h, g, p, i) ==
  /\ DOMAIN h \subseteq DOMAIN g
  /\ \A r \in DOMAIN h : g[r].type = h[r].type /\ Len(g[r].to) = Len(h[r].to)
  /\ \A r, j : IsSlot(h, r, j) /\ KindOf(h, r, j) # "SharedObserver" /\ ~ (r = p /\ j = i)
                 => g[r].to[j] = h[r].to[j]

LEMMA KeepsSlots ==
  ASSUME NEW h, NEW g, DOMAIN h \subseteq DOMAIN g,
         \A r \in DOMAIN h : g[r].type = h[r].type /\ Len(g[r].to) = Len(h[r].to)
  PROVE  \A r \in DOMAIN h : \A j : /\ IsSlot(g, r, j) <=> IsSlot(h, r, j)
                                    /\ KindOf(g, r, j) = KindOf(h, r, j)
BY DEF IsSlot, KindOf

LEMMA KeepsOn ==
  ASSUME NEW h, NEW g, NEW k, NEW p, NEW i, Keeps(h, g, p, i), Keeps(g, k, p, i)
  PROVE  Keeps(h, k, p, i)
<1>1. \A r \in DOMAIN h : \A j : /\ IsSlot(g, r, j) <=> IsSlot(h, r, j)
                                 /\ KindOf(g, r, j) = KindOf(h, r, j)
  BY KeepsSlots DEF Keeps
<1>2. DOMAIN h \subseteq DOMAIN k
      /\ \A r \in DOMAIN h : k[r].type = h[r].type /\ Len(k[r].to) = Len(h[r].to)
  BY DEF Keeps
<1>3. ASSUME NEW r, NEW j, IsSlot(h, r, j), KindOf(h, r, j) # "SharedObserver", ~ (r = p /\ j = i)
      PROVE  k[r].to[j] = h[r].to[j]
  <2>1. r \in DOMAIN h
    BY <1>3 DEF IsSlot
  <2>2. g[r].to[j] = h[r].to[j]
    BY <1>3 DEF Keeps
  <2>3. k[r].to[j] = g[r].to[j]
    BY <1>1, <1>3, <2>1 DEF Keeps
  <2>. QED
    BY <2>2, <2>3
<1>. QED
  BY <1>2, <1>3 DEF Keeps

LEMMA KeepsAll ==
  ASSUME NEW h, NEW p, NEW i
  PROVE  Keeps(h, h, p, i)
BY DEF Keeps

LEMMA SweptKeeps ==
  ASSUME NEW h, Typed(h), NEW states, NEW first, NEW how, NEW p, NEW i
  PROVE  /\ Keeps(h, Sweep(h, states, first, how), p, i)
         /\ DOMAIN Sweep(h, states, first, how) = DOMAIN h
         /\ IsSlot(h, p, i) /\ KindOf(h, p, i) # "SharedObserver" =>
              Sweep(h, states, first, how)[p].to[i] = h[p].to[i]
<1>1. PICK g : g = Sweep(h, states, first, how)
  OBVIOUS
<1>2. Swept(h, g, Dying(h, states, first))
  BY <1>1, SweepSwept
<1>. QED
  BY <1>1, <1>2 DEF Swept, Keeps

LEMMA SetsKeeps ==
  ASSUME NEW h, NEW g, NEW p, NEW i, NEW q, Sets(h, g, p, i, q)
  PROVE  Keeps(h, g, p, i)
BY DEF Sets, Keeps, SameObject

LEMMA MakesKeeps ==
  ASSUME NEW h, NEW g, NEW p, NEW i, NEW n, NEW t, NEW by, Makes(h, g, p, i, n, t, by)
  PROVE  Keeps(h, g, p, i)
BY DEF Makes, Keeps, SameObject

\* A pointer is emptied, or owns nothing, or what it owned.
LEMMA RinglessKept ==
  ASSUME NEW h, Typed(h), Ringless(h), NEW g, Typed(g), DOMAIN g = DOMAIN h,
         NEW p, NEW i, Keeps(h, g, p, i),
         IsSlot(h, p, i) /\ KindOf(h, p, i) \in {"Owner", "SharedOwner"}
           => g[p].to[i] \in {Null, h[p].to[i]}
  PROVE  Ringless(g)
<1>1. ASSUME NEW r, NEW j, NEW q \in DOMAIN g, Owns(g, r, j, q)
      PROVE  Owns(h, r, j, q)
  <2>1. r \in DOMAIN h
    BY <1>1 DEF Owns, IsSlot
  <2>2. IsSlot(h, r, j) /\ KindOf(h, r, j) \in {"Owner", "SharedOwner"} /\ g[r].to[j] = q
    BY <1>1, <2>1, KeepsSlots DEF Owns, Keeps
  <2>3. q # Null
    BY NullIsNoObject
  <2>4. h[r].to[j] = q
    BY <2>2, <2>3 DEF Keeps
  <2>. QED
    BY <2>2, <2>4 DEF Owns
<1>. QED
  BY <1>1, RinglessGrown

\* A new object owns nothing.
LEMMA RinglessMade ==
  ASSUME NEW h, Typed(h), Ringless(h), NEW g, Typed(g),
         NEW p, NEW i, IsSlot(h, p, i), NEW n, NEW t, NEW by, Makes(h, g, p, i, n, t, by)
  PROVE  Ringless(g)
<1>1. n \notin DOMAIN h /\ DOMAIN g = DOMAIN h \union {n} /\ p \in DOMAIN h
  BY DEF Makes, IsSlot
<1>2. Keeps(h, g, p, i)
  BY MakesKeeps
<1>3. ASSUME NEW r, NEW j, NEW q \in DOMAIN g, Owns(g, r, j, q)
      PROVE  r # n /\ (Owns(h, r, j, q) \/ q = n)
  <2>0. q # Null
    BY NullIsNoObject
  <2>1. r # n
    BY <1>3, <2>0 DEF Owns, Makes
  <2>2. r \in DOMAIN h
    BY <1>1, <1>3, <2>1 DEF Owns, IsSlot
  <2>3. IsSlot(h, r, j) /\ KindOf(h, r, j) \in {"Owner", "SharedOwner"} /\ g[r].to[j] = q
    BY <1>2, <1>3, <2>2, KeepsSlots DEF Owns, Keeps
  <2>4. q = n \/ h[r].to[j] = q
    BY <2>3 DEF Makes
  <2>. QED
    BY <2>1, <2>3, <2>4 DEF Owns
<1>. QED
  <2>. PICK C : C = {n}
    OBVIOUS
  <2>1. \A r, j : \A q \in DOMAIN g : Owns(g, r, j, q) /\ r \in C => q \in C
    BY <1>3
  <2>2. \A r, j : \A q \in DOMAIN g : Owns(g, r, j, q) => Owns(h, r, j, q) \/ (q \in C /\ r \notin C)
    BY <1>3
  <2>. QED
    BY <2>1, <2>2, RinglessGrown

-----------------------------------------------------------------------------
(***************************************************************************)
(* What a document has led to.                                             *)
(***************************************************************************)
\* The root, what was read and what is being read.
Reached(f, is) == {Root} \union ReadSet(f, is)

\* What was read to its end.
Done(f, is) == { q \in Reached(f, is) : \A k \in 1 .. Len(f) : f[k].at # q }

\* Pointers that were read.
Passed(f, is, p, i) ==
  p \in Done(f, is) \/ \E k \in 1 .. Len(f) : f[k].at = p /\ i < f[k].slot

\* The object in pointer i of p is being read.
Around(f, p, i) == \E k \in 1 .. Len(f) - 1 : f[k].at = p /\ i = f[k].slot - 1

\* They own only what was read to its end, or is being read, and refer to
\* what the document led to, or wait for it.
Led(f, is, h) ==
  \A p, i : IsSlot(h, p, i) /\ Passed(f, is, p, i) /\ h[p].to[i] # Null =>
    /\ KindOf(h, p, i) \in {"Owner", "SharedOwner"} => h[p].to[i] \in Done(f, is) \/ Around(f, p, i)
    /\ KindOf(h, p, i) = "Observer" =>
         h[p].to[i] \in Reached(f, is) \/ \E id \in DOMAIN is : <<p, i>> \in is[id].observers

\* The object of the id is being read.
Open(f, id) == \E k \in 2 .. Len(f) : f[k].id = id

\* A pointer of that kind, which was read, holds q.
Witnessed(f, is, h, kind, q) ==
  \E p, i : IsSlot(h, p, i) /\ KindOf(h, p, i) = kind /\ Passed(f, is, p, i) /\ h[p].to[i] = q

\* What an owner or a weak pointer was read for has been read, none waits for
\* it, and the strongest owner that the info tells of is there.
Claims(f, is, h, id) ==
  /\ is[id].ownerPtr \in Done(f, is) /\ is[id].observers = {}
  /\ is[id].ownership \in {"Owner", "SharedOwner"} =>
       Witnessed(f, is, h, is[id].ownership, is[id].ownerPtr)

Settled(f, is, h) ==
  /\ Led(f, is, h)
  /\ \A id \in DOMAIN is : is[id].ownership # "Observer" /\ ~ Open(f, id) => Claims(f, is, h, id)
  /\ \A k \in 1 .. Len(f) - 1 : is[f[k + 1].id].ownership = KindOf(h, f[k].at, f[k].slot - 1)

\* A change to a pointer that was not read yet, or is weak.
LEMMA SettledKept ==
  ASSUME NEW f, NEW is, NEW h, Reached(f, is) \subseteq DOMAIN h, Settled(f, is, h),
         NEW g, NEW p, NEW i, Keeps(h, g, p, i),
         IsSlot(h, p, i) /\ KindOf(h, p, i) # "SharedObserver" /\ Passed(f, is, p, i) => g[p].to[i] = h[p].to[i]
  PROVE  Settled(f, is, g)
<1>1. \A r \in DOMAIN h : \A j : /\ IsSlot(g, r, j) <=> IsSlot(h, r, j)
                                 /\ KindOf(g, r, j) = KindOf(h, r, j)
  BY KeepsSlots DEF Keeps
<1>2. ASSUME NEW r, NEW j, Passed(f, is, r, j)
      PROVE  r \in DOMAIN h
  BY <1>2 DEF Passed, Done, Reached, ReadSet
<1>3. ASSUME NEW r, NEW j, IsSlot(h, r, j), Passed(f, is, r, j), KindOf(h, r, j) # "SharedObserver"
      PROVE  g[r].to[j] = h[r].to[j]
  BY <1>3 DEF Keeps
<1>4. Led(f, is, g)
  BY <1>1, <1>2, <1>3 DEF Settled, Led
<1>5. ASSUME NEW kind \in {"Owner", "SharedOwner"}, NEW q, Witnessed(f, is, h, kind, q)
      PROVE  Witnessed(f, is, g, kind, q)
  BY <1>1, <1>2, <1>3, <1>5 DEF Witnessed
<1>6. ASSUME NEW id \in DOMAIN is, is[id].ownership # "Observer", ~ Open(f, id)
      PROVE  Claims(f, is, g, id)
  <2>1. Claims(f, is, h, id)
    BY <1>6 DEF Settled
  <2>. QED
    BY <1>5, <2>1 DEF Claims
<1>7. ASSUME NEW k \in 1 .. Len(f) - 1
      PROVE  is[f[k + 1].id].ownership = KindOf(g, f[k].at, f[k].slot - 1)
  <2>1. f[k].at \in DOMAIN h
    BY DEF Reached, ReadSet
  <2>. QED
    BY <1>1, <2>1 DEF Settled
<1>. QED
  BY <1>4, <1>6, <1>7 DEF Settled

\* The next pointer has been read.
LEMMA SettledMoved ==
  ASSUME NEW f, NEW is, NEW h, Settled(f, is, h), NEW n \in Nat \ {0}, n = Len(f),
         \A k \in 1 .. n : f[k].slot \in Nat,
         NEW m, Len(m) = n, \A k \in 1 .. n - 1 : m[k] = f[k],
         \A k \in 1 .. n : m[k].at = f[k].at /\ m[k].id = f[k].id,
         m[n].slot = f[n].slot + 1,
         NEW p, NEW i, p = f[n].at, i = f[n].slot,
         KindOf(h, p, i) \in {"Owner", "SharedOwner"} => h[p].to[i] \in Done(f, is) \union {Null},
         KindOf(h, p, i) = "Observer" =>
           h[p].to[i] \in Reached(f, is) \union {Null} \/ \E id \in DOMAIN is : <<p, i>> \in is[id].observers
  PROVE  Settled(m, is, h)
<1>1. n \in Nat \ {0} /\ n \in 1 .. n /\ f[n].slot \in Nat
  <2>1. n \in 1 .. n
    BY SMT
  <2>2. f[n].slot \in Nat
    BY <2>1
  <2>. QED
    BY <2>1, <2>2
<1>2. Reached(m, is) = Reached(f, is) /\ Done(m, is) = Done(f, is)
  <2>1. { m[k].at : k \in 1 .. n } = { f[k].at : k \in 1 .. n }
    <3>1. \A x : (\E k \in 1 .. n : x = m[k].at) <=> (\E k \in 1 .. n : x = f[k].at)
      OBVIOUS
    <3>. QED
      BY <3>1
  <2>2. Reached(m, is) = Reached(f, is)
    BY <2>1 DEF Reached, ReadSet
  <2>. QED
    BY <2>2 DEF Done
<1>3. ASSUME NEW r, NEW j, IsSlot(h, r, j)
      PROVE  /\ Passed(m, is, r, j) => Passed(f, is, r, j) \/ (r = p /\ j = i)
             /\ Passed(f, is, r, j) => Passed(m, is, r, j)
  <2>0. j \in Int
    BY <1>3 DEF IsSlot
  <2>1. ASSUME NEW k \in 1 .. n PROVE f[k].slot \in Nat /\ (k = n \/ k \in 1 .. n - 1)
    BY <1>1, <2>1
  <2>2. ASSUME NEW k \in 1 .. n, m[k].at = r, j < m[k].slot
        PROVE  Passed(f, is, r, j) \/ (r = p /\ j = i)
    BY <1>1, <2>0, <2>1, <2>2 DEF Passed
  <2>3. ASSUME NEW k \in 1 .. n, f[k].at = r, j < f[k].slot
        PROVE  Passed(m, is, r, j)
    <3>1. j < m[k].slot
      BY <1>1, <2>0, <2>1, <2>3
    <3>. QED
      BY <2>3, <3>1 DEF Passed
  <2>. QED
    BY <1>2, <2>2, <2>3 DEF Passed
<1>4. \A r, j : Around(m, r, j) <=> Around(f, r, j)
  BY DEF Around
<1>5. Led(m, is, h)
  <2>1. ASSUME NEW r, NEW j, IsSlot(h, r, j), Passed(m, is, r, j), h[r].to[j] # Null
        PROVE  /\ KindOf(h, r, j) \in {"Owner", "SharedOwner"} => h[r].to[j] \in Done(f, is) \/ Around(f, r, j)
               /\ KindOf(h, r, j) = "Observer" =>
                    h[r].to[j] \in Reached(f, is) \/ \E id \in DOMAIN is : <<r, j>> \in is[id].observers
    <3>1. CASE Passed(f, is, r, j)
      BY <2>1, <3>1 DEF Settled, Led
    <3>2. CASE r = p /\ j = i
      BY <2>1, <3>2
    <3>. QED
      BY <1>3, <2>1, <3>1, <3>2
  <2>. QED
    BY <1>2, <1>4, <2>1 DEF Led
<1>6. ASSUME NEW id PROVE Open(m, id) <=> Open(f, id)
  <2>1. \A k \in 2 .. n : k \in 1 .. n
    BY <1>1
  <2>. QED
    BY <2>1 DEF Open
<1>7. ASSUME NEW id \in DOMAIN is, is[id].ownership # "Observer", ~ Open(m, id)
      PROVE  Claims(m, is, h, id)
  <2>1. Claims(f, is, h, id)
    BY <1>6, <1>7 DEF Settled
  <2>. QED
    BY <1>2, <1>3, <2>1 DEF Claims, Witnessed
<1>8. ASSUME NEW k \in 1 .. n - 1
      PROVE  is[m[k + 1].id].ownership = KindOf(h, m[k].at, m[k].slot - 1)
  <2>1. k + 1 \in 1 .. n
    BY <1>1
  <2>. QED
    BY <2>1 DEF Settled
<1>. QED
  BY <1>5, <1>7, <1>8 DEF Settled

\* Infos that tell the same, or of more pointers that wait, or of an owner
\* that is there.
LEMMA SettledTold ==
  ASSUME NEW f, NEW is, NEW h, Settled(f, is, h), Len(f) \in Nat,
         \A k \in 2 .. Len(f) : f[k].id \in DOMAIN is, NEW w,
         DOMAIN is \subseteq DOMAIN w,
         \A j \in DOMAIN is :
           /\ w[j].ownerPtr = is[j].ownerPtr
           /\ is[j].observers \subseteq w[j].observers
           /\ w[j].observers = is[j].observers \/ w[j].ownership = "Observer" \/ Open(f, j)
           /\ \/ w[j].ownership = is[j].ownership
              \/ /\ is[j].ownership # "Observer" /\ ~ Open(f, j)
                 /\ Witnessed(f, is, h, w[j].ownership, is[j].ownerPtr),
         \A j \in DOMAIN w \ DOMAIN is : w[j].ownerPtr = Null /\ w[j].ownership = "Observer"
  PROVE  Settled(f, w, h)
<1>1. Reached(f, w) = Reached(f, is) /\ Done(f, w) = Done(f, is)
  <2>1. { w[j].ownerPtr : j \in DOMAIN w } \ {Null} = { is[j].ownerPtr : j \in DOMAIN is } \ {Null}
    <3>1. ASSUME NEW j \in DOMAIN w, w[j].ownerPtr # Null
          PROVE  j \in DOMAIN is /\ w[j].ownerPtr = is[j].ownerPtr
      BY <3>1
    <3>. QED
      BY <3>1
  <2>2. Reached(f, w) = Reached(f, is)
    BY <2>1 DEF Reached, ReadSet
  <2>. QED
    BY <2>2 DEF Done
<1>2. \A r, j : Passed(f, w, r, j) <=> Passed(f, is, r, j)
  BY <1>1 DEF Passed
<1>3. Led(f, w, h)
  BY <1>1, <1>2 DEF Settled, Led
<1>4. ASSUME NEW j \in DOMAIN w, w[j].ownership # "Observer", ~ Open(f, j)
      PROVE  Claims(f, w, h, j)
  <2>1. j \in DOMAIN is /\ is[j].ownership # "Observer"
    BY <1>4
  <2>2. Claims(f, is, h, j)
    BY <1>4, <2>1 DEF Settled
  <2>3. w[j].ownerPtr = is[j].ownerPtr /\ w[j].observers = is[j].observers
    BY <1>4, <2>1
  <2>4. \A kind, q : Witnessed(f, is, h, kind, q) => Witnessed(f, w, h, kind, q)
    BY <1>2 DEF Witnessed
  <2>. QED
    BY <1>1, <2>1, <2>2, <2>3, <2>4 DEF Claims
<1>5. ASSUME NEW k \in 1 .. Len(f) - 1
      PROVE  w[f[k + 1].id].ownership = KindOf(h, f[k].at, f[k].slot - 1)
  <2>1. PICK n \in Nat : n = Len(f)
    OBVIOUS
  <2>2. k + 1 \in 2 .. Len(f)
    BY <2>1
  <2>3. Open(f, f[k + 1].id) /\ f[k + 1].id \in DOMAIN is
    BY <2>2 DEF Open
  <2>4. w[f[k + 1].id].ownership = is[f[k + 1].id].ownership
    BY <2>3
  <2>. QED
    BY <2>4 DEF Settled
<1>. QED
  BY <1>3, <1>4, <1>5 DEF Settled

\* The infos w, in which the object q of the id is claimed.
ClaimedFor(is, w, id, q) ==
  /\ DOMAIN w = DOMAIN is /\ \A j \in DOMAIN is \ {id} : w[j] = is[j]
  /\ w[id].ownerPtr = q /\ w[id].observers = {} /\ w[id].ownership = is[id].ownership

\* The pointers of S are set to q.
SetTo(h, g, S, q) ==
  \A r, j : IsSlot(h, r, j) => g[r].to[j] = IF <<r, j>> \in S THEN q ELSE h[r].to[j]

BeingRead(f, id, q) == \E k \in 2 .. Len(f) : f[k].id = id /\ f[k].at = q

\* The observers that wait for an object that is being read are set to it.
LEMMA SettledClaimed ==
  ASSUME NEW f, NEW is, NEW h, Typed(h), Nested(f, is, h), Settled(f, is, h),
         NEW q, NEW id, BeingRead(f, id, q), NEW w, ClaimedFor(is, w, id, q),
         NEW g, Links(h, g), SetTo(h, g, is[id].observers, q)
  PROVE  Settled(f, w, g)
<1>0. /\ \E k \in 2 .. Len(f) : f[k].id = id /\ f[k].at = q
      /\ DOMAIN w = DOMAIN is /\ \A j \in DOMAIN is \ {id} : w[j] = is[j]
      /\ w[id].ownerPtr = q /\ w[id].observers = {} /\ w[id].ownership = is[id].ownership
      /\ \A r, j : IsSlot(h, r, j) => g[r].to[j] = IF <<r, j>> \in is[id].observers THEN q ELSE h[r].to[j]
  BY DEF BeingRead, ClaimedFor, SetTo
<1>. USE <1>0
<1>1. PICK n \in Nat \ {0} : n = Len(f)
  BY DEF Nested
<1>2. PICK l \in 2 .. n : f[l].id = id /\ f[l].at = q
  BY <1>1
<1>3. id \in DOMAIN is /\ is[id].ownerPtr \in {Null, q}
  <2>1. PICK k \in 1 .. n - 1 : l = k + 1
    <3>1. l - 1 \in 1 .. n - 1 /\ l = (l - 1) + 1
      BY <1>1
    <3>. QED
      BY <3>1
  <2>. QED
    BY <1>1, <1>2, <2>1 DEF Nested
<1>4. Reached(f, w) = Reached(f, is) /\ Done(f, w) = Done(f, is) /\ q \in Reached(f, is)
  <2>1. PICK A : A = { f[k].at : k \in 1 .. Len(f) }
    OBVIOUS
  <2>2. q \in A
    <3>1. l \in 1 .. n
      OBVIOUS
    <3>. QED
      BY <1>1, <1>2, <2>1, <3>1
  <2>3. ({ w[j].ownerPtr : j \in DOMAIN w } \ {Null}) \union A = ({ is[j].ownerPtr : j \in DOMAIN is } \ {Null}) \union A
    <3>1. ASSUME NEW j \in DOMAIN is
          PROVE  /\ w[j].ownerPtr = is[j].ownerPtr \/ w[j].ownerPtr \in A
                 /\ w[j].ownerPtr = is[j].ownerPtr \/ is[j].ownerPtr \in A \union {Null}
      <4>1. CASE j = id
        BY <1>3, <2>2, <4>1
      <4>2. CASE j # id
        BY <4>2
      <4>. QED
        BY <4>1, <4>2
    <3>. QED
      BY <3>1
  <2>4. Reached(f, w) = Reached(f, is)
    BY <2>1, <2>3 DEF Reached, ReadSet
  <2>. QED
    BY <2>1, <2>2, <2>4 DEF Done, Reached, ReadSet
<1>5. \A r, j : Passed(f, w, r, j) <=> Passed(f, is, r, j)
  BY <1>4 DEF Passed
<1>6. \A r \in DOMAIN h : \A j : /\ IsSlot(g, r, j) <=> IsSlot(h, r, j)
                                 /\ KindOf(g, r, j) = KindOf(h, r, j)
  BY KeepsSlots DEF Links, SameObject
<1>7. DOMAIN g = DOMAIN h
  BY DEF Links
<1>8. Led(f, w, g)
  <2>1. ASSUME NEW r, NEW j, IsSlot(g, r, j), Passed(f, w, r, j), g[r].to[j] # Null
        PROVE  /\ KindOf(g, r, j) \in {"Owner", "SharedOwner"} => g[r].to[j] \in Done(f, w) \/ Around(f, r, j)
               /\ KindOf(g, r, j) = "Observer" =>
                    g[r].to[j] \in Reached(f, w) \/ \E k \in DOMAIN w : <<r, j>> \in w[k].observers
    <3>1. IsSlot(h, r, j) /\ KindOf(g, r, j) = KindOf(h, r, j) /\ Passed(f, is, r, j)
      BY <1>5, <1>6, <1>7, <2>1 DEF IsSlot
    <3>2. CASE KindOf(h, r, j) \in {"Owner", "SharedOwner"}
      <4>1. g[r].to[j] = h[r].to[j]
        BY <3>1, <3>2 DEF Links
      <4>. QED
        BY <1>4, <2>1, <3>1, <3>2, <4>1 DEF Settled, Led
    <3>3. CASE KindOf(h, r, j) = "Observer"
      <4>1. CASE <<r, j>> \in is[id].observers
        BY <1>4, <3>1, <3>3, <4>1
      <4>2. CASE <<r, j>> \notin is[id].observers
        <5>1. g[r].to[j] = h[r].to[j]
          BY <3>1, <4>2
        <5>2. h[r].to[j] \in Reached(f, is) \/ \E k \in DOMAIN is : <<r, j>> \in is[k].observers
          BY <2>1, <3>1, <3>3, <5>1 DEF Settled, Led
        <5>. QED
          BY <1>4, <3>1, <3>3, <4>2, <5>1, <5>2
      <4>. QED
        BY <4>1, <4>2
    <3>. QED
      BY <3>1, <3>2, <3>3
  <2>. QED
    BY <2>1 DEF Led
<1>9. Open(f, id)
  BY <1>1, <1>2 DEF Open
<1>10. ASSUME NEW j \in DOMAIN w, w[j].ownership # "Observer", ~ Open(f, j)
       PROVE  Claims(f, w, g, j)
  <2>1. j # id /\ w[j] = is[j] /\ j \in DOMAIN is
    BY <1>9, <1>10
  <2>2. Claims(f, is, h, j)
    BY <1>10, <2>1 DEF Settled
  <2>3. ASSUME NEW kind \in {"Owner", "SharedOwner"}, NEW x, Witnessed(f, is, h, kind, x)
        PROVE  Witnessed(f, w, g, kind, x)
    <3>1. PICK r, i : IsSlot(h, r, i) /\ KindOf(h, r, i) = kind /\ Passed(f, is, r, i) /\ h[r].to[i] = x
      BY <2>3 DEF Witnessed
    <3>2. r \in DOMAIN h
      BY <3>1 DEF IsSlot
    <3>3. g[r].to[i] = x
      BY <3>1 DEF Links
    <3>. QED
      BY <1>5, <1>6, <3>1, <3>2, <3>3 DEF Witnessed
  <2>. QED
    BY <1>4, <2>1, <2>2, <2>3 DEF Claims
<1>11. ASSUME NEW k \in 1 .. Len(f) - 1
       PROVE  w[f[k + 1].id].ownership = KindOf(g, f[k].at, f[k].slot - 1)
  <2>1. f[k + 1].id \in DOMAIN is /\ f[k].at \in DOMAIN h
    BY DEF Nested, IsSlot
  <2>2. w[f[k + 1].id].ownership = is[f[k + 1].id].ownership
    BY <2>1
  <2>. QED
    BY <1>6, <2>1, <2>2 DEF Settled
<1>. QED
  BY <1>8, <1>10, <1>11 DEF Settled

\* The infos w, with a new owner of that kind for the id.
OpenedFor(is, w, id, kind) ==
  /\ DOMAIN w = DOMAIN is \union {id} /\ \A j \in DOMAIN is \ {id} : w[j] = is[j]
  /\ w[id].ownerPtr = Null /\ w[id].ownership = kind
  /\ id \in DOMAIN is => /\ is[id].ownership = "Observer" /\ is[id].ownerPtr = Null
                         /\ w[id].observers = is[id].observers

\* The frames g: the next pointer of f has been come to, and q is in it.
Enters(f, g, q, id) ==
  /\ Len(g) = Len(f) + 1 /\ \A k \in 1 .. Len(f) - 1 : g[k] = f[k]
  /\ g[Len(f)].at = f[Len(f)].at /\ g[Len(f)].id = f[Len(f)].id /\ g[Len(f)].slot = f[Len(f)].slot + 1
  /\ g[Len(f) + 1].at = q /\ g[Len(f) + 1].id = id /\ g[Len(f) + 1].slot = 1

\* One more object is read, which is in the pointer that was come to; no
\* owner was read for its id.
LEMMA SettledPushed ==
  ASSUME NEW f, NEW is, NEW h, Nested(f, is, h), Settled(f, is, h), NEW n \in Nat \ {0}, n = Len(f),
         NEW p, p = f[n].at, NEW i, i = f[n].slot, KindOf(h, p, i) # "Observer",
         NEW q, h[p].to[i] = q, q \notin Reached(f, is), q # Null,
         NEW id, ~ Open(f, id), NEW w, OpenedFor(is, w, id, KindOf(h, p, i)),
         NEW g, Enters(f, g, q, id)
  PROVE  Settled(g, w, h)
<1>0. /\ id \in DOMAIN is => is[id].ownership = "Observer"
      /\ DOMAIN w = DOMAIN is \union {id} /\ \A j \in DOMAIN is \ {id} : w[j] = is[j]
      /\ w[id].ownerPtr = Null /\ w[id].ownership = KindOf(h, p, i)
      /\ id \in DOMAIN is => is[id].ownerPtr = Null /\ w[id].observers = is[id].observers
      /\ Len(g) = n + 1 /\ \A k \in 1 .. n - 1 : g[k] = f[k]
      /\ g[n].at = p /\ g[n].id = f[n].id /\ g[n].slot = i + 1
      /\ g[n + 1].at = q /\ g[n + 1].id = id /\ g[n + 1].slot = 1
  BY DEF OpenedFor, Enters
<1>. USE <1>0
<1>1. /\ \A k \in 1 .. n + 1 : k \in 1 .. n \/ k = n + 1
      /\ \A k \in 1 .. n : k \in 1 .. n + 1 /\ (k \in 1 .. n - 1 \/ k = n)
      /\ n + 1 \in 1 .. n + 1 /\ n \in 1 .. n /\ n \in 1 .. n + 1
  OBVIOUS
<1>2. \A k \in 1 .. n : f[k].slot \in Nat /\ g[k].at = f[k].at /\ g[k].id = f[k].id
  BY <1>1 DEF Nested
<1>3. Reached(g, w) = Reached(f, is) \union {q}
  <2>1. { w[j].ownerPtr : j \in DOMAIN w } \ {Null} = { is[j].ownerPtr : j \in DOMAIN is } \ {Null}
    <3>1. ASSUME NEW j \in DOMAIN w, w[j].ownerPtr # Null
          PROVE  j \in DOMAIN is /\ w[j].ownerPtr = is[j].ownerPtr
      BY <3>1
    <3>2. ASSUME NEW j \in DOMAIN is, is[j].ownerPtr # Null
          PROVE  j \in DOMAIN w /\ w[j].ownerPtr = is[j].ownerPtr
      BY <3>2
    <3>. QED
      BY <3>1, <3>2
  <2>2. { g[k].at : k \in 1 .. n + 1 } = { f[k].at : k \in 1 .. n } \union {q}
    BY <1>1, <1>2
  <2>. QED
    BY <2>1, <2>2 DEF Reached, ReadSet
<1>4. Done(g, w) = Done(f, is)
  <2>1. \A k \in 1 .. n : f[k].at \in Reached(f, is)
    BY DEF Reached, ReadSet
  <2>2. ASSUME NEW r
        PROVE  (\A k \in 1 .. n + 1 : g[k].at # r) <=> (\A k \in 1 .. n : f[k].at # r) /\ r # q
    BY <1>1, <1>2
  <2>. QED
    BY <1>3, <2>1, <2>2 DEF Done
<1>5. ASSUME NEW r, NEW j, IsSlot(h, r, j)
      PROVE  /\ Passed(g, w, r, j) => Passed(f, is, r, j) \/ (r = p /\ j = i)
             /\ Passed(f, is, r, j) => Passed(g, w, r, j)
  <2>0. j \in Nat \ {0}
    BY <1>5 DEF IsSlot
  <2>1. ASSUME NEW k \in 1 .. n + 1, g[k].at = r, j < g[k].slot
        PROVE  Passed(f, is, r, j) \/ (r = p /\ j = i)
    <3>1. CASE k = n + 1
      BY <2>0, <2>1, <3>1
    <3>2. CASE k = n
      <4>1. r = p /\ j < i + 1 /\ i \in Nat
        BY <1>1, <1>2, <2>1, <3>2
      <4>2. j < i \/ j = i
        BY <2>0, <4>1
      <4>. QED
        BY <1>1, <4>1, <4>2 DEF Passed
    <3>3. CASE k \in 1 .. n - 1
      BY <1>1, <2>1, <3>3 DEF Passed
    <3>. QED
      BY <1>1, <3>1, <3>2, <3>3
  <2>2. ASSUME NEW k \in 1 .. n, f[k].at = r, j < f[k].slot
        PROVE  Passed(g, w, r, j)
    <3>1. j < g[k].slot
      <4>1. CASE k = n
        <5>1. i \in Nat /\ j < i
          BY <1>1, <1>2, <2>2, <4>1
        <5>. QED
          BY <2>0, <4>1, <5>1
      <4>2. CASE k \in 1 .. n - 1
        BY <2>2, <4>2
      <4>. QED
        BY <1>1, <4>1, <4>2
    <3>. QED
      BY <1>1, <1>2, <2>2, <3>1 DEF Passed
  <2>. QED
    BY <1>4, <2>1, <2>2 DEF Passed
<1>6. Around(g, p, i) /\ \A r, j : Around(f, r, j) => Around(g, r, j)
  <2>1. n \in 1 .. (n + 1) - 1 /\ \A k \in 1 .. n - 1 : k \in 1 .. (n + 1) - 1
    OBVIOUS
  <2>2. i \in Nat
    BY <1>1, <1>2
  <2>3. i = g[n].slot - 1
    BY <2>2
  <2>. QED
    BY <2>1, <2>3 DEF Around
<1>7. Led(g, w, h)
  <2>1. ASSUME NEW r, NEW j, IsSlot(h, r, j), Passed(g, w, r, j), h[r].to[j] # Null
        PROVE  /\ KindOf(h, r, j) \in {"Owner", "SharedOwner"} => h[r].to[j] \in Done(g, w) \/ Around(g, r, j)
               /\ KindOf(h, r, j) = "Observer" =>
                    h[r].to[j] \in Reached(g, w) \/ \E k \in DOMAIN w : <<r, j>> \in w[k].observers
    <3>1. CASE r = p /\ j = i
      BY <1>6, <3>1
    <3>2. CASE Passed(f, is, r, j)
      <4>1. \A k \in DOMAIN is : k \in DOMAIN w /\ w[k].observers = is[k].observers
        OBVIOUS
      <4>. QED
        BY <1>3, <1>4, <1>6, <2>1, <3>2, <4>1 DEF Settled, Led
    <3>. QED
      BY <1>5, <2>1, <3>1, <3>2
  <2>. QED
    BY <2>1 DEF Led
<1>8. Open(g, id) /\ \A j : Open(f, j) => Open(g, j)
  <2>1. n + 1 \in 2 .. Len(g) /\ \A k \in 2 .. n : k \in 2 .. Len(g) /\ k \in 1 .. n
    OBVIOUS
  <2>2. Open(g, id)
    BY <2>1 DEF Open
  <2>3. ASSUME NEW j, Open(f, j) PROVE Open(g, j)
    <3>1. PICK k \in 2 .. n : f[k].id = j
      BY <2>3 DEF Open
    <3>2. k \in 1 .. n /\ k \in 2 .. Len(g)
      BY <2>1
    <3>3. g[k].id = j
      BY <1>2, <3>1, <3>2
    <3>. QED
      BY <3>2, <3>3 DEF Open
  <2>. QED
    BY <2>2, <2>3
<1>9. ASSUME NEW j \in DOMAIN w, w[j].ownership # "Observer", ~ Open(g, j)
      PROVE  Claims(g, w, h, j)
  <2>1. j # id /\ j \in DOMAIN is /\ w[j] = is[j] /\ ~ Open(f, j)
    BY <1>8, <1>9
  <2>2. Claims(f, is, h, j)
    BY <1>9, <2>1 DEF Settled
  <2>3. \A kind, x : Witnessed(f, is, h, kind, x) => Witnessed(g, w, h, kind, x)
    BY <1>5 DEF Witnessed
  <2>. QED
    BY <1>4, <2>1, <2>2, <2>3 DEF Claims
<1>10. ASSUME NEW k \in 1 .. n
       PROVE  w[g[k + 1].id].ownership = KindOf(h, g[k].at, g[k].slot - 1)
  <2>1. CASE k = n
    <3>1. i \in Nat
      BY <1>1, <1>2
    <3>2. g[n].slot - 1 = i
      BY <3>1
    <3>3. w[g[n + 1].id].ownership = KindOf(h, g[n].at, g[n].slot - 1)
      BY <3>2
    <3>. QED
      BY <2>1, <3>3
  <2>2. CASE k \in 1 .. n - 1
    <3>1. k + 1 \in 2 .. n /\ k + 1 \in 1 .. n
      BY <2>2
    <3>2. f[k + 1].id # id /\ f[k + 1].id \in DOMAIN is
      BY <2>2, <3>1 DEF Open, Nested
    <3>3. w[f[k + 1].id] = is[f[k + 1].id]
      BY <3>2
    <3>. QED
      BY <1>2, <2>2, <3>1, <3>3 DEF Settled
  <2>. QED
    BY <1>1, <2>1, <2>2
<1>11. \A k \in 1 .. Len(g) - 1 : k \in 1 .. n
  OBVIOUS
<1>. QED
  BY <1>7, <1>9, <1>10, <1>11 DEF Settled

\* The object has been read.
LEMMA SettledPopped ==
  ASSUME NEW f, NEW is, NEW h, Typed(h), Nested(f, is, h), Settled(f, is, h), NEW n \in Nat, n > 1, n = Len(f),
         f[n].slot > Len(h[f[n].at].to),
         NEW id, id = f[n].id, is[id].ownerPtr = f[n].at, is[id].observers = {},
         NEW g, Len(g) = n - 1, \A k \in 1 .. n - 1 : g[k] = f[k]
  PROVE  Settled(g, is, h)
<1>0. n - 1 \in Nat \ {0}
  BY SMT
<1>1. PICK m \in Nat \ {0} : m = n - 1
  BY <1>0
<1>2. /\ m + 1 = n /\ m \in 1 .. n - 1 /\ m \in 1 .. m /\ n \in 1 .. n /\ n \in 2 .. n
      /\ \A k \in 1 .. m : k \in 1 .. n /\ k # n /\ k \in 1 .. n - 1
      /\ \A k \in 1 .. n : k \in 1 .. m \/ k = n
      /\ \A k \in 1 .. m - 1 : k \in 1 .. n - 1 /\ k \in 1 .. m /\ k + 1 \in 1 .. m
      /\ \A k \in 1 .. n - 1 : k \in 1 .. m - 1 \/ k = m
      /\ \A k \in 2 .. m : k \in 2 .. n /\ k \in 1 .. m
      /\ \A k \in 2 .. n : k \in 2 .. m \/ k = n
  BY <1>1
<1>21. Len(g) = m /\ Len(f) = n /\ \A k \in 1 .. m : g[k] = f[k]
  BY <1>1, <1>2
<1>3. PICK q : q = f[n].at
  OBVIOUS
<1>4. PICK p : p = f[m].at
  OBVIOUS
<1>5. PICK i : i = f[m].slot - 1
  OBVIOUS
<1>6. /\ IsSlot(h, p, i) /\ h[p].to[i] = q /\ id \in DOMAIN is /\ q \in DOMAIN h
      /\ f[m].slot \in Nat /\ f[n].slot \in Nat
  <2>1. /\ \A k \in 1 .. n : f[k].slot \in Nat /\ f[k].at \in DOMAIN h
        /\ \A k \in 1 .. n - 1 : /\ IsSlot(h, f[k].at, f[k].slot - 1)
                               /\ h[f[k].at].to[f[k].slot - 1] = f[k + 1].at
                               /\ f[k + 1].id \in DOMAIN is
    BY DEF Nested
  <2>2. f[m].slot \in Nat /\ f[n].slot \in Nat /\ q \in DOMAIN h
    BY <1>2, <1>3, <2>1
  <2>3. /\ IsSlot(h, f[m].at, f[m].slot - 1)
        /\ h[f[m].at].to[f[m].slot - 1] = f[m + 1].at
        /\ f[m + 1].id \in DOMAIN is
    BY <1>2, <2>1
  <2>. QED
    BY <1>2, <1>3, <1>4, <1>5, <2>2, <2>3
<1>7. q # Null
  BY <1>6, NullIsNoObject
<1>8. Reached(g, is) = Reached(f, is) /\ q \in Reached(f, is)
  <2>1. { f[k].at : k \in 1 .. n } = { g[k].at : k \in 1 .. m } \union {q}
    BY <1>2, <1>3, <1>21
  <2>2. q \in { is[j].ownerPtr : j \in DOMAIN is } \ {Null}
    BY <1>3, <1>6, <1>7
  <2>3. { f[k].at : k \in 1 .. Len(f) } = { g[k].at : k \in 1 .. Len(g) } \union {q}
    BY <1>21, <2>1
  <2>. QED
    BY <2>2, <2>3 DEF Reached, ReadSet
<1>9. Done(g, is) = Done(f, is) \union {q}
  <2>1. \A k \in 1 .. m : f[k].at # q
    BY <1>2, <1>3 DEF Nested
  <2>2. ASSUME NEW r
        PROVE  (\A k \in 1 .. m : g[k].at # r) <=> (\A k \in 1 .. n : f[k].at # r) \/ r = q
    BY <1>2, <1>3, <1>21, <2>1
  <2>3. ASSUME NEW r PROVE r \in Done(g, is) <=> r \in Done(f, is) \union {q}
    BY <1>8, <1>21, <2>2 DEF Done
  <2>. QED
    BY <2>3
<1>10. ASSUME NEW r, NEW j, IsSlot(h, r, j)
       PROVE  Passed(g, is, r, j) <=> Passed(f, is, r, j)
  <2>1. ASSUME Passed(g, is, r, j) PROVE Passed(f, is, r, j)
    <3>1. CASE r = q
      <4>1. j \in 1 .. Len(h[q].to) /\ Len(h[q].to) \in Nat
        BY <1>6, <1>10, <3>1, ObjectFields DEF IsSlot
      <4>2. j < f[n].slot
        BY <1>3, <1>6, <4>1
      <4>. QED
        BY <1>2, <1>21, <1>3, <3>1, <4>2 DEF Passed
    <3>2. CASE r # q
      BY <1>2, <1>21, <1>9, <2>1, <3>2 DEF Passed
    <3>. QED
      BY <3>1, <3>2
  <2>2. ASSUME Passed(f, is, r, j) PROVE Passed(g, is, r, j)
    BY <1>2, <1>21, <1>3, <1>9, <2>2 DEF Passed
  <2>. QED
    BY <2>1, <2>2
<1>11. \A r, j : Around(f, r, j) => Around(g, r, j) \/ (r = p /\ j = i)
  BY <1>2, <1>21, <1>4, <1>5 DEF Around
<1>12. Led(g, is, h)
  <2>1. ASSUME NEW r, NEW j, IsSlot(h, r, j), Passed(g, is, r, j), h[r].to[j] # Null
        PROVE  /\ KindOf(h, r, j) \in {"Owner", "SharedOwner"} => h[r].to[j] \in Done(g, is) \/ Around(g, r, j)
               /\ KindOf(h, r, j) = "Observer" =>
                    h[r].to[j] \in Reached(g, is) \/ \E k \in DOMAIN is : <<r, j>> \in is[k].observers
    <3>1. Passed(f, is, r, j)
      BY <1>10, <2>1
    <3>2. Around(f, r, j) => Around(g, r, j) \/ h[r].to[j] = q
      BY <1>6, <1>11
    <3>. QED
      BY <1>8, <1>9, <2>1, <3>1, <3>2 DEF Settled, Led
  <2>. QED
    BY <2>1 DEF Led
<1>13. \A j : Open(f, j) => Open(g, j) \/ j = id
  BY <1>2, <1>21 DEF Open
<1>14. \A kind, x : Witnessed(f, is, h, kind, x) => Witnessed(g, is, h, kind, x)
  BY <1>10 DEF Witnessed
<1>15. ASSUME NEW j \in DOMAIN is, is[j].ownership # "Observer", ~ Open(g, j)
       PROVE  Claims(g, is, h, j)
  <2>1. CASE j = id
    <3>1. is[id].ownership = KindOf(h, p, i)
      BY <1>2, <1>21, <1>4, <1>5 DEF Settled
    <3>2. Passed(g, is, p, i)
      <4>1. i < g[m].slot /\ g[m].at = p
        BY <1>2, <1>21, <1>4, <1>5, <1>6
      <4>. QED
        BY <1>2, <1>21, <4>1 DEF Passed
    <3>3. Witnessed(g, is, h, is[id].ownership, q)
      BY <1>6, <3>1, <3>2 DEF Witnessed
    <3>. QED
      BY <1>3, <1>9, <2>1, <3>3 DEF Claims
  <2>2. CASE j # id
    <3>1. Claims(f, is, h, j)
      BY <1>13, <1>15, <2>2 DEF Settled
    <3>. QED
      BY <1>9, <1>14, <3>1 DEF Claims
  <2>. QED
    BY <2>1, <2>2
<1>16. ASSUME NEW k \in 1 .. m - 1
       PROVE  is[g[k + 1].id].ownership = KindOf(h, g[k].at, g[k].slot - 1)
  BY <1>2, <1>21 DEF Settled
<1>. QED
  BY <1>2, <1>21, <1>12, <1>15, <1>16 DEF Settled

\* The document has been read.
LEMMA SettledFinished ==
  ASSUME NEW f, NEW is, NEW h, Typed(h), Reading(f, is, h), Settled(f, is, h), Len(f) = 1,
         f[1].slot > Len(h[Root].to)
  PROVE  Settled(<< >>, is, h) /\ \A q \in Reached(<< >>, is) : q \in DOMAIN h /\ Lives(h, q)
<1>1. f[1].at = Root /\ Root \in DOMAIN h /\ f[1].slot \in Nat
  BY DEF Reading, Nested
<1>2. { f[k].at : k \in 1 .. Len(f) } = {Root}
  BY <1>1
<1>3. PICK e : e = << >>
  OBVIOUS
<1>4. Len(e) = 0 /\ { e[k].at : k \in 1 .. Len(e) } = {} /\ 1 .. Len(e) = {} /\ 2 .. Len(f) = {}
      /\ 1 .. Len(e) - 1 = {} /\ 1 .. Len(f) - 1 = {} /\ 2 .. Len(e) = {} /\ 1 .. Len(f) = {1}
  BY <1>3
<1>5. Reached(e, is) = Reached(f, is) /\ Reached(f, is) = ReadSet(f, is)
  BY <1>2, <1>4 DEF Reached, ReadSet
<1>6. Done(e, is) = Reached(f, is) /\ Done(f, is) \subseteq Reached(f, is)
      /\ Reached(f, is) = Done(f, is) \union {Root}
  BY <1>1, <1>4, <1>5 DEF Done, Reached
<1>7. ASSUME NEW r, NEW j, IsSlot(h, r, j)
      PROVE  Passed(e, is, r, j) <=> Passed(f, is, r, j)
  <2>1. CASE r = Root
    <3>1. j \in 1 .. Len(h[Root].to) /\ Len(h[Root].to) \in Nat
      BY <1>1, <1>7, <2>1, ObjectFields DEF IsSlot
    <3>2. j < f[1].slot
      BY <1>1, <3>1
    <3>. QED
      BY <1>1, <1>4, <1>5, <1>6, <2>1, <3>2 DEF Passed, Reached
  <2>2. CASE r # Root
    BY <1>1, <1>4, <1>6, <2>2 DEF Passed
  <2>. QED
    BY <2>1, <2>2
<1>8. \A r, j : ~ Around(f, r, j)
  BY <1>4 DEF Around
<1>9. Led(e, is, h)
  BY <1>5, <1>6, <1>7, <1>8 DEF Settled, Led
<1>10. ASSUME NEW j \in DOMAIN is, is[j].ownership # "Observer"
       PROVE  Claims(e, is, h, j)
  <2>1. ~ Open(f, j)
    BY <1>4 DEF Open
  <2>2. Claims(f, is, h, j)
    BY <1>10, <2>1 DEF Settled
  <2>. QED
    BY <1>6, <1>7, <2>2 DEF Claims, Witnessed
<1>11. Settled(e, is, h)
  BY <1>4, <1>9, <1>10 DEF Settled
<1>12. \A q \in Reached(e, is) : q \in DOMAIN h /\ Lives(h, q)
  BY <1>5 DEF Reading, Visited
<1>. QED
  BY <1>3, <1>11, <1>12

\* The observers in the list are set, and nothing else.
LEMMA LinkedSets ==
  ASSUME NEW h, Typed(h), NEW info, NEW q
  PROVE  SetTo(h, Linked(h, info, q), info.observers, q)
<1>. DEFINE F(r) == [ i \in DOMAIN h[r].to |-> IF <<r, i>> \in info.observers THEN q ELSE h[r].to[i] ]
<1>1. PICK g : g = Linked(h, info, q)
  OBVIOUS
<1>2. DOMAIN g = DOMAIN h /\ \A r \in DOMAIN h : g[r] = [ h[r] EXCEPT !.to = F(r) ]
  BY <1>1 DEF Linked
<1>3. ASSUME NEW r, NEW j, IsSlot(h, r, j)
      PROVE  g[r].to[j] = IF <<r, j>> \in info.observers THEN q ELSE h[r].to[j]
  <2>1. r \in DOMAIN h /\ j \in 1 .. Len(h[r].to)
    BY <1>3 DEF IsSlot
  <2>2. h[r] \in Object /\ h[r].to \in Seq(Int)
    BY <2>1, ObjectFields
  <2>3. j \in DOMAIN h[r].to
    BY <2>1, <2>2
  <2>4. F(r)[j] = IF <<r, j>> \in info.observers THEN q ELSE h[r].to[j]
    BY <2>3
  <2>. HIDE DEF F
  <2>5. g[r].to = F(r)
    BY <1>2, <2>1, <2>2 DEF Object
  <2>. QED
    BY <2>4, <2>5
<1>. QED
  BY <1>1, <1>3 DEF SetTo

LEMMA RinglessLinked ==
  ASSUME NEW h, Typed(h), Ringless(h), NEW g, Typed(g), Links(h, g)
  PROVE  Ringless(g)
<1>1. DOMAIN g = DOMAIN h /\ \A r \in DOMAIN h : g[r].type = h[r].type /\ Len(g[r].to) = Len(h[r].to)
  BY DEF Links, SameObject
<1>2. ASSUME NEW r, NEW j, NEW q, Owns(g, r, j, q)
      PROVE  Owns(h, r, j, q)
  <2>1. r \in DOMAIN h
    BY <1>1, <1>2 DEF Owns, IsSlot
  <2>2. IsSlot(h, r, j) /\ KindOf(h, r, j) \in {"Owner", "SharedOwner"} /\ g[r].to[j] = q
    BY <1>1, <1>2, <2>1, KeepsSlots DEF Owns
  <2>. QED
    BY <2>2 DEF Owns, Links
<1>. QED
  BY <1>2, RinglessGrown

\* What Shares does behind the linking: the pointer gets the shared object,
\* and what has no share left dies.
LEMMA SharesKeep ==
  ASSUME TypeInv, NEW s, NEW p, NEW i, s = <<p, i>>, IsSlot(heap, p, i), KindOf(heap, p, i) # "Observer",
         NEW id \in Int, NEW info, Shares(heap, s, id, info), Waits(heap, info), Leading(info, heap)
  PROVE  LET l == Linked(heap, info, info.sharedState)
         IN  /\ Typed(l) /\ Links(heap, l) /\ Typed(heap')
             /\ DOMAIN heap' = DOMAIN heap /\ DOMAIN l = DOMAIN heap
             /\ Keeps(l, heap', p, i)
             /\ KindOf(heap, p, i) # "SharedObserver" => heap'[p].to[i] = info.sharedState
<1>1. PICK is : is = infos'
  OBVIOUS
<1>2. PICK q : q = info.sharedState
  OBVIOUS
<1>3. PICK l : l = Linked(heap, info, q)
  OBVIOUS
<1>4. PICK a : a = Assign(l, <<p, i>>, q)
  OBVIOUS
<1>5. heap' = Sweep(a, States(is), {}, << >>)
  BY <1>1, <1>2, <1>3, <1>4 DEF Shares
<1>6. q \in DOMAIN heap \union {Null} /\ Typed(heap) /\ program \in Programs
  BY <1>2 DEF Leading, TypeInv
<1>7. Typed(l) /\ DOMAIN l = DOMAIN heap
  BY <1>3, <1>6, LinkedType
<1>8. Links(heap, l)
  BY <1>3, <1>6, LinkedLinks
<1>9. IsSlot(l, p, i) /\ KindOf(l, p, i) = KindOf(heap, p, i)
  BY <1>8 DEF Links, SameObject, IsSlot, KindOf
<1>10. Sets(l, a, p, i, q)
  BY <1>4, <1>6, <1>7, <1>9, AssignSets
<1>11. Typed(a)
  BY <1>4, <1>6, <1>7, <1>9, AssignType DEF IsSlot
<1>12. Keeps(l, a, p, i) /\ DOMAIN a = DOMAIN l /\ a[p].to[i] = q
  BY <1>9, <1>10, SetsKeeps DEF Sets
<1>13. IsSlot(a, p, i) /\ KindOf(a, p, i) = KindOf(heap, p, i)
  <2>1. p \in DOMAIN l
    BY <1>9 DEF IsSlot
  <2>. QED
    BY <1>9, <1>12, <2>1, KeepsSlots DEF Keeps
<1>14. /\ Keeps(a, heap', p, i) /\ DOMAIN heap' = DOMAIN a
       /\ KindOf(heap, p, i) # "SharedObserver" => heap'[p].to[i] = a[p].to[i]
  BY <1>5, <1>11, <1>13, SweptKeeps
<1>15. Keeps(l, heap', p, i)
  BY <1>12, <1>14, KeepsOn
<1>16. Typed(heap')
  <2>1. p \in DOMAIN heap /\ i \in 1 .. Len(heap[p].to)
    BY DEF IsSlot
  <2>. QED
    BY <2>1, SharesType
<1>. QED
  BY <1>2, <1>3, <1>7, <1>8, <1>12, <1>14, <1>15, <1>16

\* The next pointer was not read yet.
LEMMA HereIsNext ==
  ASSUME TypeInv, AtSlot, Reading(stack, infos, heap), NEW n, NEW p, NEW i, IsHere(n, p, i)
  PROVE  ~ Passed(stack, infos, p, i) /\ p \notin Done(stack, infos)
<1>1. /\ n = Len(stack) /\ n \in Nat \ {0} /\ p = stack[n].at /\ i = stack[n].slot /\ i \in Nat
  BY DEF IsHere
<1>2. n \in 1 .. n
  BY <1>1
<1>3. p \notin Done(stack, infos)
  BY <1>1, <1>2 DEF Done
<1>4. \A k \in 1 .. n : stack[k].at = p => k = n
  BY <1>1, <1>2 DEF Reading, Nested
<1>5. ~ (i < i)
  BY <1>1
<1>. QED
  BY <1>1, <1>3, <1>4, <1>5 DEF Passed

\* What was reached is there, and no info that leads to what was read to its
\* end leads to null.
LEMMA ReachedIsThere ==
  ASSUME NEW f, NEW is, NEW h, Typed(h), Reading(f, is, h)
  PROVE  /\ Reached(f, is) = ReadSet(f, is) /\ Reached(f, is) \subseteq DOMAIN h
         /\ Null \notin Done(f, is) /\ Done(f, is) \subseteq Reached(f, is)
<1>1. Root \in ReadSet(f, is)
  <2>1. 1 \in 1 .. Len(f) /\ f[1].at = Root
    BY DEF Reading, Nested
  <2>. QED
    BY <2>1 DEF ReadSet
<1>2. ReadSet(f, is) \subseteq DOMAIN h
  BY DEF Reading, Visited
<1>. QED
  BY <1>1, <1>2, NullIsNoObject DEF Reached, Done

\* What SettledMoved asks of the frames.
LEMMA MovedFrames ==
  ASSUME TypeInv, AtSlot, NEW n, NEW p, NEW i, IsHere(n, p, i)
  PROVE  /\ n \in Nat \ {0} /\ n = Len(stack) /\ Len(Moved) = n
         /\ \A k \in 1 .. n : stack[k].slot \in Nat
         /\ \A k \in 1 .. n - 1 : Moved[k] = stack[k]
         /\ \A k \in 1 .. n : Moved[k].at = stack[k].at /\ Moved[k].id = stack[k].id
         /\ Moved[n].slot = stack[n].slot + 1
         /\ p = stack[n].at /\ i = stack[n].slot
<1>1. n = Len(stack) /\ n \in Nat \ {0} /\ p = stack[n].at /\ i = stack[n].slot /\ Here[2] = stack[n].slot
  BY DEF IsHere
<1>2. \A k \in 1 .. n : stack[k].slot \in Nat
  <2>1. stack \in Seq(Frames)
    BY DEF TypeInv
  <2>2. \A k \in 1 .. n : stack[k] \in Frames
    BY <1>1, <2>1
  <2>. QED
    BY <2>2 DEF Frames
<1>. QED
  BY <1>1, <1>2, MovedType

\* The next pointer has been read, in the state of the program.
LEMMA SettledGoesOn ==
  ASSUME TypeInv, AtSlot, NEW n, NEW p, NEW i, IsHere(n, p, i),
         NEW is, NEW h, Settled(stack, is, h),
         KindOf(h, p, i) \in {"Owner", "SharedOwner"} => h[p].to[i] \in Done(stack, is) \union {Null},
         KindOf(h, p, i) = "Observer" =>
           h[p].to[i] \in Reached(stack, is) \union {Null} \/ \E id \in DOMAIN is : <<p, i>> \in is[id].observers
  PROVE  Settled(Moved, is, h)
<1>1. PICK m : m = Moved
  OBVIOUS
<1>2. /\ n \in Nat \ {0} /\ n = Len(stack) /\ Len(m) = n
      /\ \A k \in 1 .. n : stack[k].slot \in Nat
      /\ \A k \in 1 .. n - 1 : m[k] = stack[k]
      /\ \A k \in 1 .. n : m[k].at = stack[k].at /\ m[k].id = stack[k].id
      /\ m[n].slot = stack[n].slot + 1
      /\ p = stack[n].at /\ i = stack[n].slot
  BY <1>1, MovedFrames
<1>. QED
  BY <1>1, <1>2, SettledMoved

RootedInv ==
  /\ Ringless(heap)
  /\ phase = "reading" /\ ~ failed => Settled(stack, infos, heap)
  /\ phase = "read" /\ ~ failed => /\ Settled(<< >>, infos, heap)
                                   /\ \A q \in Reached(<< >>, infos) : q \in DOMAIN heap /\ Lives(heap, q)

LEMMA DestroyKeepsOthers ==
  ASSUME TypeInv, AtSlot, Held # Null, NEW n, NEW p, NEW i, IsHere(n, p, i), NEW r \in Resources
  PROVE  /\ Keeps(heap, DestroyPtr(Here, r), p, i) /\ DestroyPtr(Here, r)[p].to[i] = Null
         /\ Typed(DestroyPtr(Here, r)) /\ DOMAIN DestroyPtr(Here, r) = DOMAIN heap
<1>1. PICK g : g = DestroyPtr(Here, r)
  OBVIOUS
<1>2. Typed(g) /\ DOMAIN g = DOMAIN heap
  BY <1>1, DestroyType, DestroyKeeps
<1>3. Here = <<p, i>> /\ IsSlot(heap, p, i) /\ Typed(heap) /\ program \in Programs
  BY DEF IsHere, TypeInv
<1>4. g[p].to[i] = Null
  BY <1>1, <1>3, DestroyEmpties
<1>5. PICK a : a = Assign(heap, <<p, i>>, Null)
  OBVIOUS
<1>6. Sets(heap, a, p, i, Null)
  BY <1>3, <1>5, AssignSets
<1>7. Typed(a)
  BY <1>3, <1>5, AssignType DEF IsSlot
<1>8. Keeps(heap, a, p, i)
  BY <1>6, SetsKeeps
<1>9. \E first, how : g = Sweep(a, States(infos), first, how)
  BY <1>1, <1>3, <1>5 DEF DestroyPtr, Delete
<1>10. Keeps(a, g, p, i)
  BY <1>7, <1>9, SweptKeeps
<1>. QED
  BY <1>1, <1>2, <1>4, <1>8, <1>10, KeepsOn

LEMMA ReadNullSettles ==
  ASSUME TypeInv, LivesInv, RootedInv, ReadNull
  PROVE  Ringless(heap') /\ (~ failed' => Settled(stack', infos', heap'))
<1>1. /\ AtSlot /\ infos' = infos /\ stack' = Moved
      /\ \/ heap' = heap /\ (Held = Null \/ failed')
         \/ Held # Null /\ heap' = DestroyPtr(Here, MemResource(There))
      /\ failed' \/ failed' = failed
  BY DEF ReadNull
<1>2. /\ Kept(heap) /\ Reading(stack, infos, heap) /\ Typed(heap) /\ Ringless(heap)
      /\ ~ failed => Settled(stack, infos, heap)
  BY <1>1 DEF LivesInv, AtSlot, TypeInv, RootedInv
<1>3. PICK n, p, i : IsHere(n, p, i)
  BY <1>1, HereIs
<1>4. Held = heap[p].to[i]
  BY <1>3 DEF IsHere
<1>5. CASE heap' = heap /\ (Held = Null \/ failed')
  <2>1. ASSUME ~ failed' PROVE Settled(stack', infos', heap')
    <3>1. Settled(stack, infos, heap) /\ heap[p].to[i] = Null
      BY <1>1, <1>2, <1>4, <1>5, <2>1
    <3>2. Settled(Moved, infos, heap)
      BY <1>1, <1>3, <3>1, SettledGoesOn
    <3>. QED
      BY <1>1, <1>5, <3>2
  <2>. QED
    BY <1>2, <1>5, <2>1
<1>6. CASE Held # Null /\ heap' = DestroyPtr(Here, MemResource(There))
  <2>1. MemResource(There) \in Resources
    BY <1>1, HereType
  <2>2. Keeps(heap, heap', p, i) /\ heap'[p].to[i] = Null /\ Typed(heap') /\ DOMAIN heap' = DOMAIN heap
    BY <1>1, <1>3, <1>6, <2>1, DestroyKeepsOthers
  <2>3. Ringless(heap')
    BY <1>2, <2>2, RinglessKept
  <2>4. ASSUME ~ failed' PROVE Settled(stack', infos', heap')
    <3>1. Settled(stack, infos, heap)
      BY <1>1, <1>2, <2>4
    <3>2. ~ Passed(stack, infos, p, i) /\ Reached(stack, infos) \subseteq DOMAIN heap
      BY <1>1, <1>2, <1>3, HereIsNext, ReachedIsThere
    <3>3. Settled(stack, infos, heap')
      BY <2>2, <3>1, <3>2, SettledKept
    <3>4. Settled(Moved, infos, heap')
      BY <1>1, <1>3, <2>2, <3>3, SettledGoesOn
    <3>. QED
      BY <1>1, <3>4
  <2>. QED
    BY <2>3, <2>4
<1>. QED
  BY <1>1, <1>5, <1>6

LEMMA ReadObserverSettles ==
  ASSUME TypeInv, LivesInv, RootedInv, ReadObserver
  PROVE  Ringless(heap') /\ (~ failed' => Settled(stack', infos', heap'))
<1>1. AtSlot /\ There.kind = "Observer" /\ stack' = Moved /\ ~ failed
  BY DEF ReadObserver
<1>2. /\ Kept(heap) /\ Reading(stack, infos, heap) /\ Typed(heap) /\ program \in Programs
      /\ Ringless(heap) /\ Settled(stack, infos, heap)
  BY <1>1 DEF LivesInv, AtSlot, TypeInv, RootedInv
<1>3. PICK id \in DOMAIN infos \union {NewId} :
        LET info == InfoById(id, "Observer")
        IN  IF info.ownerPtr = Null
              THEN /\ infos' = With(id, [ info EXCEPT !.observers = @ \union {Here} ])
                   /\ UNCHANGED heap
              ELSE /\ infos' = With(id, info)
                   /\ heap' = Assign(heap, Here, info.ownerPtr)
  BY DEF ReadObserver
<1>4. PICK info : info = InfoById(id, "Observer")
  OBVIOUS
<1>5. IF info.ownerPtr = Null
        THEN infos' = With(id, [ info EXCEPT !.observers = @ \union {Here} ]) /\ heap' = heap
        ELSE infos' = With(id, info) /\ heap' = Assign(heap, Here, info.ownerPtr)
  BY <1>3, <1>4
<1>6. PICK n, p, i : IsHere(n, p, i)
  BY <1>1, HereIs
<1>7. Here = <<p, i>> /\ IsSlot(heap, p, i) /\ KindOf(heap, p, i) = "Observer"
  BY <1>1, <1>6 DEF IsHere
<1>8. /\ info \in Info
      /\ id \in DOMAIN infos => info = infos[id]
      /\ id \notin DOMAIN infos => /\ info.ownerPtr = Null /\ info.sharedState = Null
                                   /\ info.ownership = "Observer" /\ info.observers = {}
  <2>1. info \in Info
    BY <1>4, InfoByIdType DEF TypeInv, Kinds, Leading
  <2>2. ASSUME id \in DOMAIN infos PROVE info = infos[id]
    <3>1. infos[id] \in Info
      BY <2>2 DEF TypeInv, Leads
    <3>2. info = [ infos[id] EXCEPT !.ownership = infos[id].ownership ]
      BY <1>4, <2>2 DEF InfoById, Update
    <3>. QED
      BY <3>1, <3>2 DEF Info
  <2>3. CASE id \notin DOMAIN infos
    BY <1>4, <2>1, <2>3 DEF InfoById, NewInfo
  <2>. QED
    BY <2>1, <2>2, <2>3
<1>9. /\ Reached(stack, infos) \subseteq DOMAIN heap /\ Null \notin Done(stack, infos)
      /\ ~ Passed(stack, infos, p, i)
  BY <1>1, <1>2, <1>6, HereIsNext, ReachedIsThere
<1>10. \A k \in 2 .. Len(stack) : stack[k].id \in DOMAIN infos
  <2>1. ASSUME NEW k \in 2 .. Len(stack) PROVE stack[k].id \in DOMAIN infos
    <3>1. Len(stack) \in Nat
      BY <1>2 DEF Reading, Nested
    <3>2. k - 1 \in 1 .. Len(stack) - 1 /\ k = (k - 1) + 1
      BY <3>1
    <3>. QED
      BY <1>2, <3>2 DEF Reading, Nested
  <2>. QED
    BY <2>1
<1>11. Len(stack) \in Nat
  BY <1>2 DEF Reading, Nested
<1>12. CASE info.ownerPtr = Null
  <2>1. PICK o : o = [ info EXCEPT !.observers = info.observers \union {Here} ]
    OBVIOUS
  <2>2. infos' = With(id, o) /\ heap' = heap
    BY <1>5, <1>12, <2>1
  <2>3. /\ o.ownerPtr = info.ownerPtr /\ o.sharedState = info.sharedState /\ o.ownership = info.ownership
        /\ o.observers = info.observers \union {Here}
    BY <1>8, <2>1 DEF Info
  <2>4. PICK w : w = infos'
    OBVIOUS
  <2>5. DOMAIN w = DOMAIN infos \union {id} /\ \A j \in DOMAIN w : w[j] = IF j = id THEN o ELSE infos[j]
    BY <2>2, <2>4 DEF With
  <2>6. ASSUME id \in DOMAIN infos
        PROVE  info.ownership = "Observer" \/ Open(stack, id)
    <3>1. ASSUME infos[id].ownership # "Observer", ~ Open(stack, id) PROVE FALSE
      <4>1. Claims(stack, infos, heap, id)
        BY <1>2, <2>6, <3>1 DEF Settled
      <4>. QED
        BY <1>8, <1>9, <1>12, <2>6, <4>1 DEF Claims
    <3>. QED
      BY <1>8, <2>6, <3>1
  <2>7. Settled(stack, w, heap)
    <3>1. ASSUME NEW j \in DOMAIN infos
          PROVE  /\ w[j].ownerPtr = infos[j].ownerPtr
                 /\ infos[j].observers \subseteq w[j].observers
                 /\ w[j].observers = infos[j].observers \/ w[j].ownership = "Observer" \/ Open(stack, j)
                 /\ w[j].ownership = infos[j].ownership
      BY <1>8, <2>3, <2>5, <2>6
    <3>2. ASSUME NEW j \in DOMAIN w \ DOMAIN infos
          PROVE  w[j].ownerPtr = Null /\ w[j].ownership = "Observer"
      BY <1>8, <2>3, <2>5
    <3>3. DOMAIN infos \subseteq DOMAIN w
      BY <2>5
    <3>. QED
      BY <1>2, <1>10, <1>11, <3>1, <3>2, <3>3, SettledTold
  <2>8. id \in DOMAIN w /\ <<p, i>> \in w[id].observers
    BY <1>7, <2>3, <2>5
  <2>9. Settled(Moved, w, heap)
    BY <1>1, <1>6, <1>7, <2>7, <2>8, SettledGoesOn
  <2>. QED
    BY <1>1, <1>2, <2>2, <2>4, <2>9
<1>13. CASE info.ownerPtr # Null
  <2>1. infos' = With(id, info) /\ heap' = Assign(heap, Here, info.ownerPtr)
    BY <1>5, <1>13
  <2>2. id \in DOMAIN infos /\ info = infos[id]
    BY <1>8, <1>13
  <2>3. info.ownerPtr \in Reached(stack, infos) /\ info.ownerPtr \in DOMAIN heap
    BY <1>9, <1>13, <2>2 DEF Reached, ReadSet
  <2>4. Sets(heap, heap', p, i, info.ownerPtr)
    BY <1>2, <1>7, <2>1, <2>3, AssignSets
  <2>5. Keeps(heap, heap', p, i) /\ heap'[p].to[i] = info.ownerPtr /\ DOMAIN heap' = DOMAIN heap
    BY <1>7, <2>4, SetsKeeps DEF Sets
  <2>6. Typed(heap')
    BY <1>2, <1>7, <2>1, <2>3, AssignType DEF IsSlot
  <2>7. Ringless(heap')
    BY <1>2, <1>7, <2>5, <2>6, RinglessKept
  <2>8. Settled(stack, infos, heap')
    BY <1>2, <1>9, <2>5, SettledKept
  <2>9. KindOf(heap', p, i) = "Observer"
    <3>1. p \in DOMAIN heap
      BY <1>7 DEF IsSlot
    <3>. QED
      BY <1>7, <2>5, <3>1 DEF Keeps, KindOf
  <2>10. Settled(Moved, infos, heap')
    BY <1>1, <1>6, <2>3, <2>5, <2>8, <2>9, SettledGoesOn
  <2>11. infos' = infos
    <3>1. infos = [ j \in DOMAIN infos |-> infos[j] ]
      BY DEF TypeInv, Leads
    <3>2. DOMAIN infos \union {id} = DOMAIN infos
      BY <2>2
    <3>3. \A j \in DOMAIN infos : (IF j = id THEN info ELSE infos[j]) = infos[j]
      BY <2>2
    <3>. QED
      BY <2>1, <3>1, <3>2, <3>3 DEF With
  <2>. QED
    BY <1>1, <2>7, <2>10, <2>11
<1>. QED
  BY <1>12, <1>13

LEMMA ReadUnknownTypeSettles ==
  ASSUME TypeInv, LivesInv, RootedInv, ReadUnknownType
  PROVE  Ringless(heap') /\ failed'
<1>1. AtSlot /\ There.kind # "Observer" /\ failed'
  BY DEF ReadUnknownType
<1>2. Kept(heap) /\ Reading(stack, infos, heap) /\ Typed(heap) /\ program \in Programs /\ Ringless(heap)
  BY <1>1 DEF LivesInv, AtSlot, TypeInv, RootedInv
<1>3. PICK id \in Unclaimed :
         LET info == InfoById(id, There.kind)
         IN  IF IsShared(There)
               THEN Shares(heap, Here, id, [ info EXCEPT !.sharedState = Held ])
               ELSE /\ infos' = With(id, Claimed(info, Held))
                    /\ heap' = Linked(heap, info, Held)
  BY DEF ReadUnknownType
<1>4. There.kind \in Kinds \ {"Observer"}
  BY <1>1, HereIs
<1>5. PICK info : info = InfoById(id, There.kind)
  OBVIOUS
<1>6. Leading(info, heap) /\ info \in Info
  BY <1>4, <1>5, InfoByIdType DEF TypeInv, Leading
<1>7. Waits(heap, info)
  BY <1>2, <1>4, <1>5, UnclaimedIsFresh DEF Fresh
<1>8. PICK n, p, i : IsHere(n, p, i)
  BY <1>1, HereIs
<1>9. Here = <<p, i>> /\ IsSlot(heap, p, i) /\ KindOf(heap, p, i) = There.kind /\ Held = heap[p].to[i]
  BY <1>8 DEF IsHere
<1>10. Held \in DOMAIN heap \union {Null} /\ Held \in Int /\ id \in Int
  BY <1>1, <1>2, HereType, ObjectsAreNumbers, IdType DEF TypeInv
<1>11. CASE IsShared(There)
  <2>1. PICK o : o = [ info EXCEPT !.sharedState = Held ]
    OBVIOUS
  <2>2. Shares(heap, Here, id, o)
    BY <1>3, <1>5, <1>11, <2>1
  <2>3. o.observers = info.observers /\ o.sharedState = Held /\ Leading(o, heap)
    BY <1>6, <1>10, <2>1 DEF Leading, Info
  <2>4. Waits(heap, o)
    BY <1>7, <2>3 DEF Waits
  <2>5. PICK l : l = Linked(heap, o, Held)
    OBVIOUS
  <2>6. /\ Typed(l) /\ Links(heap, l) /\ Typed(heap') /\ DOMAIN heap' = DOMAIN l
        /\ Keeps(l, heap', p, i)
        /\ KindOf(heap, p, i) # "SharedObserver" => heap'[p].to[i] = Held
    BY <1>1, <1>9, <1>10, <2>2, <2>3, <2>4, <2>5, SharesKeep
  <2>7. Ringless(l)
    BY <1>2, <2>6, RinglessLinked
  <2>8. /\ IsSlot(l, p, i) <=> IsSlot(heap, p, i)
        /\ KindOf(l, p, i) = KindOf(heap, p, i)
        /\ KindOf(heap, p, i) # "Observer" => l[p].to[i] = heap[p].to[i]
    BY <1>9, <2>6 DEF Links, SameObject, IsSlot, KindOf
  <2>9. Ringless(heap')
    BY <1>1, <1>9, <2>6, <2>7, <2>8, RinglessKept
  <2>. QED
    BY <1>1, <2>9
<1>12. CASE ~ IsShared(There)
  <2>1. heap' = Linked(heap, info, Held)
    BY <1>3, <1>5, <1>12
  <2>2. Typed(heap') /\ Links(heap, heap')
    BY <1>2, <1>7, <1>10, <2>1, LinkedType, LinkedLinks
  <2>. QED
    BY <1>1, <1>2, <2>2, RinglessLinked
<1>. QED
  BY <1>11, <1>12

\* Ids of objects in progress are known.
LEMMA OpenIds ==
  ASSUME NEW f, NEW is, NEW h, Nested(f, is, h)
  PROVE  Len(f) \in Nat /\ \A k \in 2 .. Len(f) : f[k].id \in DOMAIN is
<1>1. Len(f) \in Nat
  BY DEF Nested
<1>2. ASSUME NEW k \in 2 .. Len(f) PROVE f[k].id \in DOMAIN is
  <2>1. k - 1 \in 1 .. Len(f) - 1 /\ k = (k - 1) + 1
    BY <1>1
  <2>. QED
    BY <2>1 DEF Nested
<1>. QED
  BY <1>1, <1>2

LEMMA ReadKnownSettles ==
  ASSUME TypeInv, LivesInv, RootedInv, ReadKnown
  PROVE  Ringless(heap') /\ (~ failed' => Settled(stack', infos', heap'))
<1>1. AtSlot /\ stack' = Moved /\ ~ failed
  BY DEF ReadKnown
<1>2. /\ Kept(heap) /\ Reading(stack, infos, heap) /\ Typed(heap) /\ program \in Programs
      /\ Ringless(heap) /\ Settled(stack, infos, heap)
  BY <1>1 DEF LivesInv, AtSlot, TypeInv, RootedInv
<1>3. PICK id \in Known(There) : Shares(heap, Here, id, InfoById(id, There.kind))
  BY DEF ReadKnown
<1>4. /\ id \in DOMAIN infos /\ infos[id].sharedState # Null /\ There.kind \in {"SharedOwner", "SharedObserver"}
      /\ There.kind = "SharedOwner" => ~ Open(stack, id)
  <2>1. /\ id \in DOMAIN infos /\ infos[id].sharedState # Null /\ There.kind \in {"SharedOwner", "SharedObserver"}
        /\ There.kind = "SharedOwner" => \A k \in 1 .. Len(stack) : stack[k].id # id
    BY <1>3 DEF Known, IsShared
  <2>2. \A k \in 2 .. Len(stack) : k \in 1 .. Len(stack)
    BY <1>2 DEF Reading, Nested
  <2>. QED
    BY <2>1, <2>2 DEF Open
<1>5. PICK info : info = InfoById(id, There.kind)
  OBVIOUS
<1>6. infos[id] \in Info /\ Told(heap, infos[id])
  BY <1>2, <1>4 DEF TypeInv, Leads, Reading, Informed
<1>7. /\ info \in Info /\ info.ownership = Update(infos[id].ownership, There.kind)
      /\ info.ownerPtr = infos[id].ownerPtr /\ info.sharedState = infos[id].sharedState
      /\ info.observers = infos[id].observers
  <2>1. info = [ infos[id] EXCEPT !.ownership = Update(infos[id].ownership, There.kind) ]
    BY <1>4, <1>5 DEF InfoById
  <2>2. Update(infos[id].ownership, There.kind) \in Kinds
    BY <1>4, <1>6 DEF Update, Kinds, Info
  <2>. QED
    BY <1>6, <2>1, <2>2 DEF Info
<1>8. PICK q : q = info.sharedState
  OBVIOUS
<1>9. /\ q # Null /\ q \in DOMAIN heap /\ info.ownerPtr \in {Null, q} /\ infos[id].ownership # "Observer"
      /\ q = infos[id].sharedState
  BY <1>4, <1>6, <1>7, <1>8 DEF Told
<1>10. PICK w : w = infos'
  OBVIOUS
<1>11. /\ DOMAIN w = DOMAIN infos /\ \A j \in DOMAIN infos \ {id} : w[j] = infos[j]
       /\ w[id].ownerPtr = q /\ w[id].observers = {}
       /\ w[id].ownership = IF There.kind = "SharedOwner" THEN "SharedOwner" ELSE infos[id].ownership
  <2>1. PICK c : c = Claimed(info, q)
    OBVIOUS
  <2>2. c.ownerPtr = q /\ c.observers = {} /\ c.ownership = info.ownership
    BY <1>7, <2>1 DEF Claimed, Info
  <2>3. w = With(id, c)
    BY <1>3, <1>5, <1>8, <1>10, <2>1 DEF Shares
  <2>4. info.ownership = IF There.kind = "SharedOwner" THEN "SharedOwner" ELSE infos[id].ownership
    BY <1>4, <1>7, <1>9 DEF Update
  <2>5. DOMAIN w = DOMAIN infos \union {id} /\ \A j \in DOMAIN infos \union {id} : w[j] = IF j = id THEN c ELSE infos[j]
    BY <2>3 DEF With
  <2>. QED
    BY <1>4, <2>2, <2>4, <2>5
<1>12. PICK n, p, i : IsHere(n, p, i)
  BY <1>1, HereIs
<1>13. /\ Here = <<p, i>> /\ IsSlot(heap, p, i) /\ KindOf(heap, p, i) = There.kind
       /\ n \in Nat \ {0} /\ n = Len(stack)
  BY <1>12 DEF IsHere
<1>14. /\ Reached(stack, infos) \subseteq DOMAIN heap /\ Null \notin Done(stack, infos)
       /\ ~ Passed(stack, infos, p, i) /\ p \notin Done(stack, infos)
  BY <1>1, <1>2, <1>12, HereIsNext, ReachedIsThere
<1>15. PICK l : l = Linked(heap, info, q)
  OBVIOUS
<1>16. Waits(heap, info) /\ Leading(info, heap) /\ id \in Int
  <2>1. Waits(heap, info)
    BY <1>6, <1>7 DEF Told, Waits
  <2>2. Leading(info, heap)
    BY <1>4, <1>5, InfoByIdType DEF TypeInv, Kinds
  <2>3. id \in Int
    BY <1>4, IdType DEF TypeInv
  <2>. QED
    BY <2>1, <2>2, <2>3
<1>17. /\ Typed(l) /\ Links(heap, l) /\ Typed(heap')
       /\ DOMAIN heap' = DOMAIN heap /\ DOMAIN l = DOMAIN heap
       /\ Keeps(l, heap', p, i)
       /\ KindOf(heap, p, i) # "SharedObserver" => heap'[p].to[i] = q
  BY <1>3, <1>4, <1>5, <1>8, <1>13, <1>15, <1>16, SharesKeep
<1>18. /\ IsSlot(l, p, i) /\ KindOf(l, p, i) = There.kind
       /\ IsSlot(heap', p, i) /\ KindOf(heap', p, i) = There.kind
  <2>1. p \in DOMAIN heap
    BY <1>13 DEF IsSlot
  <2>2. IsSlot(l, p, i) /\ KindOf(l, p, i) = There.kind
    BY <1>13, <1>17, <2>1, KeepsSlots, SMTT(30) DEF Links, SameObject
  <2>. QED
    BY <1>17, <2>1, <2>2, KeepsSlots DEF Keeps
<1>19. Ringless(l)
  BY <1>2, <1>17, RinglessLinked
\* What has been read to its end: no observer waits for it.
<1>20. CASE ~ Open(stack, id)
  <2>1. Claims(stack, infos, heap, id)
    BY <1>2, <1>4, <1>9, <1>20 DEF Settled
  <2>2. q \in Done(stack, infos) /\ infos[id].ownerPtr = q /\ infos[id].observers = {}
    BY <1>7, <1>9, <1>14, <2>1 DEF Claims
  <2>3. \A r, j : IsSlot(heap, r, j) => l[r].to[j] = heap[r].to[j]
    <3>1. \A r, j : IsSlot(heap, r, j) =>
             l[r].to[j] = IF <<r, j>> \in info.observers THEN q ELSE heap[r].to[j]
      BY <1>2, <1>15, LinkedSets DEF SetTo
    <3>2. info.observers = {}
      BY <1>7, <2>2
    <3>. QED
      BY <3>1, <3>2
  <2>4. Keeps(heap, l, p, i)
    BY <1>17, <2>3 DEF Keeps, Links, SameObject
  <2>5. Keeps(heap, heap', p, i)
    BY <1>17, <2>4, KeepsOn
  <2>6. Settled(stack, infos, heap')
    BY <1>2, <1>14, <2>5, SettledKept
  <2>7. Settled(Moved, infos, heap')
    BY <1>1, <1>4, <1>12, <1>17, <1>18, <1>13, <2>2, <2>6, SettledGoesOn
  <2>8. PICK m : m = Moved
    OBVIOUS
  <2>9. /\ Len(m) = n /\ \A k \in 1 .. n : m[k].id = stack[k].id
        /\ n \in 1 .. n /\ m[n].at = p /\ i < m[n].slot
    <3>1. /\ Len(m) = n /\ \A k \in 1 .. n : m[k].at = stack[k].at /\ m[k].id = stack[k].id
          /\ m[n].slot = stack[n].slot + 1 /\ p = stack[n].at /\ i = stack[n].slot
          /\ \A k \in 1 .. n : stack[k].slot \in Nat
      BY <1>1, <1>12, <2>8, MovedFrames
    <3>2. n \in 1 .. n
      BY <1>13
    <3>3. i \in Nat
      BY <3>1, <3>2
    <3>4. i < i + 1
      BY <3>3
    <3>. QED
      BY <3>1, <3>2, <3>4
  <2>10. \A j : Open(m, j) <=> Open(stack, j)
    <3>1. \A k \in 2 .. n : k \in 1 .. n
      BY <1>13
    <3>. QED
      BY <1>13, <2>9, <3>1 DEF Open
  <2>11. \A k \in 2 .. Len(m) : m[k].id \in DOMAIN infos
    <3>1. \A k \in 2 .. Len(stack) : stack[k].id \in DOMAIN infos
      BY <1>2, OpenIds DEF Reading
    <3>2. \A k \in 2 .. n : k \in 1 .. n
      BY <1>13
    <3>. QED
      BY <1>13, <2>9, <3>1, <3>2
  <2>12. There.kind = "SharedOwner" => Witnessed(m, infos, heap', "SharedOwner", q)
    <3>1. Passed(m, infos, p, i)
      BY <2>9 DEF Passed
    <3>. QED
      BY <1>13, <1>17, <1>18, <3>1 DEF Witnessed
  <2>13. Settled(m, w, heap')
    <3>1. ASSUME NEW j \in DOMAIN infos
          PROVE  /\ w[j].ownerPtr = infos[j].ownerPtr
                 /\ infos[j].observers \subseteq w[j].observers
                 /\ w[j].observers = infos[j].observers
                 /\ \/ w[j].ownership = infos[j].ownership
                    \/ /\ infos[j].ownership # "Observer" /\ ~ Open(m, j)
                       /\ Witnessed(m, infos, heap', w[j].ownership, infos[j].ownerPtr)
      <4>1. CASE j = id
        BY <1>9, <1>11, <1>20, <2>2, <2>10, <2>12, <4>1
      <4>2. CASE j # id
        BY <1>11, <4>2
      <4>. QED
        BY <4>1, <4>2
    <3>2. Settled(m, infos, heap') /\ Len(m) \in Nat
      BY <1>13, <2>7, <2>8, <2>9
    <3>3. DOMAIN infos \subseteq DOMAIN w /\ DOMAIN w \ DOMAIN infos = {}
      BY <1>11
    <3>. QED
      BY <2>11, <3>1, <3>2, <3>3, SettledTold
  <2>14. Ringless(heap')
    <3>1. CASE There.kind = "SharedObserver"
      BY <1>17, <1>18, <1>19, <3>1, RinglessKept
    <3>2. CASE There.kind = "SharedOwner"
      <4>1. PICK C : C = Done(stack, infos)
        OBVIOUS
      <4>2. ASSUME NEW r, NEW j, NEW x \in DOMAIN heap', Owns(heap', r, j, x)
            PROVE  /\ Owns(l, r, j, x) \/ (x = q /\ r = p)
                   /\ r \in C => x \in C
        <5>1. r \in DOMAIN heap
          BY <1>17, <4>2 DEF Owns, IsSlot
        <5>2. /\ IsSlot(l, r, j) /\ KindOf(l, r, j) \in {"Owner", "SharedOwner"} /\ heap'[r].to[j] = x
              /\ IsSlot(heap, r, j) /\ KindOf(heap, r, j) \in {"Owner", "SharedOwner"}
          BY <1>17, <4>2, <5>1, KeepsSlots DEF Keeps, Owns, Links, SameObject
        <5>3. CASE r = p /\ j = i
          BY <1>13, <1>14, <1>17, <3>2, <4>1, <5>2, <5>3
        <5>4. CASE ~ (r = p /\ j = i)
          <6>1. l[r].to[j] = x /\ heap[r].to[j] = x
            BY <1>17, <2>3, <5>2, <5>4 DEF Keeps
          <6>2. ASSUME r \in C PROVE x \in C
            <7>1. Passed(stack, infos, r, j) /\ ~ Around(stack, r, j)
              <8>1. \A k \in 1 .. Len(stack) - 1 : k \in 1 .. Len(stack)
                BY <1>13
              <8>. QED
                BY <4>1, <6>2, <8>1 DEF Passed, Around, Done
            <7>2. x # Null
              BY <1>17, NullIsNoObject
            <7>. QED
              BY <1>2, <4>1, <5>2, <6>1, <7>1, <7>2 DEF Settled, Led
          <6>. QED
            BY <5>2, <6>1, <6>2 DEF Owns
        <5>. QED
          BY <5>3, <5>4
      <4>3. q \in C /\ p \notin C
        BY <1>14, <2>2, <4>1
      <4>4. \A r, j : \A x \in DOMAIN heap' : Owns(heap', r, j, x) /\ r \in C => x \in C
        BY <4>2
      <4>5. \A r, j : \A x \in DOMAIN heap' : Owns(heap', r, j, x) => Owns(l, r, j, x) \/ (x \in C /\ r \notin C)
        BY <4>2, <4>3
      <4>. QED
        BY <1>17, <1>19, <4>4, <4>5, RinglessGrown
    <3>. QED
      BY <1>4, <3>1, <3>2
  <2>. QED
    BY <1>1, <1>10, <2>8, <2>13, <2>14
\* A weak pointer to what is being read.
<1>21. CASE Open(stack, id)
  <2>1. There.kind = "SharedObserver"
    BY <1>4, <1>21
  <2>2. PICK k \in 2 .. Len(stack) : stack[k].id = id
    BY <1>21 DEF Open
  <2>3. stack[k].at = q
    <3>1. k - 1 \in 1 .. Len(stack) - 1 /\ k = (k - 1) + 1
      BY <1>13
    <3>2. infos[id].sharedState \in {Null, stack[k].at}
      BY <1>2, <2>2, <3>1 DEF Reading, Nested
    <3>. QED
      BY <1>9, <3>2
  <2>4. SetTo(heap, l, infos[id].observers, q)
    BY <1>2, <1>7, <1>15, LinkedSets
  <2>5. Settled(stack, w, l)
    <3>1. ClaimedFor(infos, w, id, q)
      BY <1>11, <2>1 DEF ClaimedFor
    <3>2. BeingRead(stack, id, q)
      BY <2>2, <2>3 DEF BeingRead
    <3>3. Nested(stack, infos, heap)
      BY <1>2 DEF Reading
    <3>. QED
      BY <1>2, <1>17, <2>4, <3>1, <3>2, <3>3, SettledClaimed
  <2>6. Reached(stack, w) \subseteq DOMAIN l
    <3>1. ASSUME NEW j \in DOMAIN w PROVE w[j].ownerPtr \in {Null, q} \union Reached(stack, infos)
      BY <1>11 DEF Reached, ReadSet
    <3>2. Reached(stack, w) \subseteq {q} \union Reached(stack, infos)
      BY <3>1 DEF Reached, ReadSet
    <3>. QED
      BY <1>9, <1>14, <1>17, <3>2
  <2>7. Settled(stack, w, heap')
    BY <1>17, <1>18, <2>1, <2>5, <2>6, SettledKept
  <2>8. Settled(Moved, w, heap')
    BY <1>1, <1>12, <1>18, <2>1, <2>7, SettledGoesOn
  <2>9. Ringless(heap')
    BY <1>17, <1>18, <1>19, <2>1, RinglessKept
  <2>. QED
    BY <1>1, <1>10, <2>8, <2>9
<1>. QED
  BY <1>20, <1>21

LEMMA FilledKeeps ==
  ASSUME TypeInv, AtSlot, Ringless(heap), NEW n, NEW p, NEW i, IsHere(n, p, i), NEW type \in Types,
         NEW h, h = IF ~ Fits(type) THEN Created(Emptied(type), Here, type, MemResource(There)) ELSE heap
  PROVE  Keeps(heap, h, p, i) /\ Ringless(h)
<1>1. Here = <<p, i>> /\ IsSlot(heap, p, i) /\ Typed(heap) /\ program \in Programs
  BY DEF IsHere, TypeInv
<1>2. CASE Fits(type)
  BY <1>2, KeepsAll
<1>3. CASE ~ Fits(type)
  <2>1. PICK e : e = Emptied(type)
    OBVIOUS
  <2>2. PICK by \in Resources : by = MemResource(There)
    BY HereType
  <2>3. \/ e = heap
        \/ Held # Null /\ e = DestroyPtr(Here, by)
    BY <1>3, <2>1, <2>2 DEF Emptied
  <2>4. Keeps(heap, e, p, i) /\ Typed(e) /\ Ringless(e) /\ DOMAIN e = DOMAIN heap
    <3>1. CASE e = heap
      BY <1>1, <3>1, KeepsAll
    <3>2. CASE Held # Null /\ e = DestroyPtr(Here, by)
      <4>1. Keeps(heap, e, p, i) /\ e[p].to[i] = Null /\ Typed(e) /\ DOMAIN e = DOMAIN heap
        BY <3>2, DestroyKeepsOthers
      <4>. QED
        BY <1>1, <4>1, RinglessKept
    <3>. QED
      BY <2>3, <3>1, <3>2
  <2>5. IsSlot(e, p, i)
    <3>1. p \in DOMAIN heap
      BY <1>1 DEF IsSlot
    <3>. QED
      BY <1>1, <2>4, <3>1, KeepsSlots DEF Keeps
  <2>6. h = Created(e, <<p, i>>, type, by)
    BY <1>1, <1>3, <2>1, <2>2
  <2>7. PICK q : Makes(e, h, p, i, q, type, by)
    BY <1>1, <2>4, <2>5, <2>6, CreatedMakes
  <2>8. Typed(h)
    BY <1>1, <2>4, <2>5, <2>6, CreatedType DEF IsSlot
  <2>9. Ringless(h)
    BY <2>4, <2>5, <2>7, <2>8, RinglessMade
  <2>10. Keeps(e, h, p, i)
    BY <2>7, MakesKeeps
  <2>. QED
    BY <2>4, <2>9, <2>10, KeepsOn
<1>. QED
  BY <1>2, <1>3

LEMMA ReadObjectSettles ==
  ASSUME TypeInv, LivesInv, Disciplined, RootedInv, ReadObject
  PROVE  Ringless(heap') /\ (~ failed' => Settled(stack', infos', heap'))
<1>1. AtSlot /\ There.kind # "Observer" /\ ~ failed
  BY DEF ReadObject
<1>2. /\ Kept(heap) /\ Reading(stack, infos, heap) /\ Typed(heap) /\ program \in Programs /\ There.kind \in Kinds
      /\ Ringless(heap) /\ Settled(stack, infos, heap)
  BY <1>1, HereIs DEF LivesInv, AtSlot, TypeInv, RootedInv
<1>3. PICK id \in Unclaimed, index \in 1 .. Len(There.types) :
       LET type    == There.types[index]
           creates == ~Fits(type)
           filled  == IF creates
                        THEN Created(Emptied(type), Here, type, MemResource(There)) ELSE heap
           p       == At(filled, Here)
           info    == InfoById(id, There.kind)
           is      == With(id, [ info EXCEPT !.sharedState =
                                   IF SavedBefore(There, creates) THEN p ELSE @ ])
       IN  /\ creates => Cardinality(DOMAIN heap) <= program.objects
           /\ program.aliases \/ creates \/ p \notin ReadNow
           /\ infos' = is
           /\ heap' = Sweep(filled, States(is), {}, << >>)
           /\ stack' = Append(Moved, Frame(p, id, resource))
  BY DEF ReadObject
<1>4. PICK type : type = There.types[index]
  OBVIOUS
<1>5. type \in Types
  <2>1. There.types \in Seq(Types)
    BY <1>1, HereType DEF Pointers
  <2>. QED
    BY <1>4, <2>1
<1>6. PICK n, p, i : IsHere(n, p, i)
  BY <1>1, HereIs
<1>7. PICK h : h = IF ~ Fits(type) THEN Created(Emptied(type), Here, type, MemResource(There)) ELSE heap
  OBVIOUS
<1>8. PICK info : info = InfoById(id, There.kind)
  OBVIOUS
<1>9. PICK o : o = [ info EXCEPT !.sharedState = IF SavedBefore(There, ~Fits(type)) THEN At(h, Here) ELSE @ ]
  OBVIOUS
<1>10. /\ program.aliases \/ ~ Fits(type) \/ At(h, Here) \notin ReadNow
       /\ infos' = With(id, o)
       /\ heap' = Sweep(h, States(With(id, o)), {}, << >>)
       /\ stack' = Append(Moved, Frame(At(h, Here), id, resource))
  BY <1>3, <1>4, <1>7, <1>8, <1>9
<1>11. Fits(type) => Held \notin ReadSet(stack, infos)
  BY <1>7, <1>10 DEF Disciplined, ReadNow, ReadSet, Held
<1>12. PICK q : /\ At(h, Here) = q /\ h[p].to[i] = q /\ q \notin ReadSet(stack, infos) /\ q # Null
                /\ IsSlot(h, p, i) /\ KindOf(h, p, i) = There.kind
                /\ Typed(h) /\ Reading(stack, infos, h)
  BY <1>1, <1>2, <1>5, <1>6, <1>7, <1>11, FilledLife
<1>13. Keeps(heap, h, p, i) /\ Ringless(h)
  BY <1>1, <1>2, <1>5, <1>6, <1>7, FilledKeeps
<1>14. Fresh(stack, id, info)
  BY <1>1, <1>2, <1>8, UnclaimedIsFresh
<1>15. info \in Info
  BY <1>2, <1>8, InfoByIdType DEF TypeInv, Leading
<1>16. PICK w : w = With(id, o)
  OBVIOUS
<1>17. OpenedFor(infos, w, id, KindOf(h, p, i))
  <2>1. o.ownerPtr = Null /\ o.ownership = info.ownership /\ o.observers = info.observers
    BY <1>9, <1>14, <1>15 DEF Fresh, Info
  <2>2. DOMAIN w = DOMAIN infos \union {id} /\ \A j \in DOMAIN w : w[j] = IF j = id THEN o ELSE infos[j]
    BY <1>16 DEF With
  <2>3. CASE id \in DOMAIN infos
    <3>1. infos[id].ownership = "Observer" /\ infos[id].ownerPtr = Null /\ infos[id] \in Info
      <4>1. NewId \notin DOMAIN infos
        <5>1. Informed(infos, heap)
          BY <1>2 DEF Reading
        <5>2. PICK k \in Nat : DOMAIN infos = 1 .. k /\ NewId = k + 1
          BY <5>1, NewIdIsNext
        <5>. QED
          BY <5>2
      <4>2. infos[id].ownership = "Observer"
        BY <2>3, <4>1 DEF Unclaimed
      <4>. QED
        BY <1>14, <2>3, <4>2 DEF Fresh, TypeInv, Leads
    <3>2. info = [ infos[id] EXCEPT !.ownership = There.kind ]
      BY <1>1, <1>8, <2>3, <3>1 DEF InfoById, Update
    <3>3. info.ownership = There.kind /\ info.observers = infos[id].observers
      BY <3>1, <3>2 DEF Info
    <3>. QED
      BY <1>12, <2>1, <2>2, <3>1, <3>3 DEF OpenedFor
  <2>4. CASE id \notin DOMAIN infos
    <3>1. info.ownership = There.kind
      BY <1>8, <2>4 DEF InfoById, NewInfo
    <3>. QED
      BY <1>12, <2>1, <2>2, <2>4, <3>1 DEF OpenedFor
  <2>. QED
    BY <2>3, <2>4
<1>18. PICK s : s = stack'
  OBVIOUS
<1>19. /\ n \in Nat \ {0} /\ n = Len(stack) /\ Len(Moved) = n
       /\ \A k \in 1 .. n - 1 : Moved[k] = stack[k]
       /\ \A k \in 1 .. n : Moved[k].at = stack[k].at /\ Moved[k].id = stack[k].id
       /\ Moved[n].slot = stack[n].slot + 1
       /\ p = stack[n].at /\ i = stack[n].slot
  BY <1>1, <1>6, MovedFrames
<1>20. Enters(stack, s, q, id)
  <2>1. Moved \in Seq(Frames)
    BY <1>1, MovedType
  <2>2. PICK e : e = Frame(q, id, resource)
    OBVIOUS
  <2>3. e.at = q /\ e.id = id /\ e.slot = 1
    BY <2>2 DEF Frame
  <2>4. s = Append(Moved, e)
    BY <1>10, <1>12, <1>18, <2>2
  <2>5. Len(s) = n + 1 /\ s[n + 1] = e /\ \A k \in 1 .. n : s[k] = Moved[k]
    BY <1>19, <2>1, <2>4, AppendProperties
  <2>6. n \in 1 .. n /\ \A k \in 1 .. n - 1 : k \in 1 .. n
    BY <1>19
  <2>. QED
    BY <1>19, <2>3, <2>5, <2>6 DEF Enters
<1>21. Reached(stack, infos) \subseteq DOMAIN heap /\ Reached(stack, infos) = ReadSet(stack, infos)
       /\ ~ Passed(stack, infos, p, i)
  BY <1>1, <1>2, <1>6, HereIsNext, ReachedIsThere
<1>22. Settled(stack, infos, h)
  BY <1>2, <1>13, <1>21, SettledKept
<1>23. ~ Open(stack, id)
  BY <1>14 DEF Fresh, Open
<1>24. Settled(s, w, h)
  <2>1. /\ Nested(stack, infos, h) /\ q \notin Reached(stack, infos) /\ KindOf(h, p, i) # "Observer"
        /\ h[p].to[i] = q /\ q # Null
    BY <1>1, <1>12, <1>21 DEF Reading
  <2>. QED
    BY <1>17, <1>19, <1>20, <1>22, <1>23, <2>1, SettledPushed
<1>25. heap' = Sweep(h, States(w), {}, << >>) /\ infos' = w
  BY <1>10, <1>16
<1>26. /\ Keeps(h, heap', p, i) /\ DOMAIN heap' = DOMAIN h
       /\ KindOf(h, p, i) # "SharedObserver" => heap'[p].to[i] = h[p].to[i]
  BY <1>12, <1>25, SweptKeeps
<1>27. Typed(heap')
  BY <1>2, <1>12, <1>25, SweepType
<1>28. Ringless(heap')
  BY <1>12, <1>13, <1>26, <1>27, RinglessKept
<1>29. Reached(s, w) \subseteq DOMAIN h
  <2>1. Reading(stack', infos', heap')
    BY ReadObjectLives
  <2>. QED
    BY <1>18, <1>25, <1>26, <1>27, <2>1, ReachedIsThere
<1>30. Settled(s, w, heap')
  BY <1>24, <1>26, <1>29, SettledKept
<1>. QED
  BY <1>18, <1>25, <1>28, <1>30

LEMMA ReadReturnSettles ==
  ASSUME TypeInv, LivesInv, RootedInv, ReadReturn
  PROVE  Ringless(heap') /\ (~ failed' => Settled(stack', infos', heap'))
<1>1. phase = "reading" /\ failed' = failed /\ Last(stack).slot > Len(heap[Last(stack).at].to)
  BY DEF ReadReturn
<1>2. /\ Kept(heap) /\ Reading(stack, infos, heap) /\ Typed(heap) /\ program \in Programs
      /\ Ringless(heap) /\ (~ failed => Settled(stack, infos, heap))
  BY <1>1 DEF LivesInv, TypeInv, RootedInv
<1>3. PICK n \in Nat : n = Len(stack) /\ n > 1 /\ Last(stack) = stack[n]
  <2>1. PICK n : n = Len(stack)
    OBVIOUS
  <2>. QED
    BY <2>1, ReturnType
<1>4. Len(stack') = n - 1 /\ \A k \in 1 .. n - 1 : stack'[k] = stack[k]
  BY <1>3, ReturnType
<1>5. PICK m \in Nat \ {0} : m = n - 1
  <2>1. n - 1 \in Nat \ {0}
    BY <1>3, SMT
  <2>. QED
    BY <2>1
<1>6. /\ m \in 1 .. n - 1 /\ m + 1 = n /\ m \in 1 .. n /\ n \in 1 .. n /\ n \in 2 .. n
      /\ \A k \in 2 .. n : k \in 1 .. n
  BY <1>3, <1>5
<1>7. PICK p : p = stack[m].at
  OBVIOUS
<1>8. PICK i : i = stack[m].slot - 1
  OBVIOUS
<1>9. PICK q : q = stack[n].at
  OBVIOUS
<1>10. PICK id : id = stack[n].id
  OBVIOUS
<1>11. PICK info : info = infos[id]
  OBVIOUS
<1>12. PICK s : s = <<p, i>>
  OBVIOUS
<1>13. /\ IsSlot(heap, p, i) /\ heap[p].to[i] = q /\ KindOf(heap, p, i) # "Observer"
       /\ id \in DOMAIN infos /\ id \in Int
       /\ info.sharedState \in {Null, q} /\ info.ownerPtr \in {Null, q}
       /\ q \in DOMAIN heap
  <2>1. id \in Int
    BY <1>3, <1>10, ReturnType
  <2>. QED
    BY <1>2, <1>3, <1>6, <1>7, <1>8, <1>9, <1>10, <1>11, <2>1 DEF Reading, Nested
<1>14. KindOf(heap, p, i) \in {"Owner", "SharedOwner", "SharedObserver"}
  BY <1>2, <1>13, KindIsOne DEF Kinds
<1>15. /\ At(heap, s) = q
       /\ IsShared(Declared(heap, s)) <=> KindOf(heap, p, i) \in {"SharedOwner", "SharedObserver"}
  <2>1. At(heap, <<p, i>>) = heap[p].to[i] /\ Declared(heap, <<p, i>>).kind = KindOf(heap, p, i)
    BY <1>2, SlotsOfHeap
  <2>. QED
    BY <1>12, <1>13, <2>1 DEF IsShared
<1>16. IF IsShared(Declared(heap, s))
         THEN Shares(heap, s, id, [ info EXCEPT !.sharedState = IF @ = Null THEN At(heap, s) ELSE @ ])
         ELSE /\ infos' = With(id, Claimed(info, At(heap, s)))
              /\ heap' = Linked(heap, info, At(heap, s))
  BY <1>3, <1>5, <1>7, <1>8, <1>10, <1>11, <1>12 DEF ReadReturn
<1>17. info \in Info /\ Waits(heap, info) /\ Leading(info, heap)
  BY <1>2, <1>11, <1>13 DEF TypeInv, Leads, Leading, Reading, Informed, Told
<1>18. PICK w : w = infos'
  OBVIOUS
<1>19. PICK l : l = Linked(heap, info, q)
  OBVIOUS
\* In either case the observers are set, and the pointer holds the object
\* that it has held.
<1>20. /\ ClaimedFor(infos, w, id, q) /\ w[id].sharedState \in {Null, q}
       /\ Typed(l) /\ Links(heap, l) /\ Typed(heap')
       /\ DOMAIN heap' = DOMAIN heap /\ DOMAIN l = DOMAIN heap /\ Keeps(l, heap', p, i)
       /\ KindOf(heap, p, i) # "SharedObserver" => heap'[p].to[i] = q
  <2>1. ASSUME NEW c, w = With(id, c), c.ownerPtr = q, c.observers = {}, c.ownership = info.ownership,
                    c.sharedState \in {Null, q}
        PROVE  ClaimedFor(infos, w, id, q) /\ w[id].sharedState \in {Null, q}
    <3>1. DOMAIN w = DOMAIN infos \union {id} /\ \A j \in DOMAIN w : w[j] = IF j = id THEN c ELSE infos[j]
      BY <2>1 DEF With
    <3>. QED
      BY <1>11, <1>13, <2>1, <3>1 DEF ClaimedFor
  <2>2. CASE IsShared(Declared(heap, s))
    <3>1. PICK o : o = [ info EXCEPT !.sharedState = IF @ = Null THEN q ELSE @ ]
      OBVIOUS
    <3>2. Shares(heap, s, id, o)
      BY <1>15, <1>16, <2>2, <3>1
    <3>3. /\ o.sharedState = q /\ o.observers = info.observers /\ o.ownership = info.ownership
          /\ o.ownerPtr = info.ownerPtr /\ o \in Info
      <4>1. q \in Int
        BY <1>2, <1>13, ObjectsAreNumbers
      <4>. QED
        BY <1>13, <1>17, <3>1, <4>1 DEF Info
    <3>4. Waits(heap, o) /\ Leading(o, heap)
      BY <1>13, <1>17, <3>3 DEF Waits, Leading
    <3>5. Linked(heap, o, q) = l
      BY <1>19, <3>3 DEF Linked
    <3>6. /\ Typed(l) /\ Links(heap, l) /\ Typed(heap')
          /\ DOMAIN heap' = DOMAIN heap /\ DOMAIN l = DOMAIN heap /\ Keeps(l, heap', p, i)
          /\ KindOf(heap, p, i) # "SharedObserver" => heap'[p].to[i] = q
      BY <1>12, <1>13, <3>2, <3>3, <3>4, <3>5, SharesKeep
    <3>7. PICK c : c = Claimed(o, q)
      OBVIOUS
    <3>8. w = With(id, c)
      BY <1>18, <3>2, <3>3, <3>7 DEF Shares
    <3>9. c.ownerPtr = q /\ c.observers = {} /\ c.ownership = info.ownership /\ c.sharedState = q
      BY <3>3, <3>7 DEF Claimed, Info
    <3>. QED
      BY <2>1, <3>6, <3>8, <3>9
  <2>3. CASE ~ IsShared(Declared(heap, s))
    <3>1. PICK c : c = Claimed(info, q)
      OBVIOUS
    <3>2. w = With(id, c) /\ heap' = l
      BY <1>15, <1>16, <1>18, <1>19, <2>3, <3>1
    <3>3. c.ownerPtr = q /\ c.observers = {} /\ c.ownership = info.ownership /\ c.sharedState = info.sharedState
      BY <1>17, <3>1 DEF Claimed, Info
    <3>4. Typed(l) /\ Links(heap, l) /\ DOMAIN l = DOMAIN heap
      BY <1>2, <1>13, <1>17, <1>19, LinkedType, LinkedLinks
    <3>5. Keeps(l, l, p, i)
      BY KeepsAll
    <3>6. l[p].to[i] = q
      BY <1>13, <3>4 DEF Links
    <3>. QED
      BY <1>13, <2>1, <3>2, <3>3, <3>4, <3>5, <3>6
  <2>. QED
    BY <2>2, <2>3
<1>21. /\ IsSlot(l, p, i) /\ KindOf(l, p, i) = KindOf(heap, p, i) /\ l[p].to[i] = q
       /\ IsSlot(heap', p, i) /\ KindOf(heap', p, i) = KindOf(heap, p, i)
  <2>1. p \in DOMAIN heap
    BY <1>13 DEF IsSlot
  <2>2. IsSlot(l, p, i) /\ KindOf(l, p, i) = KindOf(heap, p, i)
    BY <1>13, <1>20, <2>1, KeepsSlots, SMTT(30) DEF Links, SameObject
  <2>3. l[p].to[i] = q
    BY <1>13, <1>20 DEF Links
  <2>. QED
    BY <1>20, <2>1, <2>2, <2>3, KeepsSlots DEF Keeps
<1>22. Ringless(heap')
  <2>1. Ringless(l)
    BY <1>2, <1>20, RinglessLinked
  <2>. QED
    BY <1>14, <1>20, <1>21, <2>1, RinglessKept
<1>23. ASSUME ~ failed'
       PROVE  Settled(stack', infos', heap')
  <2>1. Settled(stack, infos, heap) /\ Nested(stack, infos, heap)
    BY <1>1, <1>2, <1>23 DEF Reading
  <2>2. SetTo(heap, l, infos[id].observers, q)
    BY <1>2, <1>11, <1>19, LinkedSets
  <2>3. BeingRead(stack, id, q)
    BY <1>3, <1>6, <1>9, <1>10 DEF BeingRead
  <2>4. Settled(stack, w, l)
    BY <1>2, <1>20, <2>1, <2>2, <2>3, SettledClaimed
  <2>5. Nested(stack, w, l)
    <3>1. ASSUME NEW k \in 1 .. n
          PROVE  stack[k].at \in DOMAIN l /\ stack[k].slot \in Nat
      BY <1>3, <1>20, <2>1 DEF Nested
    <3>2. ASSUME NEW k \in 1 .. n - 1
          PROVE  /\ IsSlot(l, stack[k].at, stack[k].slot - 1)
                 /\ l[stack[k].at].to[stack[k].slot - 1] = stack[k + 1].at
                 /\ KindOf(l, stack[k].at, stack[k].slot - 1) # "Observer"
                 /\ KindOf(l, stack[k].at, stack[k].slot - 1) = KindOf(heap, stack[k].at, stack[k].slot - 1)
      <4>1. /\ IsSlot(heap, stack[k].at, stack[k].slot - 1)
            /\ heap[stack[k].at].to[stack[k].slot - 1] = stack[k + 1].at
            /\ KindOf(heap, stack[k].at, stack[k].slot - 1) # "Observer"
            /\ stack[k].at \in DOMAIN heap
        BY <1>3, <2>1 DEF Nested, IsSlot
      <4>. QED
        BY <1>20, <4>1, KeepsSlots DEF Links, SameObject
    <3>3. ASSUME NEW k \in 1 .. n - 1
          PROVE  /\ KindOf(heap, stack[k].at, stack[k].slot - 1) = "SharedObserver"
                      => w[stack[k + 1].id].sharedState = stack[k + 1].at
                 /\ stack[k + 1].id \in DOMAIN w
                 /\ w[stack[k + 1].id].sharedState \in {Null, stack[k + 1].at}
                 /\ w[stack[k + 1].id].ownerPtr \in {Null, stack[k + 1].at}
                 /\ w[stack[k + 1].id].ownership # "Observer"
      <4>1. /\ KindOf(heap, stack[k].at, stack[k].slot - 1) = "SharedObserver"
                 => infos[stack[k + 1].id].sharedState = stack[k + 1].at
            /\ stack[k + 1].id \in DOMAIN infos
            /\ infos[stack[k + 1].id].sharedState \in {Null, stack[k + 1].at}
            /\ infos[stack[k + 1].id].ownerPtr \in {Null, stack[k + 1].at}
            /\ infos[stack[k + 1].id].ownership # "Observer"
        BY <1>3, <2>1 DEF Nested
      <4>2. CASE stack[k + 1].id # id
        BY <1>20, <4>1, <4>2 DEF ClaimedFor
      <4>3. CASE stack[k + 1].id = id
        <5>1. k + 1 \in 2 .. n
          BY <1>3
        <5>2. k + 1 = n
          BY <1>3, <1>6, <1>10, <2>1, <4>3, <5>1 DEF Nested
        <5>3. KindOf(heap, stack[k].at, stack[k].slot - 1) = "SharedObserver" => w[id].sharedState = q
          <6>1. k = m
            BY <1>5, <1>6, <5>2
          <6>2. CASE KindOf(heap, p, i) = "SharedObserver"
            <7>1. PICK o : o = [ info EXCEPT !.sharedState = IF @ = Null THEN q ELSE @ ]
              OBVIOUS
            <7>2. Shares(heap, s, id, o)
              BY <1>15, <1>16, <6>2, <7>1
            <7>3. Claimed(o, o.sharedState).sharedState = q
              BY <1>13, <1>17, <7>1 DEF Claimed, Info
            <7>. QED
              BY <1>18, <7>2, <7>3 DEF Shares, With
          <6>. QED
            BY <1>7, <1>8, <6>1, <6>2
        <5>. QED
          BY <1>9, <1>13, <1>20, <4>1, <4>3, <5>2, <5>3 DEF ClaimedFor
      <4>. QED
        BY <4>2, <4>3
    <3>4. /\ Len(stack) \in Nat \ {0} /\ stack[1].at = Root
          /\ \A j, k \in 1 .. Len(stack) : stack[j].at = stack[k].at => j = k
          /\ \A j, k \in 2 .. Len(stack) : stack[j].id = stack[k].id => j = k
      BY <2>1 DEF Nested
    <3>. QED
      BY <1>3, <3>1, <3>2, <3>3, <3>4 DEF Nested
  <2>6. PICK f : f = stack'
    OBVIOUS
  <2>7. Settled(f, w, l)
    <3>1. l[q].to = l[stack[n].at].to /\ Len(l[q].to) = Len(heap[q].to)
      BY <1>9, <1>13, <1>20 DEF Links, SameObject
    <3>2. stack[n].slot > Len(l[stack[n].at].to)
      BY <1>1, <1>3, <1>9, <3>1
    <3>3. w[id].ownerPtr = stack[n].at /\ w[id].observers = {}
      BY <1>9, <1>20 DEF ClaimedFor
    <3>4. Len(f) = n - 1 /\ \A k \in 1 .. n - 1 : f[k] = stack[k]
      BY <1>4, <2>6
    <3>. QED
      BY <1>3, <1>10, <1>20, <2>4, <2>5, <3>2, <3>3, <3>4, SettledPopped
  <2>8. Reached(f, w) \subseteq DOMAIN l
    <3>1. Reading(stack', infos', heap')
      BY ReadReturnLives
    <3>. QED
      BY <1>18, <1>20, <2>6, <3>1, ReachedIsThere
  <2>9. Settled(f, w, heap')
    BY <1>20, <1>21, <2>7, <2>8, SettledKept
  <2>. QED
    BY <1>18, <2>6, <2>9
<1>. QED
  BY <1>22, <1>23

-----------------------------------------------------------------------------
(***************************************************************************)
(* When a document has been read.                                          *)
(***************************************************************************)
\* A document has led to nothing when it begins.
LEMMA SettledBegun ==
  ASSUME NEW h, NEW f, f = << Frame(Root, 0, NewDelete) >>, NEW is, is = [ id \in {} |-> 0 ]
  PROVE  Settled(f, is, h)
<1>1. Len(f) = 1 /\ f[1].at = Root /\ f[1].slot = 1
  BY DEF Frame
<1>2. DOMAIN is = {} /\ 1 .. Len(f) = {1} /\ 1 .. Len(f) - 1 = {}
  BY <1>1
<1>3. Reached(f, is) = {Root}
  <2>1. { f[k].at : k \in {1} } = {Root}
    BY <1>1
  <2>. QED
    BY <1>2, <2>1 DEF Reached, ReadSet
<1>4. Done(f, is) = {}
  BY <1>1, <1>2, <1>3 DEF Done
<1>5. \A p, i : IsSlot(h, p, i) => ~ Passed(f, is, p, i)
  BY <1>1, <1>2, <1>4 DEF Passed, IsSlot
<1>6. Led(f, is, h)
  BY <1>5 DEF Led
<1>. QED
  BY <1>2, <1>6 DEF Settled

\* When the shared state of a document that was read to its end, and is
\* valid, is cleared: what it led to is held up without the state, and the
\* rest of what lives has owners that live, which would have to form a ring.
LEMMA ClearedIsSafe ==
  ASSUME NEW h, Typed(h), program \in Programs, Kept(h), Ringless(h), Possessed(h, {}),
         NEW is, NEW e, e = << >>, Settled(e, is, h),
         \A q \in Reached(e, is) : q \in DOMAIN h /\ Lives(h, q),
         \A id \in DOMAIN is : is[id].ownership \in {"SharedOwner", "Owner"},
         NEW g, g = Sweep(h, {}, {}, << >>)
  PROVE  \A p, i : IsSlot(g, p, i) /\ Lives(g, p) /\ g[p].to[i] # Null => Lives(g, g[p].to[i])
<1>1. PICK V : V = Reached(e, is)
  OBVIOUS
<1>2. 1 .. Len(e) = {} /\ 1 .. Len(e) - 1 = {} /\ 2 .. Len(e) = {}
  BY SMT
<1>3. Done(e, is) = V /\ (\A p, i : Passed(e, is, p, i) <=> p \in V) /\ (\A p, i : ~ Around(e, p, i))
  BY <1>1, <1>2 DEF Done, Passed, Around
<1>4. \A id \in DOMAIN is : /\ is[id].ownerPtr \in V /\ is[id].observers = {}
                            /\ Witnessed(e, is, h, is[id].ownership, is[id].ownerPtr)
  <2>. SUFFICES ASSUME NEW id \in DOMAIN is
                PROVE  /\ is[id].ownerPtr \in V /\ is[id].observers = {}
                       /\ Witnessed(e, is, h, is[id].ownership, is[id].ownerPtr)
    OBVIOUS
  <2>1. ~ Open(e, id) /\ is[id].ownership # "Observer"
    BY <1>2 DEF Open
  <2>2. Claims(e, is, h, id)
    BY <2>1 DEF Settled
  <2>. QED
    BY <1>3, <2>2 DEF Claims
<1>5. PICK D : D = Dying(h, {}, {})
  OBVIOUS
<1>6. Swept(h, g, D)
  BY <1>5, SweepSwept
<1>7. \A r, j : /\ IsSlot(g, r, j) <=> IsSlot(h, r, j)
                /\ IsSlot(h, r, j) => KindOf(g, r, j) = KindOf(h, r, j)
  BY <1>6, SlotsSame DEF Swept
<1>8. HeldUp(V, h, {})
  <2>1. ASSUME NEW q \in V, q # Root
        PROVE  \E kind \in {"SharedOwner", "Owner"} : Witnessed(e, is, h, kind, q)
    <3>1. PICK id \in DOMAIN is : q = is[id].ownerPtr
      BY <1>1, <1>2, <2>1 DEF Reached, ReadSet
    <3>. QED
      BY <1>4, <3>1
  <2>2. ASSUME NEW q \in V, q # Root
        PROVE  \E p, i : /\ IsSlot(h, p, i) /\ h[p].to[i] = q /\ p \in V
                         /\ KindOf(h, p, i) = IF h[q].deleter = << >> THEN "Owner" ELSE "SharedOwner"
    <3>1. PICK kind \in {"SharedOwner", "Owner"} : Witnessed(e, is, h, kind, q)
      BY <2>1, <2>2
    <3>2. PICK p, i : IsSlot(h, p, i) /\ KindOf(h, p, i) = kind /\ p \in V /\ h[p].to[i] = q
      BY <1>3, <3>1 DEF Witnessed
    <3>3. q # Null
      BY <1>1, NullIsNoObject
    <3>4. Holds(h, p, i, q)
      BY <3>2, <3>3 DEF Kept
    <3>. QED
      BY <3>2, <3>4 DEF Holds
  <2>3. Root \in V => h[Root].deleter = << >>
    BY DEF Kept
  <2>. QED
    BY <1>1, <2>2, <2>3 DEF HeldUp
<1>9. \A q \in V : q \in DOMAIN g /\ Lives(g, q)
  <2>1. V \intersect D = {}
    BY <1>5, <1>8, HeldUpStays
  <2>. QED
    BY <1>1, <1>6, <2>1 DEF Swept
<1>10. Kept(g) /\ Typed(g)
  <2>1. Loose(h, {})
    BY DEF Loose
  <2>. QED
    BY <2>1, SweepKept, SweepType DEF Way
<1>11. Ringless(g)
  <2>1. DOMAIN g = DOMAIN h
    BY <1>6 DEF Swept
  <2>2. PICK p, i : p = Null /\ i = 0
    OBVIOUS
  <2>3. Keeps(h, g, p, i)
    BY SweptKeeps
  <2>4. ~ IsSlot(h, p, i)
    BY <2>2 DEF IsSlot
  <2>. QED
    BY <1>10, <2>1, <2>3, <2>4, RinglessKept
<1>12. Possessed(g, {}) /\ Retained(g, {})
  BY SweepHolds
<1>13. ASSUME NEW q \in DOMAIN g, Lives(g, q)
       PROVE  q \in V
  <2>1. PICK S : S = { r \in DOMAIN g : Lives(g, r) /\ r \notin V }
    OBVIOUS
  <2>2. SUFFICES ASSUME S # {} PROVE FALSE
    BY <1>13, <2>1
  <2>3. PICK r \in S : \A p \in S : \A i : ~ Owns(g, p, i, r)
    BY <1>11, <2>1, <2>2 DEF Ringless
  <2>4. r \in DOMAIN g \ {Root} /\ Lives(g, r) /\ r \notin V
    BY <1>1, <2>1, <2>3 DEF Reached
  <2>5. PICK kind \in {"Owner", "SharedOwner"} : HeldBy(g, kind, r)
    BY <1>12, <2>4 DEF Possessed, Retained
  <2>6. PICK p, i : IsSlot(g, p, i) /\ KindOf(g, p, i) = kind /\ Lives(g, p) /\ g[p].to[i] = r
    BY <2>5 DEF HeldBy
  <2>7. p \in V
    BY <2>1, <2>3, <2>6 DEF Owns, IsSlot
  <2>8. IsSlot(h, p, i) /\ KindOf(h, p, i) = kind /\ h[p].to[i] = r
    BY <1>6, <1>7, <2>6 DEF Swept
  <2>9. r # Null
    BY <1>10, <2>4, NullIsNoObject
  <2>10. Led(e, is, h)
    BY DEF Settled
  <2>. QED
    BY <1>3, <2>4, <2>7, <2>8, <2>9, <2>10 DEF Led
<1>14. ASSUME NEW p, NEW i, IsSlot(g, p, i), Lives(g, p), g[p].to[i] # Null
       PROVE  Lives(g, g[p].to[i])
  <2>1. CASE KindOf(g, p, i) = "Observer"
    <3>1. p \in V
      BY <1>13, <1>14 DEF IsSlot
    <3>2. IsSlot(h, p, i) /\ KindOf(h, p, i) = "Observer" /\ h[p].to[i] = g[p].to[i]
      BY <1>6, <1>7, <1>14, <2>1 DEF Swept
    <3>3. g[p].to[i] \in Reached(e, is) \/ \E id \in DOMAIN is : <<p, i>> \in is[id].observers
      BY <1>3, <1>14, <3>1, <3>2 DEF Settled, Led
    <3>. QED
      BY <1>1, <1>4, <1>9, <3>3
  <2>2. CASE KindOf(g, p, i) # "Observer"
    <3>1. KindOf(g, p, i) \in Kinds
      BY <1>10, <1>14, KindIsOne
    <3>2. Holds(g, p, i, g[p].to[i])
      BY <1>10, <1>14 DEF Kept
    <3>. QED
      BY <1>14, <2>2, <3>1, <3>2 DEF Holds, Kinds
  <2>. QED
    BY <2>1, <2>2
<1>. QED
  BY <1>14

LEMMA RootedNow ==
  ASSUME program' = program, Ringless(heap'),
         phase' = "reading" /\ ~ failed' => Settled(stack', infos', heap'),
         phase' = "read" /\ ~ failed' =>
           /\ Settled(<< >>, infos', heap')
           /\ \A q \in Reached(<< >>, infos') : q \in DOMAIN heap' /\ Lives(heap', q)
  PROVE  RootedInv'
<1>1. Ringless(heap)' <=> Ringless(heap')
  BY SMTT(30) DEF Ringless, Owns, IsSlot, KindOf, PointersOf
<1>2. Settled(stack, infos, heap)' <=> Settled(stack', infos', heap')
  <2>1. Led(stack, infos, heap)' <=> Led(stack', infos', heap')
    BY DEF Led, Passed, Done, Reached, ReadSet, Around, IsSlot, KindOf, PointersOf
  <2>2. \A id : Claims(stack, infos, heap, id)' <=> Claims(stack', infos', heap', id)
    BY DEF Claims, Witnessed, Passed, Done, Reached, ReadSet, IsSlot, KindOf, PointersOf
  <2>. QED
    BY <2>1, <2>2 DEF Settled, Open, KindOf, PointersOf
<1>3. PICK e : e = << >>
  OBVIOUS
<1>4. Settled(<< >>, infos, heap)' <=> Settled(e, infos', heap')
  <2>1. Led(<< >>, infos, heap)' <=> Led(e, infos', heap')
    BY <1>3 DEF Led, Passed, Done, Reached, ReadSet, Around, IsSlot, KindOf, PointersOf
  <2>2. \A id : Claims(<< >>, infos, heap, id)' <=> Claims(e, infos', heap', id)
    BY <1>3 DEF Claims, Witnessed, Passed, Done, Reached, ReadSet, IsSlot, KindOf, PointersOf
  <2>. QED
    BY <1>3, <2>1, <2>2 DEF Settled, Open, KindOf, PointersOf
<1>5. Reached(<< >>, infos)' = Reached(e, infos')
  BY <1>3 DEF Reached, ReadSet
<1>6. phase' = "read" /\ ~ failed' =>
        Settled(e, infos', heap') /\ \A q \in Reached(e, infos') : q \in DOMAIN heap' /\ Lives(heap', q)
  BY <1>3
<1>. QED
  BY <1>1, <1>2, <1>4, <1>5, <1>6 DEF RootedInv, Lives

LEMMA RootedInit == Init => RootedInv
<1>. SUFFICES ASSUME Init PROVE RootedInv
  OBVIOUS
<1>1. /\ phase = "reading" /\ stack = << Frame(Root, 0, NewDelete) >> /\ infos = [ id \in {} |-> 0 ]
      /\ DOMAIN heap = {Root}
  BY DEF Init
<1>2. Settled(stack, infos, heap)
  BY <1>1, SettledBegun
<1>3. Typed(heap) /\ Kept(heap)
  BY TypeInit, KeptInit DEF TypeInv
<1>4. \A i : ~ Owns(heap, Root, i, Root)
  <2>. SUFFICES ASSUME NEW i, Owns(heap, Root, i, Root) PROVE FALSE
    OBVIOUS
  <2>1. PICK o : o = NewObject("Root", NewDelete)
    OBVIOUS
  <2>2. NewDelete \in Resources /\ "Root" \in Types \union {"Root"} /\ program \in Programs
    BY TypeInit DEF Resources, TypeInv
  <2>3. \A j \in 1 .. Len(o.to) : o.to[j] = Null
    BY <2>1, <2>2, NewObjectType
  <2>4. heap[Root] = o
    BY <2>1 DEF Init
  <2>. QED
    BY <1>3, <2>3, <2>4, NullIsNoObject DEF Owns, IsSlot
<1>5. Ringless(heap)
  BY <1>1, <1>4 DEF Ringless
<1>. QED
  BY <1>1, <1>2, <1>5 DEF RootedInv

\* Live objects lead to live ones.
LeadsToLive(h) == \A p, i : IsSlot(h, p, i) /\ Lives(h, p) /\ h[p].to[i] # Null => Lives(h, h[p].to[i])

ClearedInv == phase = "cleared" /\ ~ failed /\ IsValid => LeadsToLive(heap)

LEMMA RootedNext ==
  ASSUME TypeInv, LivesInv, OwnInv, RootedInv, ClearedInv, Disciplined, [Next]_vars
  PROVE  RootedInv' /\ ClearedInv'
<1>1. program' = program
  BY Zenon DEF Next, vars, ReadNull, ReadObserver, ReadKnown, ReadObject, ReadUnknownType,
               ThrowBadWeakPtr, ReadReturn, EndOfData, Finish, ClearSharedState, NextDocument
<1>2. Typed(heap) /\ Kept(heap) /\ program \in Programs /\ Ringless(heap)
  BY DEF TypeInv, LivesInv, RootedInv
<1>3. ASSUME phase' = "reading", Ringless(heap'), ~ failed' => Settled(stack', infos', heap')
      PROVE  RootedInv' /\ ClearedInv'
  BY <1>1, <1>3, RootedNow DEF ClearedInv
<1>4. CASE ReadNull
  <2>1. phase' = "reading"
    BY <1>4, Zenon DEF ReadNull, AtSlot
  <2>. QED
    BY <1>3, <1>4, <2>1, ReadNullSettles
<1>5. CASE ReadObserver
  <2>1. phase' = "reading"
    BY <1>5, Zenon DEF ReadObserver, AtSlot
  <2>. QED
    BY <1>3, <1>5, <2>1, ReadObserverSettles
<1>6. CASE ReadKnown
  <2>1. phase' = "reading"
    BY <1>6, Zenon DEF ReadKnown, AtSlot
  <2>. QED
    BY <1>3, <1>6, <2>1, ReadKnownSettles
<1>7. CASE ReadObject
  <2>1. phase' = "reading"
    BY <1>7, Zenon DEF ReadObject, AtSlot
  <2>. QED
    BY <1>3, <1>7, <2>1, ReadObjectSettles
<1>8. CASE ReadUnknownType
  <2>1. phase' = "reading"
    BY <1>8, Zenon DEF ReadUnknownType, AtSlot
  <2>. QED
    BY <1>3, <1>8, <2>1, ReadUnknownTypeSettles
<1>9. CASE ReadReturn
  <2>1. phase' = "reading"
    BY <1>9, Zenon DEF ReadReturn
  <2>. QED
    BY <1>3, <1>9, <2>1, ReadReturnSettles
<1>10. CASE ThrowBadWeakPtr
  <2>1. AtSlot /\ There.polymorphic /\ There.kind = "SharedObserver"
    BY <1>10 DEF ThrowBadWeakPtr
  <2>. QED
    BY <2>1, WeakIsPlain
<1>11. CASE EndOfData
  <2>1. phase' = "reading" /\ failed' /\ heap' = heap
    BY <1>11 DEF EndOfData, AtSlot
  <2>. QED
    BY <1>2, <1>3, <2>1
<1>12. CASE Finish
  <2>1. /\ phase = "reading" /\ Len(stack) = 1 /\ Last(stack).slot > Len(heap[Root].to)
        /\ phase' = "read" /\ heap' = heap /\ infos' = infos /\ failed' = failed
    BY <1>12 DEF Finish
  <2>2. Last(stack) = stack[1]
    BY <2>1 DEF Last
  <2>3. ASSUME ~ failed
        PROVE  /\ Settled(<< >>, infos', heap')
               /\ \A q \in Reached(<< >>, infos') : q \in DOMAIN heap' /\ Lives(heap', q)
    <3>1. Reading(stack, infos, heap) /\ Settled(stack, infos, heap)
      BY <2>1, <2>3 DEF LivesInv, RootedInv
    <3>2. PICK is, h, f : is = infos /\ h = heap /\ f = stack
      OBVIOUS
    <3>3. Settled(<< >>, is, h) /\ \A q \in Reached(<< >>, is) : q \in DOMAIN h /\ Lives(h, q)
      BY <1>2, <2>1, <2>2, <3>1, <3>2, SettledFinished
    <3>. QED
      BY <2>1, <3>2, <3>3
  <2>. QED
    BY <1>1, <1>2, <2>1, <2>3, RootedNow DEF ClearedInv
<1>13. CASE ClearSharedState
  <2>1. /\ phase = "read" /\ phase' = "cleared" /\ failed' = failed
        /\ heap' = Sweep(heap, {}, {}, << >>)
        /\ infos' = [ id \in DOMAIN infos |-> [ infos[id] EXCEPT !.sharedState = Null ] ]
    BY <1>13 DEF ClearSharedState
  <2>2. PICK g : g = Sweep(heap, {}, {}, << >>)
    OBVIOUS
  <2>3. Ringless(g)
    <3>1. Typed(g)
      BY <1>2, <2>2, SweepType
    <3>2. PICK p, i : p = Null /\ i = 0
      OBVIOUS
    <3>3. Keeps(heap, g, p, i) /\ DOMAIN g = DOMAIN heap
      BY <1>2, <2>2, SweptKeeps
    <3>4. ~ IsSlot(heap, p, i)
      BY <3>2 DEF IsSlot
    <3>. QED
      BY <1>2, <3>1, <3>3, <3>4, RinglessKept
  <2>4. ASSUME ~ failed, \A id \in DOMAIN infos : infos[id].ownership \in {"SharedOwner", "Owner"}
        PROVE  LeadsToLive(g)
    <3>1. PICK e : e = << >>
      OBVIOUS
    <3>2. Settled(e, infos, heap) /\ \A q \in Reached(e, infos) : q \in DOMAIN heap /\ Lives(heap, q)
      BY <2>1, <2>4, <3>1 DEF RootedInv
    <3>3. Possessed(heap, {})
      BY DEF OwnInv
    <3>. QED
      BY <1>2, <2>2, <2>4, <3>1, <3>2, <3>3, ClearedIsSafe DEF LeadsToLive
  <2>5. IsValid' => \A id \in DOMAIN infos : infos[id].ownership \in {"SharedOwner", "Owner"}
    <3>1. \A id \in DOMAIN infos : infos[id] \in Info
      BY DEF TypeInv, Leads
    <3>2. \A id \in DOMAIN infos : infos'[id].ownership = infos[id].ownership
      BY <2>1, <3>1 DEF Info
    <3>. QED
      BY <2>1, <3>2 DEF IsValid
  <2>6. LeadsToLive(heap)' <=> LeadsToLive(heap')
    BY DEF LeadsToLive, IsSlot, Lives
  <2>7. ClearedInv'
    BY <2>1, <2>2, <2>4, <2>5, <2>6 DEF ClearedInv
  <2>. QED
    BY <1>1, <2>1, <2>2, <2>3, <2>7, RootedNow
<1>14. CASE NextDocument
  <2>1. /\ phase' = "reading" /\ heap' = heap /\ stack' = << Frame(Root, 0, NewDelete) >>
        /\ infos' = [ id \in {} |-> 0 ]
    BY <1>14 DEF NextDocument
  <2>2. Settled(stack', infos', heap')
    BY <2>1, SettledBegun
  <2>. QED
    BY <1>2, <1>3, <2>1, <2>2
<1>15. CASE UNCHANGED vars
  <2>1. /\ phase' = phase /\ failed' = failed /\ heap' = heap /\ infos' = infos /\ stack' = stack
    BY <1>15 DEF vars
  <2>2. RootedInv'
    BY <1>1, <2>1, RootedNow DEF RootedInv
  <2>3. ClearedInv'
    BY <2>1 DEF ClearedInv, IsValid, LeadsToLive, IsSlot, Lives
  <2>. QED
    BY <2>2, <2>3
<1>. QED
  BY <1>4, <1>5, <1>6, <1>7, <1>8, <1>9, <1>10, <1>11, <1>12, <1>13, <1>14, <1>15 DEF Next

LEMMA NothingDead ==
  ASSUME TypeInv, ClearedInv
  PROVE  NothingDangles
<1>. SUFFICES ASSUME LeadsToLive(heap), NEW s \in SlotsOf(heap), Lives(heap, s[1]), At(heap, s) # Null
              PROVE  Lives(heap, At(heap, s))
  BY DEF NothingDangles, ClearedInv
<1>1. IsSlot(heap, s[1], s[2]) /\ At(heap, s) = heap[s[1]].to[s[2]]
  BY SlotsOfHeap DEF TypeInv, At
<1>. QED
  BY <1>1 DEF LeadsToLive

\* In a disciplined program: when a document was read to its end without an
\* error, its context is valid and its shared state is cleared, no pointer
\* of a live object leads to one that was released, raw pointers included.
\* The document may have replaced, and released, what earlier documents left
\* behind the same pointers; clearSharedState releases what only the shared
\* state kept, which no raw pointer may refer to then.
THEOREM NothingIsLeftBehind == Spec => [](Disciplined => NothingDangles)
<1>. DEFINE Inv == TypeInv /\ (Disciplined => LivesInv /\ OwnInv /\ RootedInv /\ ClearedInv)
<1>1. Init => Inv
  <2>1. Init => ClearedInv
    BY DEF Init, ClearedInv
  <2>. QED
    BY <2>1, TypeInit, LivesInit, OwnInit, RootedInit
<1>2. Inv /\ [Next]_vars => Inv'
  <2>. SUFFICES ASSUME Inv, [Next]_vars PROVE Inv'
    OBVIOUS
  <2>1. TypeInv'
    BY TypeNext
  <2>2. ASSUME Disciplined' PROVE LivesInv' /\ OwnInv' /\ RootedInv' /\ ClearedInv'
    <3>1. Disciplined
      BY <2>2, DisciplinedNext
    <3>. QED
      BY <3>1, LivesNext, OwnNext, RootedNext
  <2>. QED
    BY <2>1, <2>2
<1>3. Inv => (Disciplined => NothingDangles)
  BY NothingDead
<1>. QED
  BY <1>1, <1>2, <1>3, PTL DEF Spec

=============================================================================
