--------------------------- MODULE PointerLinking ---------------------------
(***************************************************************************)
(* Serialization of object graphs: the linking contexts and the protocol   *)
(* of include/bitsery/ext/utils/pointer_utils.h with the managers of       *)
(* ext/pointer.h and ext/eastl_smart_ptr.h.                                *)
(*                                                                         *)
(* A program's objects hold pointers in slots; the root holds RootSlots,   *)
(* every other object ObjectSlots.  The writer goes through the slots of   *)
(* the root; the first pointer to an object writes an id and the object,   *)
(* whose own slots are gone through at once.  So both sides are recursive, *)
(* and a stack of frames, one for each object being processed, stands for  *)
(* the call stack: what the code does after the recursive call is done in  *)
(* the action that pops the frame.                                         *)
(*                                                                         *)
(* The stream is a sequence of numbers: ids, and behind the first id of an *)
(* owned object the object's value.                                        *)
(***************************************************************************)
EXTENDS Integers, Sequences, FiniteSets, SequencesExt

CONSTANTS Programs, \* what a program's types fix and its environment does
          Heaps     \* objects that a reader's program may have beforehand

Null == -1
Root == 0

\* PointerOwnershipType, and ReferencedByPointer: an owner in place.
Kinds == {"Observer", "Owner", "SharedOwner", "SharedObserver", "Reference"}
Ownership(kind) == IF kind = "Reference" THEN "Owner" ELSE kind
IsShared(kind)  == kind \in {"SharedOwner", "SharedObserver"}
Owns(kind)      == Ownership(kind) \in {"Owner", "SharedOwner"}

Program ==
  [ objects     : Nat,                         \* how many the writer may have
    root        : Seq(Kinds),                  \* kinds of the root's pointers
    object      : Seq(Kinds \ {"Reference"}),  \* kinds of an object's pointers
    polymorphic : BOOLEAN,  \* objects are created by a polymorphic handler
    existing    : BOOLEAN,  \* the reader's slots may hold objects beforehand
    heaps       : SUBSET Heaps, \* and which, other than one of its own each
    truncates   : BOOLEAN ] \* the reader may get a part of the stream only

ASSUME ProgramsAssumption == Programs \subseteq Program

\* A larger id is written in 2 or 4 bytes, and one that is cut between them
\* is read as another id: with a part of the stream only small ids are
\* modelled.
MaxOneByteId == 127
ASSUME CutIdsAssumption ==
  \A p \in Programs : p.truncates => p.objects <= MaxOneByteId

VARIABLES
  program, \* one of Programs, fixed
  phase,  \* "writing", "reading", "done"
  graph,  \* the writer's pointers: what each slot points to
  winfo,  \* _ptrMap: what the writer knows of the objects it met
  wstack, \* the writer's objects in progress, each with its next slot
  stream, \* what was written
  heap,   \* the reader's objects: value and pointers
  rinfo,  \* _idMap: what the reader knows of the ids it met
  rstack, \* the reader's objects in progress
  pos,    \* how much of the stream was read
  end,    \* how much of the stream the reader has
  failed  \* whether the reader raised InvalidPointer

vars == <<program, phase, graph, winfo, wstack, stream, heap, rinfo, rstack, pos, end, failed>>
writerVars == <<program, graph, winfo, wstack, stream>>
readerVars == <<heap, rinfo, rstack, pos, failed>>

Objects     == 1 .. program.objects
RootSlots   == program.root
ObjectSlots == program.object
Polymorphic == program.polymorphic

KindsOf(h) == IF h = Root THEN RootSlots ELSE ObjectSlots
SlotsOf(h) == { <<h, i>> : i \in 1 .. Len(KindsOf(h)) }
Slots      == UNION { SlotsOf(h) : h \in Objects \union {Root} }
Kind(s)    == KindsOf(s[1])[s[2]]

-----------------------------------------------------------------------------
\* What the code asserts or the types enforce: an object has one Owner or is
\* shared, and a reference is never null.
WellOwned(g) ==
  /\ \A s \in Slots : Kind(s) = "Reference" => g[s] # Null
  /\ \A o \in Objects :
       LET owners == { s \in Slots : g[s] = o /\ Ownership(Kind(s)) = "Owner" }
           shares == { s \in Slots : g[s] = o /\ IsShared(Kind(s)) }
       IN  Cardinality(owners) <= 1 /\ (owners # {} => shares = {})

\* What is read while h is, through at most as many pointers as there are
\* objects.  Observers are not read through; all others are: behind the first
\* pointer to an object, an owner, a shared or a weak one, comes the object.
Reached(g, h) ==
  LET within[k \in 0 .. Cardinality(Objects)] ==
        IF k = 0 THEN {h}
        ELSE LET near == within[k - 1]
             IN  near \union
                 { g[s] : s \in { t \in Slots : t[1] \in near /\ Kind(t) # "Observer"
                                                /\ g[t] # Null } }
  IN  within[Cardinality(Objects)]

\* No owner, no shared and no weak pointer leads back to the object it is in.
Acyclic(g) ==
  \A s \in Slots : Kind(s) # "Observer" /\ g[s] # Null => s[1] \notin Reached(g, g[s])

\* What the writer never comes to is of no interest.
Tidy(g) == \A s \in Slots : s[1] \in Reached(g, Root) \/ g[s] = Null

\* A new object of the reader's: slots that are null.  The value 0 stands for
\* any an object has that was not read.
NewObject == [ value |-> 0, to |-> [ i \in 1 .. Len(ObjectSlots) |-> Null ] ]

\* The root's slots that hold an object of their own before reading.
Holds(i, held) == RootSlots[i] = "Reference" \/ i \in held

InitialHeap(held) ==
  [ h \in 0 .. Len(RootSlots) |->
      IF h = Root
        THEN [ value |-> 0,
               to |-> [ i \in 1 .. Len(RootSlots) |->
                          IF Holds(i, held) THEN i ELSE Null ] ]
        ELSE NewObject ]

\* What the reader's slots may hold.
InitialHeaps ==
  IF program.existing
    THEN { InitialHeap(held) : held \in SUBSET (1 .. Len(RootSlots)) } \union program.heaps
    ELSE { InitialHeap({}) }

Init ==
  /\ program \in Programs
  /\ phase = "writing"
  /\ graph \in { g \in [ Slots -> Objects \union {Null} ] :
                   WellOwned(g) /\ Tidy(g) }
  /\ winfo = [ o \in {} |-> 0 ] /\ wstack = << [ at |-> Root, slot |-> 1 ] >>
  /\ stream = << >>
  /\ heap \in InitialHeaps
  /\ rinfo = [ id \in {} |-> 0 ]
  /\ rstack = << [ at |-> Root, slot |-> 1, id |-> 0 ] >>
  /\ pos = 0 /\ end = 0 /\ failed = FALSE

-----------------------------------------------------------------------------
AtSlot(stack) == stack # << >> /\ Last(stack).slot <= Len(KindsOf(Last(stack).at))
AtEnd(stack)  == stack # << >> /\ Last(stack).slot > Len(KindsOf(Last(stack).at))

\* The slot a frame is at, and the stack when the frame goes on.
Here(stack)  == << Last(stack).at, Last(stack).slot >>
Moved(stack) == [ stack EXCEPT ![Len(stack)].slot = @ + 1 ]

\* The first time an object is shared it does not count as processed.
Update_Bug(info, kind) ==
  IF kind = "Observer" THEN info
  ELSE IF info.ownership = "Observer" THEN [ info EXCEPT !.ownership = kind ]
  ELSE IF kind = "SharedOwner" /\ info.ownership = "SharedObserver"
         THEN [ info EXCEPT !.ownership = kind ]
         ELSE [ info EXCEPT !.isSharedProcessed = TRUE ]

\* PLCInfo::update
Update(info, kind) ==
  IF kind = "Observer" THEN info
  ELSE IF info.ownership = "Observer" THEN [ info EXCEPT !.ownership = kind ]
  ELSE [ info EXCEPT !.ownership = IF kind = "SharedOwner" THEN kind ELSE @,
                     !.isSharedProcessed = TRUE ]

\* getInfoByPtr
InfoByPtr(p, kind) ==
  IF p \in DOMAIN winfo
    THEN Update(winfo[p], kind)
    ELSE [ id |-> Cardinality(DOMAIN winfo) + 1, ownership |-> kind,
           isSharedProcessed |-> FALSE ]

ValueOf(o) == 100 + o

WriteNull ==
  /\ phase = "writing" /\ AtSlot(wstack) /\ graph[Here(wstack)] = Null
  /\ stream' = Append(stream, 0)
  /\ wstack' = Moved(wstack)
  /\ UNCHANGED <<program, phase, graph, winfo, end, readerVars>>

\* serialize: the id, and unless the pointer is an observer's or the object
\* was written, the object.
WritePointer ==
  /\ phase = "writing" /\ AtSlot(wstack) /\ graph[Here(wstack)] # Null
  /\ LET p    == graph[Here(wstack)]
         kind == Ownership(Kind(Here(wstack)))
         info == InfoByPtr(p, kind)
     IN  /\ winfo' = [ q \in DOMAIN winfo \union {p} |-> IF q = p THEN info ELSE winfo[q] ]
         /\ IF kind = "Observer" \/ info.isSharedProcessed
              THEN /\ stream' = Append(stream, info.id)
                   /\ wstack' = Moved(wstack)
              ELSE /\ stream' = stream \o << info.id, ValueOf(p) >>
                   /\ wstack' = Append(Moved(wstack), [ at |-> p, slot |-> 1 ])
  /\ UNCHANGED <<program, phase, graph, end, readerVars>>

WriteReturn ==
  /\ phase = "writing" /\ AtEnd(wstack)
  /\ wstack' = Front(wstack)
  /\ UNCHANGED <<program, phase, graph, winfo, stream, end, readerVars>>

Deliver(n) ==
  /\ phase = "writing" /\ wstack = << >>
  /\ n = Len(stream) \/ program.truncates
  /\ phase' = "reading" /\ end' = n
  /\ UNCHANGED <<writerVars, readerVars>>

-----------------------------------------------------------------------------
\* A failed read leaves what the last one read.
Token_Bug(i) == IF i <= end /\ ~failed THEN stream[i]
                ELSE IF end = 0 THEN 0 ELSE stream[end]

\* A failed adapter, or one at its end, reads zeros.  readSize reads an id
\* of more than MaxOneByteId in several reads, all of which are there or
\* (CutIdsAssumption) none is needed.
Token(i) == IF i <= end /\ ~failed THEN stream[i] ELSE 0

\* The shared state is dropped before all its pointers were read.
InfoById_Cleared_Bug(id, kind) ==
  IF id \in DOMAIN rinfo
    THEN [ Update(rinfo[id], kind) EXCEPT !.sharedState = Null ]
    ELSE [ ownership |-> kind, isSharedProcessed |-> FALSE, ownerPtr |-> Null,
           observers |-> {}, sharedState |-> Null ]

\* getInfoById
InfoById(id, kind) ==
  IF id \in DOMAIN rinfo
    THEN Update(rinfo[id], kind)
    ELSE [ ownership |-> kind, isSharedProcessed |-> FALSE, ownerPtr |-> Null,
           observers |-> {}, sharedState |-> Null ]

With(id, info) ==
  [ i \in DOMAIN rinfo \union {id} |-> IF i = id THEN info ELSE rinfo[i] ]

Point(slots, p) ==
  [ h \in DOMAIN heap |->
      [ heap[h] EXCEPT !.to = [ i \in DOMAIN heap[h].to |->
          IF <<h, i>> \in slots THEN p ELSE heap[h].to[i] ] ] ]

Reading(kinds) == /\ phase = "reading" /\ AtSlot(rstack)
                  /\ Ownership(Kind(Here(rstack))) \in kinds
                  /\ UNCHANGED <<phase, end, writerVars>>

Held == heap[Here(rstack)[1]].to[Here(rstack)[2]]

\* Id 0: the slot is emptied, or the pointer is invalid.
ReadNull ==
  /\ Reading(Kinds) /\ Token(pos + 1) = 0
  /\ pos' = pos + 1 /\ rstack' = Moved(rstack)
  /\ IF Kind(Here(rstack)) = "Reference"
       THEN failed' = TRUE /\ UNCHANGED heap
       ELSE heap' = Point({ Here(rstack) }, Null) /\ UNCHANGED failed
  /\ UNCHANGED rinfo

\* An observer that comes before its owner is left alone.
ProcessObserver_Bug(info, slot) == info

\* processObserver, when the owner is not known yet.
ProcessObserver(info, slot) ==
  [ info EXCEPT !.observers = IF info.ownerPtr = Null THEN @ \union {slot} ELSE @ ]

ReadObserver ==
  /\ Reading({"Observer"}) /\ Token(pos + 1) # 0
  /\ LET id   == Token(pos + 1)
         info == InfoById(id, "Observer")
     IN  /\ rinfo' = With(id, ProcessObserver(info, Here(rstack)))
         /\ heap' = IF info.ownerPtr = Null THEN heap
                    ELSE Point({ Here(rstack) }, info.ownerPtr)
  /\ pos' = pos + 1 /\ rstack' = Moved(rstack)
  /\ UNCHANGED failed

\* processOwner: every observer that came before gets the pointer.
Linked(id, info, slots, p) ==
  /\ rinfo' = With(id, [ info EXCEPT !.ownerPtr = p, !.observers = {} ])
  /\ heap' = Point(slots \union info.observers, p)

\* The object is not there: it is created in the slot.  A polymorphic
\* handler also replaces an object of another type.
Recreates == Held = Null \/ (Polymorphic /\ Kind(Here(rstack)) # "Reference")

\* Into the object in the slot, or into a new one; "save" tells whether the
\* shared state is set before the object is read.
Enter(id, info, creates, save) ==
  LET new == Cardinality(DOMAIN heap)
      p   == IF creates THEN new ELSE Held
      q   == Point({ Here(rstack) }, p)
      x   == [ value |-> Token(pos + 2),
               to |-> IF creates THEN NewObject.to ELSE heap[p].to ]
  IN  /\ heap' = [ h \in DOMAIN heap \union {p} |-> IF h = p THEN x ELSE q[h] ]
      /\ rinfo' = With(id, [ info EXCEPT !.sharedState = IF save THEN p ELSE @ ])
      /\ rstack' = Append(Moved(rstack), [ at |-> p, slot |-> 1, id |-> id ])
      /\ pos' = pos + 2
      /\ UNCHANGED failed

ReadOwner ==
  /\ Reading({"Owner"}) /\ Token(pos + 1) # 0
  /\ \E creates \in { c \in BOOLEAN : IF c THEN Recreates ELSE Held # Null } :
       Enter(Token(pos + 1), InfoById(Token(pos + 1), "Owner"), creates, FALSE)

\* The object is saved only when it has been read.
SavesEarly_Bug(creates) == creates

\* A polymorphic object that is already in the slot is saved to the shared
\* state only when it has been read.
SavesEarly(creates) == ~Polymorphic \/ creates

ReadShared ==
  /\ Reading({"SharedOwner", "SharedObserver"}) /\ Token(pos + 1) # 0
  /\ LET id   == Token(pos + 1)
         info == InfoById(id, Kind(Here(rstack)))
     IN  IF info.sharedState # Null
           THEN /\ Linked(id, info, { Here(rstack) }, info.sharedState)
                /\ pos' = pos + 1 /\ rstack' = Moved(rstack)
                /\ UNCHANGED failed
           ELSE \E creates \in { c \in BOOLEAN : IF c THEN Recreates ELSE Held # Null } :
                  Enter(id, info, creates, SavesEarly(creates))

\* Behind the recursive call: the object is linked.
ReadReturn ==
  /\ phase = "reading" /\ AtEnd(rstack)
  /\ rstack' = Front(rstack)
  /\ IF Len(rstack) = 1
       THEN UNCHANGED <<rinfo, heap>>
       ELSE LET f     == Last(rstack)
                up    == rstack[Len(rstack) - 1]
                slot  == << up.at, up.slot - 1 >>
                info  == rinfo[f.id]
                state == IF info.sharedState = Null THEN f.at ELSE info.sharedState
            IN  IF IsShared(Kind(slot))
                  THEN Linked(f.id, [ info EXCEPT !.sharedState = state ], { slot }, state)
                  ELSE Linked(f.id, info, {}, f.at)
  /\ UNCHANGED <<phase, writerVars, pos, end, failed>>

Finish == /\ phase = "reading" /\ rstack = << >>
          /\ phase' = "done"
          /\ UNCHANGED <<writerVars, readerVars, end>>

Next == \/ WriteNull \/ WritePointer \/ WriteReturn
        \/ \E n \in 0 .. Len(stream) : Deliver(n)
        \/ ReadNull \/ ReadObserver \/ ReadOwner \/ ReadShared \/ ReadReturn
        \/ Finish

Spec == Init /\ [][Next]_vars

-----------------------------------------------------------------------------
\* isPointerSerializationValid, isPointerDeserializationValid
IsValid(info) == \A k \in DOMAIN info : info[k].ownership \in {"SharedOwner", "Owner"}

Whole == phase = "done" /\ end = Len(stream)

\* The writer's and the reader's pointers that correspond: the roots, and
\* what corresponding slots of corresponding objects hold.
Corresponding ==
  LET within[k \in 0 .. Cardinality(Objects) + 1] ==
        IF k = 0 THEN { <<Root, Root>> }
        ELSE LET near == within[k - 1]
                 both == { q \in near : q[1] # Null /\ q[2] # Null }
             IN  near \union UNION { { << graph[<<q[1], i>>], heap[q[2]].to[i] >> :
                                       i \in 1 .. Len(KindsOf(q[1])) } : q \in both }
  IN  within[Cardinality(Objects) + 1]

\* A polymorphic object that is already in a shared pointer is not known by
\* its id while it is read, so no pointer in it may lead back to it: neither
\* an owner nor a shared nor a weak one (pointer_utils.h:513-531).  Others
\* may: unique owners cannot, objects of a fixed type and objects that are
\* created are known.
BackReferencesFit == Polymorphic /\ program.existing => Acyclic(graph)

\* No two pointers of the reader's, observers left aside, hold one object
\* beforehand, and none holds the root.
Forest(w) ==
  LET holders == { s \in UNION { {h} \X DOMAIN w[h].to : h \in DOMAIN w } :
                     Kind(s) # "Observer" /\ w[s[1]].to[s[2]] # Null }
  IN  \A s, t \in holders : /\ w[s[1]].to[s[2]] # Root
                            /\ w[s[1]].to[s[2]] = w[t[1]].to[t[2]] => s = t
Unshared == \A w \in program.heaps : Forest(w)

\* Each slot that holds an object has one of its own, whose slots are null.
Flat == program.heaps = {}

\* The reader ends up with the writer's graph: null where the writer has
\* null, the writer's values, and two pointers to one object exactly where
\* the writer has two pointers to one - whatever the order in which owners,
\* observers and cycles are met, and whatever objects the reader's slots and
\* those objects' slots held, provided that each was held once and that
\* back references are not into polymorphic ones.
GraphIsRebuilt ==
  Whole /\ IsValid(winfo) /\ BackReferencesFit /\ Unshared =>
    /\ \A q \in Corresponding :
         /\ q[1] = Null <=> q[2] = Null
         /\ q[1] \in Objects => heap[q[2]].value = ValueOf(q[1])
    /\ \A q, r \in Corresponding : q[1] = r[1] <=> q[2] = r[2]

\* Both sides end alike: the reader consumed exactly what was written,
\* without an error, and the contexts, each of which learned of owners and
\* observers in its own order, agree whether every pointer has an owner.
\* Objects that were there may be shared in any way.
EndsInStep ==
  Whole /\ BackReferencesFit => /\ pos = Len(stream) /\ ~failed
                                /\ IsValid(winfo) <=> IsValid(rinfo)

\* "so we do not serialize/deserialize duplicate objects"
\* (ext/utils/pointer_utils.h:101): while an object is being read, the
\* object of the same id is not read again.
NoDuplicateObjects ==
  \A i, j \in 1 .. Len(rstack) : rstack[i].id = rstack[j].id => i = j

\* The code keeps to that where no pointer leads back to a polymorphic
\* object that was there, whether or not such objects were shared.
NoneReadTwice == BackReferencesFit => NoDuplicateObjects

\* An id is linked to one object for good: observers that were linked
\* before never point to another object than those linked later.
LinksAreFinal ==
  [][BackReferencesFit =>
       \A id \in DOMAIN rinfo :
         rinfo[id].ownerPtr # Null => rinfo'[id].ownerPtr = rinfo[id].ownerPtr]_vars

\* A reader that got a part of the stream has null pointers, values it did
\* not get, but no pointer that leads to another object than the writer's.
\* Its ids are of one byte (CutIdsAssumption), and no polymorphic object that
\* was there is led back to.  An observer whose owner did not come still has
\* what it had; that is an object of its own here.
TruncatedGraphIsSafe ==
  phase = "done" /\ BackReferencesFit /\ Flat =>
    /\ \A q \in Corresponding :
         q[2] # Null => q[1] # Null /\ heap[q[2]].value \in {0, ValueOf(q[1])}
    /\ \A q, r \in Corresponding : q[2] = r[2] /\ q[2] # Null => q[1] = r[1]

=============================================================================
