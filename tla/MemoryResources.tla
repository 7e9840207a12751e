--------------------------- MODULE MemoryResources ---------------------------
(***************************************************************************)
(* Who allocates and who releases the objects behind pointers: the reader  *)
(* of ext/utils/pointer_utils.h with the pointer managers of ext/pointer.h *)
(* and ext/eastl_smart_ptr.h, the handlers of                              *)
(* ext/utils/polymorphism_utils.h and ext/utils/memory_resource.h.         *)
(*                                                                         *)
(* A program reads several documents, one after another, into the same     *)
(* pointers, so that a document finds, replaces and releases what the one  *)
(* before left.  What is on the stream is chosen as it is read: at each    *)
(* pointer null, a new id, or one that was met, and a type.                *)
(* PointerLinking is about the graph a writer's stream leads to; here it   *)
(* is about the lives of the objects.                                      *)
(*                                                                         *)
(* The program keeps to what doc/design/pointers.md asks of it: an object  *)
(* that it owns through a unique pointer is given back by the program with *)
(* the resource it was allocated with, and pointers that share an object   *)
(* are declared alike.                                                     *)
(***************************************************************************)
EXTENDS Integers, Sequences, FiniteSets, SequencesExt

CONSTANTS Programs,     \* what a program's types and declarations fix
          MaxDocuments  \* bound: documents that are read

Null      == -1
Root      == 0
NewDelete == "MemResourceNewDelete"  \* stands for no resource, nullptr

Kinds == {"Observer", "Owner", "SharedOwner", "SharedObserver"}

\* One pointer: its manager and the arguments of its extension.  types has
\* the derived types in the order of their indices; without polymorphism it
\* is the one element type.
Types == {"Leaf", "Branch"}

Pointers ==
  [ kind : Kinds, types : Seq(Types) \ {<< >>}, polymorphic : BOOLEAN,
    nullable : BOOLEAN, resource : STRING, propagate : BOOLEAN ]

Program ==
  [ objects : Nat,            \* bound: objects that are created
    root    : Seq(Pointers),
    members : [ Types -> Seq(Pointers) ],
    context : STRING,   \* the resource of the PointerLinkingContext
    aliases : BOOLEAN ] \* documents may part what existing pointers share

ASSUME ProgramsAssumption == Programs \subseteq Program

\* A pointer that is not polymorphic has the element type of its template.
ASSUME ElementAssumption ==
  \A p \in Programs : \A s \in {p.root} \union { p.members[type] : type \in Types } :
    \A i \in 1 .. Len(s) : s[i].polymorphic \/ Len(s[i].types) = 1

ASSUME BoundsAssumption == MaxDocuments \in Nat

VARIABLES
  program,   \* one of Programs, fixed
  phase,     \* "reading", "read", "cleared", "thrown"
  documents, \* documents that were begun
  heap,      \* the objects ever created, and the root
  infos,     \* _idMap
  resource,  \* _memResource of the context
  stack,     \* objects in progress, with the locals of deserialize
  failed     \* the adapter has an error, or its data is at an end

vars == <<program, phase, documents, heap, infos, resource, stack, failed>>

PointersOf(type) == IF type = "Root" THEN program.root ELSE program.members[type]

\* An object: its type; what it was allocated with; the deleter that a shared
\* pointer's control block captured, if it has one; how it was released.
NewObject(type, by) ==
  [ type |-> type, by |-> by, deleter |-> << >>, released |-> << >>,
    to |-> [ i \in 1 .. Len(PointersOf(type)) |-> Null ] ]

Frame(p, id, prev) == [ at |-> p, slot |-> 1, id |-> id, prevResource |-> prev ]

Init ==
  /\ program \in Programs
  /\ phase = "reading" /\ documents = 1
  /\ heap = [ p \in {Root} |-> NewObject("Root", NewDelete) ]
  /\ infos = [ id \in {} |-> 0 ]
  /\ resource = program.context
  /\ stack = << Frame(Root, 0, NewDelete) >>
  /\ failed = FALSE

-----------------------------------------------------------------------------
\* Releasing.
Lives(h, p) == p \in DOMAIN h /\ h[p].released = << >>

SlotsOf(h) == UNION { { <<p, i>> : i \in DOMAIN h[p].to } : p \in DOMAIN h }
Declared(h, s) == PointersOf(h[s[1]].type)[s[2]]
At(h, s)       == h[s[1]].to[s[2]]

\* Objects that die with those of gone: what their unique pointers own, and
\* what is shared and has no share left in an object or in a shared state.
DieNext(h, states, gone) ==
  LET held(kind) == { s \in SlotsOf(h) : Declared(h, s).kind = kind }
      left == { At(h, s) : s \in { t \in held("SharedOwner") :
                                     Lives(h, t[1]) /\ t[1] \notin gone } }
  IN  { p \in DOMAIN h : /\ Lives(h, p)
                         /\ \/ \E s \in held("Owner") : s[1] \in gone /\ At(h, s) = p
                            \/ h[p].deleter # << >> /\ p \notin left \union states }

Dying(h, states, first) ==
  LET round[k \in 0 .. Cardinality(DOMAIN h)] ==
        IF k = 0 THEN first
        ELSE LET gone == round[k - 1] IN gone \union DieNext(h, states, gone)
  IN  round[Cardinality(DOMAIN h)]

\* How the objects of gone, except first, are released: by the deleter of
\* the control block, or by the deleter the program gave its unique pointer.
\* Weak pointers to them are expired from now on.
Bury(h, gone, first, how) ==
  [ p \in DOMAIN h |->
      [ h[p] EXCEPT
          !.released = IF p \notin gone THEN @
                       ELSE Append(@, IF p \in first THEN how
                                      ELSE IF h[p].deleter # << >> THEN h[p].deleter
                                      ELSE << h[p].by, h[p].type >>),
          !.to = [ i \in DOMAIN @ |->
                     IF @[i] \in gone /\ PointersOf(h[p].type)[i].kind = "SharedObserver"
                       THEN Null ELSE @[i] ] ] ]

Sweep(h, states, first, how) == Bury(h, Dying(h, states, first), first, how)

Assign(h, s, p) == [ h EXCEPT ![s[1]].to[s[2]] = p ]

States(is) == { is[id].sharedState : id \in DOMAIN is } \ {Null}

\* RTTI::get of the pointer's element.
ElementType(spec) == spec.types[1]

\* The handler that getPolymorphicHandler finds destroys the object's type.
HandledType(p, spec) == heap[p].type

ReleasedType(p, spec) == IF spec.polymorphic THEN HandledType(p, spec) ELSE ElementType(spec)

\* The object is deleted with the context's resource, not the pointer's.
Delete_Bug(s, memResource) ==
  Sweep(Assign(heap, s, Null), States(infos), { At(heap, s) },
        << resource, ReleasedType(At(heap, s), Declared(heap, s)) >>)

\* A unique owner's object is deleted at once, with the resource at hand.
Delete(s, memResource) ==
  Sweep(Assign(heap, s, Null), States(infos), { At(heap, s) },
        << memResource, ReleasedType(At(heap, s), Declared(heap, s)) >>)

\* destroyPtr: a shared pointer is reset, an observer's is forgotten.
DestroyPtr(s, memResource) ==
  IF Declared(heap, s).kind = "Owner"
    THEN Delete(s, memResource)
    ELSE Sweep(Assign(heap, s, Null), States(infos), {}, << >>)

-----------------------------------------------------------------------------
\* The slot that is read next, what declares it, and what it holds.
AtSlot == phase = "reading" /\ stack # << >>
          /\ Last(stack).slot <= Len(heap[Last(stack).at].to)
Here   == << Last(stack).at, Last(stack).slot >>
There  == Declared(heap, Here)
Held   == At(heap, Here)
Moved  == [ stack EXCEPT ![Len(stack)].slot = @ + 1 ]

\* memResource of deserialize.
MemResource(spec) == IF spec.resource # NewDelete THEN spec.resource ELSE resource

Propagates(spec) == spec.resource # NewDelete /\ spec.propagate

\* The resource that was set for nested pointers stays.
Restored_Bug(spec, frame) == resource

\* The context's resource when deserialize returns.
Restored(spec, frame) == IF Propagates(spec) THEN frame.prevResource ELSE resource

IsShared(spec) == spec.kind \in {"SharedOwner", "SharedObserver"}

\* PLCInfo::update, as far as the reader looks at it.
Update(ownership, kind) ==
  IF kind = "Observer" THEN ownership
  ELSE IF ownership = "Observer" \/ kind = "SharedOwner" THEN kind ELSE ownership

NewInfo(kind) ==
  [ ownership |-> kind, ownerPtr |-> Null, observers |-> {}, sharedState |-> Null ]

\* getInfoById
InfoById(id, kind) ==
  IF id \in DOMAIN infos
    THEN [ infos[id] EXCEPT !.ownership = Update(@, kind) ]
    ELSE NewInfo(kind)

With(id, info) ==
  [ i \in DOMAIN infos \union {id} |-> IF i = id THEN info ELSE infos[i] ]

\* Ids that may follow in the document of a writer with these types: an
\* object has one unique owner or is shared.  Of a shared object that is
\* being read into an existing one nothing is known yet when it is
\* polymorphic; documents that come back to it then are left out, they are
\* read wrongly (PointerLinking).  Owners form no cycles.
NewId == Cardinality(DOMAIN infos) + 1

Unclaimed == {NewId} \union { id \in DOMAIN infos : infos[id].ownership = "Observer" }

Known(spec) ==
  { id \in DOMAIN infos :
      /\ IsShared(spec) /\ infos[id].sharedState # Null
      /\ \E i \in 1 .. Len(spec.types) : heap[infos[id].sharedState].type = spec.types[i]
      /\ spec.kind = "SharedOwner" => \A k \in 1 .. Len(stack) : stack[k].id # id }

\* processOwner: the observers that wait get the pointer.
Linked(h, info, p) ==
  [ q \in DOMAIN h |->
      [ h[q] EXCEPT !.to = [ i \in DOMAIN @ |->
                               IF <<q, i>> \in info.observers THEN p ELSE @[i] ] ] ]
Claimed(info, p) == [ info EXCEPT !.ownerPtr = p, !.observers = {} ]

\* The end of the overloads of deserializeImpl for shared pointers, of which
\* loadFromSharedState may take the last share of what the pointer held.
Shares(h, s, id, info) ==
  LET is == With(id, Claimed(info, info.sharedState))
  IN  /\ infos' = is
      /\ heap' = Sweep(Assign(Linked(h, info, info.sharedState), s, info.sharedState),
                       States(is), {}, << >>)

\* Id 0: the pointer is emptied, or there is an error.
ReadNull ==
  /\ AtSlot
  /\ IF There.nullable
       THEN /\ heap' = IF Held = Null THEN heap ELSE DestroyPtr(Here, MemResource(There))
            /\ UNCHANGED failed
       ELSE failed' = TRUE /\ UNCHANGED heap
  /\ stack' = Moved
  /\ UNCHANGED <<program, phase, documents, infos, resource>>

\* processObserver
ReadObserver ==
  /\ AtSlot /\ ~failed /\ There.kind = "Observer"
  /\ \E id \in DOMAIN infos \union {NewId} :
       LET info == InfoById(id, "Observer")
       IN  IF info.ownerPtr = Null
             THEN /\ infos' = With(id, [ info EXCEPT !.observers = @ \union {Here} ])
                  /\ UNCHANGED heap
             ELSE /\ infos' = With(id, info)
                  /\ heap' = Assign(heap, Here, info.ownerPtr)
  /\ stack' = Moved
  /\ UNCHANGED <<program, phase, documents, resource, failed>>

\* A shared object that is in the shared state is not read again.
ReadKnown ==
  /\ AtSlot /\ ~failed
  /\ \E id \in Known(There) : Shares(heap, Here, id, InfoById(id, There.kind))
  /\ stack' = Moved
  /\ UNCHANGED <<program, phase, documents, resource, failed>>

\* createShared: the control block keeps the resource and the type.
SharedObject(type, memResource) ==
  [ NewObject(type, memResource) EXCEPT !.deleter = << memResource, type >> ]

\* An object created into the empty pointer s.
Created(h, s, type, memResource) ==
  LET new == IF IsShared(Declared(h, s)) THEN SharedObject(type, memResource)
             ELSE NewObject(type, memResource)
      p   == Cardinality(DOMAIN h)
  IN  [ q \in DOMAIN h \union {p} |-> IF q = p THEN new ELSE Assign(h, s, p)[q] ]

\* What was read in this document, or is being read.
ReadNow == ({ infos[id].ownerPtr : id \in DOMAIN infos } \ {Null}) \union
           { stack[k].at : k \in 1 .. Len(stack) }

\* The object in the pointer is of the type that follows.
Fits(type) == Held # Null /\ (There.polymorphic => heap[Held].type = type)

\* An object of another type is forgotten.
Emptied_Bug(type) == heap

\* An object of another type is destroyed first.
Emptied(type) == IF Held = Null \/ Fits(type) THEN heap
                 ELSE DestroyPtr(Here, MemResource(There))

\* The shared state is set only when the object has been read.
SavedBefore_Bug(spec, creates) == FALSE

\* Whether the shared state is set before the object is read.
SavedBefore(spec, creates) == IsShared(spec) /\ (creates \/ ~spec.polymorphic)

\* deserializeImpl up to the object: what is missing is created, and the
\* object is read with the resource for nested pointers in the context.
ReadObject ==
  /\ AtSlot /\ ~failed /\ There.kind # "Observer"
  /\ \E id \in Unclaimed, index \in 1 .. Len(There.types) :
       LET type    == There.types[index]
           creates == ~Fits(type)
           filled  == IF creates
                        THEN Created(Emptied(type), Here, type, MemResource(There)) ELSE heap
           p       == At(filled, Here)
           info    == InfoById(id, There.kind)
           is      == With(id, [ info EXCEPT !.sharedState =
                                   IF SavedBefore(There, creates) THEN p ELSE @ ])
       IN  /\ creates => Cardinality(DOMAIN heap) <= program.objects
           /\ program.aliases \/ creates \/ p \notin ReadNow
           /\ infos' = is
           /\ heap' = Sweep(filled, States(is), {}, << >>)
           /\ stack' = Append(Moved, Frame(p, id, resource))
  /\ resource' = IF Propagates(There) THEN MemResource(There) ELSE resource
  /\ UNCHANGED <<program, phase, documents, failed>>

\* The index stands for no type: the pointer keeps what it holds, and takes
\* part in linking with it.
ReadUnknownType ==
  /\ AtSlot /\ ~failed /\ There.kind # "Observer" /\ There.polymorphic
  /\ program.aliases \/ Held \notin ReadNow
  /\ failed' = TRUE /\ stack' = Moved
  /\ \E id \in Unclaimed :
       LET info == InfoById(id, There.kind)
       IN  IF IsShared(There)
             THEN Shares(heap, Here, id, [ info EXCEPT !.sharedState = Held ])
             ELSE /\ infos' = With(id, Claimed(info, Held))
                  /\ heap' = Linked(heap, info, Held)
  /\ UNCHANGED <<program, phase, documents, resource>>

\* A weak pointer that holds nothing cannot be saved to the shared state:
\* where exceptions are enabled, its conversion to a shared one throws.
ThrowBadWeakPtr ==
  /\ AtSlot /\ ~failed /\ There.kind = "SharedObserver" /\ There.polymorphic
  /\ Held = Null
  /\ failed' = TRUE /\ phase' = "thrown" /\ stack' = << >>
  /\ \E id \in Unclaimed : infos' = With(id, InfoById(id, There.kind))
  /\ UNCHANGED <<program, documents, heap, resource>>

\* deserializeImpl and deserialize behind the object.
ReadReturn ==
  /\ phase = "reading" /\ Len(stack) > 1
  /\ Last(stack).slot > Len(heap[Last(stack).at].to)
  /\ LET f    == Last(stack)
         up   == stack[Len(stack) - 1]
         s    == << up.at, up.slot - 1 >>
         spec == Declared(heap, s)
         info == infos[f.id]
     IN  /\ IF IsShared(spec)
              THEN Shares(heap, s, f.id, [ info EXCEPT !.sharedState =
                                             IF @ = Null THEN At(heap, s) ELSE @ ])
              ELSE /\ infos' = With(f.id, Claimed(info, At(heap, s)))
                   /\ heap' = Linked(heap, info, At(heap, s))
         /\ resource' = Restored(spec, f)
  /\ stack' = Front(stack)
  /\ UNCHANGED <<program, phase, documents, failed>>

\* The document ends here, or the program raises an error.
EndOfData ==
  /\ AtSlot /\ ~failed /\ failed' = TRUE
  /\ UNCHANGED <<program, phase, documents, heap, infos, resource, stack>>

Finish ==
  /\ phase = "reading" /\ Len(stack) = 1
  /\ Last(stack).slot > Len(heap[Root].to)
  /\ phase' = "read" /\ stack' = << >>
  /\ UNCHANGED <<program, documents, heap, infos, resource, failed>>

\* clearSharedState, or the end of the context.
ClearSharedState ==
  /\ phase = "read"
  /\ phase' = "cleared"
  /\ infos' = [ id \in DOMAIN infos |-> [ infos[id] EXCEPT !.sharedState = Null ] ]
  /\ heap' = Sweep(heap, {}, {}, << >>)
  /\ UNCHANGED <<program, documents, resource, stack, failed>>

\* An object that only weak pointers refer to passes for owned.
IsValid_Bug ==
  \A id \in DOMAIN infos : infos[id].ownership # "Observer"

\* isPointerDeserializationValid
IsValid == \A id \in DOMAIN infos : infos[id].ownership \in {"SharedOwner", "Owner"}

\* The next document, with a new context; a program drops its objects when
\* the pointers in them are not valid.
NextDocument ==
  /\ phase = "cleared" /\ IsValid /\ documents < MaxDocuments
  /\ phase' = "reading" /\ documents' = documents + 1
  /\ infos' = [ id \in {} |-> 0 ] /\ resource' = program.context
  /\ stack' = << Frame(Root, 0, NewDelete) >> /\ failed' = FALSE
  /\ UNCHANGED <<program, heap>>

Next == \/ ReadNull \/ ReadObserver \/ ReadKnown \/ ReadObject \/ ReadUnknownType
        \/ ThrowBadWeakPtr \/ ReadReturn \/ EndOfData \/ Finish \/ ClearSharedState \/ NextDocument

Spec == Init /\ [][Next]_vars

-----------------------------------------------------------------------------
\* What doc/design/pointers.md says of the resource for a pointer: its own,
\* or that of the innermost enclosing pointer that propagates its own, or the
\* context's.
Documented(frames, spec) ==
  LET outer(k)   == Declared(heap, << frames[k].at, frames[k].slot - 1 >>)
      propagates == { k \in 1 .. Len(frames) - 1 :
                        outer(k).resource # NewDelete /\ outer(k).propagate }
  IN  IF spec.resource # NewDelete THEN spec.resource
      ELSE IF propagates = {} THEN program.context
      ELSE outer(CHOOSE k \in propagates : \A j \in propagates : j <= k).resource

\* Objects are allocated with the resource that is documented for the pointer
\* that creates them, however deep they are nested and whatever was read,
\* replaced or skipped before.
AllocatedAsDocumented ==
  [][\A p \in DOMAIN heap' \ DOMAIN heap : heap'[p].by = Documented(stack, There)]_vars

\* What was allocated is given back once, to the resource it is from and
\* with the type it was allocated for ("IMPORTANT", doc/design/pointers.md).
ReleasedAsAllocated ==
  \A p \in DOMAIN heap : heap[p].released \in { << >>, << << heap[p].by, heap[p].type >> >> }

\* Nothing is released that is still in use: no object that is being read,
\* none with a pointer that waits in the list of observers.
InUseIsLive ==
  /\ \A k \in 1 .. Len(stack) : Lives(heap, stack[k].at)
  /\ phase = "reading" =>
       \A id \in DOMAIN infos : \A s \in infos[id].observers : Lives(heap, s[1])

\* No weak pointer is polymorphic.
WeakPointersArePlain ==
  \A t \in Types \union {"Root"} : \A i \in 1 .. Len(PointersOf(t)) :
    PointersOf(t)[i].kind = "SharedObserver" => ~ PointersOf(t)[i].polymorphic

\* Nothing is released in use by a program whose weak pointers are not
\* polymorphic: what such a pointer holds is in the shared state before it is
\* read (pointer_utils.h:545).  An existing object behind a polymorphic one is
\* saved only when it has been read (:526), and InUseIsLive fails.
InUseStays == WeakPointersArePlain => InUseIsLive

\* When a whole document was read, its context is valid and its shared state
\* is gone, no pointer of a live object leads to one that was released.
NothingDangles ==
  phase = "cleared" /\ ~failed /\ IsValid =>
    \A s \in SlotsOf(heap) : Lives(heap, s[1]) /\ At(heap, s) # Null => Lives(heap, At(heap, s))

\* Between documents every live object has a live owner: what was replaced
\* was released, with everything it owned.
NothingLeaks ==
  phase = "cleared" =>
    \A p \in DOMAIN heap \ {Root} :
      Lives(heap, p) => \E s \in SlotsOf(heap) : /\ At(heap, s) = p /\ Lives(heap, s[1])
                                                 /\ Declared(heap, s).kind \in {"Owner", "SharedOwner"}

=============================================================================
