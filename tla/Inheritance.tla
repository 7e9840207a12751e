---------------------------- MODULE Inheritance -----------------------------
(***************************************************************************)
(* InheritanceContext with the extensions BaseClass and VirtualBaseClass   *)
(* (include/bitsery/ext/inheritance.h).  An object's serialize function    *)
(* goes through its bases and members; a base is gone through the same     *)
(* way, and a member is an object of its own.  The stack holds the calls   *)
(* in progress.                                                            *)
(*                                                                         *)
(* Serializer and deserializer make the same calls over objects at other   *)
(* addresses, each with a context of its own.  What a context decides does *)
(* not depend on the data, so the two advance together here.               *)
(***************************************************************************)
EXTENDS Integers, Sequences, FiniteSets, SequencesExt

CONSTANTS VirtualBases, \* classes that are inherited virtually
          Addresses,    \* where objects may be
          NoPtr,        \* the null pointer
          MaxObjects,   \* bound: objects that are serialized
          MaxCalls,     \* bound: calls of the extensions
          Interleaves,  \* whether members are serialized between the bases
          Reuses        \* whether an object may be where the one before it was

ASSUME InheritanceAssumption ==
  /\ NoPtr \notin Addresses
  /\ MaxObjects \in Nat /\ MaxCalls \in Nat
  /\ {Interleaves, Reuses} \subseteq BOOLEAN

VARIABLES
  stack,   \* the calls in progress: the object, and what was called for it
  objects, \* where the objects serialized so far are, by side
  context, \* the InheritanceContext of each side
  asked,   \* ghost: virtual bases the extension was called for, by object
  copies,  \* ghost: how often each was serialized, by side and object
  calls    \* bound: calls of the extensions so far

vars == <<stack, objects, context, asked, copies, calls>>

Sides  == {"writer", "reader"}
NewContext == [ depth |-> 0, parentPtr |-> NoPtr, virtualBases |-> {} ]

Init == /\ stack = << >>
        /\ objects = [ s \in Sides |-> << >> ]
        /\ context = [ s \in Sides |-> NewContext ]
        /\ asked = << >>
        /\ copies = [ s \in Sides |-> << >> ]
        /\ calls = 0

Depth == Cardinality({ i \in DOMAIN stack : stack[i].kind # "object" })

-----------------------------------------------------------------------------
Live(s) == { objects[s][stack[i].obj] : i \in DOMAIN stack }

\* An object can be told from those whose virtual bases the context lists.
\* A value that is read into a temporary again and again cannot.
Distinct(s, a) == IF Depth = 0 THEN a # context[s].parentPtr
                  ELSE \A p \in context[s].virtualBases : p[1] # a

\* Serialization of an object starts: at the top, or as a member.
Open(w, r) ==
  /\ Len(objects["writer"]) < MaxObjects
  /\ w \notin Live("writer") /\ r \notin Live("reader")
  /\ Reuses \/ (Distinct("writer", w) /\ Distinct("reader", r))
  /\ objects' = [ s \in Sides |-> Append(objects[s], IF s = "writer" THEN w ELSE r) ]
  /\ asked' = Append(asked, {})
  /\ copies' = [ s \in Sides |-> Append(copies[s], [ b \in VirtualBases |-> 0 ]) ]
  /\ LET outer == IF stack = << >> \/ Interleaves \/ Depth > 0 THEN stack
                  ELSE [ stack EXCEPT ![Len(stack)].sealed = TRUE ]
     IN  stack' = Append(outer, [ obj |-> Len(objects["writer"]) + 1,
                                  kind |-> "object", sealed |-> FALSE ])
  /\ UNCHANGED <<context, calls>>

\* The list is cleared at every base.
BeginBase_Clears_Bug(c, ptr) ==
  [ virtualBases |-> IF c.depth = 0 THEN {} ELSE c.virtualBases,
    parentPtr    |-> IF c.depth = 0 THEN ptr ELSE c.parentPtr,
    depth        |-> c.depth + 1 ]

\* beginBase
BeginBase(c, ptr) ==
  [ virtualBases |-> IF c.depth = 0 /\ c.parentPtr # ptr THEN {} ELSE c.virtualBases,
    parentPtr    |-> IF c.depth = 0 THEN ptr ELSE c.parentPtr,
    depth        |-> c.depth + 1 ]

\* end
End(c) == [ c EXCEPT !.depth = @ - 1 ]

Top == Last(stack)
MayCall == stack # << >> /\ ~Top.sealed /\ calls < MaxCalls

Frame(kind) == [ obj |-> Top.obj, kind |-> kind, sealed |-> FALSE ]

\* Only the address of a whole object is ever looked at.
At(s) == objects[s][Top.obj]

\* BaseClass, up to the call of fnc.
Base ==
  /\ MayCall
  /\ context' = [ s \in Sides |-> BeginBase(context[s], At(s)) ]
  /\ stack' = Append(stack, Frame("base"))
  /\ calls' = calls + 1
  /\ UNCHANGED <<objects, asked, copies>>

\* A virtual base is taken for any other of its class.
Where_Bug(s, b) == << objects[s][1], b >>

\* A virtual base is where its object is, whatever leads to it.
Where(s, b) == << At(s), b >>

\* beginVirtualBase
BeginVirtualBase(s, b) ==
  LET c == BeginBase(context[s], At(s))
  IN  [ c EXCEPT !.virtualBases = @ \union { Where(s, b) } ]

IsNew(s, b) == Where(s, b) \notin BeginBase(context[s], At(s)).virtualBases

\* VirtualBaseClass: fnc is called for a base that is new.  The serializer's
\* context decides what is on the stack.
VirtualBase(b) ==
  /\ MayCall
  /\ IF IsNew("writer", b)
       THEN /\ stack' = Append(stack, Frame("virtual"))
            /\ context' = [ s \in Sides |-> BeginVirtualBase(s, b) ]
       ELSE /\ UNCHANGED stack
            /\ context' = [ s \in Sides |-> End(BeginVirtualBase(s, b)) ]
  /\ asked' = [ asked EXCEPT ![Top.obj] = @ \union {b} ]
  /\ copies' = [ s \in Sides |->
       IF IsNew(s, b) THEN [ copies[s] EXCEPT ![Top.obj][b] = @ + 1 ] ELSE copies[s] ]
  /\ calls' = calls + 1
  /\ UNCHANGED objects

\* What was called returns.
Return ==
  /\ stack # << >>
  /\ stack' = Front(stack)
  /\ context' = IF Top.kind = "object" THEN context
                ELSE [ s \in Sides |-> End(context[s]) ]
  /\ UNCHANGED <<objects, asked, copies, calls>>

Next == \/ \E w, r \in Addresses : Open(w, r)
        \/ Base
        \/ \E b \in VirtualBases : VirtualBase(b)
        \/ Return

Spec == Init /\ [][Next]_vars

-----------------------------------------------------------------------------
\* Types.  The depth is that of the calls in progress: the code asserts
\* nothing about it, and end() would wrap.
TypeOK ==
  /\ \A s \in Sides :
       /\ context[s].depth = Depth
       /\ context[s].parentPtr \in Addresses \union {NoPtr}
       /\ context[s].virtualBases \subseteq Addresses \X VirtualBases
  /\ \A i \in DOMAIN stack : stack[i].obj \in 1 .. Len(asked)

\* VirtualBaseClass "ensures that only one copy of each virtual base class
\* is serialized" (CHANGELOG.md:291).
NoSecondCopy ==
  \A o \in DOMAIN asked, b \in VirtualBases, s \in Sides : copies[s][o][b] <= 1

\* Every object of a container has its virtual bases serialized ("4 because
\* virtual base * elements", tests/serialization_ext_inheritance.cpp:308).
NoMissingCopy ==
  \A o \in DOMAIN asked, s \in Sides : \A b \in asked[o] : copies[s][o][b] >= 1

=============================================================================
