----------------------------- MODULE MCContexts -----------------------------
(***************************************************************************)
(* A serializer is given an InheritanceContext and a PolymorphicContext    *)
(* side by side, in one tuple of contexts.  They share nothing, so a       *)
(* behaviour uses one of them, and none is lost that way.                  *)
(*                                                                         *)
(* Objects: serializer and deserializer use the same set of addresses; it  *)
(* is small, so that an address is met again soon.  Addresses are          *)
(* interchangeable.                                                        *)
(*                                                                         *)
(* Types: an abstract shape, a class with two bases, and a second          *)
(* hierarchy of another library that extends the first at two places.      *)
(***************************************************************************)
EXTENDS Inheritance, PolymorphicContext, TLC

CONSTANTS a1, a2, a3

Places == Permutations({a1, a2, a3})

\* Every class, so that what a class is not given children by, has none.
MCTypes == {"Shape", "Circle", "Rectangle", "Rounded", "Square"}

Below(children) ==
  [ t \in MCTypes |-> IF t \in DOMAIN children THEN children[t] ELSE << >> ]

MCHierarchies ==
  [ PolymorphicBaseClass |->
      Below([ Shape     |-> << "Circle", "Rectangle" >>,
              Circle    |-> << "Rounded" >>,
              Rectangle |-> << "Rounded" >> ]),
    MyHierarchy |->
      Below([ Shape     |-> << "Square", "Rectangle" >>,
              Rectangle |-> << "Square" >> ]) ]

MCLists == { << "Shape" >>, << "Rounded", "Rectangle" >> }

MCSingles == { << "Rectangle", "Square" >> }

-----------------------------------------------------------------------------
VARIABLE used  \* the context that is used

ContextsInit == Init /\ RegistryInit /\ used \in {"inheritance", "polymorphism"}

ContextsNext ==
  \/ used = "inheritance" /\ Next /\ UNCHANGED <<registryVars, used>>
  \/ used = "polymorphism" /\ RegistryNext /\ UNCHANGED <<vars, used>>

ContextsSpec == ContextsInit /\ [][ContextsNext]_<<vars, registryVars, used>>

=============================================================================
