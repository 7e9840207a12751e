-------------------------- MODULE MCPointerLinking --------------------------
(***************************************************************************)
(* Shapes of programs for PointerLinking: trees of unique owners with      *)
(* observers of anything; graphs of shared and weak pointers with cycles,  *)
(* of a fixed type and polymorphic; and a mixture of which the reader gets *)
(* a part.  Besides an object of its own in each slot, the reader's        *)
(* program may have objects that hold objects (InTree, InBranches), and    *)
(* objects that several of its pointers share, one of them a pointer in    *)
(* the object itself (InCircle).                                           *)
(***************************************************************************)
EXTENDS PointerLinking, TLC

Having(to) == [ value |-> 0, to |-> to ]
None       == Having(<< Null, Null >>)

InTree ==
  0 :> Having(<< Null, 1, 2 >>) @@ 1 :> Having(<< 3, 3 >>) @@ 2 :> Having(<< 1, Null >>)
    @@ 3 :> None

InBranches ==
  0 :> Having(<< 1, 3, 2 >>) @@ 1 :> Having(<< 3, Null >>) @@ 2 :> Having(<< Null, 4 >>)
    @@ 3 :> None @@ 4 :> None

InCircle ==
  0 :> Having(<< 1, Null, 1 >>) @@ 1 :> Having(<< 2, 1 >>) @@ 2 :> None

AllHeaps == { InTree, InBranches, InCircle }

Tree ==
  [ objects |-> 3, root |-> << "Observer", "Owner", "Reference" >>,
    object |-> << "Observer", "Owner" >>,
    polymorphic |-> FALSE, existing |-> TRUE, heaps |-> {InTree}, truncates |-> FALSE ]

Shared ==
  [ objects |-> 2, root |-> << "SharedObserver", "Observer", "SharedOwner" >>,
    object |-> << "SharedOwner", "SharedObserver" >>,
    polymorphic |-> FALSE, existing |-> TRUE, heaps |-> {InBranches}, truncates |-> FALSE ]

Mixed ==
  [ objects |-> 3,
    root |-> << "SharedObserver", "Observer", "Reference", "SharedOwner" >>,
    object |-> << "SharedOwner" >>,
    polymorphic |-> FALSE, existing |-> FALSE, heaps |-> {}, truncates |-> TRUE ]

Polymorphs == [ Shared EXCEPT !.polymorphic = TRUE ]

AllPrograms ==
  { Tree, Shared, Polymorphs, [ Shared EXCEPT !.heaps = {InCircle} ], Mixed }

\* An object with a weak pointer back to it.
BackReference ==
  { [ objects |-> 1, root |-> << "SharedOwner" >>, object |-> << "SharedObserver" >>,
      polymorphic |-> TRUE, existing |-> TRUE, heaps |-> {}, truncates |-> FALSE ] }

=============================================================================
