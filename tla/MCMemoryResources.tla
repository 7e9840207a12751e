------------------------- MODULE MCMemoryResources -------------------------
(***************************************************************************)
(* Programs for MemoryResources.  Trees: unique owners of which one has a  *)
(* resource that propagates, nested in it one that has another that does   *)
(* not.  Graphs: shared and weak pointers that share polymorphic objects,  *)
(* which own an object and refer to others.  Weak: weak pointers whose     *)
(* objects have weak, shared and raw pointers.                             *)
(***************************************************************************)
EXTENDS MemoryResources

Pointer(kind, types, resource_, propagate) ==
  [ kind |-> kind, types |-> types, polymorphic |-> Len(types) > 1,
    nullable |-> TRUE, resource |-> resource_, propagate |-> propagate ]

Both == << "Leaf", "Branch" >>

Trees ==
  [ objects |-> 5,
    root |-> << Pointer("Observer", << "Leaf" >>, NewDelete, FALSE),
                Pointer("Owner", Both, "outer", TRUE),
                [ Pointer("Owner", << "Leaf" >>, NewDelete, TRUE) EXCEPT !.nullable = FALSE ] >>,
    members |-> [ type \in {"Leaf", "Branch"} |->
                    IF type = "Leaf" THEN << >>
                    ELSE << Pointer("Owner", Both, "inner", FALSE),
                            Pointer("Owner", << "Leaf" >>, NewDelete, FALSE) >> ],
    context |-> "context", aliases |-> FALSE ]

SharedPointer(kind) == Pointer(kind, Both, "outer", TRUE)

Shared ==
  [ objects |-> 3,
    root |-> << SharedPointer("SharedObserver"),
                SharedPointer("SharedOwner"), SharedPointer("SharedOwner") >>,
    members |-> [ type \in {"Leaf", "Branch"} |->
                    IF type = "Leaf" THEN << >>
                    ELSE << Pointer("Owner", << "Leaf" >>, NewDelete, FALSE),
                            Pointer("Observer", << "Leaf" >>, NewDelete, FALSE) >> ],
    context |-> NewDelete, aliases |-> FALSE ]

Graphs ==
  [ Shared EXCEPT
      !.root = << SharedPointer("SharedObserver"), SharedPointer("SharedOwner") >>,
      !.members = [ type \in {"Leaf", "Branch"} |->
                    IF type = "Leaf" THEN << >>
                    ELSE << SharedPointer("SharedOwner"),
                            SharedPointer("SharedObserver") >> ] ]

\* Weak pointers that are not polymorphic: the object of one is in the shared
\* state while it is read.
Plain(kind) == Pointer(kind, << "Branch" >>, NewDelete, FALSE)

Weak ==
  [ objects |-> 2,
    root |-> << Plain("SharedObserver"), Plain("SharedOwner") >>,
    members |-> [ type \in {"Leaf", "Branch"} |->
                    IF type = "Leaf" THEN << >>
                    ELSE << Plain("SharedObserver"), Plain("SharedOwner"), Plain("Observer") >> ],
    context |-> NewDelete, aliases |-> FALSE ]

AllPrograms == { Trees, Shared, Graphs, Weak }

\* A weak pointer between two shared ones, all polymorphic.
Watching ==
  { [ Graphs EXCEPT !.objects = 2,
                    !.root = << SharedPointer("SharedOwner"), SharedPointer("SharedObserver"),
                                SharedPointer("SharedOwner") >> ] }

Aliasing == { [ Shared EXCEPT !.aliases = TRUE ] }

=============================================================================
