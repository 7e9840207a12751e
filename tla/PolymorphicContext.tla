------------------------ MODULE PolymorphicContext -------------------------
(***************************************************************************)
(* The registry of polymorphic types, ext/utils/polymorphism_utils.h: it   *)
(* gives every derived class of a base an index, which is what is written  *)
(* of an object's type, and a handler that creates and reads objects.      *)
(*                                                                         *)
(* Two programs have a context each.  They register classes, extend        *)
(* hierarchies and clear their contexts in any order; one writes objects   *)
(* through a pointer to a base, the other reads them.  A program may use   *)
(* its context for reading and for writing, and clears it between.  The    *)
(* hash codes that stand for types differ between programs, the types do   *)
(* not.                                                                    *)
(*                                                                         *)
(* The names of the specification say Registry where another context's     *)
(* say nothing, so that both can be extended by one module.                *)
(***************************************************************************)
EXTENDS Integers, FiniteSets, SequencesExt

CONSTANTS Types,        \* the classes both programs know
          Abstract,     \* those of them that are abstract
          Hierarchies,  \* from the name of a THierarchy to its lists of children
          Lists,        \* the lists of bases that are registered
          Singles,      \* the branches <<base, derived>> registered one by one
          MaxRegistrations,  \* bound: registrations of a program
          Null          \* the null pointer

Children(h, t) == Hierarchies[h][t]

\* What each hierarchy declares to derive from each class, itself included.
Descendants ==
  [ h \in DOMAIN Hierarchies |->
      LET below[S \in SUBSET Types] ==
            LET more == S \union UNION { Range(Children(h, x)) : x \in S }
            IN  IF more = S THEN S ELSE below[more]
      IN  [ t \in Types |-> below[{t}] ] ]

ASSUME TypesAssumption ==
  /\ Abstract \subseteq Types /\ Null \notin Types /\ MaxRegistrations \in Nat
  /\ Hierarchies \in [ DOMAIN Hierarchies -> [ Types -> Seq(Types) ] ]
  /\ Lists \subseteq Seq(Types) /\ Singles \subseteq Types \X (Types \ Abstract)
  /\ \A h \in DOMAIN Hierarchies, t \in Types :
       \A c \in Range(Children(h, t)) : t \notin Descendants[h][c]

VARIABLES
  registry,  \* the PolymorphicContext of each program
  serves,    \* what each program registers and uses its context for
  declared,  \* ghost: by program and base, what was registered for it, in order
  registrations,  \* how many each program has made
  document,  \* what was written of an object, or << >>
  slot,      \* the type of the object the reader's pointer points to, or Null
  error      \* whether the reader raised InvalidPointer

registryVars == <<registry, serves, declared, registrations, document, slot, error>>

Programs == {"writer", "reader"}

TSerializers == {"Serializer", "Deserializer"}

\* _baseToDerivedMap, where a handler is the TSerializer it casts to, and
\* _baseToDerivedArray.
NewRegistry == [ map |-> << >>, array |-> [ b \in Types |-> << >> ] ]

RegistryInit ==
  /\ registry = [ s \in Programs |-> NewRegistry ]
  /\ serves   = [ writer |-> "Serializer", reader |-> "Deserializer" ]
  /\ declared = [ s \in Programs |-> [ b \in Types |-> << >> ] ]
  /\ registrations = [ s \in Programs |-> 0 ]
  /\ document = << >> /\ slot = Null /\ error = FALSE

-----------------------------------------------------------------------------
\* The index is given even when the pair is known.
AddToMap_Bug(c, kind, base, derived) ==
  IF derived \in Abstract THEN c
  ELSE [ map   |-> c.map @@ <<base, derived>> :> kind,
         array |-> [ c.array EXCEPT ![base] = Append(@, derived) ] ]

\* addToMap
AddToMap(c, kind, base, derived) ==
  IF derived \in Abstract \/ <<base, derived>> \in DOMAIN c.map THEN c
  ELSE [ map   |-> c.map @@ <<base, derived>> :> kind,
         array |-> [ c.array EXCEPT ![base] = Append(@, derived) ] ]

\* The hierarchy of a derived class is not gone through.
Adds_Bug ==
  [ h \in DOMAIN Hierarchies |->
      LET adds[p \in Types \X Types] ==
            LET children == Children(h, p[2])
            IN  << p >> \o FlattenSeq([ i \in DOMAIN children |-> adds[<<p[1], children[i]>>] ])
      IN  [ b \in Types |-> adds[<<b, b>>] ] ]

\* add, addChilds: the calls of addToMap for a base, in order.  Below a pair
\* come the children for the same base, first to last, and then each child
\* as a base, last to first.
Adds ==
  [ h \in DOMAIN Hierarchies |->
      LET adds[p \in Types \X Types] ==
            LET children == Children(h, p[2])
            IN  << p >>
                \o FlattenSeq([ i \in DOMAIN children |-> adds[<<p[1], children[i]>>] ])
                \o FlattenSeq(Reverse([ i \in DOMAIN children |->
                                          adds[<<children[i], children[i]>>] ]))
      IN  [ b \in Types |-> adds[<<b, b>>] ] ]

AddAll(c, kind, pairs) ==
  FoldLeft(LAMBDA d, p : AddToMap(d, kind, p[1], p[2]), c, pairs)

\* Registering something again declares nothing.
Declare(s, bases, what) ==
  declared' = [ declared EXCEPT ![s] =
                  [ b \in Types |-> IF b \in bases /\ what \notin Range(@[b])
                                      THEN Append(@[b], what) ELSE @[b] ] ]

Registers(s) == /\ registrations[s] < MaxRegistrations
                /\ registrations' = [ registrations EXCEPT ![s] = @ + 1 ]
                /\ UNCHANGED <<serves, document, slot, error>>

RegisterBasesList(s, h, bases) ==
  /\ Registers(s)
  /\ registry' = [ registry EXCEPT ![s] = AddAll(@, serves[s],
                  FlattenSeq([ i \in DOMAIN bases |-> Adds[h][bases[i]] ])) ]
  /\ Declare(s, UNION { Descendants[h][b] : b \in Range(bases) }, h)

RegisterSingleBaseBranch(s, base, derived) ==
  /\ Registers(s)
  /\ registry' = [ registry EXCEPT ![s] = AddToMap(@, serves[s], base, derived) ]
  /\ Declare(s, {base}, derived)

\* The classes and their handlers stay.
Cleared_Bug(c) == c

\* clear
Cleared(c) == NewRegistry

\* The program clears its context, to go on with it for what it likes.
Clear(s) ==
  /\ registrations[s] < MaxRegistrations
  /\ registrations' = [ registrations EXCEPT ![s] = @ + 1 ]
  /\ \E kind \in TSerializers : serves' = [ serves EXCEPT ![s] = kind ]
  /\ registry'  = [ registry EXCEPT ![s] = Cleared(@) ]
  /\ declared' = [ declared EXCEPT ![s] = [ b \in Types |-> << >> ] ]
  /\ UNCHANGED <<document, slot, error>>

-----------------------------------------------------------------------------
\* serialize, of an object through a pointer to base; it asserts that the
\* pair is registered.  The object itself is left out.
IndexOf(c, base, derived) == CHOOSE i \in DOMAIN c.array[base] :
                               /\ c.array[base][i] = derived
                               /\ \A j \in 1 .. i - 1 : c.array[base][j] # derived

Serialize(base, derived) ==
  /\ document = << >> /\ serves["writer"] = "Serializer"
  /\ <<base, derived>> \in DOMAIN registry["writer"].map
  /\ document' = << [ base |-> base, type |-> derived,
                      index |-> IndexOf(registry["writer"], base, derived),
                      declared |-> declared["writer"][base] ] >>
  /\ error' = FALSE
  /\ UNCHANGED <<registry, serves, declared, registrations, slot>>

\* deserialize; it asserts that the base is registered, and so does
\* getPolymorphicHandler of an object that is destroyed.
Deserialize ==
  /\ document # << >> /\ serves["reader"] = "Deserializer"
  /\ LET base    == document[1].base
         array   == registry["reader"].array[base]
         index   == document[1].index
         found   == index \in DOMAIN array
         type    == array[index]
     IN  /\ array # << >>
         /\ found /\ slot \notin {Null, type} => <<base, slot>> \in DOMAIN registry["reader"].map
         /\ slot'  = IF found THEN type ELSE slot
         /\ error' = ~found
  /\ document' = << >>
  /\ UNCHANGED <<registry, serves, declared, registrations>>

RegistryNext ==
  \/ \E s \in Programs, h \in DOMAIN Hierarchies, bases \in Lists :
       RegisterBasesList(s, h, bases)
  \/ \E s \in Programs, p \in Singles : RegisterSingleBaseBranch(s, p[1], p[2])
  \/ \E s \in Programs : Clear(s)
  \/ \E base \in Types, derived \in Types \ Abstract : Serialize(base, derived)
  \/ Deserialize

RegistrySpec == RegistryInit /\ [][RegistryNext]_registryVars

-----------------------------------------------------------------------------
\* Whatever bases the lists name and in whatever order, every class below a
\* base that a hierarchy was registered for can be written and read through
\* pointers to it, pointers to classes in between included ("NOTE: you dont
\* need to add Rectangle to reach for RoundedRectangle",
\* examples/smart_pointers_with_polymorphism.cpp:291), by a handler for what
\* the program does.
HierarchyIsComplete ==
  \A s \in Programs, b \in Types :
    \A h \in Range(declared[s][b]) \intersect DOMAIN Hierarchies :
      \A d \in Descendants[h][b] \ Abstract :
        /\ <<b, d>> \in DOMAIN registry[s].map
        /\ registry[s].map[<<b, d>>] = serves[s]

\* "This only works if all polymorphic relationships is equal between
\* platforms": if the programs declared the same of a base, in the same
\* order, an object is read as the type it was written as, although the
\* lists were others, were registered in another order, or again.  A reader
\* that declared more since reads old documents; one that declared less
\* knows the type or raises InvalidPointer, and never takes another.
TypesAgree ==
  [][ Deserialize =>
      LET wrote == document[1].declared
          reads == declared["reader"][document[1].base]
      IN  /\ IsPrefix(wrote, reads) => ~error' /\ slot' = document[1].type
          /\ IsPrefix(reads, wrote) => error' \/ slot' = document[1].type ]_registryVars

=============================================================================
