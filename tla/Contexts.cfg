\* Objects of two virtual bases that are serialized one after another or as
\* members, and the registries of two programs.
CONSTANTS
  a1 = a1
  a2 = a2
  a3 = a3
  Addresses = {a1, a2, a3}
  NoPtr = NoPtr
  VirtualBases = {"X", "Y"}
  MaxObjects = 3
  MaxCalls = 5
  Interleaves = FALSE
  Reuses = FALSE
  Types <- MCTypes
  Abstract = {"Shape"}
  Hierarchies <- MCHierarchies
  Lists <- MCLists
  Singles <- MCSingles
  MaxRegistrations = 3
  Null = "Null"
SPECIFICATION ContextsSpec
SYMMETRY Places
INVARIANTS
  NoSecondCopy
  NoMissingCopy
  HierarchyIsComplete
PROPERTIES
  TypesAgree
CHECK_DEADLOCK FALSE
