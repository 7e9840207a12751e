\* Weak polymorphic pointers, of which the reader keeps no share.
CONSTANTS
  Programs <- Watching
  MaxDocuments = 2
SPECIFICATION Spec
INVARIANT InUseIsLive
CHECK_DEADLOCK FALSE
