\* Two callers, three VM slots of which the boot takes two, one damaged request.
CONSTANTS
  None = None
  c1 = c1
  c2 = c2
  Caller = {c1, c2}
  MAX_VMS = 3
  POOL_PAGES = 19
  Image <- Guests
  Embedded <- Hello
  Reason = {12, 48}
  Program <- Programs
  Ask <- Asks
  Named = {0, 2}
  Policy <- Policies
SPECIFICATION Spec
INVARIANTS GuestsIsolated SnapshotWasTrue
PROPERTIES  RepliesInOrder 
