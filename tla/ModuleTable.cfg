SPECIFICATION Spec
CONSTANTS
  Scripts = {"absent", "noinit", "nocleanup", "nomethod", "raises", "other", "good"}
  PathSettings = {"novalue", "value"}
  Names = {"OPTIONS", "REQMOD"}
  Settings = {"echo", "modpy", "unnamed", "absent", "partial", "cut"}
  MaxEntries = 2
  MaxModules = 2
  MaxRequests = 2
INVARIANTS
  TypeOK
  OnlyLoadedCalled
  LibrariesReturned
  OnlyKnownLeaks
CHECK_DEADLOCK FALSE
