\* Two reloads at once while one edit is made, one while a second is, of seven files.
SPECIFICATION Spec
CONSTANTS
  Reloaders = {r1, r2}
  Initial <- InitialFiles
  Contents <- EditedFiles
  MaxEdits = 2
  MaxEvents = 3
  DefaultQueryLimit = 1000
  DefaultListLimit = 2
  MaxInt = 7
INVARIANTS
  TypeOK
  OneSweep
  LoadExact
  CredentialsResolve
  PagesCover
