\* Three commands of setup with one failure and one edit; two starts of pmg with one
\* change of the managed file and one crash.
SPECIFICATION HomeSpec
CONSTANTS
  PackageManagers <- MCPackageManagers
  Systems <- MCSystems
  Homes <- MCHomes
  MaxCommands = 3
  MaxFaults = 1
  MaxEdits = 1
  Template <- MCTemplate
  Defaults <- MCDefaults
  Governed <- MCGoverned
  ManagedFiles <- MCManagedFiles
  UserFiles <- MCUserFiles
  Commands <- MCCommands
  MaxStarts = 2
  MaxChanges = 1
  MaxCrashes = 1
INVARIANTS
  SetupIsReversible
  UsersFilesSurvive
  ConfigurationHolds
CHECK_DEADLOCK FALSE
