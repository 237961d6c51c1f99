SPECIFICATION FairSpec
CONSTANTS
  Hosts <- MCHosts
  Configs <- MCConfigs
  MaxEdits = 1
  MaxFaults = 2
INVARIANTS
  TypeOK
  SoundOnAQuietHost
  IndeterminateHasAReason
  ErrorsAccountForFaults
PROPERTIES
  EventuallyReports
  Attested
CHECK_DEADLOCK FALSE
