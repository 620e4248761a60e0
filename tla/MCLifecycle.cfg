SPECIFICATION Spec
CONSTANTS
  Workers <- MCWorkers
  Servers <- MCServers
  Sources <- MCSources
  Destinations <- MCDestinations
  Faults <- MCFaults
INVARIANTS
  ExportsAreWhole
  ReadsLiveObjects
PROPERTIES
  StopSettles
CHECK_DEADLOCK FALSE
