\* Up to three snapshots and measured waits, in any mixture.  Stacks of three
\* kinds, of which two fit in a window; room for one wait; one sample in a
\* document.  wallLoop, one call of FlushProfiles, and Shutdown.
SPECIFICATION FairSpec
CONSTANTS
  Running = {run}
  Blocked = {park}
  Idle = {idle}
  Foreign = {}
  WallExcludeIdle = TRUE
  WallMaxStacks = 2
  IOMaxSamples = 1
  ProfileBatchSize = 1
  Callers = {caller}
  Loop = loop
  Main = main
  MaxLive = 1
  MaxInputs = 3
INVARIANTS
  TypeOK
  ChargedOnce
  OffCPUWithinWall
  WaitsOnce
PROPERTIES
  ShutdownDrains
  WaitsLeave
\* Shutdown may have returned and the bounds be reached.
CHECK_DEADLOCK FALSE
