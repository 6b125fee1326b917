SPECIFICATION Spec
CONSTANTS
  rt = rt
  drv = drv
  coll = coll
  NoFile = NoFile
  Procs = {1, 2}
  Files = {rt, drv, coll}
  Libs <- ThreeLibs
  LibOf <- LibOfFile
  MapsOf <- SharedMaps
  Reachable <- AllReachable
  Programs <- TwoPrograms
  Failing = {rt, coll}
  MayExit = {1}
  ScanPeriod = 2
  cudart = rt
INVARIANTS TypeOK OneAttempt
PROPERTIES EveryLibraryTried EveryPidKnown
CHECK_DEADLOCK FALSE
