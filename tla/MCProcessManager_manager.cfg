SPECIFICATION Spec
CONSTANTS
  web = web
  job = job
  v1 = v1
  v2 = v2
  None = None
  Torn = Torn
  Keys = {web, job}
  Fps = {v1, v2}
  MaxPids = 3
  FileOf <- MCFileOf
  Bootstrap <- MCBootstrap
  Lists <- PairLists
  Hazards = {}
  MaxRuns = 3
  MaxBoots = 1
  MaxCrashes = 1
  MaxExits = 1
  MaxInputs = 2
INVARIANTS HistoryRight ExitResultIsOwn OneShotOnce LiveIsTracked OneLivePerKey
PROPERTY ImplementsOneInstance
