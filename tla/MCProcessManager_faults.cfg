SPECIFICATION Spec
CONSTANTS
  web = web
  job = job
  v1 = v1
  v2 = v2
  None = None
  Torn = Torn
  Keys = {web}
  Fps = {v1, v2}
  MaxPids = 3
  FileOf <- MCFileOf
  Bootstrap <- MCBootstrap
  Lists <- Replacing
  Hazards = {"crash_mid_op", "disk_error", "early_launch", "foreign"}
  MaxRuns = 3
  MaxBoots = 2
  MaxCrashes = 1
  MaxExits = 1
  MaxInputs = 2
PROPERTY SignalsOnlyOwn
