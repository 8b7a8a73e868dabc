SPECIFICATION FairSpec
CONSTANTS
  web = web
  job = job
  v1 = v1
  v2 = v2
  None = None
  Torn = Torn
  Keys = {web}
  Fps = {v1, v2}
  MaxPids = 4
  FileOf <- MCFileOf
  Bootstrap <- MCBootstrap
  Lists <- Changing
  Hazards = {}
  MaxRuns = 4
  MaxBoots = 1
  MaxCrashes = 1
  MaxExits = 1
  MaxInputs = 2
PROPERTY Converges
