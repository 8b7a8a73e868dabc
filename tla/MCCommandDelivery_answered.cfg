SPECIFICATION FairSpec
CONSTANTS
  web = web
  job = job
  r1 = r1
  r2 = r2
  r3 = r3
  None = None
  Keys = {web}
  RunIds = {r1, r2}
  KeyOf <- MCKeyOf
  Hazards = {"result_lost"}
  QueueCap = 2
  MaxAttempts = 3
  MaxCommands = 2
  MaxLosses = 2
  MaxRestarts = 0
PROPERTY EachIsAnswered
