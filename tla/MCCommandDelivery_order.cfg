SPECIFICATION Spec
CONSTANTS
  web = web
  job = job
  r1 = r1
  r2 = r2
  r3 = r3
  None = None
  Keys = {web}
  RunIds = {r1}
  KeyOf <- MCKeyOf
  Hazards = {"heartbeat_lost", "result_lost", "slave_restart", "master_restart", "drain"}
  QueueCap = 1
  MaxAttempts = 2
  MaxCommands = 2
  MaxLosses = 2
  MaxRestarts = 2
INVARIANT MasterIsRight
PROPERTY RunInOrderOnce
