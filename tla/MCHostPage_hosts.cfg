SPECIFICATION PageSpec
CONSTANTS
  Slaves <- MCSlaves
  Ips <- MCIps
  Order <- MCOrder
  Calls = {"c1", "c2"}
  Browsers = {"b1", "b2"}
  SlotCount = 2
  Settings <- MCSettings
INVARIANTS RowsDiffer OneDeployment AcceptedIsUsed PageHonest
PROPERTIES SyncKeepsIdentity AddedHostsStay DeploymentsEnd PanelEnds
CHECK_DEADLOCK FALSE
