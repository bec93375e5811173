CONSTANTS
  web = web
  db = db
  a1 = a1
  a2 = a2
  Ids = {web, db}
  Pids = {1, 2}
  Ips = {a1, a2}
  NoIp = NoIp
  MaxTag = 7
  MaxChanges = 3
  MaxFaults = 1
SPECIFICATION FairSpec
INVARIANTS
  TypeOK
  ItemsMatchContainers
  ListsAgree
PROPERTIES
  ListsConverge
  RunningArePinged
  ImplementsOwnership
