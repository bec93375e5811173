CONSTANTS
  web = web
  webChild = webChild
  db = db
  t1 = t1
  t2 = t2
  t3 = t3
  t4 = t4
  Pids = {web, webChild, db}
  Mains = {web, db}
  HomeOf <- Home
  Tids = {t1, t3, t4}
  PidOf <- Process
  NoKey = NoKey
  MapSize = 3
  Stopped = {0}
  MaxCalls = 2
  MaxChanges = 1
SPECIFICATION Spec
INVARIANTS
  OnlyReuseMisleads
  CountsAreExact
