CONSTANTS
  p1 = p1
  p2 = p2
  Pods = {p1, p2}
  NameOf <- TwoNames
  OwnIps = {a1, a2}
  HostIp = HostIp
  NoIp = NoIp
  MaxTag = 5
  MaxCnt = 1
  MaxChanges = 3
SPECIFICATION FairSpec
INVARIANTS
  TypeOK
  ItemsMatchList
  OnlyPingablePinged
  MergeYieldsAnswer
  PublishedIsOneAnswer
  CountsAreOwn
PROPERTIES
  StalePingsEnd
  ImplementsOwnership
