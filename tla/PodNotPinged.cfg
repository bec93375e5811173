CONSTANTS
  p1 = p1
  p2 = p2
  Pods = {p1, p2}
  NameOf <- TwoNames
  OwnIps = {a1}
  HostIp = HostIp
  NoIp = NoIp
  MaxTag = 4
  MaxCnt = 0
  MaxChanges = 3
SPECIFICATION Spec
INVARIANT
  RunningPodIsPinged
