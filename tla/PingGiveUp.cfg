CONSTANTS
  pod = pod
  container = container
  podThread = podThread
  containerThread = containerThread
  Owners = {pod}
  Threads = {podThread, containerThread}
  ThreadOf <- PodOnly
  Dests = {d1}
  MaxTag = 1
  MaxSend = 2
  MaxNoise = 0
  MaxResets = 3
  MaxRestarts = 0
SPECIFICATION Spec
INVARIANT
  GivesUpOnBrokenSocket
