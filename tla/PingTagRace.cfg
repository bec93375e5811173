CONSTANTS
  pod = pod
  container = container
  podThread = podThread
  containerThread = containerThread
  Owners = {pod, container}
  Threads = {podThread, containerThread}
  ThreadOf <- TwoThreads
  Dests = {d1}
  MaxTag = 2
  MaxSend = 2
  MaxNoise = 0
  MaxResets = 0
  MaxRestarts = 0
SPECIFICATION Spec
INVARIANT
  UniqueTags
