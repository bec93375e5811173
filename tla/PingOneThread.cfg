CONSTANTS
  pod = pod
  container = container
  podThread = podThread
  containerThread = containerThread
  Owners = {pod, container}
  Threads = {podThread, containerThread}
  ThreadOf <- OneThread
  Dests = {d1}
  MaxTag = 2
  MaxSend = 2
  MaxNoise = 1
  MaxResets = 1
  MaxRestarts = 1
SPECIFICATION Spec
PROPERTY
  ImplementsOwnership
INVARIANTS
  RepliesWithinRequests
  TableOutlivesThreads
