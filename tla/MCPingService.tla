--------------------------- MODULE MCPingService ---------------------------
\* Two owners for TLC: a pod (pod thread) and a container (container thread).
EXTENDS PingService, TLC

CONSTANTS pod, container, podThread, containerThread

TwoThreads == pod :> podThread @@ container :> containerThread
PodOnly == pod :> podThread
OneThread == pod :> podThread @@ container :> podThread
=============================================================================
