----------------------------- MODULE MCPodInfo -----------------------------
\* Two pods for TLC, under two names.
EXTENDS PodInfo

CONSTANTS p1, p2

TwoNames == p1 :> "web" @@ p2 :> "db"
=============================================================================
