--------------------------- MODULE PingOwnership ---------------------------
(***************************************************************************)
(* What the users of the ping service are promised, with the threads, the  *)
(* sockets and the packets left out.  An owner is anything that wants its  *)
(* address pinged: a pod, a container, a network interface of the node.    *)
(*                                                                         *)
(* An owner holds at most one ping item, named by a tag that no other      *)
(* owner has ever had, and an item exists exactly as long as its owner     *)
(* holds it.  PingService, PodInfo and ContainerCollector each implement   *)
(* this module.                                                            *)
(***************************************************************************)
CONSTANTS Owners,   \* whatever has an address to ping
          Tag       \* the tags an owner can be given; 0 means "no tag"

VARIABLES holds,    \* the tag each owner holds, 0 for none
          items,    \* the tags of the items being pinged
          used      \* the tags some owner has held so far

vars == <<holds, items, used>>

TypeOK ==
  /\ holds \in [Owners -> Tag \cup {0}]
  /\ items \subseteq Tag
  /\ used \subseteq Tag

Init ==
  /\ holds = [o \in Owners |-> 0]
  /\ items = {}
  /\ used = {}

Fresh == Tag \ used

\* What is left of the items when o gives up its own.
WithoutOwn(o) == items \ {holds[o]}

\* A new item under a fresh tag; an item o held before goes away with it.
Acquire(o) ==
  \E t \in Fresh :
    /\ holds' = [holds EXCEPT ![o] = t]
    /\ items' = WithoutOwn(o) \cup {t}
    /\ used' = used \cup {t}

Release(o) ==
  /\ holds[o] # 0
  /\ holds' = [holds EXCEPT ![o] = 0]
  /\ items' = WithoutOwn(o)
  /\ UNCHANGED used

\* The daemon is killed and started again: nothing of this is persisted.
Restart ==
  /\ holds' = [o \in Owners |-> 0]
  /\ items' = {}
  /\ used' = {}

Next ==
  \/ \E o \in Owners : Acquire(o) \/ Release(o)
  \/ Restart

Spec == Init /\ [][Next]_vars

-----------------------------------------------------------------------------
\* Two owners never hold the same tag, so neither can take the other's item
\* away and neither reads the other's counts.
ExclusiveTags ==
  \A o1, o2 \in Owners : holds[o1] = holds[o2] /\ holds[o1] # 0 => o1 = o2

\* An item exists exactly while some owner holds its tag: none is pinged with
\* nobody left to unregister it, and no owner polls an item that is gone.
ItemsAreHeld == items = {holds[o] : o \in Owners} \ {0}
=============================================================================
