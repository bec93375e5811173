---------------------------- MODULE PingService ----------------------------
(***************************************************************************)
(* The ICMP ping service of src/src/ping/ping.c: the tag counter, the      *)
(* table of ping items, the send thread, the receive thread, the raw       *)
(* socket they share, and the network between them and the pinged hosts.   *)
(*                                                                         *)
(* Every access to the table is one critical section of the service's      *)
(* rwlock (always taken for writing) that calls nothing that blocks, so it *)
(* is one step here.  What happens outside the lock is not: gen_ping_tag   *)
(* takes no lock, the socket takes no lock, and the two sends of an item   *)
(* follow the update of its send_cnt.                                      *)
(*                                                                         *)
(* A packet is known by the tag in its payload: recv_ping reads nothing    *)
(* else, so the network is the number of packets on their way per tag,     *)
(* request or reply.  noise and issued are history: they count what the    *)
(* network added and how often gen_ping_tag returned a tag.                *)
(***************************************************************************)
EXTENDS Naturals

CONSTANTS
  Owners,       \* the pods, containers and interfaces that want to be pinged
  Threads,      \* the threads that call the service for them
  ThreadOf,     \* the thread each owner belongs to
  Dests,        \* the addresses
  MaxTag,       \* bound: tags handed out
  MaxSend,      \* bound: an item that has sent this many sends no more
  MaxNoise,     \* bound: stray packets per tag
  MaxResets,    \* bound: no receive fails once the socket was reset this often
  MaxRestarts   \* bound: times the daemon is killed and started again

ASSUME PingAssumption ==
  /\ ThreadOf \in [Owners -> Threads]
  /\ Dests # {}
  /\ MaxTag \in Nat /\ MaxSend \in Nat /\ MaxNoise \in Nat
  /\ MaxResets \in Nat /\ MaxRestarts \in Nat

Tag == 1..MaxTag

\* The value of a field nothing has written yet.
AnyDest == CHOOSE d \in Dests : TRUE

VARIABLES
  \* the callers
  lastTag,      \* the static counter of gen_ping_tag
  phase,        \* how far an owner is in acquiring an item
  seenTag,      \* the counter as an unfinished gen_ping_tag read it
  ownTag,       \* ping_stat.tag of an owner, 0 for none
  ip,           \* the address an owner registered
  \* ping_map
  registered,   \* its keys
  dest,         \* dest, send_cnt and recv_cnt of each item
  sendCnt,
  recvCnt,
  \* the send thread
  sendPc,
  todo,         \* the items the sweep has still to visit
  curTag,       \* the item being pinged
  left,         \* sends of that item not done yet
  \* the receive thread
  recvPc,
  innerFail,
  outerFail,
  \* the socket, the shutdown, the network
  sock,
  svc,
  wire,
  noise,
  issued,
  restarts

callerVars == <<lastTag, phase, seenTag, ownTag, ip, issued>>
mapVars == <<registered, dest, sendCnt, recvCnt>>
sendVars == <<sendPc, todo, curTag, left>>
recvVars == <<recvPc, innerFail, outerFail>>
netVars == <<wire, noise>>
lifeVars == <<svc, restarts>>
vars == <<callerVars, mapVars, sendVars, recvVars, sock, netVars, lifeVars>>

CallersType ==
  /\ lastTag \in 0..MaxTag
  /\ phase \in [Owners -> {"idle", "write", "register"}]
  /\ seenTag \in [Owners -> 0..MaxTag]
  /\ ownTag \in [Owners -> 0..MaxTag]
  /\ \A o \in Owners : phase[o] = "register" => ownTag[o] \in Tag
  /\ ip \in [Owners -> Dests]
  /\ issued \in [Tag -> Nat]
MapType ==
  /\ registered \subseteq Tag
  /\ dest \in [Tag -> Dests]
  /\ sendCnt \in [Tag -> Nat]
  /\ recvCnt \in [Tag -> Nat]
SendType ==
  /\ sendPc \in {"sleep", "next", "send", "ended"}
  /\ todo \subseteq Tag
  /\ curTag \in 0..MaxTag
  /\ left \in 0..2
  /\ sendPc = "send" => curTag \in Tag
RecvType ==
  /\ recvPc \in {"recv", "reset", "gaveUp", "ended"}
  /\ innerFail \in Nat
  /\ outerFail \in Nat
NetType ==
  /\ wire \in [Tag -> Nat]
  /\ noise \in [Tag -> Nat]
LifeType ==
  /\ svc \in {"up", "closing", "done", "sendJoined", "recvJoined", "destroyed"}
  /\ restarts \in 0..MaxRestarts
TypeOK ==
  /\ CallersType /\ MapType /\ SendType /\ RecvType /\ NetType /\ LifeType
  /\ sock \in {"open", "none"}

\* init_ping_svc made the socket, the empty table and both threads.
Init ==
  /\ lastTag = 0
  /\ phase = [o \in Owners |-> "idle"]
  /\ seenTag = [o \in Owners |-> 0]
  /\ ownTag = [o \in Owners |-> 0]
  /\ ip = [o \in Owners |-> AnyDest]
  /\ registered = {}
  /\ dest = [t \in Tag |-> AnyDest]
  /\ sendCnt = [t \in Tag |-> 0]
  /\ recvCnt = [t \in Tag |-> 0]
  /\ sendPc = "sleep" /\ todo = {} /\ curTag = 0 /\ left = 0
  /\ recvPc = "recv" /\ innerFail = 0 /\ outerFail = 0
  /\ sock = "open"
  /\ svc = "up"
  /\ wire = [t \in Tag |-> 0]
  /\ noise = [t \in Tag |-> 0]
  /\ issued = [t \in Tag |-> 0]
  /\ restarts = 0
-----------------------------------------------------------------------------
(***************************************************************************)
(* The callers.  An owner goes from no tag to a tag (gen_ping_tag, a read  *)
(* and a write of the counter with no lock) to an item (register), and     *)
(* back by unregister.  The owners of one thread do so one at a time.      *)
(***************************************************************************)
\* The mutant lets a thread begin another call before the last one returned.
Reentrant(o) == TRUE
ThreadFree(o) ==
  \A p \in Owners : ThreadOf[p] = ThreadOf[o] => phase[p] = "idle"

ReadTag(o) ==
  /\ svc = "up"
  /\ ThreadFree(o)
  /\ ownTag[o] = 0
  /\ lastTag < MaxTag
  /\ phase' = [phase EXCEPT ![o] = "write"]
  /\ seenTag' = [seenTag EXCEPT ![o] = lastTag]
  /\ UNCHANGED <<lastTag, ownTag, ip, issued, mapVars, sendVars, recvVars, sock, netVars, lifeVars>>

WriteTag(o) ==
  LET t == seenTag[o] + 1 IN
  /\ phase[o] = "write"
  /\ t \in Tag
  /\ lastTag' = t
  /\ ownTag' = [ownTag EXCEPT ![o] = t]
  /\ issued' = [issued EXCEPT ![t] = @ + 1]
  /\ phase' = [phase EXCEPT ![o] = "register"]
  /\ seenTag' = [seenTag EXCEPT ![o] = 0]
  /\ UNCHANGED <<ip, mapVars, sendVars, recvVars, sock, netVars, lifeVars>>

\* A change of the table while a sweep is under way invalidates its iterator:
\* glib leaves open which of the items the rest of the sweep still meets.
Rearranged(items) ==
  IF sendPc \in {"next", "send"} THEN todo' \in SUBSET items ELSE UNCHANGED todo

\* g_hash_table_remove under the lock; the bug a mutant plants forgets it.
KeptItem(t) == registered
WithoutItem(t) == registered \ {t}

\* The owner's ping_stat.tag after it unregistered; the mutant leaves it.
KeptTag(o) == ownTag
ForgottenTag(o) == [ownTag EXCEPT ![o] = 0]

\* A tag that is in the table already is left as it is.
Register(o, d) ==
  LET t == ownTag[o] IN
  /\ phase[o] = "register"
  /\ phase' = [phase EXCEPT ![o] = "idle"]
  /\ ip' = [ip EXCEPT ![o] = d]
  /\ IF t \in registered
     THEN UNCHANGED <<mapVars, todo>>
     ELSE /\ registered' = registered \cup {t}
          /\ dest' = [dest EXCEPT ![t] = d]
          /\ sendCnt' = [sendCnt EXCEPT ![t] = 0]
          /\ recvCnt' = [recvCnt EXCEPT ![t] = 0]
          /\ Rearranged(registered \cup {t})
  /\ UNCHANGED <<lastTag, seenTag, ownTag, issued, sendPc, curTag, left, recvVars, sock, netVars, lifeVars>>

\* The item is freed; a tag that is not in the table is ignored.
Unregister(o) ==
  LET t == ownTag[o] IN
  /\ svc = "up"
  /\ ThreadFree(o)
  /\ t # 0
  /\ ownTag' = ForgottenTag(o)
  /\ ip' = [ip EXCEPT ![o] = AnyDest]
  /\ IF t \in registered
     THEN /\ registered' = WithoutItem(t)
          /\ dest' = [dest EXCEPT ![t] = AnyDest]
          /\ sendCnt' = [sendCnt EXCEPT ![t] = 0]
          /\ recvCnt' = [recvCnt EXCEPT ![t] = 0]
          /\ Rearranged(registered \ {t})
     ELSE UNCHANGED <<mapVars, todo>>
  /\ UNCHANGED <<lastTag, phase, seenTag, issued, sendPc, curTag, left, recvVars, sock, netVars, lifeVars>>
-----------------------------------------------------------------------------
(***************************************************************************)
(* The send thread: every two seconds a sweep over the table, two requests *)
(* per item.  send_cnt moves before the sends, under the lock; the sends   *)
(* follow outside it, and each may come to nothing: the name does not      *)
(* resolve, the socket is gone, or the checksum, which reads past the end  *)
(* of the packet, makes the receiver drop it.                              *)
(***************************************************************************)
Done == svc \notin {"up", "closing"}

\* info->send_cnt + 2, for the two sends to come; the mutant counts one.
OneSendCounted(t) == [sendCnt EXCEPT ![t] = @ + 1]
BothSendsCounted(t) == [sendCnt EXCEPT ![t] = @ + 2]

\* The items a sweep starts with; the mutant goes on with the old iterator.
StaleIterator == todo
FreshIterator == registered

StartSweep ==
  /\ sendPc = "sleep" /\ ~Done
  /\ sendPc' = "next"
  /\ todo' = FreshIterator
  /\ UNCHANGED <<curTag, left, callerVars, mapVars, recvVars, sock, netVars, lifeVars>>

CountSends(t) == sendCnt' = BothSendsCounted(t) /\ left' = 2

\* The bound on the counters: an item the sweep meets for one time too many sends nothing.
SendNoMore == left' = 0 /\ UNCHANGED sendCnt

NextItem(t) ==
  /\ sendPc = "next" /\ t \in todo
  /\ IF sendCnt[t] < MaxSend THEN CountSends(t) ELSE SendNoMore
  /\ curTag' = t
  /\ todo' = todo \ {t}
  /\ sendPc' = "send"
  /\ UNCHANGED <<registered, dest, recvCnt, callerVars, recvVars, sock, netVars, lifeVars>>

SendPing ==
  /\ sendPc = "send"
  /\ left > 0
  /\ left' = left - 1
  /\ \/ sock = "open" /\ wire' = [wire EXCEPT ![curTag] = @ + 1]
     \/ UNCHANGED wire
  /\ UNCHANGED <<sendPc, todo, curTag, callerVars, mapVars, recvVars, sock, noise, lifeVars>>

ItemSent ==
  /\ sendPc = "send" /\ left = 0
  /\ sendPc' = "next"
  /\ curTag' = 0
  /\ UNCHANGED <<todo, left, callerVars, mapVars, recvVars, sock, netVars, lifeVars>>

EndSweep ==
  /\ sendPc = "next" /\ todo = {}
  /\ sendPc' = "sleep"
  /\ UNCHANGED <<todo, curTag, left, callerVars, mapVars, recvVars, sock, netVars, lifeVars>>
-----------------------------------------------------------------------------
(***************************************************************************)
(* The network loses, delays, reorders and duplicates packets.  Lose also  *)
(* stands for what recv_ping throws away: a packet too short, one with a   *)
(* wrong checksum, a reply whose TTL is still 250 or more.                 *)
(***************************************************************************)
Lose(t) ==
  /\ wire[t] > 0
  /\ wire' = [wire EXCEPT ![t] = @ - 1]
  /\ UNCHANGED <<noise, callerVars, mapVars, sendVars, recvVars, sock, lifeVars>>

Duplicate(t) ==
  /\ wire[t] > 0 /\ noise[t] < MaxNoise
  /\ wire' = [wire EXCEPT ![t] = @ + 1]
  /\ noise' = [noise EXCEPT ![t] = @ + 1]
  /\ UNCHANGED <<callerVars, mapVars, sendVars, recvVars, sock, lifeVars>>

(***************************************************************************)
(* The receive thread.  A reply is counted for the item of its tag, if the *)
(* table has one: nothing asks which request it answers, or whether it     *)
(* was counted before.  After three failed receives, which need not be in  *)
(* a row, the socket is closed and made anew; after the third time that    *)
(* happens the thread ends, whether or not the socket came back.           *)
(***************************************************************************)
RecvPing(t) ==
  /\ recvPc = "recv" /\ sock = "open"
  /\ wire[t] > 0
  /\ wire' = [wire EXCEPT ![t] = @ - 1]
  /\ IF t \in registered
     THEN recvCnt' = [recvCnt EXCEPT ![t] = @ + 1]
     ELSE UNCHANGED recvCnt
  /\ UNCHANGED <<registered, dest, sendCnt, noise, callerVars, sendVars, recvVars, sock, lifeVars>>

RecvFail ==
  /\ recvPc = "recv"
  /\ outerFail < MaxResets
  /\ innerFail' = innerFail + 1
  /\ IF innerFail + 1 < 3
     THEN UNCHANGED <<recvPc, sock>>
     ELSE recvPc' = "reset" /\ sock' = "none"
  /\ UNCHANGED <<outerFail, callerVars, mapVars, sendVars, netVars, lifeVars>>

ResetSocket ==
  /\ recvPc = "reset"
  /\ sock' \in {"open", "none"}
  /\ innerFail' = 0
  /\ outerFail' = outerFail + 1
  /\ recvPc' = IF outerFail + 1 >= 3 THEN "gaveUp" ELSE "recv"
  /\ UNCHANGED <<callerVars, mapVars, sendVars, netVars, lifeVars>>
-----------------------------------------------------------------------------
(***************************************************************************)
(* Shutdown, called by main once every caller has ended: close the socket, *)
(* raise done, cancel and join the send thread, then the receive thread,   *)
(* then free the table.  A cancelled thread ends at its next cancellation  *)
(* point, none of which is inside a critical section.                      *)
(***************************************************************************)
\* The receive thread is over: cancelled, or it had given up.  The mutant does
\* not wait for it.
NotAwaited == TRUE
RecvStopped == recvPc \in {"ended", "gaveUp"}

DestroyClose ==
  /\ svc = "up"
  /\ \A o \in Owners : phase[o] = "idle" /\ ownTag[o] = 0
  /\ svc' = "closing"
  /\ sock' = "none"
  /\ UNCHANGED <<restarts, callerVars, mapVars, sendVars, recvVars, netVars>>

DestroyDone ==
  /\ svc = "closing"
  /\ svc' = "done"
  /\ UNCHANGED <<restarts, callerVars, mapVars, sendVars, recvVars, sock, netVars>>

SendEnds ==
  /\ svc = "done" \/ (Done /\ sendPc = "sleep")
  /\ sendPc # "ended"
  /\ sendPc' = "ended" /\ todo' = {} /\ curTag' = 0 /\ left' = 0
  /\ UNCHANGED << callerVars, mapVars, recvVars, sock, netVars, lifeVars>>

RecvEnds ==
  /\ svc = "sendJoined" \/ (Done /\ recvPc = "recv")
  /\ recvPc \in {"recv", "reset"}
  /\ recvPc' = "ended"
  /\ UNCHANGED <<innerFail, outerFail, callerVars, mapVars, sendVars, sock, netVars, lifeVars>>

JoinSend ==
  /\ svc = "done" /\ sendPc = "ended"
  /\ svc' = "sendJoined"
  /\ UNCHANGED <<restarts, callerVars, mapVars, sendVars, recvVars, sock, netVars>>

JoinRecv ==
  /\ svc = "sendJoined" /\ RecvStopped
  /\ svc' = "recvJoined"
  /\ UNCHANGED <<restarts, callerVars, mapVars, sendVars, recvVars, sock, netVars>>

DestroyMap ==
  /\ svc = "recvJoined"
  /\ svc' = "destroyed"
  /\ registered' = {}
  /\ UNCHANGED <<restarts, dest, sendCnt, recvCnt, callerVars, sendVars, recvVars, sock, netVars>>

\* The daemon is killed and started again: tags start from 1 again, and the
\* packets on their way are still answered.
Restart ==
  /\ restarts < MaxRestarts
  /\ restarts' = restarts + 1
  /\ lastTag' = 0
  /\ phase' = [o \in Owners |-> "idle"]
  /\ seenTag' = [o \in Owners |-> 0]
  /\ ownTag' = [o \in Owners |-> 0]
  /\ issued' = [t \in Tag |-> 0]
  /\ registered' = {}
  /\ sendPc' = "sleep" /\ todo' = {} /\ curTag' = 0 /\ left' = 0
  /\ recvPc' = "recv" /\ innerFail' = 0 /\ outerFail' = 0
  /\ sock' = "open"
  /\ svc' = "up"
  /\ noise' = wire
  /\ ip' = [o \in Owners |-> AnyDest]
  /\ dest' = [t \in Tag |-> AnyDest]
  /\ sendCnt' = [t \in Tag |-> 0]
  /\ recvCnt' = [t \in Tag |-> 0]
  /\ UNCHANGED wire

Terminated == svc = "destroyed" /\ UNCHANGED vars
-----------------------------------------------------------------------------
Callers ==
  \E o \in Owners :
    \/ ReadTag(o) \/ WriteTag(o) \/ Unregister(o)
    \/ \E d \in Dests : Register(o, d)
SendThread ==
  StartSweep \/ (\E t \in Tag : NextItem(t)) \/ SendPing \/ ItemSent \/ EndSweep \/ SendEnds
RecvThread == (\E t \in Tag : RecvPing(t)) \/ RecvFail \/ ResetSocket \/ RecvEnds
Network == \E t \in Tag : Lose(t) \/ Duplicate(t)
Destroy == DestroyClose \/ DestroyDone \/ JoinSend \/ JoinRecv \/ DestroyMap

Next == Callers \/ SendThread \/ RecvThread \/ Network \/ Destroy \/ Restart \/ Terminated

Spec == Init /\ [][Next]_vars

\* The threads are scheduled, locks are held briefly, joins return when the
\* thread ends.  Callers, the network, errors and kills owe nothing.
Fairness ==
  /\ WF_vars(SendThread)
  /\ WF_vars(ResetSocket \/ RecvEnds)
  /\ WF_vars(DestroyDone \/ JoinSend \/ JoinRecv \/ DestroyMap)

FairSpec == Spec /\ Fairness
-----------------------------------------------------------------------------
(***************************************************************************)
(* Properties.                                                             *)
(***************************************************************************)

\* Packets of the item being pinged that are counted but not sent yet.
Pending(t) == IF sendPc = "send" /\ curTag = t THEN left ELSE 0

\* Loss computed from an item's counters is never negative: whatever get_ping_info
\* reads, the replies counted and those still to come are at most the requests
\* counted plus what the network duplicated or an earlier daemon left behind.
\* A tag gen_ping_tag gave out twice is exempt.
RepliesWithinRequests ==
  \A t \in registered :
    issued[t] <= 1 => recvCnt[t] + wire[t] + Pending(t) <= sendCnt[t] + noise[t]

\* An owner with a tag of its own has an item, and it is the item of its own
\* address: nobody else unregistered it or registered it first.
OwnerHasItsItem ==
  \A o \in Owners :
    /\ ownTag[o] # 0 /\ phase[o] = "idle" /\ issued[ownTag[o]] = 1 /\ svc = "up"
    => ownTag[o] \in registered /\ dest[ownTag[o]] = ip[o]

\* Every item is held by an owner that can still unregister it: no address is
\* pinged for ever on behalf of something that is gone.
NoOrphanItem == registered \subseteq {ownTag[o] : o \in Owners}

\* destroy_ping_svc frees the table only when neither thread can reach it.
TableOutlivesThreads ==
  svc = "destroyed" => sendPc = "ended" /\ recvPc \in {"ended", "gaveUp"}

\* A registered item is pinged, or unregistered first, however the others come
\* and go and whatever their coming and going does to the sweep's iterator; the
\* service may be shut down instead.
EveryItemIsPinged ==
  \A t \in Tag : t \in registered ~> (t \notin registered \/ sendCnt[t] > 0)

\* container_collector.c:73 calls the tag the identifier used to register:
\* no two owners have the same one.
UniqueTags ==
  \A o1, o2 \in Owners : ownTag[o1] = ownTag[o2] /\ ownTag[o1] # 0 => o1 = o2

\* ping.c:325 logs "Failed to fix socket error" as the receive thread ends: it
\* only ends by itself when the socket could not be made again.
GivesUpOnBrokenSocket == recvPc = "gaveUp" => sock = "none"

\* The service implements the contract of PingOwnership when all owners belong
\* to one thread.  An owner holds its tag once it is registered.
Waiting == {ownTag[o] : o \in {p \in Owners : phase[p] = "register"}}
Ownership == INSTANCE PingOwnership WITH
  holds <- [o \in Owners |-> IF phase[o] = "register" THEN 0 ELSE ownTag[o]],
  items <- registered,
  used <- (1..lastTag) \ Waiting
ImplementsOwnership == Ownership!Spec
=============================================================================
