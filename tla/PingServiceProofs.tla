------------------------- MODULE PingServiceProofs -------------------------
(***************************************************************************)
(* Proofs about PingService, for any owners, threads, addresses and        *)
(* bounds.                                                                 *)
(***************************************************************************)
EXTENDS PingService, TLAPS

\* A group of variables that a step leaves alone keeps its type.
LEMMA TypeUnchanged ==
  /\ CallersType /\ UNCHANGED callerVars => CallersType'
  /\ MapType /\ UNCHANGED mapVars => MapType'
  /\ SendType /\ UNCHANGED sendVars => SendType'
  /\ RecvType /\ UNCHANGED recvVars => RecvType'
  /\ NetType /\ UNCHANGED netVars => NetType'
  /\ LifeType /\ UNCHANGED lifeVars => LifeType'
<1>1. CallersType /\ UNCHANGED callerVars => CallersType'
  BY DEF CallersType, callerVars
<1>2. MapType /\ UNCHANGED mapVars => MapType'
  BY DEF MapType, mapVars
<1>3. SendType /\ UNCHANGED sendVars => SendType'
  BY DEF SendType, sendVars
<1>4. RecvType /\ UNCHANGED recvVars => RecvType'
  BY DEF RecvType, recvVars
<1>5. NetType /\ UNCHANGED netVars => NetType'
  BY DEF NetType, netVars
<1>6. LifeType /\ UNCHANGED lifeVars => LifeType'
  BY DEF LifeType, lifeVars
<1>7. QED
  BY <1>1, <1>2, <1>3, <1>4, <1>5, <1>6

\* Every variable of the ping service keeps its type.
THEOREM PingTypeCorrect == Spec => []TypeOK
<1>1. Init => TypeOK
  <2> USE PingAssumption DEF Init
  <2>1. AnyDest \in Dests
    BY DEF AnyDest
  <2>2. Init => CallersType /\ MapType
    BY <2>1 DEF CallersType, MapType, Tag
  <2>3. Init => SendType /\ RecvType /\ NetType /\ LifeType
    BY DEF SendType, RecvType, NetType, LifeType, Tag
  <2>4. QED
    BY <2>2, <2>3 DEF TypeOK
<1>2. TypeOK /\ [Next]_vars => TypeOK'
  <2> SUFFICES ASSUME TypeOK, [Next]_vars
               PROVE  TypeOK'
    OBVIOUS
  <2> USE PingAssumption, TypeUnchanged DEF TypeOK
  <2>0. AnyDest \in Dests
    BY DEF AnyDest
  <2>1. ASSUME NEW o \in Owners, ReadTag(o)
        PROVE  TypeOK'
    <3>1. CallersType'
      BY <2>1 DEF ReadTag, CallersType
    <3>2. QED
      BY <2>1, <3>1 DEF ReadTag
  <2>2. ASSUME NEW o \in Owners, WriteTag(o)
        PROVE  TypeOK'
    <3> DEFINE t == seenTag[o] + 1
    <3>1. /\ lastTag' = t
          /\ ownTag' = [ownTag EXCEPT ![o] = t]
          /\ issued' = [issued EXCEPT ![t] = @ + 1]
          /\ phase' = [phase EXCEPT ![o] = "register"]
          /\ seenTag' = [seenTag EXCEPT ![o] = 0]
          /\ t \in Tag
          /\ ip' = ip
      BY <2>2 DEF WriteTag
    <3> HIDE DEF t
    <3>2. CallersType'
      BY <3>1 DEF CallersType, Tag
    <3>3. QED
      BY <2>2, <3>2 DEF WriteTag
  <2>3. ASSUME NEW o \in Owners, Unregister(o)
        PROVE  TypeOK'
    <3>1. CallersType'
      BY <2>3, <2>0 DEF Unregister, ForgottenTag, CallersType, ThreadFree
    <3>2. MapType'
      BY <2>3, <2>0 DEF Unregister, WithoutItem, MapType, mapVars
    <3>3. SendType'
      BY <2>3 DEF Unregister, Rearranged, SendType, MapType
    <3>4. QED
      BY <2>3, <3>1, <3>2, <3>3 DEF Unregister
  <2>4. ASSUME NEW o \in Owners, NEW d \in Dests, Register(o, d)
        PROVE  TypeOK'
    <3>1. ownTag[o] \in Tag
      BY <2>4 DEF Register, CallersType
    <3>2. CallersType'
      BY <2>4 DEF Register, CallersType
    <3>3. MapType'
      BY <2>4, <3>1 DEF Register, MapType, mapVars
    <3>4. SendType'
      BY <2>4, <3>1 DEF Register, Rearranged, SendType, MapType
    <3>5. QED
      BY <2>4, <3>2, <3>3, <3>4 DEF Register
  <2>5. CASE StartSweep
    <3>1. SendType'
      BY <2>5 DEF StartSweep, FreshIterator, SendType, MapType
    <3>2. QED
      BY <2>5, <3>1 DEF StartSweep
  <2>6. ASSUME NEW t \in Tag, NextItem(t)
        PROVE  TypeOK'
    <3>1. SendType'
      BY <2>6 DEF NextItem, CountSends, SendNoMore, SendType, Tag
    <3>2. MapType'
      BY <2>6 DEF NextItem, CountSends, SendNoMore, BothSendsCounted, MapType
    <3>3. QED
      BY <2>6, <3>1, <3>2 DEF NextItem
  <2>8. CASE SendPing
    <3>1. SendType'
      BY <2>8 DEF SendPing, SendType
    <3>2. NetType'
      BY <2>8 DEF SendPing, SendType, NetType
    <3>3. QED
      BY <2>8, <3>1, <3>2 DEF SendPing
  <2>9. CASE ItemSent \/ EndSweep \/ SendEnds
    <3>1. SendType'
      BY <2>9 DEF ItemSent, EndSweep, SendEnds, SendType
    <3>2. QED
      BY <2>9, <3>1 DEF ItemSent, EndSweep, SendEnds
  <2>10. ASSUME NEW t \in Tag, RecvPing(t)
         PROVE  TypeOK'
    <3>1. MapType'
      BY <2>10 DEF RecvPing, MapType
    <3>2. NetType'
      BY <2>10 DEF RecvPing, NetType
    <3>3. QED
      BY <2>10, <3>1, <3>2 DEF RecvPing
  <2>11. CASE RecvFail \/ ResetSocket \/ RecvEnds
    <3>1. RecvType' /\ sock' \in {"open", "none"}
      BY <2>11 DEF RecvFail, ResetSocket, RecvEnds, RecvType
    <3>2. QED
      BY <2>11, <3>1 DEF RecvFail, ResetSocket, RecvEnds
  <2>12. ASSUME NEW t \in Tag, Lose(t) \/ Duplicate(t)
         PROVE  TypeOK'
    <3>1. NetType'
      BY <2>12 DEF Lose, Duplicate, NetType
    <3>2. QED
      BY <2>12, <3>1 DEF Lose, Duplicate
  <2>13. CASE DestroyClose \/ DestroyDone \/ JoinSend \/ JoinRecv
    <3>1. LifeType' /\ sock' \in {"open", "none"}
      BY <2>13 DEF DestroyClose, DestroyDone, JoinSend, JoinRecv, LifeType
    <3>2. QED
      BY <2>13, <3>1 DEF DestroyClose, DestroyDone, JoinSend, JoinRecv
  <2>14. CASE DestroyMap
    <3>1. LifeType' /\ MapType'
      BY <2>14 DEF DestroyMap, LifeType, MapType
    <3>2. QED
      BY <2>14, <3>1 DEF DestroyMap
  <2>15. CASE Restart
    <3>1. CallersType' /\ MapType'
      BY <2>15, <2>0 DEF Restart, CallersType, MapType
    <3>2. SendType' /\ RecvType' /\ NetType' /\ LifeType' /\ sock' \in {"open", "none"}
      BY <2>15 DEF Restart, SendType, RecvType, NetType, LifeType
    <3>3. QED
      BY <3>1, <3>2
  <2>16. CASE Terminated \/ UNCHANGED vars
    BY <2>16 DEF Terminated, vars
  <2>17. QED
    BY <2>1, <2>2, <2>3, <2>4, <2>5, <2>6, <2>8, <2>9, <2>10, <2>11, <2>12, <2>13,
       <2>14, <2>15, <2>16
    DEF Next, Callers, SendThread, RecvThread, Network, Destroy
<1>3. QED
  BY <1>1, <1>2, PTL DEF Spec
-----------------------------------------------------------------------------
(***************************************************************************)
(* The counters.  A tag that gen_ping_tag gave out at most once is fresh   *)
(* until its owner registers it: until then nothing was sent under it, so  *)
(* every packet that carries it is noise.  It is never registered a second *)
(* time, which is why its item's counters and the network tell the same    *)
(* story.                                                                  *)
(***************************************************************************)
Fresh(t) ==
  \/ issued[t] = 0
  \/ issued[t] = 1 /\ \E o \in Owners : phase[o] = "register" /\ ownTag[o] = t

\* A tag in use was handed out, and a tag handed out once has one user.
Held ==
  /\ \A o \in Owners : ownTag[o] # 0 => issued[ownTag[o]] >= 1
  /\ \A o \in Owners : phase[o] = "write" => ownTag[o] = 0
  /\ \A o1, o2 \in Owners :
       ownTag[o1] # 0 /\ ownTag[o1] = ownTag[o2] /\ issued[ownTag[o1]] = 1 => o1 = o2

\* A fresh tag has no item and no request under way.
Untouched ==
  \A t \in Tag : Fresh(t) => t \notin registered /\ wire[t] + Pending(t) <= noise[t]

\* The sweep only meets items of the table.
SweepInv ==
  /\ todo \subseteq registered
  /\ sendPc \in {"sleep", "ended"} => todo = {}

\* The shutdown: callers are gone before it, threads before the table is.
ShutdownInv ==
  /\ svc # "up" => \A o \in Owners : phase[o] = "idle" /\ ownTag[o] = 0
  /\ svc \in {"sendJoined", "recvJoined", "destroyed"} => sendPc = "ended"
  /\ svc \in {"recvJoined", "destroyed"} => recvPc \in {"ended", "gaveUp"}

-----------------------------------------------------------------------------
LEMMA HeldHolds == Spec => []Held
<1>1. Init => Held
  BY DEF Init, Held
<1>2. TypeOK /\ Held /\ [Next]_vars => Held'
  <2> SUFFICES ASSUME TypeOK, Held, [Next]_vars
               PROVE  Held'
    OBVIOUS
  <2> USE DEF TypeOK, CallersType, Held, Tag
  <2>1. ASSUME NEW o \in Owners, ReadTag(o)
        PROVE  Held'
    BY <2>1 DEF ReadTag
  <2>2. ASSUME NEW o \in Owners, WriteTag(o)
        PROVE  Held'
    <3> DEFINE t == seenTag[o] + 1
    <3>1. /\ ownTag' = [ownTag EXCEPT ![o] = t]
          /\ issued' = [issued EXCEPT ![t] = @ + 1]
          /\ phase' = [phase EXCEPT ![o] = "register"]
          /\ t \in Tag
          /\ phase[o] = "write"
      BY <2>2 DEF WriteTag
    <3> HIDE DEF t
    <3>2. \A p \in Owners : ownTag'[p] # 0 => issued'[ownTag'[p]] >= 1
      BY <3>1
    <3>3. \A p \in Owners : phase'[p] = "write" => ownTag'[p] = 0
      BY <3>1
    <3>4. ASSUME NEW p \in Owners, NEW q \in Owners,
                 ownTag'[p] # 0, ownTag'[p] = ownTag'[q], issued'[ownTag'[p]] = 1
          PROVE  p = q
      <4>1. CASE p # o /\ q # o
        BY <3>1, <3>4, <4>1
      <4>2. CASE (p = o \/ q = o) /\ p # q
        <5>1. issued[t] = 0
          BY <3>1, <3>4, <4>2
        <5>2. PICK r \in {p, q} : r # o /\ ownTag[r] = t
          BY <3>1, <3>4, <4>2
        <5>3. r \in Owners /\ t # 0
          BY <3>1, <5>2
        <5>4. issued[ownTag[r]] >= 1
          BY <5>2, <5>3
        <5>5. QED
          BY <5>1, <5>2, <5>4
      <4>3. QED
        BY <4>1, <4>2
    <3>5. QED
      BY <3>2, <3>3, <3>4
  <2>3. ASSUME NEW o \in Owners, Unregister(o)
        PROVE  Held'
    BY <2>3 DEF Unregister, ForgottenTag
  <2>4. ASSUME NEW o \in Owners, NEW d \in Dests, Register(o, d)
        PROVE  Held'
    BY <2>4 DEF Register
  <2>5. CASE Restart
    BY <2>5 DEF Restart
  <2>6. CASE UNCHANGED callerVars
    BY <2>6 DEF callerVars
  <2>7. QED
    BY <2>1, <2>2, <2>3, <2>4, <2>5, <2>6
    DEF Next, Callers, SendThread, StartSweep, NextItem, CountSends, SendNoMore, SendPing, ItemSent, EndSweep,
        SendEnds, RecvThread, RecvPing, RecvFail, ResetSocket, RecvEnds, Network, Lose, Duplicate,
        Destroy, DestroyClose, DestroyDone, JoinSend, JoinRecv, DestroyMap, Terminated, vars
<1>3. QED
  BY <1>1, <1>2, PingTypeCorrect, PTL DEF Spec

LEMMA ShutdownHolds == Spec => []ShutdownInv
<1>1. Init => ShutdownInv
  BY DEF Init, ShutdownInv
<1>2. TypeOK /\ ShutdownInv /\ [Next]_vars => ShutdownInv'
  <2> SUFFICES ASSUME TypeOK, ShutdownInv, [Next]_vars
               PROVE  ShutdownInv'
    OBVIOUS
  <2> USE DEF TypeOK, CallersType, ShutdownInv
  <2>1. ASSUME NEW o \in Owners,
               ReadTag(o) \/ WriteTag(o) \/ Unregister(o) \/ \E d \in Dests : Register(o, d)
        PROVE  ShutdownInv'
    <3>1. svc = "up"
      BY <2>1 DEF ReadTag, WriteTag, Unregister, Register
    <3>2. svc' = svc
      BY <2>1 DEF ReadTag, WriteTag, Unregister, Register, lifeVars
    <3>3. QED
      BY <3>1, <3>2
  <2>2. CASE SendThread
    BY <2>2 DEF SendThread, StartSweep, NextItem, CountSends, SendNoMore, SendPing, ItemSent, EndSweep, SendEnds,
                callerVars, recvVars, lifeVars
  <2>3. CASE RecvThread
    BY <2>3 DEF RecvThread, RecvPing, RecvFail, ResetSocket, RecvEnds, callerVars, sendVars, recvVars, lifeVars
  <2>4. CASE Destroy
    BY <2>4 DEF Destroy, DestroyClose, DestroyDone, JoinSend, JoinRecv, DestroyMap, RecvStopped,
                callerVars, sendVars, recvVars
  <2>5. CASE Restart
    BY <2>5 DEF Restart
  <2>6. CASE Network \/ Terminated \/ UNCHANGED vars
    BY <2>6 DEF Network, Lose, Duplicate, Terminated, vars, callerVars, sendVars, recvVars, lifeVars
  <2>7. QED
    BY <2>1, <2>2, <2>3, <2>4, <2>5, <2>6 DEF Next, Callers
<1>3. QED
  BY <1>1, <1>2, PingTypeCorrect, PTL DEF Spec

\* destroy_ping_svc frees the table only after both threads have ended.
THEOREM TableOutlivesThreadsHolds == Spec => []TableOutlivesThreads
<1>1. ShutdownInv => TableOutlivesThreads
  BY DEF ShutdownInv, TableOutlivesThreads
<1>2. QED
  BY <1>1, ShutdownHolds, PTL

LEMMA SweepHolds == Spec => []SweepInv
<1>1. Init => SweepInv
  BY DEF Init, SweepInv
<1>2. TypeOK /\ ShutdownInv /\ SweepInv /\ [Next]_vars => SweepInv'
  <2> SUFFICES ASSUME TypeOK, ShutdownInv, SweepInv, [Next]_vars
               PROVE  SweepInv'
    OBVIOUS
  <2> USE DEF TypeOK, SendType, SweepInv
  <2>1. ASSUME NEW o \in Owners, Unregister(o)
        PROVE  SweepInv'
    BY <2>1 DEF Unregister, WithoutItem, Rearranged, mapVars
  <2>2. ASSUME NEW o \in Owners, NEW d \in Dests, Register(o, d)
        PROVE  SweepInv'
    BY <2>2 DEF Register, Rearranged, mapVars
  <2>3. CASE SendThread
    BY <2>3 DEF SendThread, StartSweep, FreshIterator, NextItem, CountSends, SendNoMore, SendPing, ItemSent, EndSweep,
                SendEnds, mapVars
  <2>4. CASE DestroyMap
    BY <2>4 DEF DestroyMap, ShutdownInv, sendVars
  <2>5. CASE Restart
    BY <2>5 DEF Restart
  <2>6. CASE UNCHANGED <<registered, sendVars>>
    BY <2>6 DEF sendVars
  <2>7. QED
    BY <2>1, <2>2, <2>3, <2>4, <2>5, <2>6
    DEF Next, Callers, ReadTag, WriteTag, RecvThread, RecvPing, RecvFail, ResetSocket, RecvEnds,
        Network, Lose, Duplicate, Destroy, DestroyClose, DestroyDone, JoinSend, JoinRecv,
        Terminated, vars, mapVars
<1>3. QED
  BY <1>1, <1>2, PingTypeCorrect, ShutdownHolds, PTL DEF Spec
LEMMA PendingType ==
  ASSUME SendType, NEW t \in Tag
  PROVE  Pending(t) \in Nat
BY DEF SendType, Pending

\* What SendThread, the network and the receive thread do to one tag's packets:
\* requests counted and not sent become packets, packets become replies or are
\* lost, and what the network adds is noise.
LEMMA PacketsMove ==
  ASSUME TypeOK, SweepInv, NEW t \in Tag,
         SendThread \/ RecvThread \/ Network
  PROVE  /\ t \notin registered => wire'[t] + Pending(t)' - noise'[t] <= wire[t] + Pending(t) - noise[t]
         /\ t \in registered => /\ recvCnt'[t] + wire'[t] + Pending(t)' - sendCnt'[t] - noise'[t]
                                     <= recvCnt[t] + wire[t] + Pending(t) - sendCnt[t] - noise[t]
         /\ registered' = registered
<1> USE DEF TypeOK, MapType, SendType, NetType, Pending
<1>1. ASSUME NEW u \in Tag, NextItem(u)
      PROVE  /\ sendPc = "next" /\ wire' = wire /\ noise' = noise /\ recvCnt' = recvCnt
             /\ registered' = registered
             /\ sendCnt'[t] = sendCnt[t] + Pending(t)'
             /\ t \notin registered => Pending(t)' = 0
  <2>1. u \in registered
    BY <1>1 DEF SweepInv, NextItem
  <2>2. CASE sendCnt[u] < MaxSend
    BY <1>1, <2>1, <2>2 DEF NextItem, CountSends, BothSendsCounted, netVars
  <2>3. CASE ~(sendCnt[u] < MaxSend)
    BY <1>1, <2>1, <2>3 DEF NextItem, SendNoMore, netVars
  <2>4. QED
    BY <2>2, <2>3
<1>2. ASSUME NEW u \in Tag, NextItem(u)
      PROVE  /\ t \notin registered => wire'[t] + Pending(t)' - noise'[t] <= wire[t] + Pending(t) - noise[t]
             /\ t \in registered => /\ recvCnt'[t] + wire'[t] + Pending(t)' - sendCnt'[t] - noise'[t]
                                         <= recvCnt[t] + wire[t] + Pending(t) - sendCnt[t] - noise[t]
             /\ registered' = registered
  <2>1. Pending(t)' \in Nat
    BY <1>2 DEF NextItem, CountSends, SendNoMore
  <2>2. QED
    BY <1>1, <1>2, <2>1
<1>3. CASE SendPing
  BY <1>3 DEF SendPing, mapVars
<1>4. CASE StartSweep \/ ItemSent \/ EndSweep \/ SendEnds
  BY <1>4 DEF StartSweep, ItemSent, EndSweep, SendEnds, mapVars, netVars
<1>5. ASSUME NEW u \in Tag, RecvPing(u)
      PROVE  /\ Pending(t)' = Pending(t) /\ noise' = noise /\ sendCnt' = sendCnt
             /\ registered' = registered
             /\ wire'[t] + recvCnt'[t] <= wire[t] + recvCnt[t]
             /\ wire'[t] <= wire[t]
  BY <1>5 DEF RecvPing, sendVars
<1>6. CASE RecvFail \/ ResetSocket \/ RecvEnds
  BY <1>6 DEF RecvFail, ResetSocket, RecvEnds, mapVars, netVars, sendVars
<1>7. ASSUME NEW u \in Tag, Lose(u) \/ Duplicate(u)
      PROVE  /\ Pending(t)' = Pending(t) /\ sendCnt' = sendCnt /\ recvCnt' = recvCnt
             /\ registered' = registered
             /\ wire'[t] - noise'[t] <= wire[t] - noise[t]
             /\ wire'[t] \in Nat /\ noise'[t] \in Nat
  BY <1>7 DEF Lose, Duplicate, sendVars, mapVars
<1>8. CASE \E u \in Tag : RecvPing(u)
  <2>1. PICK u \in Tag : RecvPing(u)
    BY <1>8
  <2>2. wire'[t] \in Nat /\ recvCnt'[t] \in Nat
    BY <2>1 DEF RecvPing
  <2>3. QED
    BY <1>5, <2>1, <2>2, PendingType
<1>9. CASE Network
  BY <1>7, <1>9, PendingType DEF Network
<1>10. QED
  BY <1>2, <1>3, <1>4, <1>6, <1>8, <1>9 DEF SendThread, RecvThread
\* A tag fresh after a step of a caller was fresh before it, and the step did
\* not register it.
LEMMA FreshBefore ==
  ASSUME TypeOK, Held, Callers, NEW t \in Tag, Fresh(t)'
  PROVE  Fresh(t) /\ (t \in registered' => t \in registered)
<1> USE DEF TypeOK, CallersType, MapType, Fresh, Tag
<1>1. ASSUME NEW o \in Owners, ReadTag(o)
      PROVE  Fresh(t) /\ registered' = registered
  BY <1>1 DEF ReadTag, mapVars
<1>2. ASSUME NEW o \in Owners, WriteTag(o)
      PROVE  Fresh(t) /\ registered' = registered
  <2> DEFINE u == seenTag[o] + 1
  <2>1. /\ ownTag' = [ownTag EXCEPT ![o] = u]
        /\ issued' = [issued EXCEPT ![u] = @ + 1]
        /\ phase' = [phase EXCEPT ![o] = "register"]
        /\ u \in Tag
        /\ registered' = registered
    BY <1>2 DEF WriteTag, mapVars
  <2> HIDE DEF u
  <2>2. CASE t = u
    <3>1. issued'[t] = issued[t] + 1
      BY <2>1, <2>2
    <3>2. QED
      BY <2>1, <3>1
  <2>3. CASE t # u
    <3>1. issued'[t] = issued[t]
      BY <2>1, <2>3
    <3>2. \A p \in Owners : phase'[p] = "register" /\ ownTag'[p] = t => phase[p] = "register" /\ ownTag[p] = t
      BY <2>1, <2>3
    <3>3. QED
      BY <2>1, <3>1, <3>2
  <2>4. QED
    BY <2>1, <2>2, <2>3
<1>3. ASSUME NEW o \in Owners, Unregister(o)
      PROVE  Fresh(t) /\ registered' \subseteq registered
  BY <1>3 DEF Unregister, ForgottenTag, WithoutItem, mapVars
<1>4. ASSUME NEW o \in Owners, NEW d \in Dests, Register(o, d)
      PROVE  Fresh(t) /\ (t \in registered' => t \in registered)
  <2>1. /\ phase' = [phase EXCEPT ![o] = "idle"]
        /\ phase[o] = "register" /\ ownTag[o] \in Tag
        /\ ownTag' = ownTag /\ issued' = issued
        /\ registered' \subseteq registered \cup {ownTag[o]}
    BY <1>4 DEF Register, mapVars
  <2>2. t # ownTag[o]
    BY <2>1 DEF Held
  <2>3. QED
    BY <2>1, <2>2
<1>5. QED
  BY <1>1, <1>2, <1>3, <1>4 DEF Callers

\* Callers send and receive nothing.
LEMMA CallersKeepPackets ==
  ASSUME Callers
  PROVE  UNCHANGED <<sendPc, curTag, left, wire, noise>>
BY DEF Callers, ReadTag, WriteTag, Unregister, Register, sendVars, netVars

LEMMA UntouchedHolds == Spec => []Untouched
<1>1. Init => Untouched
  BY DEF Init, Untouched, Pending
<1>2. TypeOK /\ TypeOK' /\ Held /\ SweepInv /\ Untouched /\ [Next]_vars => Untouched'
  <2> SUFFICES ASSUME TypeOK, TypeOK', Held, SweepInv, Untouched, [Next]_vars,
                      NEW t \in Tag, Fresh(t)'
               PROVE  /\ t \notin registered'
                      /\ wire'[t] + Pending(t)' <= noise'[t]
    BY DEF Untouched
  <2>1. CASE Callers
    <3>1. Fresh(t) /\ t \notin registered'
      BY <2>1, FreshBefore DEF Untouched
    <3>2. Pending(t)' = Pending(t) /\ wire' = wire /\ noise' = noise
      BY <2>1, CallersKeepPackets DEF Pending
    <3>3. QED
      BY <3>1, <3>2 DEF Untouched
  <2>2. CASE SendThread \/ RecvThread \/ Network
    <3>1. UNCHANGED callerVars
      BY <2>2 DEF SendThread, StartSweep, NextItem, CountSends, SendNoMore, SendPing, ItemSent, EndSweep,
        SendEnds, RecvThread, RecvPing, RecvFail, ResetSocket, RecvEnds, Network, Lose, Duplicate
    <3>2. Fresh(t)
      BY <3>1 DEF Fresh, callerVars
    <3>3. t \notin registered /\ wire[t] + Pending(t) <= noise[t]
      BY <3>2 DEF Untouched
    <3>4. /\ t \notin registered'
          /\ wire'[t] + Pending(t)' - noise'[t] <= wire[t] + Pending(t) - noise[t]
      BY <2>2, <3>3, PacketsMove
    <3>5. /\ wire[t] \in Nat /\ Pending(t) \in Nat /\ noise[t] \in Nat
          /\ wire'[t] \in Nat /\ Pending(t)' \in Nat /\ noise'[t] \in Nat
      BY DEF TypeOK, NetType, SendType, Pending
    <3>6. QED
      BY <3>3, <3>4, <3>5
  <2>3. CASE Destroy
    <3>1. Fresh(t)
      BY <2>3 DEF Destroy, DestroyClose, DestroyDone, JoinSend, JoinRecv, DestroyMap, Fresh, callerVars
    <3>2. registered' \subseteq registered /\ UNCHANGED <<sendVars, netVars>>
      BY <2>3 DEF Destroy, DestroyClose, DestroyDone, JoinSend, JoinRecv, DestroyMap, mapVars
    <3>3. QED
      BY <3>1, <3>2 DEF Untouched, Pending, sendVars, netVars
  <2>4. CASE Restart
    BY <2>4 DEF Restart, Pending, TypeOK, NetType
  <2>5. CASE Terminated \/ UNCHANGED vars
    <3>1. UNCHANGED <<callerVars, mapVars, sendVars, netVars>>
      BY <2>5 DEF Terminated, vars
    <3>2. Fresh(t)
      BY <3>1 DEF Fresh, callerVars
    <3>3. QED
      BY <3>1, <3>2 DEF Untouched, Pending, mapVars, sendVars, netVars
  <2>6. QED
    BY <2>1, <2>2, <2>3, <2>4, <2>5 DEF Next
<1>3. QED
  BY <1>1, <1>2, PingTypeCorrect, HeldHolds, SweepHolds, PTL DEF Spec

\* Whatever get_ping_info reads, and whatever the network does: an item's replies,
\* counted and still to come, are at most its requests plus the noise.
THEOREM RepliesWithinRequestsHolds == Spec => []RepliesWithinRequests
<1>1. Init => RepliesWithinRequests
  BY DEF Init, RepliesWithinRequests
<1>2. /\ TypeOK /\ TypeOK' /\ Held /\ SweepInv /\ Untouched /\ RepliesWithinRequests
      /\ [Next]_vars
      => RepliesWithinRequests'
  <2> SUFFICES ASSUME TypeOK, TypeOK', Held, SweepInv, Untouched, RepliesWithinRequests, [Next]_vars,
                      NEW t \in registered', issued'[t] <= 1
               PROVE  recvCnt'[t] + wire'[t] + Pending(t)' <= sendCnt'[t] + noise'[t]
    BY DEF RepliesWithinRequests
  <2>0. /\ t \in Tag
        /\ wire[t] \in Nat /\ Pending(t) \in Nat /\ noise[t] \in Nat
        /\ wire'[t] \in Nat /\ Pending(t)' \in Nat /\ noise'[t] \in Nat
        /\ recvCnt[t] \in Nat /\ recvCnt'[t] \in Nat
        /\ sendCnt[t] \in Nat /\ sendCnt'[t] \in Nat
    <3>1. t \in Tag
      BY DEF TypeOK, MapType
    <3>2. QED
      BY <3>1 DEF TypeOK, MapType, NetType, SendType, Pending
  <2>1. CASE Callers
    <3>1. Pending(t)' = Pending(t) /\ wire' = wire /\ noise' = noise
      BY <2>1, CallersKeepPackets DEF Pending
    <3>2. ASSUME NEW o \in Owners, NEW d \in Dests, Register(o, d), t \notin registered
          PROVE  recvCnt'[t] + wire'[t] + Pending(t)' <= sendCnt'[t] + noise'[t]
      <4>1. t = ownTag[o] /\ phase[o] = "register" /\ issued' = issued
        BY <3>2 DEF Register, mapVars
      <4>2. Fresh(t)
        BY <4>1, <2>0 DEF Fresh, TypeOK, CallersType
      <4>3. recvCnt'[t] = 0 /\ sendCnt'[t] = 0
        BY <3>2, <4>1, <2>0 DEF Register, TypeOK, MapType
      <4>4. QED
        BY <3>1, <4>2, <4>3, <2>0 DEF Untouched
    <3>3. ASSUME t \in registered, recvCnt'[t] = recvCnt[t], sendCnt'[t] = sendCnt[t], issued[t] <= 1
          PROVE  recvCnt'[t] + wire'[t] + Pending(t)' <= sendCnt'[t] + noise'[t]
      BY <3>1, <3>3 DEF RepliesWithinRequests
    <3>4. ASSUME NEW o \in Owners, ReadTag(o) \/ WriteTag(o) \/ Unregister(o)
                                    \/ (t \in registered /\ \E d \in Dests : Register(o, d))
          PROVE  t \in registered /\ recvCnt'[t] = recvCnt[t] /\ sendCnt'[t] = sendCnt[t] /\ issued[t] <= 1
      <4>1. CASE ReadTag(o)
        BY <4>1, <2>0 DEF ReadTag, mapVars
      <4>2. CASE WriteTag(o)
        <5>1. issued' = [issued EXCEPT ![seenTag[o] + 1] = @ + 1] /\ UNCHANGED mapVars
          BY <4>2 DEF WriteTag
        <5>2. issued[t] <= issued'[t]
          BY <5>1, <2>0 DEF TypeOK, CallersType
        <5>3. QED
          BY <5>1, <5>2, <2>0 DEF mapVars, TypeOK, CallersType
      <4>3. CASE Unregister(o)
        BY <4>3, <2>0 DEF Unregister, WithoutItem, mapVars, TypeOK, MapType
      <4>4. CASE t \in registered /\ \E d \in Dests : Register(o, d)
        BY <4>4, <2>0 DEF Register, mapVars, TypeOK, MapType
      <4>5. QED
        BY <3>4, <4>1, <4>2, <4>3, <4>4
    <3>5. QED
      BY <2>1, <3>2, <3>3, <3>4 DEF Callers
  <2>2. CASE SendThread \/ RecvThread \/ Network
    <3>1. issued' = issued
      BY <2>2 DEF SendThread, StartSweep, NextItem, CountSends, SendNoMore, SendPing, ItemSent, EndSweep, SendEnds,
        RecvThread, RecvPing, RecvFail, ResetSocket, RecvEnds, Network, Lose, Duplicate, callerVars
    <3>2. /\ t \in registered
          /\ recvCnt'[t] + wire'[t] + Pending(t)' - sendCnt'[t] - noise'[t]
               <= recvCnt[t] + wire[t] + Pending(t) - sendCnt[t] - noise[t]
      BY <2>0, <2>2, PacketsMove
    <3>3. recvCnt[t] + wire[t] + Pending(t) <= sendCnt[t] + noise[t]
      BY <3>1, <3>2 DEF RepliesWithinRequests
    <3>4. QED
      BY <2>0, <3>2, <3>3
  <2>3. CASE Destroy
    <3>1. UNCHANGED <<issued, sendCnt, recvCnt, sendVars, netVars>> /\ registered' \subseteq registered
      BY <2>3 DEF Destroy, DestroyClose, DestroyDone, JoinSend, JoinRecv, DestroyMap, mapVars, callerVars
    <3>2. QED
      BY <3>1 DEF RepliesWithinRequests, Pending, sendVars, netVars
  <2>4. CASE Restart
    BY <2>4 DEF Restart
  <2>5. CASE Terminated \/ UNCHANGED vars
    <3>1. UNCHANGED <<issued, mapVars, sendVars, netVars>>
      BY <2>5 DEF Terminated, vars, callerVars
    <3>2. QED
      BY <3>1 DEF RepliesWithinRequests, Pending, mapVars, sendVars, netVars
  <2>6. QED
    BY <2>1, <2>2, <2>3, <2>4, <2>5 DEF Next
<1>3. QED
  BY <1>1, <1>2, PingTypeCorrect, HeldHolds, SweepHolds, UntouchedHolds, PTL DEF Spec
\* An owner whose tag is its own has an item, and it is the item of its address.
THEOREM OwnerHasItsItemHolds == Spec => []OwnerHasItsItem
<1>1. Init => OwnerHasItsItem
  BY DEF Init, OwnerHasItsItem
<1>2. TypeOK /\ Held /\ Held' /\ Untouched /\ ShutdownInv /\ OwnerHasItsItem /\ [Next]_vars => OwnerHasItsItem'
  <2> SUFFICES ASSUME TypeOK, Held, Held', Untouched, ShutdownInv, OwnerHasItsItem, [Next]_vars,
                      NEW p \in Owners,
                      ownTag'[p] # 0, phase'[p] = "idle", issued'[ownTag'[p]] = 1, svc' = "up"
               PROVE  ownTag'[p] \in registered' /\ dest'[ownTag'[p]] = ip'[p]
    BY DEF OwnerHasItsItem
  <2> USE DEF TypeOK, CallersType, MapType, Tag
  <2>0. ASSUME UNCHANGED <<ownTag, phase, issued, svc, registered, dest, ip>>
        PROVE  ownTag'[p] \in registered' /\ dest'[ownTag'[p]] = ip'[p]
    BY <2>0 DEF OwnerHasItsItem
  <2>1. ASSUME NEW o \in Owners, ReadTag(o)
        PROVE  ownTag'[p] \in registered' /\ dest'[ownTag'[p]] = ip'[p]
    BY <2>1 DEF ReadTag, OwnerHasItsItem, ThreadFree, mapVars, lifeVars
  <2>2. ASSUME NEW o \in Owners, WriteTag(o)
        PROVE  ownTag'[p] \in registered' /\ dest'[ownTag'[p]] = ip'[p]
    <3> DEFINE u == seenTag[o] + 1
    <3>1. /\ ownTag' = [ownTag EXCEPT ![o] = u]
          /\ issued' = [issued EXCEPT ![u] = @ + 1]
          /\ phase' = [phase EXCEPT ![o] = "register"]
          /\ u \in Tag
          /\ ip' = ip /\ svc' = svc /\ UNCHANGED mapVars
      BY <2>2 DEF WriteTag, lifeVars
    <3> HIDE DEF u
    <3>2. p # o /\ ownTag'[p] = ownTag[p] /\ phase[p] = "idle"
      BY <3>1
    <3>3. ownTag[p] # u
      BY <3>1, <3>2 DEF Held
    <3>4. issued[ownTag[p]] = 1
      BY <3>1, <3>2, <3>3
    <3>5. QED
      BY <3>1, <3>2, <3>4 DEF OwnerHasItsItem, mapVars
  <2>3. ASSUME NEW o \in Owners, Unregister(o)
        PROVE  ownTag'[p] \in registered' /\ dest'[ownTag'[p]] = ip'[p]
    <3>1. /\ ownTag' = [ownTag EXCEPT ![o] = 0] /\ ip' = [ip EXCEPT ![o] = AnyDest]
          /\ phase' = phase /\ issued' = issued /\ svc' = svc
      BY <2>3 DEF Unregister, ForgottenTag, lifeVars
    <3>2. p # o /\ ownTag'[p] = ownTag[p] /\ ip'[p] = ip[p]
      BY <3>1
    <3>3. ownTag[p] # ownTag[o]
      BY <3>1, <3>2 DEF Held
    <3>4. ownTag[p] \in registered /\ dest[ownTag[p]] = ip[p]
      BY <3>1, <3>2 DEF OwnerHasItsItem
    <3>5. registered' = registered \/ registered' = registered \ {ownTag[o]}
      BY <2>3 DEF Unregister, WithoutItem, mapVars
    <3>6. dest' = dest \/ dest' = [dest EXCEPT ![ownTag[o]] = AnyDest]
      BY <2>3 DEF Unregister, mapVars
    <3>7. ownTag[p] \in registered' /\ dest'[ownTag[p]] = dest[ownTag[p]]
      BY <3>3, <3>4, <3>5, <3>6
    <3>8. QED
      BY <3>2, <3>4, <3>7
  <2>4. ASSUME NEW o \in Owners, NEW d \in Dests, Register(o, d)
        PROVE  ownTag'[p] \in registered' /\ dest'[ownTag'[p]] = ip'[p]
    <3>1. /\ ownTag' = ownTag /\ issued' = issued /\ svc' = svc
          /\ phase' = [phase EXCEPT ![o] = "idle"] /\ ip' = [ip EXCEPT ![o] = d]
          /\ phase[o] = "register"
      BY <2>4 DEF Register, lifeVars
    <3>2. CASE p = o
      <4>1. ownTag[o] \in Tag /\ Fresh(ownTag[o])
        BY <3>1, <3>2 DEF Fresh
      <4>2. ownTag[o] \notin registered
        BY <4>1 DEF Untouched
      <4>3. registered' = registered \cup {ownTag[o]} /\ dest' = [dest EXCEPT ![ownTag[o]] = d]
        BY <2>4, <4>2 DEF Register
      <4>4. ownTag'[p] = ownTag[o] /\ ip'[p] = d
        BY <3>1, <3>2
      <4>5. QED
        BY <4>1, <4>3, <4>4
    <3>3. CASE p # o
      <4>1. ownTag[p] # ownTag[o]
        BY <3>1, <3>3 DEF Held
      <4>2. ownTag[p] \in registered /\ dest[ownTag[p]] = ip[p]
        BY <3>1, <3>3 DEF OwnerHasItsItem
      <4>3. /\ registered \subseteq registered'
            /\ dest' = dest \/ dest' = [dest EXCEPT ![ownTag[o]] = d]
        BY <2>4 DEF Register, mapVars
      <4>4. dest'[ownTag[p]] = dest[ownTag[p]]
        BY <4>1, <4>2, <4>3
      <4>5. ownTag'[p] = ownTag[p] /\ ip'[p] = ip[p]
        BY <3>1, <3>3
      <4>6. QED
        BY <4>2, <4>3, <4>4, <4>5
    <3>4. QED
      BY <3>2, <3>3
  <2>5. CASE DestroyMap
    BY <2>5 DEF DestroyMap
  <2>6. CASE Restart
    BY <2>6 DEF Restart
  <2>7. CASE DestroyClose \/ DestroyDone \/ JoinSend \/ JoinRecv
    BY <2>7 DEF DestroyClose, DestroyDone, JoinSend, JoinRecv
  <2>8. CASE SendThread \/ RecvThread \/ Network \/ Terminated \/ UNCHANGED vars
    <3>1. UNCHANGED <<ownTag, phase, issued, svc, registered, dest, ip>>
      BY <2>8 DEF SendThread, StartSweep, NextItem, CountSends, SendNoMore, SendPing, ItemSent, EndSweep, SendEnds,
        RecvThread, RecvPing, RecvFail, ResetSocket, RecvEnds, Network, Lose, Duplicate, Terminated,
        vars, callerVars, mapVars, lifeVars
    <3>2. QED
      BY <2>0, <3>1
  <2>9. QED
    BY <2>1, <2>2, <2>3, <2>4, <2>5, <2>6, <2>7, <2>8 DEF Next, Callers, Destroy
<1>3. QED
  BY <1>1, <1>2, PingTypeCorrect, HeldHolds, UntouchedHolds, ShutdownHolds, PTL DEF Spec

\* No item outlives its last owner.
THEOREM NoOrphanItemHolds == Spec => []NoOrphanItem
<1>1. Init => NoOrphanItem
  BY DEF Init, NoOrphanItem
<1>2. TypeOK /\ Held /\ NoOrphanItem /\ [Next]_vars => NoOrphanItem'
  <2> SUFFICES ASSUME TypeOK, Held, NoOrphanItem, [Next]_vars,
                      NEW t \in registered'
               PROVE  \E o \in Owners : ownTag'[o] = t
    BY DEF NoOrphanItem
  <2> USE DEF TypeOK, CallersType, MapType, Tag
  <2>1. t \in registered => \E p \in Owners : ownTag[p] = t
    BY DEF NoOrphanItem
  <2>2. ASSUME NEW o \in Owners, WriteTag(o)
        PROVE  \E p \in Owners : ownTag'[p] = t
    <3>1. ownTag' = [ownTag EXCEPT ![o] = seenTag[o] + 1] /\ registered' = registered /\ phase[o] = "write"
      BY <2>2 DEF WriteTag, mapVars
    <3>2. ownTag[o] = 0 /\ t # 0
      BY <3>1 DEF Held
    <3>3. QED
      BY <2>1, <3>1, <3>2
  <2>3. ASSUME NEW o \in Owners, Unregister(o)
        PROVE  \E p \in Owners : ownTag'[p] = t
    BY <2>1, <2>3 DEF Unregister, ForgottenTag, WithoutItem, mapVars
  <2>4. ASSUME NEW o \in Owners, NEW d \in Dests, Register(o, d)
        PROVE  \E p \in Owners : ownTag'[p] = t
    BY <2>1, <2>4 DEF Register, mapVars
  <2>5. CASE DestroyMap \/ Restart
    BY <2>5 DEF DestroyMap, Restart
  <2>6. CASE UNCHANGED <<ownTag, registered>>
    BY <2>1, <2>6
  <2>7. QED
    BY <2>2, <2>3, <2>4, <2>5, <2>6
    DEF Next, Callers, ReadTag, SendThread, StartSweep, NextItem, CountSends, SendNoMore, SendPing, ItemSent, EndSweep,
        SendEnds, RecvThread, RecvPing, RecvFail, ResetSocket, RecvEnds, Network, Lose, Duplicate,
        Destroy, DestroyClose, DestroyDone, JoinSend, JoinRecv, Terminated, vars, callerVars, mapVars
<1>3. QED
  BY <1>1, <1>2, PingTypeCorrect, HeldHolds, PTL DEF Spec
-----------------------------------------------------------------------------
(***************************************************************************)
(* Ownership, when all owners belong to one thread.  That thread acquires  *)
(* one item at a time, and nobody moves the counter between its read and   *)
(* its write.                                                              *)
(***************************************************************************)
OneThread == \A o, p \in Owners : ThreadOf[o] = ThreadOf[p]
Serial ==
  /\ \A o, p \in Owners : phase[o] # "idle" /\ phase[p] # "idle" => o = p
  /\ \A o \in Owners : phase[o] = "write" => seenTag[o] = lastTag
  /\ \A o \in Owners : phase[o] = "register" => ownTag[o] \in 1..lastTag

\* The tag is the one after the last.
LEMMA WritesNext ==
  ASSUME TypeOK, Serial, NEW o \in Owners, WriteTag(o)
  PROVE  /\ phase[o] = "write" /\ lastTag \in Nat /\ lastTag' = lastTag + 1
         /\ ownTag' = [ownTag EXCEPT ![o] = lastTag + 1]
         /\ phase' = [phase EXCEPT ![o] = "register"] /\ registered' = registered
<1>1. seenTag[o] = lastTag /\ phase[o] = "write"
  BY DEF WriteTag, Serial
<1>2. lastTag \in Nat
  BY DEF TypeOK, CallersType
<1>3. /\ lastTag' = seenTag[o] + 1 /\ ownTag' = [ownTag EXCEPT ![o] = seenTag[o] + 1]
      /\ phase' = [phase EXCEPT ![o] = "register"] /\ registered' = registered
  BY DEF WriteTag, mapVars
<1>4. QED
  BY <1>1, <1>2, <1>3

LEMMA SerialHolds ==
  ASSUME OneThread
  PROVE  Spec => []Serial
<1>1. Init => Serial
  BY DEF Init, Serial
<1>2. TypeOK /\ Serial /\ [Next]_vars => Serial'
  <2> SUFFICES ASSUME TypeOK, Serial, [Next]_vars
               PROVE  Serial'
    OBVIOUS
  <2> USE DEF TypeOK, CallersType, Serial, Tag
  <2>1. ASSUME NEW o \in Owners, ReadTag(o)
        PROVE  Serial'
    <3>1. \A p \in Owners : phase[p] = "idle"
      BY <2>1 DEF ReadTag, ThreadFree, OneThread
    <3>2. QED
      BY <2>1, <3>1 DEF ReadTag
  <2>2. ASSUME NEW o \in Owners, WriteTag(o)
        PROVE  Serial'
    <3>1. /\ phase[o] = "write" /\ lastTag \in Nat /\ lastTag' = lastTag + 1
          /\ ownTag' = [ownTag EXCEPT ![o] = lastTag + 1]
          /\ phase' = [phase EXCEPT ![o] = "register"]
      BY <2>2, WritesNext
    <3>2. \A p \in Owners : p # o => phase[p] = "idle" /\ phase'[p] = "idle"
      BY <3>1
    <3>3. phase'[o] = "register" /\ ownTag'[o] \in 1..lastTag'
      BY <3>1
    <3>4. QED
      BY <3>2, <3>3
  <2>3. ASSUME NEW o \in Owners, Unregister(o)
        PROVE  Serial'
    <3>1. \A p \in Owners : phase'[p] = "idle"
      BY <2>3 DEF Unregister, ThreadFree, OneThread
    <3>2. QED
      BY <3>1
  <2>4. ASSUME NEW o \in Owners, NEW d \in Dests, Register(o, d)
        PROVE  Serial'
    BY <2>4 DEF Register
  <2>5. CASE Restart
    BY <2>5 DEF Restart
  <2>6. CASE UNCHANGED callerVars
    BY <2>6 DEF callerVars
  <2>7. QED
    BY <2>1, <2>2, <2>3, <2>4, <2>5, <2>6
    DEF Next, Callers, SendThread, StartSweep, NextItem, CountSends, SendNoMore, SendPing, ItemSent, EndSweep,
        SendEnds, RecvThread, RecvPing, RecvFail, ResetSocket, RecvEnds, Network, Lose, Duplicate,
        Destroy, DestroyClose, DestroyDone, JoinSend, JoinRecv, DestroyMap, Terminated, vars
<1>3. QED
  BY <1>1, <1>2, PingTypeCorrect, PTL DEF Spec

\* What PingOwnership sees.
Holds == [o \in Owners |-> IF phase[o] = "register" THEN 0 ELSE ownTag[o]]
Used == (1..lastTag) \ Waiting
Unchanged == UNCHANGED <<Holds, registered, Used>>

\* Nothing is owned before the tag is registered, and the tag is used from then on.
LEMMA CallersOwn ==
  ASSUME OneThread, TypeOK, Held, Serial, Serial', NEW o \in Owners,
         ReadTag(o) \/ WriteTag(o) \/ Unregister(o) \/ \E d \in Dests : Register(o, d)
  PROVE  Ownership!Next \/ Unchanged
<1> USE DEF TypeOK, CallersType, MapType, Tag
<1>1. CASE ReadTag(o)
  <2>1. /\ phase' = [phase EXCEPT ![o] = "write"] /\ ownTag[o] = 0
        /\ UNCHANGED <<ownTag, lastTag, registered>>
        /\ \A p \in Owners : phase[p] = "idle"
    BY <1>1 DEF ReadTag, mapVars, ThreadFree, OneThread
  <2>2. Waiting = {} /\ Waiting' = {}
    BY <2>1 DEF Waiting
  <2>3. Holds' = Holds
    BY <2>1 DEF Holds
  <2>4. QED
    BY <2>1, <2>2, <2>3 DEF Unchanged, Used
<1>2. CASE WriteTag(o)
  <2>1. /\ phase[o] = "write" /\ lastTag \in Nat /\ lastTag' = lastTag + 1
        /\ ownTag' = [ownTag EXCEPT ![o] = lastTag + 1] /\ ownTag[o] = 0
        /\ phase' = [phase EXCEPT ![o] = "register"] /\ registered' = registered
    BY <1>2, WritesNext DEF Held
  <2>2. \A p \in Owners : p # o => phase[p] = "idle"
    BY <2>1 DEF Serial
  <2>3. Waiting = {}
    BY <2>1, <2>2 DEF Waiting
  <2>4. Waiting' = {lastTag + 1}
    BY <2>1, <2>2 DEF Waiting
  <2>5. Used' = Used
    BY <2>1, <2>3, <2>4 DEF Used
  <2>6. Holds' = Holds
    BY <2>1 DEF Holds
  <2>7. QED
    BY <2>1, <2>5, <2>6 DEF Unchanged
<1>3. CASE Unregister(o)
  <2>1. /\ ownTag[o] # 0 /\ ownTag' = [ownTag EXCEPT ![o] = 0]
        /\ UNCHANGED <<phase, lastTag>> /\ registered' = registered \ {ownTag[o]}
        /\ \A p \in Owners : phase[p] = "idle"
    BY <1>3 DEF Unregister, ForgottenTag, WithoutItem, mapVars, ThreadFree, OneThread
  <2>2. Waiting = {} /\ Waiting' = {}
    BY <2>1 DEF Waiting
  <2>3. Holds[o] = ownTag[o] /\ Holds' = [Holds EXCEPT ![o] = 0]
    BY <2>1 DEF Holds
  <2>4. Used' = Used
    BY <2>1, <2>2 DEF Used
  <2>5. Ownership!Release(o)
    BY <2>1, <2>3, <2>4 DEF Ownership!Release, Ownership!WithoutOwn, Holds, Used
  <2>6. QED
    BY <2>5 DEF Ownership!Next
<1>4. ASSUME NEW d \in Dests, Register(o, d)
      PROVE  Ownership!Next
  <2>1. /\ phase[o] = "register" /\ phase' = [phase EXCEPT ![o] = "idle"]
        /\ ownTag[o] \in Tag /\ ownTag[o] \in 1..lastTag
        /\ UNCHANGED <<ownTag, lastTag>> /\ registered' = registered \cup {ownTag[o]}
    BY <1>4 DEF Register, mapVars, Serial
  <2>2. \A p \in Owners : p # o => phase[p] = "idle"
    BY <2>1 DEF Serial
  <2>3. Waiting = {ownTag[o]} /\ Waiting' = {}
    BY <2>1, <2>2 DEF Waiting
  <2>4. Holds[o] = 0 /\ Holds' = [Holds EXCEPT ![o] = ownTag[o]]
    BY <2>1, <2>2 DEF Holds
  <2>5. ownTag[o] \in Tag \ Used /\ Used' = Used \cup {ownTag[o]}
    BY <2>1, <2>3 DEF Used
  <2>6. registered' = (registered \ {Holds[o]}) \cup {ownTag[o]}
    BY <2>1, <2>4
  <2>7. Ownership!Acquire(o)
    BY <2>4, <2>5, <2>6 DEF Ownership!Acquire, Ownership!Fresh, Ownership!WithoutOwn, Holds, Used
  <2>8. QED
    BY <2>7 DEF Ownership!Next
<1>5. QED
  BY <1>1, <1>2, <1>3, <1>4

LEMMA StepOwns ==
  ASSUME OneThread, TypeOK, Held, Serial, Serial', ShutdownInv, NoOrphanItem, [Next]_vars
  PROVE  Ownership!Next \/ Unchanged
<1>1. CASE UNCHANGED callerVars /\ registered' = registered
  BY <1>1 DEF Unchanged, Holds, Used, Waiting, callerVars
<1>2. CASE Callers
  BY <1>2, CallersOwn DEF Callers
<1>3. CASE DestroyMap
  <2>1. registered = {}
    BY <1>3 DEF DestroyMap, ShutdownInv, NoOrphanItem, TypeOK, MapType, Tag
  <2>2. QED
    BY <1>1, <1>3, <2>1 DEF DestroyMap
<1>4. CASE Restart
  <2>1. /\ Holds' = [o \in Owners |-> 0] /\ registered' = {} /\ 1..lastTag' = {}
    BY <1>4 DEF Restart, Holds
  <2>2. Ownership!Restart
    BY <2>1 DEF Ownership!Restart, Holds
  <2>3. QED
    BY <2>2 DEF Ownership!Next
<1>5. CASE SendThread \/ RecvThread \/ Network \/ Terminated \/ UNCHANGED vars
  BY <1>1, <1>5
  DEF SendThread, StartSweep, NextItem, CountSends, SendNoMore, SendPing, ItemSent, EndSweep, SendEnds,
      RecvThread, RecvPing, RecvFail, ResetSocket, RecvEnds, Network, Lose, Duplicate, Terminated,
      vars, mapVars
<1>6. CASE DestroyClose \/ DestroyDone \/ JoinSend \/ JoinRecv
  BY <1>1, <1>6 DEF DestroyClose, DestroyDone, JoinSend, JoinRecv, mapVars
<1>7. QED
  BY <1>2, <1>3, <1>4, <1>5, <1>6 DEF Next, Destroy

\* With one calling thread the service keeps the promise of PingOwnership, whatever the
\* sweeps, the network, the shutdown and a restart do.  A second thread breaks it, for
\* gen_ping_tag is not atomic: that is the run PingTagRace.
THEOREM PingImplementsOwnership ==
  ASSUME OneThread
  PROVE  Spec => ImplementsOwnership
<1>1. Init => Ownership!Init
  <2>1. Init => Holds = [o \in Owners |-> 0] /\ 1..lastTag = {}
    BY DEF Init, Holds
  <2>2. QED
    BY <2>1 DEF Init, Ownership!Init, Holds
<1>2. /\ TypeOK /\ Held /\ Serial /\ Serial' /\ ShutdownInv /\ NoOrphanItem /\ [Next]_vars
      => [Ownership!Next]_Ownership!vars
  <2>1. Unchanged => UNCHANGED Ownership!vars
    BY DEF Unchanged, Ownership!vars, Holds, Used
  <2>2. QED
    BY <2>1, StepOwns
<1>3. QED
  BY <1>1, <1>2, PingTypeCorrect, HeldHolds, SerialHolds, ShutdownHolds, NoOrphanItemHolds, PTL
  DEF Spec, ImplementsOwnership, Ownership!Spec

\* What it is that the second thread breaks: one thread is never given a tag twice.
IssuedOnce == \A t \in Tag : issued[t] <= 1 /\ (t > lastTag => issued[t] = 0)

LEMMA IssuedOnceHolds ==
  ASSUME OneThread
  PROVE  Spec => []IssuedOnce
<1>1. Init => IssuedOnce
  BY DEF Init, IssuedOnce
<1>2. TypeOK /\ Serial /\ IssuedOnce /\ [Next]_vars => IssuedOnce'
  <2> SUFFICES ASSUME TypeOK, Serial, IssuedOnce, [Next]_vars
               PROVE  IssuedOnce'
    OBVIOUS
  <2>1. ASSUME NEW o \in Owners, WriteTag(o)
        PROVE  IssuedOnce'
    <3> DEFINE u == seenTag[o] + 1
    <3>1. u \in Tag /\ issued' = [issued EXCEPT ![u] = issued[u] + 1]
      BY <2>1 DEF WriteTag
    <3>2. u = lastTag + 1
      BY <2>1 DEF WriteTag, Serial
    <3> HIDE DEF u
    <3>3. lastTag' = u /\ lastTag \in Nat
      BY <2>1, <3>2, WritesNext
    <3>4. issued[u] = 0
      BY <3>1, <3>2, <3>3 DEF IssuedOnce
    <3>5. \A t \in Tag : issued'[t] = IF t = u THEN 1 ELSE issued[t]
      BY <3>1, <3>4 DEF TypeOK, CallersType
    <3>6. ASSUME NEW t \in Tag, t > u
          PROVE  t > lastTag /\ t # u
      BY <3>2, <3>3, <3>6 DEF Tag
    <3>7. QED
      BY <3>3, <3>5, <3>6 DEF IssuedOnce
  <2>2. CASE Restart
    BY <2>2 DEF Restart, IssuedOnce
  <2>3. CASE UNCHANGED <<issued, lastTag>>
    BY <2>3 DEF IssuedOnce
  <2>4. QED
    BY <2>1, <2>2, <2>3
    DEF Next, Callers, ReadTag, Unregister, Register, SendThread, StartSweep, NextItem, CountSends, SendNoMore,
        SendPing, ItemSent, EndSweep, SendEnds, RecvThread, RecvPing, RecvFail, ResetSocket,
        RecvEnds, Network, Lose, Duplicate, Destroy, DestroyClose, DestroyDone, JoinSend, JoinRecv,
        DestroyMap, Terminated, vars, callerVars
<1>3. QED
  BY <1>1, <1>2, PingTypeCorrect, SerialHolds, PTL DEF Spec

\* With one calling thread no two owners ever have the same tag, and so nothing is
\* exempt from OwnerHasItsItem and RepliesWithinRequests.  gen_ping_tag has no lock:
\* it is only the second thread that makes the tags meet.
THEOREM UniqueTagsForOneThread ==
  ASSUME OneThread
  PROVE  Spec => [](UniqueTags /\ IssuedOnce)
<1>1. TypeOK /\ Held /\ IssuedOnce => UniqueTags
  <2> SUFFICES ASSUME TypeOK, Held, IssuedOnce,
                      NEW o1 \in Owners, NEW o2 \in Owners, ownTag[o1] = ownTag[o2], ownTag[o1] # 0
               PROVE  o1 = o2
    BY DEF UniqueTags
  <2>1. ownTag[o1] \in Tag
    BY DEF TypeOK, CallersType, Tag
  <2>2. issued[ownTag[o1]] = 1
    BY <2>1 DEF TypeOK, CallersType, Held, IssuedOnce
  <2>3. QED
    BY <2>2 DEF Held
<1>2. QED
  BY <1>1, PingTypeCorrect, HeldHolds, IssuedOnceHolds, PTL
=============================================================================
