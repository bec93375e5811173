---------------------------- MODULE AgentProofs ----------------------------
(***************************************************************************)
(* What is proved of the daemon for every table of groups, any units and   *)
(* any number of restarts: its type, that every group is updated once in   *)
(* every period, and that no thread works with what is freed.              *)
(***************************************************************************)
EXTENDS Agent, TLAPS

(***************************************************************************)
(* Remainders.                                                             *)
(***************************************************************************)
LEMMA ModRange ==
  ASSUME NEW a \in Nat, NEW p \in Nat \ {0}
  PROVE  a % p \in 0..(p - 1)
BY SMT

LEMMA Pred ==
  ASSUME NEW n \in Nat \ {0}
  PROVE  n - 1 \in Nat
BY SMT

LEMMA DivMod ==
  ASSUME NEW a \in Nat, NEW p \in Nat \ {0}
  PROVE  a \div p \in Nat /\ a = (p * (a \div p)) + (a % p)
BY SMT

LEMMA ModUnique ==
  ASSUME NEW a \in Nat, NEW p \in Nat \ {0}, NEW q \in Nat, NEW r \in 0..(p - 1),
         a = (p * q) + r
  PROVE  a % p = r
BY SMT

\* One more: the remainder grows by one or starts over.
LEMMA ModSucc ==
  ASSUME NEW a \in Nat, NEW p \in Nat \ {0}, (a + 1) % p # 0
  PROVE  (a + 1) % p = (a % p) + 1
<1> DEFINE q == a \div p
           r == a % p
<1>1. q \in Nat /\ r \in 0..(p - 1) /\ a = (p * q) + r
  BY DivMod, ModRange
<1> HIDE DEF q, r
<1>2. CASE r = p - 1
  <2>1. a + 1 = (p * (q + 1)) + 0
    BY <1>1, <1>2
  <2>2. (a + 1) % p = 0
    BY <2>1, <1>1, ModUnique
  <2>3. QED
    BY <2>2
<1>3. CASE r # p - 1
  <2>1. a + 1 = (p * q) + (r + 1) /\ r + 1 \in 0..(p - 1)
    BY <1>1, <1>3
  <2>2. (a + 1) % p = r + 1
    BY <2>1, <1>1, ModUnique
  <2>3. QED
    BY <2>2 DEF r
<1>4. QED
  BY <1>2, <1>3

\* A multiple of p does not count.
LEMMA ModPlus ==
  ASSUME NEW a \in Nat, NEW w \in Nat, NEW p \in Nat \ {0}, w % p = 0
  PROVE  (w + a) % p = a % p
<1> DEFINE q == w \div p
           s == a \div p
           r == a % p
<1>1. q \in Nat /\ w = (p * q) + 0
  BY DivMod
<1>2. s \in Nat /\ r \in 0..(p - 1) /\ a = (p * s) + r
  BY DivMod, ModRange
<1> HIDE DEF q, s, r
<1>3. (p * (q + s)) = (p * q) + (p * s)
  BY <1>1, <1>2
<1>4. w + a = (p * (q + s)) + r
  BY <1>1, <1>2, <1>3
<1>5. q + s \in Nat /\ w + a \in Nat
  BY <1>1, <1>2
<1>6. (w + a) % p = r
  BY <1>2, <1>4, <1>5, ModUnique
<1>7. QED
  BY <1>6 DEF r
-----------------------------------------------------------------------------
(***************************************************************************)
(* The schedule.  After the tick number i - 1 a group was updated at most  *)
(* as many ticks ago as that number and its offset leave when divided by   *)
(* its period.                                                             *)
(***************************************************************************)
LEMMA GroupsAreNumbers ==
  \A g \in Groups : g \in Nat \ {0} /\ g - 1 \in Nat /\ Period[g] \in Nat
BY SchedulerAssumption DEF Groups

Behind(g) == (i - 1) + (g - 1)

SchedInv ==
  /\ SchedTypeOK
  /\ i > 0 => \A g \in Groups : Period[g] # 0 => since[g] <= Behind(g) % Period[g]

LEMMA SchedInvInit == SchedInit => SchedInv
<1> SUFFICES ASSUME SchedInit PROVE SchedInv
  OBVIOUS
<1>1. since \in [Groups -> Nat]
  BY SchedulerAssumption DEF SchedInit, Groups
<1>2. QED
  BY <1>1, SchedulerAssumption DEF SchedInit, SchedInv, SchedTypeOK

LEMMA SchedInvRestart == SchedRestart => SchedInv'
<1> SUFFICES ASSUME SchedRestart PROVE SchedInv'
  OBVIOUS
<1>1. since' \in [Groups -> Nat]
  BY SchedulerAssumption DEF SchedRestart, Groups
<1>2. QED
  BY <1>1, SchedulerAssumption DEF SchedRestart, SchedInv, SchedTypeOK

LEMMA TickInv ==
  ASSUME SchedInv, Tick
  PROVE  SchedInv'
<1>1. i \in Nat /\ Wrap \in Nat /\ i' \in 1..Wrap
  BY SchedulerAssumption DEF SchedInv, SchedTypeOK, Tick, NextTick
<1>t. since \in [Groups -> Nat]
  BY DEF SchedInv, SchedTypeOK
<1>w. \A g \in Groups : Period[g] # 0 => Wrap % Period[g] = 0
  BY SchedulerAssumption
<1>b. i > 0 => \A g \in Groups : Period[g] # 0 => since[g] <= Behind(g) % Period[g]
  BY DEF SchedInv
<1>2. since' = [g \in Groups |->
        IF g \in Due \/ Period[g] = 0 THEN 0 ELSE since[g] + 1]
  BY DEF Tick
<1>3. since' \in [Groups -> Nat]
  BY <1>2, <1>t
<1>4. ASSUME NEW g \in Groups, Period[g] # 0
      PROVE  since'[g] <= ((i' - 1) + (g - 1)) % Period[g]
  <2>1. PICK p \in Nat \ {0} : p = Period[g]
    BY <1>4, GroupsAreNumbers
  <2>2. PICK d \in Nat : d = g - 1
    <3>1. g - 1 \in Nat
      BY GroupsAreNumbers
    <3>2. QED
      BY <3>1
  <2>3. PICK b \in Nat : b = (i' - 1) + d
    <3>1. i' \in Nat \ {0}
      BY <1>1
    <3>2. i' - 1 \in Nat
      BY <3>1, Pred
    <3>3. (i' - 1) + d \in Nat
      BY <3>2, <2>2
    <3>4. QED
      BY <3>3
  <2>4. Wrap % p = 0
    BY <2>1, <1>4, <1>w
  <2>5. b % p \in Nat
    BY ModRange
  <2>6. since'[g] <= b % p
    <3>1. CASE g \in Due
      BY <3>1, <1>2, <2>5
    <3>2. CASE g \notin Due
      <4>1. since'[g] = since[g] + 1 /\ since[g] \in Nat
        BY <3>2, <1>2, <1>4, <1>t
      <4>2. (i + Offset(g)) % p # 0
        BY <3>2, <1>4, <2>1 DEF Due
      <4>3. i # 0
        <5>1. 0 % p = 0
          BY <2>1
        <5>2. i = 0 => i + Offset(g) = 0
          BY DEF Offset
        <5>3. QED
          BY <5>1, <5>2, <4>2
      <4>4. PICK a \in Nat : a = (i - 1) + d /\ a + 1 = i + d
        BY <4>3, <1>1
      <4>5. Offset(g) = d
        BY <4>3, <1>1, <2>2 DEF Offset
      <4>6. (a + 1) % p # 0
        BY <4>2, <4>4, <4>5
      <4>7. since[g] <= a % p
        BY <4>3, <4>4, <1>1, <1>4, <1>b, <2>1, <2>2 DEF Behind
      <4>8. (a + 1) % p = (a % p) + 1
        BY <4>6, ModSucc
      <4>9. a % p \in Nat
        BY ModRange
      <4>10. (a + 1) % p = b % p
        <5>1. CASE i = Wrap
          <6>1. b = d /\ a + 1 = Wrap + d
            BY <5>1, <4>4, <2>3 DEF Tick, NextTick
          <6>2. (Wrap + d) % p = d % p
            BY <2>4, <1>1, ModPlus
          <6>3. QED
            BY <6>1, <6>2
        <5>2. CASE i # Wrap
          <6>1. b = a + 1
            BY <5>2, <4>4, <2>3, <1>1 DEF Tick, NextTick
          <6>2. QED
            BY <6>1
        <5>3. QED
          BY <5>1, <5>2
      <4>11. QED
        BY <4>1, <4>7, <4>8, <4>9, <4>10
    <3>3. QED
      BY <3>1, <3>2
  <2>7. QED
    BY <2>1, <2>2, <2>3, <2>6
<1>5. SchedTypeOK'
  BY <1>1, <1>3 DEF SchedTypeOK
<1>6. QED
  BY <1>4, <1>5 DEF SchedInv, Behind

LEMMA SchedInvKeeps == SchedInv => PeriodKept
<1> SUFFICES ASSUME SchedInv, i > 0, NEW g \in Groups, Period[g] # 0
             PROVE  since[g] < Period[g]
  BY DEF PeriodKept
<1>1. Period[g] \in Nat \ {0} /\ Behind(g) \in Nat /\ since[g] \in Nat
  BY GroupsAreNumbers, SchedulerAssumption DEF SchedInv, SchedTypeOK, Behind
<1>2. Behind(g) % Period[g] \in 0..(Period[g] - 1)
  BY <1>1, ModRange
<1>3. since[g] <= Behind(g) % Period[g]
  BY DEF SchedInv
<1>4. QED
  BY <1>1, <1>2, <1>3
-----------------------------------------------------------------------------
(***************************************************************************)
(* Start and teardown.  NoUseAfterFree is not inductive by itself: it      *)
(* needs to know what is made when a thread is created, and which threads  *)
(* are over when a part is freed.                                          *)
(***************************************************************************)
\* The places of main where a thread is over, or where none has been created.
NoThreadsAt == Ended \cup {"start"}

OverAt(t) ==
  CASE t = "updates"    -> (Down \ {"stopUpdates"}) \cup NoThreadsAt
    [] t = "containers" -> (Down \ {"stopUpdates", "stopContainers"}) \cup NoThreadsAt
    [] t = "http"       -> {"freeRegistry", "freeGroups", "stopPod", "freePods",
                            "stopSend", "stopRecv", "freePing"} \cup NoThreadsAt
    [] t = "pod"        -> {"freePods", "stopSend", "stopRecv", "freePing"} \cup NoThreadsAt
    [] t = "send"       -> {"stopRecv", "freePing"} \cup NoThreadsAt
    [] OTHER            -> {"freePing"} \cup NoThreadsAt

\* What is made when main has come to a place of its start.
MadeAt(place) ==
  CASE place = "registry" -> {"pingLock", "pingMap"}
    [] place = "groups"   -> {"pingLock", "pingMap", "registry"}
    [] place \in {"register", "http", "containers"} ->
         {"pingLock", "pingMap", "registry", "metrics"}
    [] place \in {"updates", "signal", "loop"} ->
         {"pingLock", "pingMap", "registry", "metrics", "containerLock", "bpf", "cmap"}
    [] OTHER -> {}

OverThreadsAreOver == \A t \in Threads : pc \in OverAt(t) => ~Live(t)
MadeSoFar == \A p \in MadeAt(pc) : part[p] = "made"
NothingFreedYet == pc \in Up => \A p \in Parts : part[p] # "freed"
LiveAreKnown == \A t \in Threads : Live(t) => t = "http" \/ t \in ids
HttpNotCancelled == thread["http"] # "cancelled"
PodHasGroups == Live("pod") => HasGroups

LifeInv ==
  /\ LifeTypeOK
  /\ NoUseAfterFree
  /\ OverThreadsAreOver /\ MadeSoFar /\ NothingFreedYet
  /\ LiveAreKnown /\ HttpNotCancelled /\ PodHasGroups

\* The definitions of the invariant, but for those of its type.
LEMMA LifeInvInit == LifeInit => LifeInv
BY ThreadsAssumption
   DEF LifeInit, LifeInv, LifeTypeOK, Up, Down, Ended, NoThreads, NoParts, Live,
       NoUseAfterFree, OverThreadsAreOver, OverAt, NoThreadsAt, MadeSoFar, MadeAt, NothingFreedYet,
       LiveAreKnown, HttpNotCancelled, PodHasGroups

\* A process that is gone, or one that is started again, has nothing.
LEMMA GoneInv == Gone /\ pc' \in {"killed", "start"} => LifeInv'
BY ThreadsAssumption
   DEF Gone, LifeInv, LifeTypeOK, Up, Down, Ended, NoThreads, NoParts, Live,
       NoUseAfterFree, OverThreadsAreOver, OverAt, NoThreadsAt, MadeSoFar, MadeAt, NothingFreedYet,
       LiveAreKnown, HttpNotCancelled, PodHasGroups

\* The types of the parts, the threads and their ids.
PartOK == part \in [Parts -> {"never", "made", "freed"}]
ThreadOK == thread \in [Threads -> {"none", "running", "cancelled", "ended"}]
IdsOK == ids \subseteq Threads

LEMMA MadeType ==
  ASSUME PartOK, NEW parts, Made(parts) \/ Freed(parts)
  PROVE  PartOK'
BY DEF PartOK, Made, Freed

LEMMA CreatedType ==
  ASSUME ThreadOK, IdsOK,
         NEW ts \in SUBSET Threads, NEW t \in Threads, Created(ts) \/ CreatedBut(ts, t)
  PROVE  ThreadOK' /\ IdsOK'
<1>1. ThreadOK'
  BY DEF ThreadOK, Created, CreatedBut
<1>2. IdsOK'
  BY DEF IdsOK, Created, CreatedBut
<1>3. QED
  BY <1>1, <1>2

LEMMA InitPingInv ==
  ASSUME LifeInv, InitPing
  PROVE  LifeInv'
<1> USE ThreadsAssumption
<1>t. PartOK /\ ThreadOK /\ IdsOK
  BY DEF LifeInv, LifeTypeOK, PartOK, ThreadOK, IdsOK
<1>1. LifeTypeOK'
  <2>1. PartOK'
    BY <1>t, MadeType DEF InitPing, PartOK
  <2>2. {} \in SUBSET Threads /\ {"send"} \in SUBSET Threads /\ {"send", "recv"} \in SUBSET Threads
    OBVIOUS
  <2>3. ThreadOK' /\ IdsOK'
    BY <1>t, <2>2, CreatedType DEF InitPing, NoneCreated, ThreadOK, IdsOK
  <2>4. QED
    BY <2>1, <2>3 DEF LifeInv, LifeTypeOK, InitPing, Out, Up, Down, PartOK, ThreadOK,
       IdsOK
<1>2. NoUseAfterFree'
  BY DEF InitPing, Made, Created, CreatedBut, NoneCreated, Live, LifeInv,
     NoUseAfterFree, Uses, Parts
<1>3. OverThreadsAreOver'
  BY DEF InitPing, Out, OverThreadsAreOver, OverAt, NoThreadsAt, Down, Ended
<1>4. MadeSoFar' /\ NothingFreedYet'
  BY DEF InitPing, Out, Made, LifeInv, MadeSoFar, MadeAt, NothingFreedYet, Up, Parts
<1>5. LiveAreKnown' /\ HttpNotCancelled' /\ PodHasGroups'
  BY DEF InitPing, Made, Created, CreatedBut, NoneCreated, Live, LifeInv, LiveAreKnown,
     HttpNotCancelled, PodHasGroups, HasGroups, Parts
<1>6. QED
  BY <1>1, <1>2, <1>3, <1>4, <1>5 DEF LifeInv

LEMMA InitRegistryInv ==
  ASSUME LifeInv, InitRegistry
  PROVE  LifeInv'
<1> USE ThreadsAssumption
<1>t. PartOK /\ ThreadOK /\ IdsOK
  BY DEF LifeInv, LifeTypeOK, PartOK, ThreadOK, IdsOK
<1>1. LifeTypeOK'
  <2>1. PartOK'
    BY <1>t, MadeType DEF InitRegistry, PartOK
  <2>3. ThreadOK' /\ IdsOK'
    BY <1>t DEF InitRegistry, ThreadOK, IdsOK
  <2>4. QED
    BY <2>1, <2>3 DEF LifeInv, LifeTypeOK, InitRegistry, Out, Up, Down, PartOK
<1>2. NoUseAfterFree'
  BY DEF InitRegistry, Made, Live, LifeInv, NoUseAfterFree, Uses, Parts
<1>3. OverThreadsAreOver'
  BY DEF InitRegistry, Out, OverThreadsAreOver, OverAt, NoThreadsAt, Down, Ended
<1>4. MadeSoFar' /\ NothingFreedYet'
  BY DEF InitRegistry, Out, Made, LifeInv, MadeSoFar, MadeAt, NothingFreedYet, Up, Parts
<1>5. LiveAreKnown' /\ HttpNotCancelled' /\ PodHasGroups'
  BY DEF InitRegistry, Made, Live, LifeInv, LiveAreKnown, HttpNotCancelled,
     PodHasGroups, HasGroups, Parts
<1>6. QED
  BY <1>1, <1>2, <1>3, <1>4, <1>5 DEF LifeInv

LEMMA InitGroupsInv ==
  ASSUME LifeInv, InitGroups
  PROVE  LifeInv'
<1> USE ThreadsAssumption
<1>t. PartOK /\ ThreadOK /\ IdsOK
  BY DEF LifeInv, LifeTypeOK, PartOK, ThreadOK, IdsOK
<1>1. LifeTypeOK'
  <2>1. PartOK'
    BY <1>t, MadeType DEF InitGroups
  <2>2. {} \in SUBSET Threads /\ {"pod"} \in SUBSET Threads
    OBVIOUS
  <2>3. ThreadOK' /\ IdsOK'
    BY <1>t, <2>2, CreatedType DEF InitGroups, NoneCreated, ThreadOK, IdsOK
  <2>4. QED
    BY <2>1, <2>3 DEF LifeInv, LifeTypeOK, InitGroups, Up, PartOK, ThreadOK, IdsOK
<1>2. NoUseAfterFree'
  BY DEF InitGroups, Made, Created, CreatedBut, NoneCreated, Live, LifeInv,
     NoUseAfterFree, Uses, Parts, MadeSoFar, MadeAt
<1>3. OverThreadsAreOver'
  BY DEF InitGroups, OverThreadsAreOver, OverAt, NoThreadsAt, Down, Ended
<1>4. MadeSoFar' /\ NothingFreedYet'
  BY DEF InitGroups, Made, LifeInv, MadeSoFar, MadeAt, NothingFreedYet, Up, Parts
<1>5. LiveAreKnown' /\ HttpNotCancelled' /\ PodHasGroups'
  BY DEF InitGroups, Made, Created, CreatedBut, NoneCreated, Live, LifeInv,
     LiveAreKnown, HttpNotCancelled, PodHasGroups, HasGroups, Parts
<1>6. QED
  BY <1>1, <1>2, <1>3, <1>4, <1>5 DEF LifeInv

LEMMA StartHttpInv ==
  ASSUME LifeInv, StartHttp
  PROVE  LifeInv'
<1> USE ThreadsAssumption
<1>t. PartOK /\ ThreadOK /\ IdsOK
  BY DEF LifeInv, LifeTypeOK, PartOK, ThreadOK, IdsOK
<1>1. LifeTypeOK'
  <2>1. PartOK'
    BY <1>t DEF StartHttp, PartOK
  <2>2. {"http"} \in SUBSET Threads
    OBVIOUS
  <2>3. ThreadOK' /\ IdsOK'
    BY <1>t, <2>2, CreatedType DEF StartHttp, NoneCreated, ThreadOK, IdsOK
  <2>4. QED
    BY <2>1, <2>3 DEF LifeInv, LifeTypeOK, StartHttp, Out, Up, Down, ThreadOK, IdsOK
<1>2. NoUseAfterFree'
  BY DEF StartHttp, Created, NoneCreated, Live, LifeInv, NoUseAfterFree, Uses,
     MadeSoFar, MadeAt
<1>3. OverThreadsAreOver'
  BY DEF StartHttp, Out, OverThreadsAreOver, OverAt, NoThreadsAt, Down, Ended
<1>4. MadeSoFar' /\ NothingFreedYet'
  BY DEF StartHttp, Out, LifeInv, MadeSoFar, MadeAt, NothingFreedYet, Up
<1>5. LiveAreKnown' /\ HttpNotCancelled' /\ PodHasGroups'
  BY DEF StartHttp, Created, NoneCreated, Live, LifeInv, LiveAreKnown, HttpNotCancelled,
     PodHasGroups, HasGroups
<1>6. QED
  BY <1>1, <1>2, <1>3, <1>4, <1>5 DEF LifeInv

LEMMA StartContainersInv ==
  ASSUME LifeInv, StartContainers
  PROVE  LifeInv'
<1> USE ThreadsAssumption
<1>t. PartOK /\ ThreadOK /\ IdsOK
  BY DEF LifeInv, LifeTypeOK, PartOK, ThreadOK, IdsOK
<1>1. LifeTypeOK'
  <2>1. PartOK'
    BY <1>t, MadeType DEF StartContainers, PartOK
  <2>2. {} \in SUBSET Threads /\ {"containers"} \in SUBSET Threads
    OBVIOUS
  <2>3. ThreadOK' /\ IdsOK'
    BY <1>t, <2>2, CreatedType DEF StartContainers, NoneCreated, ThreadOK, IdsOK
  <2>4. QED
    BY <2>1, <2>3 DEF LifeInv, LifeTypeOK, StartContainers, Out, Up, Down, PartOK,
       ThreadOK, IdsOK
<1>2. NoUseAfterFree'
  BY DEF StartContainers, Made, NoneCreated, Live, LifeInv, NoUseAfterFree, LifeTypeOK,
     Uses, Parts, StaticLocks, MadeSoFar, MadeAt, NothingFreedYet, Up
<1>3. OverThreadsAreOver'
  BY DEF StartContainers, Out, OverThreadsAreOver, OverAt, NoThreadsAt, Down, Ended
<1>4. MadeSoFar' /\ NothingFreedYet'
  BY DEF StartContainers, Out, Made, LifeInv, MadeSoFar, MadeAt, NothingFreedYet, Up,
     Parts
<1>5. LiveAreKnown' /\ HttpNotCancelled' /\ PodHasGroups'
  BY DEF StartContainers, Made, Created, CreatedBut, NoneCreated, Live, LifeInv,
     LiveAreKnown, HttpNotCancelled, PodHasGroups, HasGroups, Parts
<1>6. QED
  BY <1>1, <1>2, <1>3, <1>4, <1>5 DEF LifeInv

LEMMA StartUpdatesInv ==
  ASSUME LifeInv, StartUpdates
  PROVE  LifeInv'
<1> USE ThreadsAssumption
<1>t. PartOK /\ ThreadOK /\ IdsOK
  BY DEF LifeInv, LifeTypeOK, PartOK, ThreadOK, IdsOK
<1>1. LifeTypeOK'
  <2>1. PartOK'
    BY <1>t DEF StartUpdates, PartOK
  <2>2. {} \in SUBSET Threads /\ {"updates"} \in SUBSET Threads
    OBVIOUS
  <2>3. ThreadOK' /\ IdsOK'
    BY <1>t, <2>2, CreatedType DEF StartUpdates
  <2>4. QED
    BY <2>1, <2>3 DEF LifeInv, LifeTypeOK, StartUpdates, Out, Up, Down, ThreadOK, IdsOK
<1>2. NoUseAfterFree'
  BY DEF StartUpdates, LifeInv, NoUseAfterFree, LifeTypeOK, Uses, Parts, StaticLocks,
     MadeSoFar, MadeAt, NothingFreedYet, Up
<1>3. OverThreadsAreOver'
  BY DEF StartUpdates, Out, OverThreadsAreOver, OverAt, NoThreadsAt, Down, Ended
<1>4. MadeSoFar' /\ NothingFreedYet'
  BY DEF StartUpdates, LifeInv, MadeSoFar, MadeAt, NothingFreedYet, Up
<1>5. LiveAreKnown' /\ HttpNotCancelled' /\ PodHasGroups'
  BY DEF StartUpdates, Created, CreatedBut, Live, LifeInv, LiveAreKnown,
     HttpNotCancelled, PodHasGroups, HasGroups
<1>6. QED
  BY <1>1, <1>2, <1>3, <1>4, <1>5 DEF LifeInv

LEMMA PlainStartInv ==
  ASSUME LifeInv, RegisterMetrics \/ InstallHandler \/ Interrupt
  PROVE  LifeInv'
<1> USE ThreadsAssumption
<1>t. PartOK /\ ThreadOK /\ IdsOK
  BY DEF LifeInv, LifeTypeOK, PartOK, ThreadOK, IdsOK
<1>1. LifeTypeOK'
  <2>1. PartOK'
    BY <1>t DEF RegisterMetrics, InstallHandler, Interrupt, PartOK
  <2>3. ThreadOK' /\ IdsOK'
    BY <1>t DEF RegisterMetrics, InstallHandler, Interrupt, Out, ThreadOK, IdsOK
  <2>4. QED
    BY <2>1, <2>3 DEF LifeInv, LifeTypeOK, RegisterMetrics, InstallHandler, Interrupt,
       Out, Up, Down, IdsOK
<1>2. NoUseAfterFree'
  BY DEF RegisterMetrics, InstallHandler, Interrupt, Live, LifeInv, NoUseAfterFree
<1>3. OverThreadsAreOver'
  BY DEF RegisterMetrics, InstallHandler, Interrupt, Out, OverThreadsAreOver, OverAt,
     NoThreadsAt, Down, Ended
<1>4. MadeSoFar' /\ NothingFreedYet'
  BY DEF RegisterMetrics, InstallHandler, Interrupt, Out, LifeInv, MadeSoFar, MadeAt,
     NothingFreedYet, Up
<1>5. LiveAreKnown' /\ HttpNotCancelled' /\ PodHasGroups'
  BY DEF RegisterMetrics, InstallHandler, Interrupt, Live, LifeInv, LiveAreKnown,
     HttpNotCancelled, PodHasGroups, HasGroups
<1>6. QED
  BY <1>1, <1>2, <1>3, <1>4, <1>5 DEF LifeInv

LEMMA CancelInv ==
  ASSUME LifeInv, NEW t \in Cancellable, Cancel(t)
  PROVE  LifeInv'
<1> USE ThreadsAssumption
<1>t. PartOK /\ ThreadOK /\ IdsOK
  BY DEF LifeInv, LifeTypeOK, PartOK, ThreadOK, IdsOK
<1>1. LifeTypeOK'
  <2>1. PartOK'
    BY <1>t DEF Cancel, PartOK
  <2>3. ThreadOK' /\ IdsOK'
    BY <1>t DEF Cancel, ThreadOK, IdsOK
  <2>4. QED
    BY <2>1, <2>3 DEF LifeInv, LifeTypeOK, Cancel
<1>2. NoUseAfterFree'
  BY DEF Cancel, Live, LifeInv, NoUseAfterFree
<1>3. OverThreadsAreOver'
  BY DEF Cancel, Live, LifeInv, OverThreadsAreOver
<1>4. MadeSoFar' /\ NothingFreedYet'
  BY DEF Cancel, LifeInv, MadeSoFar, NothingFreedYet
<1>5. LiveAreKnown' /\ HttpNotCancelled' /\ PodHasGroups'
  BY DEF Cancel, Cancellable, Live, LifeInv, LiveAreKnown, HttpNotCancelled,
     PodHasGroups, HasGroups
<1>6. QED
  BY <1>1, <1>2, <1>3, <1>4, <1>5 DEF LifeInv

LEMMA JoinInv ==
  ASSUME LifeInv, NEW t \in Cancellable, Join(t) \/ JoinNothing(t)
  PROVE  LifeInv'
<1> USE ThreadsAssumption
<1>t. PartOK /\ ThreadOK /\ IdsOK
  BY DEF LifeInv, LifeTypeOK, PartOK, ThreadOK, IdsOK
<1>1. LifeTypeOK'
  <2>1. PartOK'
    BY <1>t DEF Join, JoinNothing, PartOK
  <2>3. ThreadOK' /\ IdsOK'
    BY <1>t DEF Join, JoinNothing, NextStop, ThreadOK, IdsOK
  <2>4. QED
    BY <2>1, <2>3 DEF LifeInv, LifeTypeOK, Join, JoinNothing, NextStop, Down
<1>2. NoUseAfterFree'
  BY DEF Join, JoinNothing, Live, LifeInv, NoUseAfterFree
<1>3. OverThreadsAreOver'
  BY DEF Join, JoinNothing, Joinable, StopAt, NextStop, Cancellable, Live, LifeInv,
     OverThreadsAreOver, OverAt, NoThreadsAt, Down, Ended, LiveAreKnown
<1>4. MadeSoFar' /\ NothingFreedYet'
  BY DEF Join, JoinNothing, NextStop, MadeSoFar, MadeAt, NothingFreedYet, Up
<1>5. LiveAreKnown' /\ HttpNotCancelled' /\ PodHasGroups'
  BY DEF Join, JoinNothing, Live, LifeInv, LiveAreKnown, HttpNotCancelled, PodHasGroups,
     HasGroups
<1>6. QED
  BY <1>1, <1>2, <1>3, <1>4, <1>5 DEF LifeInv

LEMMA FreeContainersInv ==
  ASSUME LifeInv, FreeContainers
  PROVE  LifeInv'
<1> USE ThreadsAssumption
<1>t. PartOK /\ ThreadOK /\ IdsOK
  BY DEF LifeInv, LifeTypeOK, PartOK, ThreadOK, IdsOK
<1>1. LifeTypeOK'
  <2>1. PartOK'
    BY <1>t, MadeType DEF FreeContainers
  <2>3. ThreadOK' /\ IdsOK'
    BY <1>t DEF FreeContainers, ThreadOK, IdsOK
  <2>4. QED
    BY <2>1, <2>3 DEF LifeInv, LifeTypeOK, FreeContainers, Down, PartOK
<1>2. NoUseAfterFree'
  BY DEF FreeContainers, Freed, Live, LifeInv, NoUseAfterFree, Uses, Parts,
     OverThreadsAreOver, OverAt, Down
<1>3. OverThreadsAreOver'
  BY DEF FreeContainers, Live, LifeInv, OverThreadsAreOver, OverAt, NoThreadsAt, Down,
     Ended
<1>4. MadeSoFar' /\ NothingFreedYet'
  BY DEF FreeContainers, MadeSoFar, MadeAt, NothingFreedYet, Up
<1>5. LiveAreKnown' /\ HttpNotCancelled' /\ PodHasGroups'
  BY DEF FreeContainers, Freed, Live, LifeInv, LiveAreKnown, HttpNotCancelled,
     PodHasGroups, HasGroups, Parts
<1>6. QED
  BY <1>1, <1>2, <1>3, <1>4, <1>5 DEF LifeInv

LEMMA StopHttpInv ==
  ASSUME LifeInv, StopHttp
  PROVE  LifeInv'
<1> USE ThreadsAssumption
<1>t. PartOK /\ ThreadOK /\ IdsOK
  BY DEF LifeInv, LifeTypeOK, PartOK, ThreadOK, IdsOK
<1>1. LifeTypeOK'
  <2>1. PartOK'
    BY <1>t DEF StopHttp, PartOK
  <2>3. ThreadOK' /\ IdsOK'
    BY <1>t DEF StopHttp, ThreadOK, IdsOK
  <2>4. QED
    BY <2>1, <2>3 DEF LifeInv, LifeTypeOK, StopHttp, Down
<1>2. NoUseAfterFree'
  BY DEF StopHttp, Live, LifeInv, NoUseAfterFree
<1>3. OverThreadsAreOver'
  BY DEF StopHttp, Live, LifeInv, OverThreadsAreOver, OverAt, NoThreadsAt, Down, Ended,
     LifeTypeOK, HttpNotCancelled
<1>4. MadeSoFar' /\ NothingFreedYet'
  BY DEF StopHttp, MadeSoFar, MadeAt, NothingFreedYet, Up
<1>5. LiveAreKnown' /\ HttpNotCancelled' /\ PodHasGroups'
  BY DEF StopHttp, Live, LifeInv, LiveAreKnown, HttpNotCancelled, PodHasGroups,
     HasGroups
<1>6. QED
  BY <1>1, <1>2, <1>3, <1>4, <1>5 DEF LifeInv

LEMMA FreeRegistryInv ==
  ASSUME LifeInv, FreeRegistry
  PROVE  LifeInv'
<1> USE ThreadsAssumption
<1>t. PartOK /\ ThreadOK /\ IdsOK
  BY DEF LifeInv, LifeTypeOK, PartOK, ThreadOK, IdsOK
<1>1. LifeTypeOK'
  <2>1. PartOK'
    BY <1>t, MadeType DEF FreeRegistry
  <2>3. ThreadOK' /\ IdsOK'
    BY <1>t DEF FreeRegistry, ThreadOK, IdsOK
  <2>4. QED
    BY <2>1, <2>3 DEF LifeInv, LifeTypeOK, FreeRegistry, Down, PartOK
<1>2. NoUseAfterFree'
  BY DEF FreeRegistry, Freed, Live, LifeInv, NoUseAfterFree, Uses, Parts,
     OverThreadsAreOver, OverAt, Down
<1>3. OverThreadsAreOver'
  BY DEF FreeRegistry, Live, LifeInv, OverThreadsAreOver, OverAt, NoThreadsAt, Down,
     Ended
<1>4. MadeSoFar' /\ NothingFreedYet'
  BY DEF FreeRegistry, MadeSoFar, MadeAt, NothingFreedYet, Up
<1>5. LiveAreKnown' /\ HttpNotCancelled' /\ PodHasGroups'
  BY DEF FreeRegistry, Freed, Live, LifeInv, LiveAreKnown, HttpNotCancelled,
     PodHasGroups, HasGroups, Parts
<1>6. QED
  BY <1>1, <1>2, <1>3, <1>4, <1>5 DEF LifeInv

LEMMA FreeGroupsInv ==
  ASSUME LifeInv, FreeGroups
  PROVE  LifeInv'
<1> USE ThreadsAssumption
<1>t. PartOK /\ ThreadOK /\ IdsOK
  BY DEF LifeInv, LifeTypeOK, PartOK, ThreadOK, IdsOK
<1>1. LifeTypeOK'
  <2>1. PartOK'
    BY <1>t DEF FreeGroups, PartOK
  <2>3. ThreadOK' /\ IdsOK'
    BY <1>t DEF FreeGroups, ThreadOK, IdsOK
  <2>4. QED
    BY <2>1, <2>3 DEF LifeInv, LifeTypeOK, FreeGroups, Down
<1>2. NoUseAfterFree'
  BY DEF FreeGroups, Live, LifeInv, NoUseAfterFree
<1>3. OverThreadsAreOver'
  BY DEF FreeGroups, Live, LifeInv, OverThreadsAreOver, OverAt, NoThreadsAt, Down,
     Ended, PodHasGroups
<1>4. MadeSoFar' /\ NothingFreedYet'
  BY DEF FreeGroups, MadeSoFar, MadeAt, NothingFreedYet, Up
<1>5. LiveAreKnown' /\ HttpNotCancelled' /\ PodHasGroups'
  BY DEF FreeGroups, HasGroups, Live, LifeInv, LiveAreKnown, HttpNotCancelled,
     PodHasGroups, HasGroups
<1>6. QED
  BY <1>1, <1>2, <1>3, <1>4, <1>5 DEF LifeInv

LEMMA FreePodsInv ==
  ASSUME LifeInv, FreePods
  PROVE  LifeInv'
<1> USE ThreadsAssumption
<1>t. PartOK /\ ThreadOK /\ IdsOK
  BY DEF LifeInv, LifeTypeOK, PartOK, ThreadOK, IdsOK
<1>1. LifeTypeOK'
  <2>1. PartOK'
    BY <1>t, MadeType DEF FreePods
  <2>3. ThreadOK' /\ IdsOK'
    BY <1>t DEF FreePods, ThreadOK, IdsOK
  <2>4. QED
    BY <2>1, <2>3 DEF LifeInv, LifeTypeOK, FreePods, Down, PartOK
<1>2. NoUseAfterFree'
  BY DEF FreePods, Freed, Live, LifeInv, NoUseAfterFree, Uses, Parts,
     OverThreadsAreOver, OverAt, Down
<1>3. OverThreadsAreOver'
  BY DEF FreePods, Live, LifeInv, OverThreadsAreOver, OverAt, NoThreadsAt, Down, Ended
<1>4. MadeSoFar' /\ NothingFreedYet'
  BY DEF FreePods, MadeSoFar, MadeAt, NothingFreedYet, Up
<1>5. LiveAreKnown' /\ HttpNotCancelled' /\ PodHasGroups'
  BY DEF FreePods, Freed, Live, LifeInv, LiveAreKnown, HttpNotCancelled, PodHasGroups,
     HasGroups, Parts
<1>6. QED
  BY <1>1, <1>2, <1>3, <1>4, <1>5 DEF LifeInv

LEMMA FreePingInv ==
  ASSUME LifeInv, FreePing
  PROVE  LifeInv'
<1> USE ThreadsAssumption
<1>t. PartOK /\ ThreadOK /\ IdsOK
  BY DEF LifeInv, LifeTypeOK, PartOK, ThreadOK, IdsOK
<1>1. LifeTypeOK'
  <2>1. PartOK'
    BY <1>t, MadeType DEF FreePing
  <2>3. ThreadOK' /\ IdsOK'
    BY <1>t DEF FreePing, ThreadOK, IdsOK
  <2>4. QED
    BY <2>1, <2>3 DEF LifeInv, LifeTypeOK, FreePing, Ended, PartOK
<1>2. NoUseAfterFree'
  BY DEF FreePing, Live, LifeInv, NoUseAfterFree, OverThreadsAreOver, OverAt, Down
<1>3. OverThreadsAreOver'
  BY DEF FreePing, Live, LifeInv, OverThreadsAreOver, OverAt, Down
<1>4. MadeSoFar' /\ NothingFreedYet'
  BY DEF FreePing, MadeSoFar, MadeAt, NothingFreedYet, Up
<1>5. LiveAreKnown' /\ HttpNotCancelled' /\ PodHasGroups'
  BY DEF FreePing, Freed, Live, LifeInv, LiveAreKnown, HttpNotCancelled, PodHasGroups,
     HasGroups, Parts
<1>6. QED
  BY <1>1, <1>2, <1>3, <1>4, <1>5 DEF LifeInv

LEMMA LockInv ==
  ASSUME LifeInv, NEW t \in Lockers, TakePingLock(t) \/ GivePingLock(t)
  PROVE  LifeInv'
<1> USE ThreadsAssumption
<1>t. PartOK /\ ThreadOK /\ IdsOK
  BY DEF LifeInv, LifeTypeOK, PartOK, ThreadOK, IdsOK
<1>1. LifeTypeOK'
  <2>1. PartOK'
    BY <1>t DEF TakePingLock, GivePingLock, PartOK
  <2>3. ThreadOK' /\ IdsOK'
    BY <1>t DEF TakePingLock, GivePingLock, Lockers, ThreadOK, IdsOK
  <2>4. QED
    BY <2>1, <2>3 DEF LifeInv, LifeTypeOK, TakePingLock, GivePingLock, Lockers, IdsOK
<1>2. NoUseAfterFree'
  BY DEF TakePingLock, GivePingLock, Live, LifeInv, NoUseAfterFree
<1>3. OverThreadsAreOver'
  BY DEF TakePingLock, GivePingLock, Live, LifeInv, OverThreadsAreOver
<1>4. MadeSoFar' /\ NothingFreedYet'
  BY DEF TakePingLock, GivePingLock, LifeInv, MadeSoFar, NothingFreedYet
<1>5. LiveAreKnown' /\ HttpNotCancelled' /\ PodHasGroups'
  BY DEF TakePingLock, GivePingLock, Live, LifeInv, LiveAreKnown, HttpNotCancelled,
     PodHasGroups, HasGroups
<1>6. QED
  BY <1>1, <1>2, <1>3, <1>4, <1>5 DEF LifeInv

LEMMA TagsCollideInv == LifeInv /\ TagsCollide => LifeInv'
BY DEF TagsCollide, LifeInv, LifeTypeOK, Live, NoUseAfterFree, OverThreadsAreOver, MadeSoFar,
       NothingFreedYet, LiveAreKnown, HttpNotCancelled, PodHasGroups, HasGroups

LEMMA EndInv ==
  ASSUME LifeInv, NEW t \in Cancellable, EndCancelled(t)
  PROVE  LifeInv'
<1> USE ThreadsAssumption
<1>t. PartOK /\ ThreadOK /\ IdsOK
  BY DEF LifeInv, LifeTypeOK, PartOK, ThreadOK, IdsOK
<1>1. LifeTypeOK'
  <2>1. PartOK'
    BY <1>t DEF EndCancelled, PartOK
  <2>3. ThreadOK' /\ IdsOK'
    BY <1>t DEF EndCancelled, Cancellable, ThreadOK, IdsOK
  <2>4. QED
    BY <2>1, <2>3 DEF LifeInv, LifeTypeOK, EndCancelled, ThreadOK
<1>2. NoUseAfterFree'
  BY DEF EndCancelled, Live, LifeInv, NoUseAfterFree
<1>3. OverThreadsAreOver'
  BY DEF EndCancelled, Live, LifeInv, OverThreadsAreOver
<1>4. MadeSoFar' /\ NothingFreedYet'
  BY DEF EndCancelled, LifeInv, MadeSoFar, NothingFreedYet
<1>5. LiveAreKnown' /\ HttpNotCancelled' /\ PodHasGroups'
  BY DEF EndCancelled, Live, LifeInv, LiveAreKnown, HttpNotCancelled, PodHasGroups,
     HasGroups
<1>6. QED
  BY <1>1, <1>2, <1>3, <1>4, <1>5 DEF LifeInv

LEMMA RecvGivesUpInv ==
  ASSUME LifeInv, RecvGivesUp
  PROVE  LifeInv'
<1> USE ThreadsAssumption
<1>t. PartOK /\ ThreadOK /\ IdsOK
  BY DEF LifeInv, LifeTypeOK, PartOK, ThreadOK, IdsOK
<1>1. LifeTypeOK'
  <2>1. PartOK'
    BY <1>t DEF RecvGivesUp, PartOK
  <2>3. ThreadOK' /\ IdsOK'
    BY <1>t DEF RecvGivesUp, ThreadOK, IdsOK
  <2>4. QED
    BY <2>1, <2>3 DEF LifeInv, LifeTypeOK, RecvGivesUp
<1>2. NoUseAfterFree'
  BY DEF RecvGivesUp, Live, LifeInv, NoUseAfterFree
<1>3. OverThreadsAreOver'
  BY DEF RecvGivesUp, Live, LifeInv, OverThreadsAreOver
<1>4. MadeSoFar' /\ NothingFreedYet'
  BY DEF RecvGivesUp, LifeInv, MadeSoFar, NothingFreedYet
<1>5. LiveAreKnown' /\ HttpNotCancelled' /\ PodHasGroups'
  BY DEF RecvGivesUp, Live, LifeInv, LiveAreKnown, HttpNotCancelled, PodHasGroups,
     HasGroups
<1>6. QED
  BY <1>1, <1>2, <1>3, <1>4, <1>5 DEF LifeInv

LEMMA StartupInv ==
  ASSUME LifeInv, Startup
  PROVE  LifeInv'
BY ThreadsAssumption
   DEF Startup, LifeInv, LifeTypeOK, Up, Down, Ended, Live, Uses, StaticLocks,
       NoUseAfterFree, OverThreadsAreOver, OverAt, NoThreadsAt, MadeSoFar, MadeAt, NothingFreedYet,
       LiveAreKnown, HttpNotCancelled, PodHasGroups, HasGroups

LEMMA MainStartsInv ==
  ASSUME LifeInv, MainStarts
  PROVE  LifeInv'
BY StartupInv, InitPingInv, InitRegistryInv, InitGroupsInv, PlainStartInv, StartHttpInv,
   StartContainersInv, StartUpdatesInv
   DEF MainStarts

LEMMA MainStopsInv ==
  ASSUME LifeInv, MainStops
  PROVE  LifeInv'
BY CancelInv, JoinInv, FreeContainersInv, StopHttpInv, FreeRegistryInv, FreePodsInv,
   FreePingInv
   DEF MainStops, Stopping

\* What leaves main and its threads alone leaves the invariant.
LEMMA LifeInvUnchanged == LifeInv /\ UNCHANGED lifeVars => LifeInv'
BY DEF lifeVars, LifeInv, LifeTypeOK, Live, NoUseAfterFree, OverThreadsAreOver, MadeSoFar,
       NothingFreedYet, LiveAreKnown, HttpNotCancelled, PodHasGroups, HasGroups

LEMMA SchedInvUnchanged == SchedInv /\ UNCHANGED schedVars => SchedInv'
BY DEF schedVars, SchedInv, SchedTypeOK, Behind
-----------------------------------------------------------------------------
(***************************************************************************)
(* The groups that ask systemd.                                            *)
(***************************************************************************)
LEMMA SvcInitOK == SvcInit => SvcTypeOK
BY ServiceAssumption DEF SvcInit, SvcTypeOK, NoConn, NoGauge, Askers

LEMMA NoSamplesOK ==
  ASSUME SvcTypeOK, NoSamples, UNCHANGED outside, conn' = conn \/ conn' = NoConn
  PROVE  SvcTypeOK'
BY ServiceAssumption DEF SvcTypeOK, NoSamples, outside, NoConn, NoGauge, Askers

LEMMA MachineCrashOK ==
  ASSUME SvcTypeOK, MachineCrash, SvcRestart
  PROVE  SvcTypeOK'
BY ServiceAssumption DEF SvcTypeOK, MachineCrash, SvcRestart, NoSamples, NoConn, NoGauge

LEMMA OutsideOK ==
  ASSUME SvcTypeOK, BusLost \/ BusBack \/ \E u \in Units : UnitChanges(u)
  PROVE  SvcTypeOK'
<1>1. active' \subseteq Units
  BY DEF SvcTypeOK, BusLost, BusBack, UnitChanges
<1>2. conn' \in [Askers -> {"none", "open", "broken"}]
  BY DEF SvcTypeOK, BusLost, BusBack, UnitChanges, serviceMetrics
<1>3. bus' \in BOOLEAN
  BY DEF SvcTypeOK, BusLost, BusBack, UnitChanges
<1>4. QED
  BY <1>1, <1>2, <1>3 DEF SvcTypeOK, BusLost, BusBack, UnitChanges, serviceMetrics

LEMMA UpdateServicesOK ==
  ASSUME SvcTypeOK, NEW due, UpdateServices(due)
  PROVE  SvcTypeOK'
<1>1. conn' \in [Askers -> {"none", "open", "broken"}]
  BY DEF SvcTypeOK, UpdateServices, Connected
<1>2. gauge' \in [Watched -> {"none", "active", "inactive"}]
  BY DEF SvcTypeOK, UpdateServices, Answer
<1>3. crashes' \in 0..MaxCrashes /\ updateFlag' \in {0, 1}
  BY DEF SvcTypeOK, UpdateServices, ClearedWhenRead
<1>4. QED
  BY <1>1, <1>2, <1>3 DEF SvcTypeOK, UpdateServices, outside

LEMMA SvcUnchanged == SvcTypeOK /\ UNCHANGED <<outside, serviceMetrics>> => SvcTypeOK'
BY DEF SvcTypeOK, outside, serviceMetrics
-----------------------------------------------------------------------------
(***************************************************************************)
(* The daemon.                                                             *)
(***************************************************************************)
Inv == LifeInv /\ SchedInv /\ SvcTypeOK

LEMMA InvInit == Init => Inv
BY LifeInvInit, SchedInvInit, SvcInitOK DEF Init, Inv

\* The steps of main and its threads that leave the groups alone.
LEMMA UnthreadedInv ==
  ASSUME Inv, UNCHANGED unthreaded, LifeInv'
  PROVE  Inv'
BY SchedInvUnchanged, SvcUnchanged DEF Inv, unthreaded

\* A process that is gone takes the schedule and the samples with it.
LEMMA ForgottenInv ==
  ASSUME Inv, Gone, pc' \in {"killed", "start"}, SchedRestart, SvcRestart, UNCHANGED outside
  PROVE  Inv'
BY GoneInv, SchedInvRestart, NoSamplesOK DEF Inv, SvcRestart

LEMMA InvStep ==
  ASSUME Inv, [Next]_vars
  PROVE  Inv'
<1>i. LifeInv /\ SchedInv /\ SvcTypeOK
  BY DEF Inv
<1>1. CASE Start
  BY <1>1, <1>i, MainStartsInv, UnthreadedInv DEF Start
<1>2. CASE Stop
  BY <1>2, <1>i, MainStopsInv, UnthreadedInv DEF Stop
<1>3. CASE TakeLock \/ GiveLock
  BY <1>3, <1>i, LockInv, UnthreadedInv DEF TakeLock, GiveLock
<1>4. CASE EndThread
  BY <1>4, <1>i, EndInv, UnthreadedInv DEF EndThread
<1>5. CASE RecvEnds
  BY <1>5, <1>i, RecvGivesUpInv, UnthreadedInv DEF RecvEnds
<1>6. CASE Signal
  BY <1>6, <1>i, PlainStartInv, UnthreadedInv DEF Signal
<1>7. CASE Death
  BY <1>7, ForgottenInv DEF Death, Killed, JoinCrashes
<1>8. CASE Restart
  BY <1>8, ForgottenInv DEF Restart, NewProcess
<1>9. CASE PowerCycle
  BY <1>9, <1>i, GoneInv, SchedInvRestart, MachineCrashOK DEF PowerCycle, Inv
<1>10. CASE CloseGroups
  <2>1. LifeInv'
    BY <1>10, <1>i, FreeGroupsInv DEF CloseGroups
  <2>2. SchedInv'
    BY <1>10, <1>i, SchedInvUnchanged DEF CloseGroups, schedVars
  <2>3. SvcTypeOK'
    BY <1>10, <1>i DEF CloseGroups, SvcTypeOK, outside, NoConn
  <2>4. QED
    BY <2>1, <2>2, <2>3 DEF Inv
<1>11. CASE Update
  BY <1>11, <1>i, LifeInvUnchanged, TickInv, UpdateServicesOK DEF Update, Inv
<1>12. CASE UpdateEnds
  <2>1. "updates" \in Cancellable
    BY ThreadsAssumption DEF Cancellable
  <2>2. QED
    BY <1>12, <1>i, <2>1, EndInv, SchedInvRestart, NoSamplesOK DEF UpdateEnds, Inv
<1>13. CASE Environment
  BY <1>13, <1>i, LifeInvUnchanged, SchedInvUnchanged, OutsideOK DEF Environment, Inv
<1>14. CASE UNCHANGED vars
  BY <1>14, <1>i, LifeInvUnchanged, SchedInvUnchanged, SvcUnchanged DEF vars, Inv
<1>15. CASE Collide
  BY <1>15, <1>i, TagsCollideInv, UnthreadedInv DEF Collide
<1>16. QED
  BY <1>1, <1>2, <1>3, <1>4, <1>5, <1>6, <1>7, <1>8, <1>9, <1>10, <1>11, <1>12, <1>13,
     <1>14, <1>15
     DEF Next

\* The invariant holds in every reachable state.
THEOREM InvHolds == Spec => []Inv
BY InvInit, InvStep, PTL DEF Spec

\* Type correctness of the daemon for every table of groups and any units.
THEOREM AgentTypeOK == Spec => []TypeOK
<1>1. Inv => TypeOK
  BY DEF Inv, TypeOK, LifeInv, SchedInv
<1>2. QED
  BY <1>1, InvHolds, PTL

\* NoUseAfterFree: however far the start came and whenever the teardown begins,
\* a part is freed only when every thread that works with it is over.
THEOREM NothingUsedAfterFree == Spec => []NoUseAfterFree
<1>1. Inv => NoUseAfterFree
  BY DEF Inv, LifeInv
<1>2. QED
  BY <1>1, InvHolds, PTL

\* PeriodKept: the offsets do_update_metrics adds to the tick never make a group
\* miss its period, in a table of any length with any periods.
THEOREM EveryPeriodKept == Spec => []PeriodKept
<1>1. Inv => PeriodKept
  BY SchedInvKeeps DEF Inv
<1>2. QED
  BY <1>1, InvHolds, PTL
=============================================================================
