---------------------- MODULE ContainerCollectorProofs ----------------------
(***************************************************************************)
(* What is proved of the container collector for any containers, processes *)
(* and addresses and any number of changes and faults: its type, that the  *)
(* ping service has exactly the items of the entries, and that the four    *)
(* lists are of this sweep and one before at most.                         *)
(***************************************************************************)
EXTENDS ContainerCollector, TLAPS

(***************************************************************************)
(* The invariant.  A tag an entry has is not one that leaked, so that its  *)
(* owner gives back its own; a new container is one cmap does not have.    *)
(***************************************************************************)
StoppedHasNoProcesses == \A c \in Ids : docker[c].pid = 0 => docker[c].procs = {}
NotMarkedWhenCancelled == ~Running => toVisit = {}
NoneDanglesYet == Running => dangling = {}
NewIsNotThere == pending \cap DOMAIN cmap \subseteq toVisit
LeakedApart == \A c \in DOMAIN cmap : cmap[c].tag \notin leaked

Inv ==
  /\ TypeOK /\ StoppedHasNoProcesses
  /\ NotMarkedWhenCancelled /\ NewIsNotThere /\ NoneDanglesYet
  /\ ItemsMatchContainers /\ LeakedApart
  /\ ListsAgree

LEMMA ConstantTypes ==
  /\ Pids \subseteq Nat \ {0} /\ NoIp \notin Ips /\ MaxTag \in Nat
  /\ MaxChanges \in Nat /\ MaxFaults \in Nat
BY CollectorAssumption

LEMMA NewInfoIsInfo == NewInfo \in Info /\ NewInfo.tag = 0 /\ NewInfo.procs = {}
BY ConstantTypes DEF NewInfo, Info

LEMMA IsMapByEntry ==
  ASSUME NEW m
  PROVE  IsMap(m) <=> /\ DOMAIN m \subseteq Ids
                      /\ \A c \in DOMAIN m : m[c] \in Info /\ (m[c].pid = 0 => m[c].procs = {})
BY DEF IsMap, Range

LEMMA InitInv == Init => Inv
<1> SUFFICES ASSUME Init PROVE Inv
  OBVIOUS
<1>1. DOMAIN NoContainers = {}
  BY DEF NoContainers
<1>2. IsMap(NoContainers)
  BY <1>1, IsMapByEntry
<1>3. Gone \in Container /\ Gone.procs = {}
  BY DEF Gone, Container
<1>4. TypeOK
  BY <1>1, <1>2, <1>3, ConstantTypes DEF Init, TypeOK, Kinds
<1>5. StoppedHasNoProcesses
  BY <1>3 DEF Init, StoppedHasNoProcesses
<1>6. ItemsMatchContainers /\ LeakedApart
  BY <1>1 DEF Init, ItemsMatchContainers, LeakedApart
<1>7. ListsAgree
  BY DEF Init, ListsAgree, Copied, Kinds
<1>8. QED
  BY <1>1, <1>4, <1>5, <1>6, <1>7 DEF Init, Inv, NotMarkedWhenCancelled, NoneDanglesYet, NewIsNotThere
-----------------------------------------------------------------------------
(***************************************************************************)
(* An entry is made or made anew.                                          *)
(***************************************************************************)
PingTypeOK ==
  /\ lastTag \in 0..MaxTag /\ registered \subseteq 1..lastTag
  /\ dest \in [Tag -> Ips \cup {NoIp}]

\* What the entry was: nothing, for a container cmap does not have.
WasEntry(c, old) ==
  \/ c \in DOMAIN cmap /\ old = cmap[c]
  \/ c \notin DOMAIN cmap /\ old = NewInfo

LEMMA OldIsInfo ==
  ASSUME Inv, NEW c \in Ids, NEW old, WasEntry(c, old)
  PROVE  /\ old \in Info /\ old.tag \in 0..lastTag
         /\ old.tag # 0 => old.tag \in registered /\ dest[old.tag] = old.ip
<1>1. IsMap(cmap) /\ lastTag \in Nat /\ registered \subseteq 1..lastTag
  BY DEF Inv, TypeOK
<1>2. CASE c \in DOMAIN cmap /\ old = cmap[c]
  BY <1>1, <1>2, IsMapByEntry DEF Inv, ItemsMatchContainers, Info
<1>3. CASE c \notin DOMAIN cmap /\ old = NewInfo
  BY <1>1, <1>3, NewInfoIsInfo
<1>4. QED
  BY <1>2, <1>3 DEF WasEntry

LEMMA UpdatePingType ==
  ASSUME Inv, NEW c \in Ids, NEW old, WasEntry(c, old), UpdatePing(c, old)
  PROVE  /\ PingTypeOK'
         /\ lastTag' \in Nat /\ lastTag <= lastTag'
         /\ Filled(c, old) \in Info
         /\ Filled(c, old).pid = 0 => Filled(c, old).procs = {}
<1>1. /\ lastTag \in 0..MaxTag /\ registered \subseteq 1..lastTag
      /\ dest \in [Tag -> Ips \cup {NoIp}] /\ docker \in [Ids -> Container]
  BY DEF Inv, TypeOK
<1>2. old \in Info
  BY OldIsInfo
<1>3. docker[c] \in Container /\ (docker[c].pid = 0 => docker[c].procs = {})
  BY <1>1 DEF Inv, StoppedHasNoProcesses
<1>4. PingTypeOK' /\ lastTag' \in Nat /\ lastTag <= lastTag'
  <2>1. CASE NewAddress(c, old)
    <3>1. /\ lastTag < MaxTag /\ lastTag' = lastTag + 1
          /\ registered' = Unregistered(old.tag) \cup {lastTag + 1}
          /\ dest' = [dest EXCEPT ![lastTag + 1] = docker[c].ip]
      BY <2>1 DEF UpdatePing
    <3>2. docker[c].ip \in Ips \cup {NoIp}
      BY <1>3 DEF Container
    <3>3. dest' \in [Tag -> Ips \cup {NoIp}]
      BY <3>1, <3>2, <1>1
    <3>4. lastTag' \in 0..MaxTag /\ lastTag' \in Nat /\ lastTag <= lastTag'
      BY <3>1, <1>1, ConstantTypes
    <3>5. registered' \subseteq 1..lastTag'
      <4>1. registered \subseteq 1..(lastTag + 1)
        BY <1>1
      <4>2. lastTag + 1 \in 1..(lastTag + 1)
        BY <1>1
      <4>3. QED
        BY <3>1, <4>1, <4>2 DEF Unregistered
    <3>6. QED
      BY <3>3, <3>4, <3>5 DEF PingTypeOK
  <2>2. CASE ~NewAddress(c, old)
    <3>1. lastTag' = lastTag /\ registered' = registered /\ dest' = dest
      BY <2>2 DEF UpdatePing, pingVars
    <3>2. lastTag \in Nat /\ lastTag <= lastTag
      BY <1>1, ConstantTypes
    <3>3. QED
      BY <3>1, <3>2, <1>1 DEF PingTypeOK
  <2>3. QED
    BY <2>1, <2>2
<1>5. Filled(c, old) \in Info
  <2>1. lastTag' \in 0..MaxTag
    BY <1>4 DEF PingTypeOK
  <2>2. QED
    BY <2>1, <1>2, <1>3 DEF Filled, Info, Container
<1>6. Filled(c, old).pid = docker[c].pid /\ Filled(c, old).procs = docker[c].procs
  BY DEF Filled
<1>7. QED
  BY <1>3, <1>4, <1>5, <1>6

\* The new entry has the item of its address, and all others have kept theirs.
LEMMA UpdatePingItems ==
  ASSUME Inv, NEW c \in Ids, NEW old, WasEntry(c, old), UpdatePing(c, old),
         leaked = {}, UNCHANGED leaked, DOMAIN cmap' = DOMAIN cmap \cup {c},
         \A d \in DOMAIN cmap \ {c} : cmap'[d] = cmap[d],
         cmap'[c].tag = Filled(c, old).tag, cmap'[c].ip = Filled(c, old).ip,
         cmap'[c] \in Info, cmap'[c].pid = 0 => cmap'[c].procs = {}
  PROVE  /\ IsMap(cmap)' /\ DOMAIN cmap' = DOMAIN cmap \cup {c}
         /\ ItemsMatchContainers' /\ LeakedApart'
<1> DEFINE new == cmap'[c]
<1>1. /\ lastTag \in Nat /\ registered \subseteq 1..lastTag
      /\ dest \in [Tag -> Ips \cup {NoIp}] /\ IsMap(cmap)
  BY DEF Inv, TypeOK
<1>2. leaked = {} /\ leaked' = {}
  OBVIOUS
<1>3. registered = {cmap[d].tag : d \in DOMAIN cmap} \ {0}
  BY <1>2 DEF Inv, ItemsMatchContainers
<1>4. \A d, e \in DOMAIN cmap :
        cmap[d].tag # 0 => dest[cmap[d].tag] = cmap[d].ip
                        /\ (cmap[e].tag = cmap[d].tag => d = e)
  BY DEF Inv, ItemsMatchContainers
<1>5. /\ old \in Info /\ old.tag \in 0..lastTag
      /\ old.tag # 0 => old.tag \in registered /\ dest[old.tag] = old.ip
  BY OldIsInfo
<1>6. new \in Info /\ (new.pid = 0 => new.procs = {})
  OBVIOUS
<1>7. /\ DOMAIN cmap' = DOMAIN cmap \cup {c} /\ cmap'[c] = new
      /\ \A d \in DOMAIN cmap \ {c} : cmap'[d] = cmap[d]
  OBVIOUS
<1>8. IsMap(cmap)'
  BY <1>1, <1>6, <1>7, IsMapByEntry
<1>9. \A d \in DOMAIN cmap \ {c} : cmap[d].tag = old.tag => old.tag = 0
  BY <1>4 DEF WasEntry, NewInfo
<1>10. \A d \in DOMAIN cmap : cmap[d].tag \in 0..lastTag
  BY <1>1, <1>3, <1>8, IsMapByEntry
<1>11. /\ registered' = {cmap'[d].tag : d \in DOMAIN cmap'} \ {0}
       /\ \A d, e \in DOMAIN cmap' :
            cmap'[d].tag # 0 => dest'[cmap'[d].tag] = cmap'[d].ip
                             /\ (cmap'[e].tag = cmap'[d].tag => d = e)
  <2>1. CASE NewAddress(c, old)
    <3>1. /\ lastTag < MaxTag /\ lastTag' = lastTag + 1
          /\ registered' = (registered \ {old.tag}) \cup {lastTag + 1}
          /\ dest' = [dest EXCEPT ![lastTag + 1] = docker[c].ip]
      BY <2>1 DEF UpdatePing, Unregistered
    <3>2. new.tag = lastTag + 1 /\ new.ip = docker[c].ip
      BY <2>1, <3>1 DEF Filled
    <3>3. \A t \in 0..lastTag : t # lastTag + 1 /\ dest'[t] = dest[t]
      BY <3>1, <1>1
    <3>4. dest'[lastTag + 1] = docker[c].ip
      BY <3>1, <1>1, ConstantTypes DEF Tag
    <3>5. \A d \in DOMAIN cmap \ {c} :
            /\ cmap'[d].tag = cmap[d].tag /\ cmap'[d].ip = cmap[d].ip
            /\ cmap[d].tag # lastTag + 1
            /\ cmap[d].tag # 0 => cmap[d].tag # old.tag
      BY <1>7, <1>9, <1>10, <3>3
    <3>6. registered' = {cmap'[d].tag : d \in DOMAIN cmap'} \ {0}
      <4>1. \A t : t \in registered /\ t # old.tag
              <=> t # 0 /\ \E d \in DOMAIN cmap \ {c} : cmap[d].tag = t
        BY <1>3, <1>5, <3>5 DEF WasEntry, NewInfo
      <4>2. lastTag + 1 # 0
        BY <1>1
      <4>3. QED
        BY <4>1, <4>2, <1>7, <3>1, <3>2, <3>5
    <3>7. \A d \in DOMAIN cmap' :
            /\ cmap'[d].tag # 0 => dest'[cmap'[d].tag] = cmap'[d].ip
            /\ \A e \in DOMAIN cmap' :
                 cmap'[d].tag # 0 /\ cmap'[e].tag = cmap'[d].tag => d = e
      BY <1>4, <1>7, <1>10, <3>2, <3>3, <3>4, <3>5
    <3>8. QED
      BY <3>6, <3>7
  <2>2. CASE ~NewAddress(c, old)
    <3>1. registered' = registered /\ dest' = dest
      BY <2>2 DEF UpdatePing, pingVars
    <3>2. new.tag = old.tag /\ new.ip = old.ip
      BY <2>2 DEF Filled
    <3>3. QED
      BY <1>3, <1>4, <1>5, <1>7, <1>9, <3>1, <3>2 DEF WasEntry, NewInfo
  <2>3. QED
    BY <2>1, <2>2
<1>12. QED
  BY <1>2, <1>7, <1>8, <1>11 DEF ItemsMatchContainers, LeakedApart
-----------------------------------------------------------------------------
(***************************************************************************)
(* The steps.                                                              *)
(***************************************************************************)
\* An entry goes, with its item.
LEMMA DropItems ==
  ASSUME Inv, NEW c \in DOMAIN cmap,
         cmap' = Restrict(cmap, DOMAIN cmap \ {c}),
         registered' = Unregistered(cmap[c].tag),
         UNCHANGED <<lastTag, dest, leaked>>, Running' => Running
  PROVE  /\ IsMap(cmap)' /\ DOMAIN cmap' = DOMAIN cmap \ {c}
         /\ registered' \subseteq 1..lastTag' /\ leaked' \subseteq registered'
         /\ ItemsMatchContainers' /\ LeakedApart'
<1>1. DOMAIN cmap' = DOMAIN cmap \ {c} /\ \A d \in DOMAIN cmap' : cmap'[d] = cmap[d]
  BY DEF Restrict
<1>2. IsMap(cmap) /\ registered \subseteq 1..lastTag /\ leaked \subseteq registered
  BY DEF Inv, TypeOK
<1>3. IsMap(cmap)'
  BY <1>1, <1>2, IsMapByEntry
<1>4. registered' = registered \ {cmap[c].tag} /\ cmap[c].tag \notin leaked
  BY DEF Unregistered, Inv, LeakedApart
<1>5. /\ registered = ({cmap[d].tag : d \in DOMAIN cmap} \ {0}) \cup leaked
      /\ \A d, e \in DOMAIN cmap :
           cmap[d].tag # 0 => dest[cmap[d].tag] = cmap[d].ip
                           /\ (cmap[e].tag = cmap[d].tag => d = e)
      /\ Running => leaked = {}
  BY DEF Inv, ItemsMatchContainers
<1>6. 0 \notin leaked
  BY <1>2
<1>7. registered' = ({cmap'[d].tag : d \in DOMAIN cmap'} \ {0}) \cup leaked
  <2>1. \A t : t \in registered <=>
          (t # 0 /\ \E d \in DOMAIN cmap : cmap[d].tag = t) \/ t \in leaked
    BY <1>5
  <2>2. \A t : (t # 0 /\ \E d \in DOMAIN cmap : cmap[d].tag = t) /\ t # cmap[c].tag
          <=> t # 0 /\ \E d \in DOMAIN cmap' : cmap'[d].tag = t
    <3>1. \A d \in DOMAIN cmap : cmap[d].tag = cmap[c].tag /\ cmap[c].tag # 0 => d = c
      BY <1>5
    <3>2. \A d \in DOMAIN cmap \ {c} : cmap'[d].tag = cmap[d].tag
      BY <1>1
    <3>3. QED
      BY <1>1, <3>1, <3>2
  <2>3. \A t : t \in registered' <=>
          (t # 0 /\ \E d \in DOMAIN cmap' : cmap'[d].tag = t) \/ t \in leaked
    BY <1>4, <2>1, <2>2
  <2>4. QED
    BY <2>3
<1>8. LeakedApart'
  BY <1>1 DEF Inv, LeakedApart
<1>9. ItemsMatchContainers'
  <2>1. \A d, e \in DOMAIN cmap' :
          cmap'[d].tag # 0 => dest'[cmap'[d].tag] = cmap'[d].ip
                           /\ (cmap'[e].tag = cmap'[d].tag => d = e)
    <3>1. dest' = dest
      OBVIOUS
    <3>2. \A d \in DOMAIN cmap \ {c} : cmap'[d].tag = cmap[d].tag /\ cmap'[d].ip = cmap[d].ip
      BY <1>1
    <3>3. \A d, e \in DOMAIN cmap \ {c} :
            cmap[d].tag # 0 => dest[cmap[d].tag] = cmap[d].ip
                            /\ (cmap[e].tag = cmap[d].tag => d = e)
      BY <1>5
    <3>4. SUFFICES ASSUME NEW d \in DOMAIN cmap \ {c}, NEW e \in DOMAIN cmap \ {c}
                   PROVE  cmap'[d].tag # 0 => dest'[cmap'[d].tag] = cmap'[d].ip
                                           /\ (cmap'[e].tag = cmap'[d].tag => d = e)
      BY <1>1
    <3>5. cmap'[d].tag = cmap[d].tag /\ cmap'[d].ip = cmap[d].ip /\ cmap'[e].tag = cmap[e].tag
      BY <3>2
    <3>6. QED
      BY <3>1, <3>3, <3>5
  <2>2. leaked' = leaked /\ (Running' => leaked' = {})
    BY <1>5
  <2>3. QED
    BY <1>7, <2>1, <2>2 DEF ItemsMatchContainers
<1>10. QED
  BY <1>1, <1>2, <1>3, <1>4, <1>8, <1>9

LEMMA DockerInv ==
  ASSUME Inv, Docker
  PROVE  Inv'
<1>1. UNCHANGED <<faults, cmap, sweepVars, cache, pingVars, dangling, leaked>>
  BY DEF Docker, DockerService, DockerChange
<1>2. changes \in 0..MaxChanges /\ changes' = changes + 1 /\ changes < MaxChanges
  BY DEF Docker, DockerService, DockerChange, Inv, TypeOK
<1>3. changes' \in 0..MaxChanges
  BY <1>2, ConstantTypes
<1>4. docker' \in [Ids -> Container] /\ active' \in BOOLEAN /\ StoppedHasNoProcesses'
  <2>0. docker \in [Ids -> Container] /\ active \in BOOLEAN /\ StoppedHasNoProcesses
    BY DEF Inv, TypeOK
  <2>1. CASE DockerService
    BY <2>0, <2>1 DEF DockerService, StoppedHasNoProcesses
  <2>2. ASSUME NEW c \in Ids, DockerChange(c)
        PROVE  docker' \in [Ids -> Container] /\ active' \in BOOLEAN /\ StoppedHasNoProcesses'
    <3>1. PICK s \in Container : Possible(s, c) /\ docker' = [docker EXCEPT ![c] = s]
      BY <2>2 DEF DockerChange
    <3>2. s.pid = 0 => s.procs = {}
      BY <3>1 DEF Possible
    <3>3. QED
      BY <2>0, <2>2, <3>1, <3>2 DEF DockerChange, StoppedHasNoProcesses
  <2>3. QED
    BY <2>1, <2>2 DEF Docker
<1>5. TypeOK'
  BY <1>1, <1>3, <1>4 DEF Inv, TypeOK, sweepVars, pingVars, IsMap
<1>6. QED
  BY <1>1, <1>4, <1>5
     DEF Inv, sweepVars, pingVars, NotMarkedWhenCancelled, NoneDanglesYet, NewIsNotThere, LeakedApart,
         ItemsMatchContainers, Running, ListsAgree, Copied

LEMMA FaultType ==
  ASSUME Inv, Fault \/ UNCHANGED faults
  PROVE  faults' \in 0..MaxFaults
<1>1. faults \in 0..MaxFaults
  BY DEF Inv, TypeOK
<1>2. CASE Fault
  BY <1>1, <1>2, ConstantTypes DEF Fault
<1>3. CASE UNCHANGED faults
  BY <1>1, <1>3
<1>4. QED
  BY <1>2, <1>3

LEMMA TickInv ==
  ASSUME Inv, Tick
  PROVE  Inv'
<1>1. faults' \in 0..MaxFaults
  BY FaultType DEF Tick
<1>2. /\ pc = "idle" /\ pc' = "walk" /\ toVisit' = DOMAIN cmap /\ pending' \subseteq Ids
      /\ UNCHANGED <<docker, active, changes, cmap, cache, lastTag, registered, dest, dangling, leaked>>
  BY DEF Tick, dockerVars, pingVars
<1>3. TypeOK'
  BY <1>1, <1>2 DEF Inv, TypeOK, IsMap
<1>4. ListsAgree'
  BY <1>2 DEF Inv, ListsAgree, Copied
<1>5. QED
  BY <1>2, <1>3, <1>4
     DEF Inv, StoppedHasNoProcesses, NotMarkedWhenCancelled, NoneDanglesYet, NewIsNotThere, LeakedApart,
         ItemsMatchContainers, Running

LEMMA WalkIsRunning == ASSUME Inv, pc = "walk" PROVE Running /\ leaked = {} /\ dangling = {}
BY DEF Inv, ItemsMatchContainers, NoneDanglesYet, Running

\* What the steps of a sweep leave alone.
SweepKeeps == UNCHANGED <<pc, docker, active, changes, cache, dangling, leaked>>

LEMMA SweepInv ==
  ASSUME Inv, SweepKeeps, pc = "walk",
         faults' \in 0..MaxFaults, PingTypeOK', IsMap(cmap)',
         leaked' \subseteq registered',
         toVisit' \subseteq DOMAIN cmap', pending' \subseteq Ids, NewIsNotThere',
         ItemsMatchContainers', LeakedApart'
  PROVE  Inv'
<1>0. dangling' = {} /\ dangling' \subseteq DOMAIN cmap'
  BY WalkIsRunning DEF SweepKeeps
<1>1. TypeOK'
  BY <1>0 DEF Inv, TypeOK, SweepKeeps, IsMap, PingTypeOK
<1>2. StoppedHasNoProcesses' /\ NotMarkedWhenCancelled' /\ NoneDanglesYet'
  BY <1>0
     DEF Inv, StoppedHasNoProcesses, NotMarkedWhenCancelled, NoneDanglesYet, SweepKeeps, Running
<1>3. ListsAgree'
  <2>1. pc = "walk" /\ pc' = "walk" /\ cache' = cache
    BY DEF SweepKeeps
  <2>2. QED
    BY <2>1 DEF Inv, ListsAgree, Copied
<1>4. QED
  BY <1>1, <1>2, <1>3 DEF Inv

\* An entry that was updated or inserted.
LEMMA PutInv ==
  ASSUME Inv, SweepKeeps, pc = "walk", NEW c \in Ids, NEW old, WasEntry(c, old),
         UpdatePing(c, old), cmap' = WithEntry(c, Filled(c, old)),
         toVisit' = toVisit \ {c}, pending' = pending \ {c}, UNCHANGED faults
  PROVE  Inv'
<1>1. UNCHANGED leaked /\ leaked' = {}
  BY WalkIsRunning DEF SweepKeeps
<1>2. /\ IsMap(cmap)' /\ DOMAIN cmap' = DOMAIN cmap \cup {c}
      /\ ItemsMatchContainers' /\ LeakedApart'
  <2>1. /\ DOMAIN cmap' = DOMAIN cmap \cup {c} /\ cmap'[c] = Filled(c, old)
        /\ \A d \in DOMAIN cmap \ {c} : cmap'[d] = cmap[d]
    BY DEF WithEntry
  <2>2. Filled(c, old) \in Info /\ (Filled(c, old).pid = 0 => Filled(c, old).procs = {})
    BY UpdatePingType
  <2>3. QED
    BY <1>1, <2>1, <2>2, WalkIsRunning, UpdatePingItems
<1>3. PingTypeOK'
  BY UpdatePingType
<1>4. faults' \in 0..MaxFaults
  BY FaultType
<1>5. toVisit \subseteq DOMAIN cmap /\ pending \subseteq Ids /\ NewIsNotThere
  BY DEF Inv, TypeOK
<1>6. toVisit' \subseteq DOMAIN cmap' /\ pending' \subseteq Ids /\ NewIsNotThere'
  BY <1>2, <1>5 DEF NewIsNotThere
<1>7. QED
  BY <1>1, <1>2, <1>3, <1>4, <1>6, SweepInv

LEMMA UpdateInv ==
  ASSUME Inv, NEW c \in Ids, Update(c)
  PROVE  Inv'
<1>1. /\ SweepKeeps /\ pc = "walk" /\ c \in toVisit /\ UpdatePing(c, cmap[c])
      /\ toVisit' = toVisit \ {c} /\ pending' = pending \ {c} /\ UNCHANGED faults
      /\ cmap' = [cmap EXCEPT ![c] = Filled(c, cmap[c])]
  BY DEF Update, Visit, SweepKeeps, dockerVars
<1>2. c \in DOMAIN cmap
  BY <1>1 DEF Inv, TypeOK
<1>3. cmap' = WithEntry(c, Filled(c, cmap[c]))
  <2>1. DOMAIN cmap \cup {c} = DOMAIN cmap
    BY <1>2
  <2>2. QED
    BY <1>1, <2>1 DEF WithEntry
<1>4. WasEntry(c, cmap[c])
  BY <1>2 DEF WasEntry
<1>5. QED
  BY <1>1, <1>3, <1>4, PutInv

LEMMA KeepInv ==
  ASSUME Inv, NEW c \in Ids, Keep(c)
  PROVE  Inv'
<1>1. /\ SweepKeeps /\ pc = "walk" /\ toVisit' = toVisit \ {c} /\ pending' = pending \ {c}
      /\ UNCHANGED <<cmap, lastTag, registered, dest>>
  BY DEF Keep, Visit, SweepKeeps, dockerVars, pingVars
<1>2. faults' \in 0..MaxFaults
  BY FaultType DEF Keep, InspectFails
<1>3. /\ toVisit' \subseteq DOMAIN cmap' /\ pending' \subseteq Ids
      /\ PingTypeOK' /\ IsMap(cmap)' /\ leaked' \subseteq registered'
  BY <1>1 DEF Inv, TypeOK, PingTypeOK, IsMap, SweepKeeps
<1>4. NewIsNotThere' /\ ItemsMatchContainers' /\ LeakedApart'
  BY <1>1 DEF Inv, NewIsNotThere, ItemsMatchContainers, LeakedApart, Running, SweepKeeps
<1>5. QED
  BY <1>1, <1>2, <1>3, <1>4, SweepInv

LEMMA RemoveInv ==
  ASSUME Inv, NEW c \in Ids, Remove(c)
  PROVE  Inv'
<1>1. /\ SweepKeeps /\ pc = "walk" /\ c \in toVisit /\ toVisit' = toVisit \ {c}
      /\ cmap' = Restrict(cmap, DOMAIN cmap \ {c}) /\ registered' = Unregistered(cmap[c].tag)
      /\ UNCHANGED <<pending, faults, lastTag, dest>>
  BY DEF Remove, Visit, SweepKeeps, dockerVars
<1>2. toVisit \subseteq DOMAIN cmap /\ NewIsNotThere
  BY DEF Inv, TypeOK
<1>3. /\ IsMap(cmap)' /\ DOMAIN cmap' = DOMAIN cmap \ {c}
      /\ registered' \subseteq 1..lastTag' /\ leaked' \subseteq registered'
      /\ ItemsMatchContainers' /\ LeakedApart'
  BY <1>1, <1>2, DropItems DEF SweepKeeps, Running
<1>4. PingTypeOK'
  BY <1>1, <1>3 DEF Inv, TypeOK, PingTypeOK
<1>5. faults' \in 0..MaxFaults
  BY <1>1, FaultType
<1>6. toVisit' \subseteq DOMAIN cmap' /\ pending' \subseteq Ids /\ NewIsNotThere'
  BY <1>1, <1>2, <1>3 DEF Inv, TypeOK, NewIsNotThere
<1>7. QED
  BY <1>1, <1>3, <1>4, <1>5, <1>6, SweepInv

\* A container cmap has is visited before any is inserted.
LEMMA PendingIsNew ==
  ASSUME Inv, toVisit = {}, NEW c \in pending
  PROVE  c \notin DOMAIN cmap /\ WasEntry(c, NewInfo)
BY DEF Inv, NewIsNotThere, WasEntry

LEMMA InsertInv ==
  ASSUME Inv, NEW c \in Ids, Insert(c)
  PROVE  Inv'
<1>1. /\ SweepKeeps /\ pc = "walk" /\ toVisit = {} /\ toVisit' = {} /\ c \in pending
      /\ pending' = pending \ {c}
  BY DEF Insert, SweepKeeps, dockerVars
<1>2. c \notin DOMAIN cmap /\ WasEntry(c, NewInfo)
  BY <1>1, PendingIsNew
<1>3. CASE UpdatePing(c, NewInfo) /\ cmap' = WithEntry(c, Filled(c, NewInfo))
           /\ UNCHANGED faults
  BY <1>1, <1>2, <1>3, PutInv
<1>4. CASE InspectFails(c) /\ UNCHANGED pingVars /\ cmap' = WithEntry(c, NewInfo)
  <2>1. faults' \in 0..MaxFaults
    BY <1>4, FaultType DEF InspectFails
  <2>2. /\ DOMAIN cmap' = DOMAIN cmap \cup {c} /\ cmap'[c] = NewInfo
        /\ \A d \in DOMAIN cmap : cmap'[d] = cmap[d]
    BY <1>2, <1>4 DEF WithEntry
  <2>3. IsMap(cmap) /\ PingTypeOK /\ pending \subseteq Ids /\ leaked \subseteq registered
    BY DEF Inv, TypeOK, PingTypeOK
  <2>4. IsMap(cmap)'
    BY <2>2, <2>3, IsMapByEntry, NewInfoIsInfo
  <2>5. PingTypeOK' /\ leaked' \subseteq registered'
    BY <1>1, <1>4, <2>3 DEF PingTypeOK, pingVars, SweepKeeps
  <2>6. NewIsNotThere' /\ toVisit' \subseteq DOMAIN cmap' /\ pending' \subseteq Ids
    BY <1>1, <2>2, <2>3 DEF Inv, NewIsNotThere
  <2>7. leaked = {} /\ leaked' = {} /\ registered' = registered /\ dest' = dest
    BY <1>1, <1>4, WalkIsRunning DEF SweepKeeps, pingVars
  <2>8. ItemsMatchContainers'
    BY <2>2, <2>7, NewInfoIsInfo DEF Inv, ItemsMatchContainers
  <2>9. LeakedApart'
    BY <2>7 DEF LeakedApart
  <2>10. QED
    BY <1>1, <2>1, <2>4, <2>5, <2>6, <2>8, <2>9, SweepInv
<1>5. QED
  BY <1>3, <1>4 DEF Insert

\* The lists are made: nothing but pc and the lists changes.
LEMMA ListsInv ==
  ASSUME Inv, pc' \in {"idle"} \cup Kinds, DOMAIN cache' = Kinds,
         \A k \in Kinds : IsMap(cache[k])', ListsAgree', Running,
         UNCHANGED <<toVisit, pending, docker, active, changes, faults, cmap,
                     lastTag, registered, dest, dangling, leaked>>
  PROVE  Inv'
<1>1. TypeOK'
  BY DEF Inv, TypeOK, IsMap
<1>2. Running /\ Running'
  BY DEF Running, Kinds
<1>3. QED
  BY <1>1, <1>2
     DEF Inv, StoppedHasNoProcesses, NotMarkedWhenCancelled, NoneDanglesYet, NewIsNotThere, LeakedApart,
         ItemsMatchContainers, Kinds

LEMMA EndWalkInv ==
  ASSUME Inv, EndWalk
  PROVE  Inv'
<1>1. /\ pc = "walk" /\ pc' = "basic"
      /\ UNCHANGED <<toVisit, pending, docker, active, changes, faults, cmap, cache,
                     lastTag, registered, dest, dangling, leaked>>
  BY DEF EndWalk, dockerVars, pingVars
<1>2. DOMAIN cache' = Kinds /\ \A k \in Kinds : IsMap(cache[k])'
  BY <1>1 DEF Inv, TypeOK, IsMap
<1>3. ListsAgree'
  BY <1>1 DEF Inv, ListsAgree, Copied
<1>4. QED
  BY <1>1, <1>2, <1>3, ListsInv DEF Kinds, Running

LEMMA CacheInv ==
  ASSUME Inv, NEW k \in Kinds, Cache(k)
  PROVE  Inv'
<1>1. /\ pc = k /\ pc' = After(k) /\ cache' = [cache EXCEPT ![k] = cmap]
      /\ UNCHANGED <<toVisit, pending, docker, active, changes, faults, cmap,
                     lastTag, registered, dest, dangling, leaked>>
  BY DEF Cache, CopyMade, dockerVars, pingVars
<1>2. DOMAIN cache = Kinds /\ IsMap(cmap) /\ \A j \in Kinds : IsMap(cache[j])
  BY DEF Inv, TypeOK
<1>3. DOMAIN cache' = Kinds /\ \A j \in Kinds : cache'[j] = IF j = k THEN cmap ELSE cache[j]
  BY <1>1, <1>2
<1>4. \A j \in Kinds : IsMap(cache[j])'
  BY <1>2, <1>3 DEF IsMap
<1>5. pc' \in {"idle"} \cup Kinds /\ Running
  BY <1>1 DEF After, Kinds, Running
<1>6. ListsAgree'
  <2>1. CASE k = "basic"
    BY <1>1, <1>3, <2>1 DEF Inv, ListsAgree, Copied, After, Kinds
  <2>2. CASE k = "perf"
    BY <1>1, <1>3, <2>2 DEF Inv, ListsAgree, Copied, After, Kinds
  <2>3. CASE k = "resource"
    BY <1>1, <1>3, <2>3 DEF Inv, ListsAgree, Copied, After, Kinds
  <2>4. CASE k = "process"
    BY <1>1, <1>3, <2>4 DEF Inv, ListsAgree, Copied, After, Kinds
  <2>5. QED
    BY <2>1, <2>2, <2>3, <2>4 DEF Kinds
<1>7. QED
  BY <1>1, <1>3, <1>4, <1>5, <1>6, ListsInv

\* While a sweep walks and once the thread is cancelled, the lists are of one sweep.
LEMMA NothingCopied ==
  ASSUME ListsAgree, pc \in {"idle", "walk", "cancelled"}, cache' = cache,
         pc' \in {"walk", "cancelled", "ended", "crashed"}
  PROVE  ListsAgree'
<1>1. \A k, l \in Kinds : cache[k] = cache[l]
  BY DEF ListsAgree, Copied, Kinds
<1>2. Copied' = {}
  BY DEF Copied
<1>3. QED
  BY <1>1, <1>2 DEF ListsAgree

LEMMA CancelInv ==
  ASSUME Inv, Cancel
  PROVE  Inv'
<1>1. /\ pc \in {"idle", "walk"} /\ pc' = "cancelled" /\ toVisit' = {} /\ pending' = {}
      /\ UNCHANGED <<docker, active, changes, faults, cmap, cache, lastTag, registered,
                     dest, dangling, leaked>>
  BY DEF Cancel, dockerVars, pingVars
<1>2. TypeOK'
  BY <1>1 DEF Inv, TypeOK, IsMap
<1>3. ~Running'
  BY <1>1 DEF Running
<1>4. QED
  BY <1>1, <1>2, <1>3
     DEF Inv, StoppedHasNoProcesses, NotMarkedWhenCancelled, NoneDanglesYet, NewIsNotThere, LeakedApart,
         ItemsMatchContainers, ListsAgree, Copied

\* The item that was made for an entry leaks.
LEMMA CancelInFillInv ==
  ASSUME Inv, NEW c \in Ids, CancelInFill(c)
  PROVE  Inv'
<1>1. /\ pc = "walk" /\ toVisit = {} /\ c \in pending /\ NewAddress(c, NewInfo)
      /\ UpdatePing(c, NewInfo) /\ leaked' = {lastTag'}
      /\ pc' = "cancelled" /\ pending' = {}
      /\ UNCHANGED <<toVisit, docker, active, changes, faults, cmap, cache, dangling>>
  BY DEF CancelInFill, dockerVars
<1>2. WasEntry(c, NewInfo)
  BY <1>1, PendingIsNew
<1>3. PingTypeOK'
  BY <1>1, <1>2, UpdatePingType
<1>4. /\ lastTag \in Nat /\ registered \subseteq 1..lastTag /\ IsMap(cmap)
      /\ dest \in [Tag -> Ips \cup {NoIp}] /\ leaked = {}
  BY <1>1, WalkIsRunning DEF Inv, TypeOK
<1>5. /\ lastTag' = lastTag + 1 /\ registered' = registered \cup {lastTag + 1}
      /\ dest' = [dest EXCEPT ![lastTag + 1] = docker[c].ip]
  BY <1>1, <1>4, NewInfoIsInfo DEF UpdatePing, Unregistered
<1>6. TypeOK'
  BY <1>1, <1>3, <1>5 DEF Inv, TypeOK, PingTypeOK, IsMap
<1>7. /\ registered = {cmap[d].tag : d \in DOMAIN cmap} \ {0}
      /\ \A d, e \in DOMAIN cmap :
           cmap[d].tag # 0 => dest[cmap[d].tag] = cmap[d].ip
                           /\ (cmap[e].tag = cmap[d].tag => d = e)
  BY <1>4 DEF Inv, ItemsMatchContainers
<1>8. \A d \in DOMAIN cmap : cmap[d].tag \in 0..lastTag
  <2>1. \A d \in DOMAIN cmap : cmap[d].tag # 0 => cmap[d].tag \in registered
    BY <1>7
  <2>2. \A t \in registered : t \in 0..lastTag
    BY <1>4
  <2>3. 0 \in 0..lastTag
    BY <1>4
  <2>4. QED
    BY <2>1, <2>2, <2>3
<1>9. LeakedApart'
  BY <1>1, <1>4, <1>5, <1>8 DEF LeakedApart
<1>10. \A d \in DOMAIN cmap : dest'[cmap[d].tag] = dest[cmap[d].tag]
  BY <1>4, <1>5, <1>8
<1>11. ItemsMatchContainers'
  <2>1. ~Running'
    BY <1>1 DEF Running
  <2>2. registered' = ({cmap'[d].tag : d \in DOMAIN cmap'} \ {0}) \cup leaked'
    BY <1>1, <1>5, <1>7
  <2>3. QED
    BY <1>1, <1>7, <1>10, <2>1, <2>2 DEF ItemsMatchContainers
<1>12. ListsAgree'
  BY <1>1, NothingCopied DEF Inv
<1>13. QED
  BY <1>1, <1>6, <1>9, <1>11, <1>12
     DEF Inv, StoppedHasNoProcesses, NotMarkedWhenCancelled, NoneDanglesYet, NewIsNotThere,
         Running

\* The entry has its item; of its lists it says nothing to the ping service.
LEMMA CancelInRefillInv ==
  ASSUME Inv, NEW c \in Ids, CancelInRefill(c)
  PROVE  Inv'
<1>1. /\ pc = "walk" /\ c \in toVisit /\ docker[c].pid # 0 /\ UpdatePing(c, cmap[c])
      /\ cmap' = [cmap EXCEPT ![c] = FilledSoFar(c)]
      /\ dangling' \subseteq {c} /\ pc' = "cancelled" /\ toVisit' = {} /\ pending' = {}
      /\ UNCHANGED <<docker, active, changes, faults, cache, leaked>>
  BY DEF CancelInRefill, dockerVars
<1>2. /\ c \in DOMAIN cmap /\ IsMap(cmap) /\ leaked = {} /\ ~Running'
  BY <1>1, WalkIsRunning DEF Inv, TypeOK, Running
<1>3. WasEntry(c, cmap[c])
  BY <1>2 DEF WasEntry
<1>4. PingTypeOK' /\ Filled(c, cmap[c]) \in Info
  BY <1>1, <1>3, UpdatePingType
<1>5. /\ FilledSoFar(c).tag = Filled(c, cmap[c]).tag /\ FilledSoFar(c).ip = Filled(c, cmap[c]).ip
      /\ FilledSoFar(c).pid = docker[c].pid /\ FilledSoFar(c) \in Info
  <2>1. cmap[c] \in Info
    BY <1>2, IsMapByEntry
  <2>2. QED
    BY <1>4, <2>1 DEF FilledSoFar, Filled, Info
<1>6. /\ DOMAIN cmap' = DOMAIN cmap /\ cmap'[c] = FilledSoFar(c)
      /\ \A d \in DOMAIN cmap \ {c} : cmap'[d] = cmap[d]
  BY <1>1, <1>2
<1>7. DOMAIN cmap \cup {c} = DOMAIN cmap
  BY <1>2
<1>8. IsMap(cmap)' /\ ItemsMatchContainers' /\ LeakedApart'
  BY <1>1, <1>2, <1>3, <1>5, <1>6, <1>7, UpdatePingItems
<1>9. TypeOK'
  <2>1. dangling' \subseteq DOMAIN cmap' /\ leaked' \subseteq registered'
    BY <1>1, <1>2, <1>6
  <2>2. QED
    BY <1>1, <1>4, <1>8, <2>1 DEF Inv, TypeOK, PingTypeOK, IsMap
<1>10. ListsAgree'
  BY <1>1, NothingCopied DEF Inv
<1>11. QED
  BY <1>1, <1>2, <1>8, <1>9, <1>10
     DEF Inv, StoppedHasNoProcesses, NotMarkedWhenCancelled, NoneDanglesYet, NewIsNotThere

LEMMA DestroyEntryInv ==
  ASSUME Inv, NEW c \in Ids, DestroyEntry(c)
  PROVE  Inv'
<1>1. /\ pc = "cancelled" /\ c \in DOMAIN cmap
      /\ cmap' = Restrict(cmap, DOMAIN cmap \ {c}) /\ registered' = Unregistered(cmap[c].tag)
      /\ pc' \in {"cancelled", "crashed"} /\ dangling' = dangling \ {c}
      /\ UNCHANGED <<toVisit, pending, docker, active, changes, faults, cache, lastTag,
                     dest, leaked>>
  BY DEF DestroyEntry, AfterFree, dockerVars
<1>2. ~Running /\ ~Running'
  BY <1>1 DEF Running
<1>3. /\ IsMap(cmap)' /\ DOMAIN cmap' = DOMAIN cmap \ {c}
      /\ registered' \subseteq 1..lastTag' /\ leaked' \subseteq registered'
      /\ ItemsMatchContainers' /\ LeakedApart'
  BY <1>1, <1>2, DropItems
<1>4. toVisit = {} /\ toVisit' = {}
  BY <1>1, <1>2 DEF Inv, NotMarkedWhenCancelled
<1>5. dangling' \subseteq DOMAIN cmap'
  BY <1>1, <1>3 DEF Inv, TypeOK
<1>6. TypeOK'
  BY <1>1, <1>3, <1>4, <1>5 DEF Inv, TypeOK, IsMap
<1>7. ListsAgree'
  BY <1>1, NothingCopied DEF Inv
<1>8. QED
  BY <1>1, <1>2, <1>3, <1>4, <1>6, <1>7
     DEF Inv, StoppedHasNoProcesses, NotMarkedWhenCancelled, NoneDanglesYet, NewIsNotThere

LEMMA DestroyEndInv ==
  ASSUME Inv, DestroyEnd
  PROVE  Inv'
<1>1. /\ pc = "cancelled" /\ pc' = "ended"
      /\ UNCHANGED <<toVisit, pending, docker, active, changes, faults, cmap, cache, lastTag,
                     registered, dest, dangling, leaked>>
  BY DEF DestroyEnd, dockerVars, pingVars
<1>2. TypeOK'
  BY <1>1 DEF Inv, TypeOK, IsMap
<1>3. QED
  BY <1>1, <1>2
     DEF Inv, StoppedHasNoProcesses, NotMarkedWhenCancelled, NoneDanglesYet, NewIsNotThere, LeakedApart,
         ItemsMatchContainers, Running, ListsAgree, Copied

LEMMA UnchangedInv == Inv /\ UNCHANGED vars => Inv'
BY DEF Inv, vars, dockerVars, sweepVars, pingVars, TypeOK, IsMap, StoppedHasNoProcesses,
       NotMarkedWhenCancelled, NoneDanglesYet, NewIsNotThere, LeakedApart, ItemsMatchContainers, Running,
       ListsAgree, Copied

THEOREM InvHolds == Spec => []Inv
<1>1. Inv /\ [Next]_vars => Inv'
  <2> SUFFICES ASSUME Inv, [Next]_vars PROVE Inv'
    OBVIOUS
  <2>1. CASE UpdateThread
    BY <2>1, TickInv, EndWalkInv, UpdateInv, KeepInv, RemoveInv, InsertInv, CacheInv
       DEF UpdateThread
  <2>2. CASE Shutdown
    BY <2>2, CancelInv, DestroyEndInv, CancelInFillInv, CancelInRefillInv, DestroyEntryInv
       DEF Shutdown
  <2>3. CASE Docker
    BY <2>3, DockerInv
  <2>4. CASE Terminated \/ UNCHANGED vars
    BY <2>4, UnchangedInv DEF Terminated
  <2>5. QED
    BY <2>1, <2>2, <2>3, <2>4 DEF Next
<1>2. QED
  BY <1>1, InitInv, PTL DEF Spec
-----------------------------------------------------------------------------
\* Every variable of the collector keeps its type, whatever docker does and
\* whichever of its commands fail.
THEOREM CollectorTypeOK == Spec => []TypeOK
<1>1. Inv => TypeOK
  BY DEF Inv
<1>2. QED
  BY <1>1, InvHolds, PTL

\* The ping service has exactly the items of the entries in cmap, half-way through
\* a sweep and through the shutdown too, but for the one a cancelled insertion leaves.
THEOREM ItemsAreContainers == Spec => []ItemsMatchContainers
<1>1. Inv => ItemsMatchContainers
  BY DEF Inv
<1>2. QED
  BY <1>1, InvHolds, PTL

\* Wherever a reader can get the lock, also between two of the copies, the lists are of
\* two sweeps at most: those copied are what the sweep under way found, all others are
\* copies of one earlier state.  Where no copying is under way they are all of one sweep.
THEOREM ListsOfTwoSweeps == Spec => []ListsAgree
<1>1. Inv => ListsAgree
  BY DEF Inv
<1>2. QED
  BY <1>1, InvHolds, PTL
-----------------------------------------------------------------------------
(***************************************************************************)
(* Ownership: what the step of a container does to the tags held, and that *)
(* this is a step of PingOwnership.                                        *)
(***************************************************************************)
Held == [c \in Ids |-> IF c \in DOMAIN cmap THEN cmap[c].tag ELSE 0]
Items == registered \ leaked
Used == (1..lastTag) \ leaked
Unchanged == UNCHANGED <<Held, Items, Used>>

\* A new item under the next tag, or none.
LEMMA PutOwns ==
  ASSUME Inv, NEW c \in Ids, NEW old, WasEntry(c, old), UpdatePing(c, old),
         leaked = {}, UNCHANGED leaked, DOMAIN cmap' = DOMAIN cmap \cup {c},
         \A d \in DOMAIN cmap \ {c} : cmap'[d] = cmap[d],
         cmap'[c].tag = Filled(c, old).tag
  PROVE  Ownership!Next \/ Unchanged
<1>1. Held[c] = old.tag
  BY NewInfoIsInfo DEF Held, WasEntry
<1>2. Held' = [Held EXCEPT ![c] = Filled(c, old).tag]
  BY DEF Held
<1>3. CASE NewAddress(c, old)
  <2>1. /\ lastTag < MaxTag /\ lastTag' = lastTag + 1 /\ lastTag \in Nat
        /\ registered' = (registered \ {old.tag}) \cup {lastTag + 1}
        /\ Filled(c, old).tag = lastTag + 1
    BY <1>3 DEF UpdatePing, Unregistered, Filled, Inv, TypeOK
  <2>2. lastTag + 1 \in Tag \ 1..lastTag
    BY <2>1, ConstantTypes DEF Tag
  <2>3. 1..lastTag' = (1..lastTag) \cup {lastTag + 1}
    BY <2>1
  <2>4. Ownership!Acquire(c)
    <3>1. Held' = [Held EXCEPT ![c] = lastTag + 1]
      BY <1>2, <2>1
    <3>2. (registered \ leaked)' = ((registered \ leaked) \ {Held[c]}) \cup {lastTag + 1}
      BY <1>1, <2>1
    <3>3. ((1..lastTag) \ leaked)' = ((1..lastTag) \ leaked) \cup {lastTag + 1}
      BY <2>3
    <3>4. lastTag + 1 \in Ownership!Fresh
      BY <2>2 DEF Ownership!Fresh
    <3>5. QED
      BY <3>1, <3>2, <3>3, <3>4 DEF Ownership!Acquire, Ownership!WithoutOwn, Held
  <2>5. QED
    BY <2>4 DEF Ownership!Next
<1>4. CASE ~NewAddress(c, old)
  <2>1. UNCHANGED <<registered, lastTag>> /\ Filled(c, old).tag = old.tag
    BY <1>4 DEF UpdatePing, pingVars, Filled
  <2>2. Held' = Held
    BY <1>1, <1>2, <2>1 DEF Held
  <2>3. QED
    BY <2>1, <2>2 DEF Unchanged, Items, Used
<1>5. QED
  BY <1>3, <1>4

LEMMA DropOwns ==
  ASSUME Inv, NEW c \in DOMAIN cmap, cmap' = Restrict(cmap, DOMAIN cmap \ {c}),
         registered' = Unregistered(cmap[c].tag), UNCHANGED <<lastTag, leaked>>
  PROVE  Ownership!Next \/ Unchanged
<1>1. c \in Ids
  BY DEF Inv, TypeOK, IsMap
<1>2. Held[c] = cmap[c].tag
  BY <1>1 DEF Held
<1>3. Held' = [Held EXCEPT ![c] = 0]
  <2>1. DOMAIN cmap' = DOMAIN cmap \ {c} /\ \A d \in DOMAIN cmap' : cmap'[d] = cmap[d]
    BY DEF Restrict
  <2>2. QED
    BY <2>1 DEF Held
<1>4. Items' = Items \ {Held[c]} /\ Used' = Used
  BY <1>2 DEF Items, Used, Unregistered
<1>5. CASE Held[c] # 0
  <2>1. Ownership!Release(c)
    BY <1>3, <1>4, <1>5 DEF Ownership!Release, Ownership!WithoutOwn, Held, Items, Used
  <2>2. QED
    BY <1>1, <2>1 DEF Ownership!Next
<1>6. CASE Held[c] = 0
  <2>1. Held' = Held
    BY <1>3, <1>6 DEF Held
  <2>2. Items' = Items
    BY <1>4, <1>6 DEF Items, Inv, TypeOK
  <2>3. QED
    BY <1>4, <2>1, <2>2 DEF Unchanged
<1>7. QED
  BY <1>5, <1>6

LEMMA InsertOwns ==
  ASSUME Inv, NEW c \in Ids, Insert(c)
  PROVE  Ownership!Next \/ Unchanged
<1>1. pc = "walk" /\ toVisit = {} /\ c \in pending /\ UNCHANGED leaked
  BY DEF Insert
<1>2. c \notin DOMAIN cmap /\ WasEntry(c, NewInfo) /\ leaked = {}
  BY <1>1, PendingIsNew, WalkIsRunning
<1>3. CASE UpdatePing(c, NewInfo) /\ cmap' = WithEntry(c, Filled(c, NewInfo))
  <2>1. /\ DOMAIN cmap' = DOMAIN cmap \cup {c} /\ cmap'[c] = Filled(c, NewInfo)
        /\ \A d \in DOMAIN cmap \ {c} : cmap'[d] = cmap[d]
    BY <1>3 DEF WithEntry
  <2>2. QED
    BY <1>1, <1>2, <1>3, <2>1, PutOwns
<1>4. CASE UNCHANGED pingVars /\ cmap' = WithEntry(c, NewInfo)
  <2>1. Held' = Held
    BY <1>2, <1>4, NewInfoIsInfo DEF Held, WithEntry
  <2>2. QED
    BY <1>1, <1>4, <2>1 DEF Unchanged, Items, Used, pingVars
<1>5. QED
  BY <1>3, <1>4 DEF Insert

LEMMA UpdateOwns ==
  ASSUME Inv, NEW c \in Ids, Update(c) \/ CancelInRefill(c)
  PROVE  Ownership!Next \/ Unchanged
<1>1. /\ pc = "walk" /\ c \in toVisit /\ UNCHANGED leaked /\ UpdatePing(c, cmap[c])
      /\ \E new : cmap' = [cmap EXCEPT ![c] = new] /\ new.tag = Filled(c, cmap[c]).tag
  BY DEF Update, Visit, CancelInRefill, FilledSoFar, Filled
<1>2. c \in DOMAIN cmap /\ leaked = {}
  BY <1>1, WalkIsRunning DEF Inv, TypeOK
<1>3. /\ DOMAIN cmap' = DOMAIN cmap \cup {c} /\ cmap'[c].tag = Filled(c, cmap[c]).tag
      /\ \A d \in DOMAIN cmap \ {c} : cmap'[d] = cmap[d]
  BY <1>1, <1>2
<1>4. WasEntry(c, cmap[c])
  BY <1>2 DEF WasEntry
<1>5. QED
  BY <1>1, <1>2, <1>3, <1>4, PutOwns

\* The item of the cancelled insertion never has an owner.
LEMMA CancelInFillOwns ==
  ASSUME Inv, NEW c \in Ids, CancelInFill(c)
  PROVE  Unchanged
<1>1. /\ pc = "walk" /\ NewAddress(c, NewInfo) /\ UpdatePing(c, NewInfo)
      /\ leaked' = {lastTag'} /\ cmap' = cmap
  BY DEF CancelInFill
<1>2. leaked = {} /\ lastTag \in Nat /\ registered \subseteq 1..lastTag
  BY <1>1, WalkIsRunning DEF Inv, TypeOK
<1>3. lastTag' = lastTag + 1 /\ registered' = registered \cup {lastTag + 1}
  BY <1>1, <1>2, NewInfoIsInfo DEF UpdatePing, Unregistered
<1>4. Used' = Used
  BY <1>1, <1>2, <1>3 DEF Used
<1>5. Items' = Items
  <2>1. lastTag + 1 \notin registered
    BY <1>2
  <2>2. QED
    BY <1>1, <1>2, <1>3, <2>1 DEF Items
<1>6. QED
  BY <1>1, <1>4, <1>5 DEF Unchanged, Held

LEMMA StepOwns ==
  ASSUME Inv, [Next]_vars
  PROVE  Ownership!Next \/ Unchanged
<1>1. CASE UNCHANGED <<cmap, registered, lastTag, leaked>>
  BY <1>1 DEF Unchanged, Held, Items, Used
<1>2. ASSUME NEW c \in Ids, Remove(c) \/ DestroyEntry(c)
      PROVE  Ownership!Next \/ Unchanged
  <2>1. /\ c \in DOMAIN cmap /\ cmap' = Restrict(cmap, DOMAIN cmap \ {c})
        /\ registered' = Unregistered(cmap[c].tag) /\ UNCHANGED <<lastTag, leaked>>
    BY <1>2 DEF Remove, Visit, DestroyEntry, Inv, TypeOK
  <2>2. QED
    BY <2>1, DropOwns
<1>3. CASE UpdateThread
  <2>1. ASSUME NEW c \in Ids, Keep(c)
        PROVE  UNCHANGED <<cmap, registered, lastTag, leaked>>
    BY <2>1 DEF Keep, Visit, pingVars
  <2>2. CASE Tick \/ EndWalk \/ \E k \in Kinds : Cache(k)
    BY <1>1, <2>2 DEF Tick, EndWalk, Cache, pingVars
  <2>3. QED
    BY <1>1, <1>2, <1>3, <2>1, <2>2, UpdateOwns, InsertOwns DEF UpdateThread
<1>4. CASE Shutdown
  <2>1. CASE Cancel \/ DestroyEnd
    BY <1>1, <2>1 DEF Cancel, DestroyEnd, pingVars
  <2>2. QED
    BY <1>2, <1>4, <2>1, CancelInFillOwns, UpdateOwns DEF Shutdown
<1>5. CASE Docker \/ Terminated \/ UNCHANGED vars
  BY <1>1, <1>5 DEF Docker, DockerService, DockerChange, Terminated, vars, pingVars
<1>6. QED
  BY <1>3, <1>4, <1>5 DEF Next

\* The container collector keeps the promise of PingOwnership: a container has at most
\* one item, under a tag no other ever had, and the item is there exactly as long as
\* its entry holds the tag, through sweeps that fail half-way and a shutdown at any point.
THEOREM CollectorImplementsOwnership == Spec => ImplementsOwnership
<1>1. Init => Ownership!Init
  <2>1. Init => Held = [c \in Ids |-> 0]
    BY DEF Init, NoContainers, Held
  <2>2. Init => 1..lastTag = {}
    BY DEF Init
  <2>3. QED
    BY <2>1, <2>2 DEF Init, Ownership!Init, Held
<1>2. Inv /\ [Next]_vars => [Ownership!Next]_Ownership!vars
  <2>1. Unchanged => UNCHANGED Ownership!vars
    BY DEF Unchanged, Ownership!vars, Held, Items, Used
  <2>2. QED
    BY <2>1, StepOwns
<1>3. QED
  BY <1>1, <1>2, InvHolds, PTL DEF Spec, ImplementsOwnership, Ownership!Spec
=============================================================================
