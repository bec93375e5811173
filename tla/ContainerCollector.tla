------------------------- MODULE ContainerCollector -------------------------
(***************************************************************************)
(* The container collector of src/src/container/container_collector.c.     *)
(* A thread asks docker every second which containers there are, inspects  *)
(* each, and keeps what it learnt in cmap; running containers with an      *)
(* address are registered with the ping service.  After each sweep it      *)
(* tells the kernel programs what to watch, which is BpfMonitor's, and     *)
(* copies cmap into the four lists the metrics thread publishes.           *)
(*                                                                         *)
(* cmap belongs to the thread alone, so no lock guards it; docker goes on  *)
(* changing between any two commands of a sweep.  Of what is known of a    *)
(* container the model keeps the pid, the processes, the address and the   *)
(* ping tag; the other statistics are read the same way and depend on      *)
(* nothing here.  The ping service is taken by its contract.               *)
(***************************************************************************)
EXTENDS Naturals, FiniteSets, Functions

CONSTANTS
  Ids,          \* container ids
  Pids,         \* process ids; 0 is "not running"
  Ips, NoIp,    \* bridge addresses; none, as with the host's network
  MaxTag,       \* bound: tags handed out
  MaxChanges,   \* bound: changes at docker
  MaxFaults     \* bound: docker commands that fail without such a change

ASSUME CollectorAssumption ==
  /\ Pids \subseteq Nat \ {0}
  /\ NoIp \notin Ips
  /\ MaxTag \in Nat /\ MaxChanges \in Nat /\ MaxFaults \in Nat

Tag == 1..MaxTag
Kinds == {"basic", "perf", "resource", "process"}

VARIABLES
  docker,       \* the containers as docker has them
  active,       \* docker.service is active
  changes, faults,
  cmap,         \* the containers as the agent has them
  pc,           \* the update thread
  toVisit,      \* the entries of cmap the sweep has still to come to
  pending,      \* ids of docker's list no entry was found for, yet
  cache,        \* the four lists, each a copy of cmap
  lastTag,      \* gen_ping_tag
  registered,   \* the items of the ping service and their addresses
  dest,
  dangling,     \* the entries whose lists of statistics are freed memory
  leaked        \* history: an item of an entry that never came into cmap

dockerVars == <<docker, active, changes>>
sweepVars == <<pc, toVisit, pending>>
pingVars == <<lastTag, registered, dest>>
vars == <<dockerVars, faults, cmap, sweepVars, cache, pingVars, dangling, leaked>>

\* A container of docker's; one of the agent's, hasId when its cid was filled in.
Container == [there : BOOLEAN, pid : Pids \cup {0}, procs : SUBSET Pids, ip : Ips \cup {NoIp}]
Info == [hasId : BOOLEAN, pid : Pids \cup {0}, procs : SUBSET Pids, ip : Ips \cup {NoIp}, tag : 0..MaxTag]

IsMap(m) ==
  /\ DOMAIN m \subseteq Ids /\ Range(m) \subseteq Info
  /\ \A c \in DOMAIN m : m[c].pid = 0 => m[c].procs = {}

TypeOK ==
  /\ docker \in [Ids -> Container] /\ active \in BOOLEAN
  /\ changes \in 0..MaxChanges /\ faults \in 0..MaxFaults
  /\ IsMap(cmap)
  /\ pc \in {"idle", "walk", "cancelled", "ended", "crashed"} \cup Kinds
  /\ toVisit \subseteq DOMAIN cmap /\ pending \subseteq Ids
  /\ DOMAIN cache = Kinds /\ \A k \in Kinds : IsMap(cache[k])
  /\ lastTag \in 0..MaxTag
  /\ registered \subseteq 1..lastTag /\ leaked \subseteq registered
  /\ dest \in [Tag -> Ips \cup {NoIp}]
  /\ dangling \subseteq DOMAIN cmap

Gone == [there |-> FALSE, pid |-> 0, procs |-> {}, ip |-> NoIp]
NoContainers == [c \in {} |-> Gone]

Init ==
  /\ docker = [c \in Ids |-> Gone] /\ active = TRUE
  /\ changes = 0 /\ faults = 0
  /\ cmap = NoContainers
  /\ pc = "idle" /\ toVisit = {} /\ pending = {}
  /\ cache = [k \in Kinds |-> NoContainers]
  /\ lastTag = 0 /\ registered = {} /\ dangling = {} /\ leaked = {}
  /\ dest = [t \in Tag |-> NoIp]
-----------------------------------------------------------------------------
(***************************************************************************)
(* Docker: containers are created, started with new processes and perhaps  *)
(* a new address, stopped, removed; the service goes down and up.          *)
(***************************************************************************)
Possible(s, c) ==
  /\ ~s.there => s = Gone
  /\ s.pid = 0 => s.procs = {} /\ s.ip = NoIp
  /\ s.pid # 0 => s.pid \in s.procs
  /\ \A d \in Ids \ {c} : /\ s.procs \cap docker[d].procs = {}
                          /\ s.ip # NoIp => docker[d].ip # s.ip

DockerChange(c) ==
  /\ changes < MaxChanges
  /\ changes' = changes + 1
  /\ \E s \in Container :
       s # docker[c] /\ Possible(s, c) /\ docker' = [docker EXCEPT ![c] = s]
  /\ UNCHANGED <<active, faults, cmap, sweepVars, cache, pingVars, dangling, leaked>>

DockerService ==
  /\ changes < MaxChanges
  /\ changes' = changes + 1
  /\ active' = ~active
  /\ UNCHANGED <<docker, faults, cmap, sweepVars, cache, pingVars, dangling, leaked>>
-----------------------------------------------------------------------------
(***************************************************************************)
(* The update thread.  With docker.service inactive, or a command that     *)
(* cannot be run, a tick does nothing.  A docker ps that is run and fails  *)
(* prints nothing, which reads as a list of no containers.                 *)
(***************************************************************************)
Fault == faults < MaxFaults /\ faults' = faults + 1

Tick ==
  /\ pc = "idle" /\ active
  /\ lastTag + Cardinality(Ids) <= MaxTag
  /\ \/ pending' = {c \in Ids : docker[c].there} /\ UNCHANGED faults
     \/ pending' = {} /\ Fault
  /\ toVisit' = DOMAIN cmap
  /\ pc' = "walk"
  /\ UNCHANGED <<dockerVars, cmap, cache, pingVars, dangling, leaked>>

\* unregister_ping_item; the bug a mutant plants forgets the call.
KeptRegistered(t) == registered
Unregistered(t) == registered \ {t}

\* update_ping_stat: a first address, or another one, takes a new tag.  A container
\* that is not running, or has no address, keeps the item it had.  The mutant
\* compares nothing once there is a tag.
FirstAddress(c, old) == docker[c].ip # NoIp /\ old.tag = 0
NewAddress(c, old) == docker[c].ip # NoIp /\ (old.tag = 0 \/ old.ip # docker[c].ip)

UpdatePing(c, old) ==
  \/ /\ NewAddress(c, old)
     /\ lastTag < MaxTag
     /\ lastTag' = lastTag + 1
     /\ registered' = Unregistered(old.tag) \cup {lastTag + 1}
     /\ dest' = [dest EXCEPT ![lastTag + 1] = docker[c].ip]
  \/ ~NewAddress(c, old) /\ UNCHANGED pingVars

\* What fill_container_info leaves of an entry when inspect succeeds; the mutant
\* does not clear the processes of a container that stopped.
FilledNotCleared(c, old) ==
  [hasId |-> TRUE, pid |-> docker[c].pid,
   procs |-> IF docker[c].pid = 0 THEN old.procs ELSE docker[c].procs,
   ip |-> IF NewAddress(c, old) THEN docker[c].ip ELSE old.ip,
   tag |-> IF NewAddress(c, old) THEN lastTag' ELSE old.tag]
Filled(c, old) ==
  [hasId |-> TRUE, pid |-> docker[c].pid, procs |-> docker[c].procs,
   ip |-> IF NewAddress(c, old) THEN docker[c].ip ELSE old.ip,
   tag |-> IF NewAddress(c, old) THEN lastTag' ELSE old.tag]

\* inspect of a container that was removed since docker ps fails; it may fail
\* anyway.
InspectFails(c) ==
  \/ ~docker[c].there /\ UNCHANGED faults
  \/ docker[c].there /\ Fault

Visit(c) ==
  /\ pc = "walk" /\ c \in toVisit
  /\ toVisit' = toVisit \ {c}
  /\ UNCHANGED <<pc, dockerVars, cache, dangling, leaked>>

Update(c) ==
  /\ Visit(c) /\ c \in pending
  /\ pending' = pending \ {c}
  /\ docker[c].there
  /\ UpdatePing(c, cmap[c])
  /\ cmap' = [cmap EXCEPT ![c] = Filled(c, cmap[c])]
  /\ UNCHANGED faults

Keep(c) ==
  /\ Visit(c) /\ c \in pending
  /\ pending' = pending \ {c}
  /\ InspectFails(c)
  /\ UNCHANGED <<cmap, pingVars>>

\* Taking an entry out of cmap runs cmap_value_destroy.
Remove(c) ==
  /\ Visit(c) /\ c \notin pending
  /\ cmap' = Restrict(cmap, DOMAIN cmap \ {c})
  /\ registered' = Unregistered(cmap[c].tag)
  /\ UNCHANGED <<pending, faults, lastTag, dest>>

\* g_malloc0
NewInfo == [hasId |-> FALSE, pid |-> 0, procs |-> {}, ip |-> NoIp, tag |-> 0]
WithEntry(c, info) == [d \in DOMAIN cmap \cup {c} |-> IF d = c THEN info ELSE cmap[d]]

Insert(c) ==
  /\ pc = "walk" /\ toVisit = {} /\ c \in pending
  /\ pending' = pending \ {c}
  /\ \/ /\ docker[c].there /\ UNCHANGED faults
        /\ UpdatePing(c, NewInfo)
        /\ cmap' = WithEntry(c, Filled(c, NewInfo))
     \/ /\ InspectFails(c)
        /\ UNCHANGED pingVars
        /\ cmap' = WithEntry(c, NewInfo)
  /\ UNCHANGED <<pc, toVisit, dockerVars, cache, dangling, leaked>>
-----------------------------------------------------------------------------
(***************************************************************************)
(* After the sweep, the four lists.                                        *)
(***************************************************************************)
EndWalk ==
  /\ pc = "walk" /\ toVisit = {} /\ pending = {}
  /\ pc' = "basic"
  /\ UNCHANGED <<toVisit, pending, dockerVars, faults, cmap, cache, pingVars, dangling, leaked>>

\* Each list is emptied and filled again under the lock the readers take.
After(k) ==
  CASE k = "basic" -> "perf" [] k = "perf" -> "resource" [] k = "resource" -> "process"
    [] k = "process" -> "idle"

\* The mutant leaves the old entries in the list.
CopyAppended(k) == [c \in DOMAIN cache[k] \cup DOMAIN cmap |-> IF c \in DOMAIN cmap THEN cmap[c] ELSE cache[k][c]]
CopyMade(k) == cmap

Cache(k) ==
  /\ pc = k
  /\ cache' = [cache EXCEPT ![k] = CopyMade(k)]
  /\ pc' = After(k)
  /\ UNCHANGED <<toVisit, pending, dockerVars, faults, cmap, pingVars, dangling, leaked>>
-----------------------------------------------------------------------------
(***************************************************************************)
(* Shutdown: the thread is cancelled in its sleep or in a sweep, whose     *)
(* commands and file reads are cancellation points (the setting of the     *)
(* kernel's maps and of the lists has none), and then cmap is destroyed.   *)
(* An entry that was being filled for insertion is in no table: its item   *)
(* stays behind.                                                           *)
(***************************************************************************)
Running == pc \notin {"cancelled", "ended", "crashed"}

Cancel ==
  /\ pc \in {"idle", "walk"}
  /\ pc' = "cancelled" /\ toVisit' = {} /\ pending' = {}
  /\ UNCHANGED <<dockerVars, faults, cmap, cache, pingVars, dangling, leaked>>

CancelInFill(c) ==
  /\ pc = "walk" /\ toVisit = {} /\ c \in pending
  /\ docker[c].there /\ NewAddress(c, NewInfo)
  /\ UpdatePing(c, NewInfo)
  /\ leaked' = {lastTag'}
  /\ pc' = "cancelled" /\ pending' = {}
  /\ UNCHANGED <<toVisit, dockerVars, faults, cmap, cache, dangling>>

\* An entry that is refilled has its item, but not all of its statistics.  Each list
\* of these, of the interfaces and of the processes, is freed before the files are read
\* it is made from, and put back into the entry after that.
FilledSoFar(c) == [Filled(c, cmap[c]) EXCEPT !.procs = cmap[c].procs]

CancelInRefill(c) ==
  /\ pc = "walk" /\ c \in toVisit \cap pending
  /\ docker[c].pid # 0
  /\ UpdatePing(c, cmap[c])
  /\ cmap' = [cmap EXCEPT ![c] = FilledSoFar(c)]
  /\ dangling' \in {{}} \cup (IF cmap[c].pid # 0 THEN {{c}} ELSE {})
  /\ pc' = "cancelled" /\ toVisit' = {} /\ pending' = {}
  /\ UNCHANGED <<dockerVars, faults, cache, leaked>>

\* cmap_value_destroy again.  What freeing a freed list does is undefined: it may go
\* by, or end the process.
AfterFree(c) == {"cancelled"} \cup (IF c \in dangling THEN {"crashed"} ELSE {})

DestroyEntry(c) ==
  /\ pc = "cancelled" /\ c \in DOMAIN cmap
  /\ cmap' = Restrict(cmap, DOMAIN cmap \ {c})
  /\ registered' = Unregistered(cmap[c].tag)
  /\ pc' \in AfterFree(c) /\ dangling' = dangling \ {c}
  /\ UNCHANGED <<toVisit, pending, dockerVars, faults, cache, lastTag, dest, leaked>>

DestroyEnd ==
  /\ pc = "cancelled" /\ DOMAIN cmap = {}
  /\ pc' = "ended"
  /\ UNCHANGED <<toVisit, pending, dockerVars, faults, cmap, cache, pingVars, dangling, leaked>>

Terminated == pc \in {"ended", "crashed"} /\ UNCHANGED vars
-----------------------------------------------------------------------------
UpdateThread ==
  \/ Tick \/ EndWalk
  \/ \E c \in Ids : Update(c) \/ Keep(c) \/ Remove(c) \/ Insert(c)
  \/ \E k \in Kinds : Cache(k)
Shutdown == Cancel \/ DestroyEnd \/ \E c \in Ids : CancelInFill(c) \/ CancelInRefill(c) \/ DestroyEntry(c)
Docker == DockerService \/ \E c \in Ids : DockerChange(c)

Next == UpdateThread \/ Shutdown \/ Docker \/ Terminated

Spec == Init /\ [][Next]_vars

\* The thread is scheduled and docker's commands return; main, once it has
\* cancelled the thread, goes on to destroy cmap.
FairSpec == Spec /\ WF_vars(UpdateThread) /\ WF_vars(DestroyEnd \/ \E c \in Ids : DestroyEntry(c))
-----------------------------------------------------------------------------
(***************************************************************************)
(* Properties.                                                             *)
(***************************************************************************)

\* The ping service has exactly the items of the entries, each under a tag of its
\* own and at the entry's address, also half-way through a sweep and through the
\* shutdown: but for the one item a cancelled insertion leaves.
ItemsMatchContainers ==
  /\ registered = ({cmap[c].tag : c \in DOMAIN cmap} \ {0}) \cup leaked
  /\ \A c, d \in DOMAIN cmap :
       cmap[c].tag # 0 => /\ dest[cmap[c].tag] = cmap[c].ip
                          /\ cmap[d].tag = cmap[c].tag => c = d
  /\ Running => leaked = {}

\* The lists a sweep has copied so far; between two sweeps all of them.
Copied ==
  CASE pc = "idle" -> Kinds [] pc = "perf" -> {"basic"} [] pc = "resource" -> {"basic", "perf"}
    [] pc = "process" -> Kinds \ {"process"} [] OTHER -> {}

\* The lock is free between two copies, so a reader may see lists of two sweeps, but
\* never of more and never one half-way: those copied are what this sweep found, the
\* others copies of one earlier state; while a sweep walks, and after it, all are of one.
ListsAgree ==
  /\ \A k \in Copied : cache[k] = cmap
  /\ \A k, l \in Kinds \ Copied : cache[k] = cache[l]

\* When docker has settled and is active, every list shows exactly docker's
\* containers, under their ids and with their processes, whatever failed before.
ListsConverge ==
  <>[](Running /\ active =>
         \A k \in Kinds :
           /\ DOMAIN cache[k] = {c \in Ids : docker[c].there}
           /\ \A c \in DOMAIN cache[k] : cache[k][c].hasId /\ cache[k][c].pid = docker[c].pid
                                       /\ cache[k][c].procs = docker[c].procs)

\* And then every running container with an address is pinged at that address.
RunningArePinged ==
  <>[](Running /\ active =>
         \A c \in Ids : docker[c].ip # NoIp => \E t \in registered : dest[t] = docker[c].ip)

\* Each container owns its item as PingOwnership says; an item a cancelled
\* insertion left behind has no owner.
Ownership == INSTANCE PingOwnership WITH
  Owners <- Ids,
  holds <- [c \in Ids |-> IF c \in DOMAIN cmap THEN cmap[c].tag ELSE 0],
  items <- registered \ leaked,
  used <- (1..lastTag) \ leaked
ImplementsOwnership == Ownership!Spec
=============================================================================
