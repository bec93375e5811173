----------------------------- MODULE BpfMonitor -----------------------------
(***************************************************************************)
(* The kernel side of the container statistics: the eBPF programs of       *)
(* src/src/bpf_stat/bpf_stat.bpf.c, which count system calls of containers *)
(* into perf_stat_map, and the container thread, which after each sweep    *)
(* tells them through bpf_stat.c which containers and processes to watch.  *)
(*                                                                         *)
(* The programs run on any processor at any time, also while the maps are  *)
(* being set.  A map operation is one step; what a program does between    *)
(* two of them interleaves with everything else.  The handlers of mmap and *)
(* of clone have one shape - on entry note whom to count for, on exit      *)
(* count and forget - and are modelled once, with one counter.  That       *)
(* perf_stat_map is set is one step: it touches each key once, and a       *)
(* program no more than one key.                                           *)
(*                                                                         *)
(* A lookup returns a pointer into the map.  The elements of a map are     *)
(* allocated with it: one that is removed or replaced keeps its content    *)
(* until the next key to come in takes it, for another process or another  *)
(* container, whoever still points to it.                                  *)
(*                                                                         *)
(* The numbers of threads and processes are not used again here: the       *)
(* kernel reuses them after a long time, a sweep is a second.              *)
(***************************************************************************)
EXTENDS Naturals, FiniteSets, Functions

CONSTANTS
  Pids,         \* processes
  Mains,        \* those that are the main process of a container
  HomeOf,       \* the main process of a process's container
  Tids, PidOf,  \* threads, and the process each belongs to
  NoKey,        \* the key of an element that is in no map
  MapSize,      \* MAX_STAT_MAP_SIZE, of every map and array
  Stopped,      \* bound: how many containers may be stopped, which have no process
  MaxCalls,     \* bound: system calls
  MaxChanges    \* bound: containers stopped and removed, failures of docker ps

ASSUME BpfAssumption ==
  /\ Mains \subseteq Pids
  /\ HomeOf \in [Pids -> Mains] /\ \A m \in Mains : HomeOf[m] = m
  /\ PidOf \in [Tids -> Pids] /\ NoKey \notin Pids
  /\ MapSize \in Nat \ {0} /\ Stopped \subseteq Nat /\ 0 \in Stopped
  /\ MaxCalls \in Nat /\ MaxChanges \in Nat

VARIABLES
  born, alive,  \* the threads that have lived; that live
  stopped,      \* the number of containers that are stopped
  call,         \* where a thread is in its exec, a system call, and their handlers
  value,        \* the counter as the handler of a thread read it
  monitored,    \* pid_monitor_map, from process to main process
  watch,        \* its elements that handlers of exec and of entry point to
  entered,      \* sys_enter_mmap_stat_map and sys_enter_clone_map
  count,        \* perf_stat_map
  tally,        \* its elements that handlers of exit point to
  pc,           \* the container thread
  list,         \* what its sweep has learnt from docker
  toClear, toFill,
  calls, changes,
  failed,       \* history: docker ps has failed
  misled,       \* history: threads that pointed to an element another container took
  reused,       \* history: containers that took an element of tally
  finished,     \* history: calls of a container counted since it came into perf_stat_map
  overlap       \* history: containers with two handlers counting at once

worldVars == <<born, alive, stopped>>
callVars == <<value, entered, calls>>
watchVars == <<monitored, watch, misled>>
countVars == <<count, tally, reused, finished, overlap>>
userVars == <<pc, list, toFill>>
faultVars == <<changes, failed>>
vars == <<worldVars, call, callVars, watchVars, countVars, userVars, toClear, faultVars>>

List == [mains : SUBSET Mains, procs : SUBSET Pids, stopped : Stopped]
Nothing == [mains |-> {}, procs |-> {}, stopped |-> 0]
Empty == [k \in {} |-> 0]

Steps == {"none", "fork", "exec", "enter", "in", "exit", "write"}
InCall(t) == call[t] \in {"in", "exit", "write"}
\* What handlers point to: an element, the handlers, its key, what it has of its own.
Elements(keys, values) ==
  {e \in [by : SUBSET Tids, key : keys \cup {NoKey}, val : values] : e.by # {}}

TypeOK ==
  /\ alive \subseteq born /\ born \subseteq Tids
  /\ stopped \in Stopped
  /\ call \in [Tids -> Steps] /\ value \in [Tids -> Nat]
  /\ DOMAIN monitored \subseteq Pids /\ Range(monitored) \subseteq Mains
  /\ Cardinality(DOMAIN monitored) <= MapSize
  /\ watch \subseteq Elements(Pids, Mains)
  /\ \A e \in watch : e.key # NoKey => e.key \in DOMAIN monitored /\ e.val = monitored[e.key]
  /\ DOMAIN entered \subseteq {t \in alive : InCall(t)} /\ Range(entered) \subseteq Mains
  /\ DOMAIN count \subseteq Mains /\ Range(count) \subseteq Nat
  /\ tally \subseteq Elements(Mains, Nat)
  /\ \A e \in tally : e.key # NoKey => e.key \in DOMAIN count
  /\ pc \in {"idle", "perf", "clear", "fill", "ended"}
  /\ list \in List /\ toFill \subseteq list.procs /\ toClear \subseteq Pids
  /\ calls \in 0..MaxCalls /\ changes \in 0..MaxChanges /\ failed \in BOOLEAN
  /\ misled \subseteq Tids /\ reused \subseteq Mains
  /\ finished \in [Mains -> Nat] /\ overlap \subseteq Mains

\* start_bpf_stat_monitor loaded the programs, with empty maps.
Init ==
  /\ born = {} /\ alive = {} /\ stopped = 0
  /\ call = [t \in Tids |-> "none"] /\ value = [t \in Tids |-> 0]
  /\ monitored = Empty /\ watch = {} /\ entered = Empty /\ count = Empty /\ tally = {}
  /\ pc = "idle" /\ list = Nothing /\ toClear = {} /\ toFill = {}
  /\ calls = 0 /\ changes = 0 /\ failed = FALSE
  /\ misled = {} /\ reused = {} /\ finished = [m \in Mains |-> 0] /\ overlap = {}

Without(m, k) == Restrict(m, DOMAIN m \ {k})
With(m, k, v) == [x \in DOMAIN m \cup {k} |-> IF x = k THEN v ELSE m[x]]

\* bpf_map_update_elem fails on a new key when the map is full.
HasRoom(m, k) == k \in DOMAIN m \/ Cardinality(DOMAIN m) < MapSize
Updated(m, k, v) == IF HasRoom(m, k) THEN With(m, k, v) ELSE m

\* A lookup: thread t gets a pointer to the element of key k, whose own content is v.
Pointing(es, t, k, v) ==
  LET there == {e \in es : e.key = k} IN
  (es \ there) \cup {[by |-> {t} \cup UNION {e.by : e \in there}, key |-> k, val |-> v]}
\* The handler of t is done with its pointer.
Released(es, t) ==
  {[by |-> e.by \ {t}, key |-> e.key, val |-> e.val] : e \in {x \in es : x.by # {t}}}
\* Key k is removed, or its element replaced: the element is free, its content kept.
Freed(es, k) ==
  {[by |-> e.by, key |-> IF e.key = k THEN NoKey ELSE e.key, val |-> e.val] : e \in es}
\* A key comes in and takes the free element e.
TakenFor(es, e, k, v) == (es \ {e}) \cup {[by |-> e.by, key |-> k, val |-> v]}

\* Key k comes into pid_monitor_map with value v, in an element that no handler points
\* to or in a free one that some handlers, of es, still do.  A key that is there
\* already changes its element too.
Put(k, v, es) ==
  IF ~HasRoom(monitored, k) THEN watch' = es /\ UNCHANGED <<monitored, misled>>
  ELSE
    /\ monitored' = With(monitored, k, v)
    /\ \/ watch' = Freed(es, k) /\ UNCHANGED misled
       \/ \E e \in es :
            /\ e.key = NoKey
            /\ watch' = TakenFor(Freed(es, k), e, k, v)
            /\ misled' = IF e.val = v THEN misled ELSE misled \cup e.by
-----------------------------------------------------------------------------
(***************************************************************************)
(* Containers start, their processes fork, exec, start threads and end.    *)
(***************************************************************************)
Alive(p) == \E t \in alive : PidOf[t] = p
Attached == pc # "ended"

\* The main process of a container execs too, but its parent is not monitored.
ContainerStarts(t) ==
  /\ Attached /\ t \notin born /\ PidOf[t] \in Mains /\ ~Alive(PidOf[t])
  /\ \A u \in born : PidOf[u] # PidOf[t]
  /\ born' = born \cup {t} /\ alive' = alive \cup {t}
  /\ UNCHANGED <<stopped, call, callVars, watchVars, countVars, userVars, toClear, faultVars>>

Fork(t) ==
  LET q == PidOf[t] IN
  /\ Attached /\ t \notin born /\ q \notin Mains /\ Alive(HomeOf[q])
  /\ \A u \in born : PidOf[u] # q
  /\ born' = born \cup {t} /\ alive' = alive \cup {t}
  /\ call' = [call EXCEPT ![t] = "fork"]
  /\ UNCHANGED <<stopped, callVars, watchVars, countVars, userVars, toClear, faultVars>>

ThreadStarts(t) ==
  /\ Attached /\ t \notin born /\ Alive(PidOf[t])
  /\ \A u \in alive : PidOf[u] = PidOf[t] => call[u] \notin {"fork", "exec"}
  /\ born' = born \cup {t} /\ alive' = alive \cup {t}
  /\ UNCHANGED <<stopped, call, callVars, watchVars, countVars, userVars, toClear, faultVars>>

StoppedContainers ==
  /\ Attached /\ changes < MaxChanges
  /\ changes' = changes + 1
  /\ stopped' \in Stopped \ {stopped}
  /\ UNCHANGED <<born, alive, failed, call, callVars, watchVars, countVars, userVars, toClear>>
-----------------------------------------------------------------------------
(***************************************************************************)
(* The handlers.                                                           *)
(***************************************************************************)
\* handle_exec finds the element of the parent; the parent may be gone, and the
\* process adopted by another.
ExecLookup(t) ==
  /\ call[t] = "fork"
  /\ \/ \E p \in DOMAIN monitored :
          /\ p # PidOf[t] /\ HomeOf[p] = HomeOf[PidOf[t]] /\ Alive(p)
          /\ call' = [call EXCEPT ![t] = "exec"]
          /\ watch' = Pointing(watch, t, p, monitored[p])
     \/ call' = [call EXCEPT ![t] = "none"] /\ UNCHANGED watch
  /\ UNCHANGED <<worldVars, callVars, monitored, misled, countVars, userVars, toClear, faultVars>>

\* What a new process q is counted for: what is now in the element that was its
\* parent's.  The mutant takes the process itself.
ForItself(q, e) == q
Inherited(q, e) == e.val

\* A key that comes while the map is being walked may be met by the walk or not.
ExecUpdate(t) ==
  LET q == PidOf[t] IN
  /\ call[t] = "exec"
  /\ \E e \in watch : t \in e.by /\ Put(q, Inherited(q, e), Released(watch, t))
  /\ call' = [call EXCEPT ![t] = "none"]
  /\ IF pc = "clear" THEN toClear' \in {toClear \cup {q}, toClear \ {q}} ELSE UNCHANGED toClear
  /\ UNCHANGED <<worldVars, callVars, countVars, userVars, faultVars>>

\* handle_exit runs for every thread that ends, and takes its whole process out.
HandleExit(t) ==
  /\ Attached /\ t \in alive /\ call[t] = "none"
  /\ alive' = alive \ {t}
  /\ monitored' = Without(monitored, PidOf[t])
  /\ watch' = Freed(watch, PidOf[t])
  /\ UNCHANGED <<born, stopped, call, callVars, misled, countVars, userVars, toClear, faultVars>>

\* A call of a process that is not watched leaves no trace, on entry or exit.
EnterLookup(t) ==
  LET p == PidOf[t] IN
  /\ Attached /\ t \in alive /\ call[t] = "none" /\ p \in DOMAIN monitored
  /\ calls < MaxCalls /\ calls' = calls + 1
  /\ call' = [call EXCEPT ![t] = "enter"]
  /\ watch' = Pointing(watch, t, p, monitored[p])
  /\ UNCHANGED <<worldVars, value, entered, monitored, misled, countVars, userVars, toClear, faultVars>>

EnterNote(t) ==
  /\ call[t] = "enter"
  /\ \E e \in watch : t \in e.by /\ entered' = Updated(entered, t, e.val)
  /\ call' = [call EXCEPT ![t] = "in"]
  /\ watch' = Released(watch, t)
  /\ UNCHANGED <<worldVars, value, calls, monitored, misled, countVars, userVars, toClear, faultVars>>

\* The exit handler finds the container's counters, ...
ExitFind(t) ==
  /\ Attached /\ call[t] = "in" /\ t \in DOMAIN entered /\ entered[t] \in DOMAIN count
  /\ call' = [call EXCEPT ![t] = "exit"]
  /\ tally' = Pointing(tally, t, entered[t], 0)
  /\ UNCHANGED <<worldVars, callVars, watchVars, count, reused, finished, overlap,
                 userVars, toClear, faultVars>>

\* ... reads the one to raise in their element, wherever that is now, ...
ExitRead(t) ==
  /\ call[t] = "exit"
  /\ \E e \in tally :
       /\ t \in e.by
       /\ value' = [value EXCEPT ![t] = IF e.key = NoKey THEN e.val ELSE count[e.key]]
       /\ overlap' = IF e.key # NoKey /\ \E u \in e.by : call[u] = "write"
                     THEN overlap \cup {e.key} ELSE overlap
  /\ call' = [call EXCEPT ![t] = "write"]
  /\ UNCHANGED <<worldVars, entered, calls, watchVars, count, tally, reused, finished,
                 userVars, toClear, faultVars>>

\* ... and stores it, raised by one, whatever it has become since.
ExitWrite(t) ==
  /\ call[t] = "write"
  /\ \E e \in tally :
       /\ t \in e.by
       /\ \/ /\ e.key = NoKey
             /\ tally' = Released(TakenFor(tally, e, NoKey, value[t] + 1), t)
             /\ UNCHANGED <<count, finished>>
          \/ /\ e.key # NoKey
             /\ tally' = Released(tally, t)
             /\ count' = [count EXCEPT ![e.key] = value[t] + 1]
             /\ finished' = IF entered[t] = e.key
                            THEN [finished EXCEPT ![e.key] = @ + 1] ELSE finished
  /\ call' = [call EXCEPT ![t] = "none"]
  /\ value' = [value EXCEPT ![t] = 0]
  /\ entered' = Without(entered, t)
  /\ UNCHANGED <<worldVars, calls, watchVars, reused, overlap, userVars, toClear, faultVars>>

\* Nothing to count for, any more or at all; or a clone, of which only those that
\* fail are counted.
ExitUncounted(t) ==
  /\ Attached /\ call[t] = "in"
  /\ call' = [call EXCEPT ![t] = "none"]
  /\ entered' = Without(entered, t)
  /\ UNCHANGED <<worldVars, value, calls, watchVars, countVars, userVars, toClear, faultVars>>
-----------------------------------------------------------------------------
(***************************************************************************)
(* The container thread.                                                   *)
(***************************************************************************)
\* What a sweep leaves in cmap, read at one time; when docker ps fails, nothing.  An
\* inspect that fails leaves what was known, as a list that is used late does.
Scan ==
  /\ pc = "idle"
  /\ \/ /\ list' = [mains |-> {m \in Mains : Alive(m)},
                    procs |-> {p \in Pids : Alive(p) /\ Alive(HomeOf[p])}, stopped |-> stopped]
        /\ UNCHANGED faultVars
     \/ list' = Nothing /\ changes < MaxChanges /\ changes' = changes + 1 /\ failed' = TRUE
  /\ pc' = "perf"
  /\ UNCHANGED <<worldVars, call, callVars, watchVars, countVars, toClear, toFill>>

\* do_update_bpf_monitor_map gives up when one of its arrays is full.  The mutant
\* sees only the array of processes.
Containers == Cardinality(list.mains) + list.stopped
TooManyProcesses == Cardinality(list.procs) >= MapSize
TooMany == Containers >= MapSize \/ Cardinality(list.procs) >= MapSize

Oversize ==
  /\ pc = "perf" /\ TooMany
  /\ pc' = "idle" /\ list' = Nothing
  /\ UNCHANGED <<toFill, worldVars, call, callVars, watchVars, countVars, toClear, faultVars>>

\* Containers that stay keep their counters; the mutant starts them again.
StartedAgain == [m \in list.mains |-> 0]
KeptCounts == [m \in list.mains |-> IF m \in DOMAIN count THEN count[m] ELSE 0]

\* The keys set_process_monitor_list takes out first; the mutant leaves them.
NoKeys == {}
OldKeys == DOMAIN monitored

\* The elements of the containers that go are free, with what was counted in them.
Dropped(gone) ==
  {IF e.key \in gone THEN [by |-> e.by, key |-> NoKey, val |-> count[e.key]] ELSE e : e \in tally}
\* Each container that comes in takes an element that no handler points to, or a free
\* one, of es, that some handlers still do.
Takings(new, es) ==
  {g \in [new -> {e \in es : e.key = NoKey} \cup {NoKey}] :
     \A m, n \in new : g[m] = g[n] => m = n \/ g[m] = NoKey}
TakenBy(new, es, g) ==
  (es \ Range(g)) \cup {[by |-> g[m].by, key |-> m, val |-> 0] : m \in {n \in new : g[n] # NoKey}}

\* set_perf_stat_pid_list, which refuses an array that is too long.
SetPerfMap ==
  LET gone == DOMAIN count \ list.mains
      new == list.mains \ DOMAIN count
  IN
  /\ pc = "perf" /\ ~TooMany
  /\ \/ Containers > MapSize /\ UNCHANGED countVars
     \/ /\ Containers <= MapSize
        /\ count' = KeptCounts
        /\ \E g \in Takings(new, Dropped(gone)) :
             /\ tally' = TakenBy(new, Dropped(gone), g)
             /\ reused' = (reused \ new) \cup {m \in new : g[m] # NoKey}
        /\ finished' = [m \in Mains |-> IF m \in new THEN 0 ELSE finished[m]]
        /\ overlap' = overlap \ new
  /\ pc' = "clear" /\ toClear' = OldKeys
  /\ UNCHANGED <<list, toFill, worldVars, call, callVars, watchVars, faultVars>>

\* set_process_monitor_list: key after key out, then key after key in.
ClearKey(p) ==
  /\ pc = "clear" /\ p \in toClear
  /\ toClear' = toClear \ {p}
  /\ monitored' = Without(monitored, p)
  /\ watch' = Freed(watch, p)
  /\ UNCHANGED <<misled, userVars, worldVars, call, callVars, countVars, faultVars>>

Cleared ==
  /\ pc = "clear" /\ toClear = {}
  /\ pc' = "fill" /\ toFill' = list.procs
  /\ UNCHANGED <<list, toClear, worldVars, call, callVars, watchVars, countVars, faultVars>>

FillKey(p) ==
  /\ pc = "fill" /\ p \in toFill
  /\ toFill' = toFill \ {p}
  /\ Put(p, HomeOf[p], watch)
  /\ UNCHANGED <<pc, list, toClear, worldVars, call, callVars, countVars, faultVars>>

Filled ==
  /\ pc = "fill" /\ toFill = {}
  /\ pc' = "idle" /\ list' = Nothing
  /\ UNCHANGED <<toFill, toClear, worldVars, call, callVars, watchVars, countVars, faultVars>>

\* destory_bpf_stat_monitor, once the thread has been joined: the programs are
\* detached, which waits for those that are running, and the maps freed.
Destroy ==
  /\ pc \in {"idle", "perf"}
  /\ \A t \in Tids : call[t] \in {"none", "fork", "in"}
  /\ pc' = "ended"
  /\ monitored' = Empty /\ watch' = {} /\ count' = Empty /\ tally' = {} /\ entered' = Empty
  /\ UNCHANGED <<list, toFill, toClear, worldVars, call, value, calls, misled, reused,
                 finished, overlap, faultVars>>

Terminated == pc = "ended" /\ UNCHANGED vars
-----------------------------------------------------------------------------
World ==
  StoppedContainers \/ \E t \in Tids : ContainerStarts(t) \/ Fork(t) \/ ThreadStarts(t)
Exec(t) == (Attached /\ ExecLookup(t)) \/ ExecUpdate(t)
Handlers ==
  \E t \in Tids :
    \/ Exec(t) \/ HandleExit(t) \/ EnterLookup(t) \/ EnterNote(t)
    \/ ExitFind(t) \/ ExitRead(t) \/ ExitWrite(t) \/ ExitUncounted(t)
ContainerThread ==
  \/ Scan \/ Oversize \/ SetPerfMap \/ Cleared \/ Filled
  \/ \E p \in Pids : ClearKey(p) \/ FillKey(p)

Next == World \/ Handlers \/ ContainerThread \/ Destroy \/ Terminated

Spec == Init /\ [][Next]_vars

\* The container thread is scheduled; a handler that has begun is done soon, as
\* the kernel does not preempt it for long.  Processes and docker owe nothing.
FairSpec ==
  /\ Spec
  /\ WF_vars(ContainerThread)
  /\ WF_vars(\E t \in Tids : Exec(t))
-----------------------------------------------------------------------------
(***************************************************************************)
(* Properties.                                                             *)
(***************************************************************************)

\* Whatever is counted is counted for the container it happened in.
CallsGoHome ==
  /\ \A t \in DOMAIN entered : entered[t] = HomeOf[PidOf[t]]
  /\ \A p \in DOMAIN monitored : monitored[p] = HomeOf[p]

\* It is, however old the list the container thread is still writing and whoever the
\* parent of a process is, as long as no handler of exec or of entry has lost the
\* element it points to, while the map was emptied and filled, to another container.
OnlyReuseMisleads == misled = {} => CallsGoHome

\* A counter never exceeds the calls of its container that were counted since it came
\* into the map, through sweeps, deaths and failures of docker, unless the container
\* took an element that a handler of one before it was still counting in; and it is
\* exact unless two handlers were counting for the container at once.
CountsAreExact ==
  \A m \in DOMAIN count \ reused :
    /\ count[m] <= finished[m]
    /\ m \notin overlap => count[m] = finished[m]

\* A process is watched only for a container that is counted, or that has ended:
\* the two maps are set together or not at all, also when an array is too small.
\* A docker ps that failed makes containers that run look ended.
MonitoredAreCounted ==
  ~failed => \A p \in DOMAIN monitored : monitored[p] \in DOMAIN count \/ ~Alive(monitored[p])

\* When processes and containers settle and fit, every sweep ends with exactly the
\* processes of running containers watched: what forks, deaths, thread exits and late
\* handlers of exec left behind is put right.
SweepsRepair ==
  LET procs == {p \in Pids : Alive(p) /\ Alive(HomeOf[p])}
      fits == Cardinality({m \in Mains : Alive(m)}) + stopped < MapSize /\ Cardinality(procs) < MapSize
  IN <>[](pc = "idle" /\ fits => monitored = [p \in procs |-> HomeOf[p]])
=============================================================================
