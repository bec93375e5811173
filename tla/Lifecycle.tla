----------------------------- MODULE Lifecycle -----------------------------
(***************************************************************************)
(* How the agent starts and stops: main and do_cpds_agent_service of       *)
(* src/src/main.c with the functions they call.  Every initialisation may  *)
(* fail, after having made some of its parts; all failures jump to one     *)
(* teardown, the one a signal starts.  The teardown stops each thread by   *)
(* pthread_cancel and pthread_join, and frees the parts in between.        *)
(*                                                                         *)
(* Of the threads the model keeps whether they run and who is inside the   *)
(* ping service's rwlock where a thread may be cancelled: the pod thread   *)
(* and the container thread, which may write a message under the lock.     *)
(* What register and unregister always say is a debug message: the shipped *)
(* log.conf leaves it out, but logger.c falls back to a configuration that *)
(* logs everything when log.conf cannot be loaded.  That a tag is already  *)
(* registered is an INFO message, which the shipped log.conf does write.   *)
(* It takes a tag that was given out twice, as the two threads can make    *)
(* gen_ping_tag do (PingService's run PingTagRace).                        *)
(*                                                                         *)
(* A thread that waits for the lock cannot be cancelled.  The model lets   *)
(* it end all the same: if the lock is lost, main itself gets stuck.       *)
(***************************************************************************)
EXTENDS FiniteSets

CONSTANT Threads

ASSUME ThreadsAssumption ==
  Threads = {"send", "recv", "pod", "http", "containers", "updates"}

Parts == {"pingLock", "pingMap", "registry", "metrics", "podLock",
          "containerLock", "bpf", "cmap"}

\* The locks are static and zero, which the platform takes for a lock that was made.
StaticLocks == {"pingLock", "podLock", "containerLock"}

\* What each thread works with.
Uses(t) ==
  CASE t \in {"send", "recv"} -> {"pingLock", "pingMap"}
    [] t = "pod"              -> {"pingLock", "pingMap", "podLock"}
    [] t = "http"             -> {"registry", "metrics"}
    [] t = "containers"       -> {"pingLock", "pingMap", "containerLock", "bpf", "cmap"}
    [] OTHER                  -> {"pingLock", "pingMap", "podLock", "containerLock", "metrics"}

VARIABLES
  pc,           \* where main is
  thread,       \* the threads
  ids,          \* the threads whose static id (s_daemon for http) is not 0
  part,         \* what is made, never made, or freed
  holder,       \* who holds the ping service's rwlock, or took it with it
  debug,        \* whether debug messages are written
  collided      \* whether two items have been given one tag

lifeVars == <<pc, thread, ids, part, holder, debug, collided>>

Up == {"start", "ping", "registry", "groups", "register", "http",
       "containers", "updates", "signal", "loop"}
Down == {"stopUpdates", "stopContainers", "freeContainers", "stopHttp", "freeRegistry",
         "freeGroups", "stopPod", "freePods", "stopSend", "stopRecv", "freePing"}
Ended == {"exited", "killed"}

LifeTypeOK ==
  /\ pc \in Up \cup Down \cup Ended
  /\ thread \in [Threads -> {"none", "running", "cancelled", "ended"}]
  /\ ids \subseteq Threads
  /\ part \in [Parts -> {"never", "made", "freed"}]
  /\ holder \in {"nobody", "pod", "containers"}
  /\ debug \in BOOLEAN /\ collided \in BOOLEAN

Live(t) == thread[t] \in {"running", "cancelled"}

NoThreads == [t \in Threads |-> "none"]
NoParts == [p \in Parts |-> "never"]

LifeInit ==
  /\ pc = "start"
  /\ thread = NoThreads /\ ids = {} /\ part = NoParts
  /\ holder = "nobody" /\ debug = FALSE /\ collided = FALSE

\* What the kernel leaves of a process: nothing.
Gone ==
  /\ thread' = NoThreads /\ ids' = {} /\ part' = NoParts
  /\ holder' = "nobody" /\ debug' = FALSE /\ collided' = FALSE
-----------------------------------------------------------------------------
(***************************************************************************)
(* Starting.                                                               *)
(***************************************************************************)
Made(parts) == part' = [p \in Parts |-> IF p \in parts THEN "made" ELSE part[p]]
Freed(parts) == part' = [p \in Parts |-> IF p \in parts THEN "freed" ELSE part[p]]

\* pthread_create succeeds for the threads ts.
Created(ts) ==
  /\ thread' = [t \in Threads |-> IF t \in ts THEN "running" ELSE thread[t]]
  /\ ids' = ids \cup ts

\* It succeeds for ts and fails for t, whose id may or may not have been written.
CreatedBut(ts, t) ==
  /\ thread' = [u \in Threads |-> IF u \in ts THEN "running" ELSE thread[u]]
  /\ ids' \in {ids \cup ts, ids \cup ts \cup {t}}

NoneCreated == UNCHANGED <<thread, ids>>

\* Where a failed initialisation goes.
Out == "stopUpdates"

\* Wrong arguments, --version, an unreadable configuration or no log at all.
Startup ==
  /\ pc = "start"
  /\ \/ pc' = "exited" /\ UNCHANGED debug
     \/ pc' = "ping" /\ debug' \in BOOLEAN
  /\ UNCHANGED <<thread, ids, part, holder, collided>>

InitPing ==
  /\ pc = "ping"
  /\ \/ pc' = Out /\ UNCHANGED part /\ NoneCreated
     \/ pc' = Out /\ Made({"pingLock"}) /\ NoneCreated
     \/ pc' = Out /\ Made({"pingLock", "pingMap"}) /\ CreatedBut({}, "send")
     \/ pc' = Out /\ Made({"pingLock", "pingMap"}) /\ CreatedBut({"send"}, "recv")
     \/ pc' = "registry" /\ Made({"pingLock", "pingMap"}) /\ Created({"send", "recv"})
  /\ UNCHANGED <<holder, debug, collided>>

\* The registry is there although its process collector could not be made.
InitRegistry ==
  /\ pc = "registry"
  /\ \/ pc' = Out /\ UNCHANGED part
     \/ pc' \in {Out, "groups"} /\ Made({"registry"})
  /\ UNCHANGED <<thread, ids, holder, debug, collided>>

\* Every group makes its metrics; the network group registers a ping item, the
\* pod group starts a thread, and nobody hears of it when that fails.
InitGroups ==
  /\ pc = "groups"
  /\ pc' = "register"
  /\ \/ Made({"metrics"}) /\ NoneCreated
     \/ Made({"metrics", "podLock"}) /\ (Created({"pod"}) \/ CreatedBut({}, "pod"))
  /\ UNCHANGED <<holder, debug, collided>>

RegisterMetrics ==
  /\ pc = "register" /\ pc' \in {Out, "http"}
  /\ UNCHANGED <<thread, ids, part, holder, debug, collided>>

StartHttp ==
  /\ pc = "http"
  /\ \/ pc' = Out /\ NoneCreated
     \/ pc' = "containers" /\ Created({"http"})
  /\ UNCHANGED <<part, holder, debug, collided>>

StartContainers ==
  /\ pc = "containers"
  /\ \/ pc' = Out /\ UNCHANGED part /\ NoneCreated
     \/ pc' = Out /\ Made({"containerLock"}) /\ NoneCreated
     \/ pc' = Out /\ Made({"containerLock", "bpf"}) /\ NoneCreated
     \/ pc' = Out /\ Made({"containerLock", "bpf", "cmap"}) /\ CreatedBut({}, "containers")
     \/ pc' = "updates" /\ Made({"containerLock", "bpf", "cmap"}) /\ Created({"containers"})
  /\ UNCHANGED <<holder, debug, collided>>

StartUpdates ==
  /\ pc = "updates"
  /\ \/ pc' = Out /\ CreatedBut({}, "updates")
     \/ pc' = "signal" /\ Created({"updates"})
  /\ UNCHANGED <<part, holder, debug, collided>>

\* signal(SIGINT, int_handler); then main sleeps until the handler has set done.
InstallHandler ==
  /\ pc = "signal" /\ pc' = "loop"
  /\ UNCHANGED <<thread, ids, part, holder, debug, collided>>

Interrupt ==
  /\ pc = "loop" /\ pc' = Out
  /\ UNCHANGED <<thread, ids, part, holder, debug, collided>>
-----------------------------------------------------------------------------
(***************************************************************************)
(* Stopping.                                                               *)
(***************************************************************************)
\* The order of the teardown.
NextStop(t) ==
  CASE t = "updates"    -> "stopContainers"
    [] t = "containers" -> "freeContainers"
    [] t = "pod"        -> "freePods"
    [] t = "send"       -> "stopRecv"
    [] OTHER            -> "freePing"

StopAt(t) ==
  CASE t = "updates"    -> "stopUpdates"
    [] t = "containers" -> "stopContainers"
    [] t = "pod"        -> "stopPod"
    [] t = "send"       -> "stopSend"
    [] OTHER            -> "stopRecv"

Cancellable == Threads \ {"http"}

Cancel(t) ==
  /\ pc = StopAt(t) /\ t \in ids /\ thread[t] = "running"
  /\ thread' = [thread EXCEPT ![t] = "cancelled"]
  /\ UNCHANGED <<pc, ids, part, holder, debug, collided>>

\* The thread has ended, or there never was one; one mutant does not wait.
NotWaited(t) == thread[t] # "none"
Joinable(t) == thread[t] = "ended"

Join(t) ==
  /\ pc = StopAt(t)
  /\ t \in ids => Joinable(t)
  /\ pc' = NextStop(t)
  /\ UNCHANGED <<thread, ids, part, holder, debug, collided>>

\* The id was written by a pthread_create that failed: undefined.
JoinNothing(t) ==
  /\ pc = StopAt(t) /\ t \in ids /\ thread[t] = "none"
  /\ pc' = NextStop(t)
  /\ UNCHANGED <<thread, ids, part, holder, debug, collided>>

JoinCrashes(t) ==
  /\ pc = StopAt(t) /\ t \in ids /\ thread[t] = "none"
  /\ pc' = "killed" /\ Gone

\* unregister_ping_item and destroy_ping_svc wait for the lock, if there is a map.
PingLockFree == part["pingMap"] = "made" => holder = "nobody"

\* Items of containers are unregistered here as well, but docker decides whether
\* there are any: a lost lock need not stop main before FreeGroups.
FreeContainers ==
  /\ pc = "freeContainers" /\ pc' = "stopHttp"
  /\ Freed({"containerLock"} \cup {p \in {"cmap", "bpf"} : part[p] = "made"})
  /\ UNCHANGED <<thread, ids, holder, debug, collided>>

StopHttp ==
  /\ pc = "stopHttp" /\ pc' = "freeRegistry"
  /\ thread' = [thread EXCEPT !["http"] = IF @ = "running" THEN "ended" ELSE @]
  /\ UNCHANGED <<ids, part, holder, debug, collided>>

\* The metrics belong to the registry's default collector.
FreeRegistry ==
  /\ pc = "freeRegistry" /\ pc' = "freeGroups"
  /\ Freed({p \in {"registry", "metrics"} : part[p] = "made"})
  /\ UNCHANGED <<thread, ids, holder, debug, collided>>

\* The groups' destroy functions, which are called if there are groups: the bus
\* connections, the network group's ping item, and then the pod group.
HasGroups == part["metrics"] # "never"

FreeGroups ==
  /\ pc = "freeGroups"
  /\ \/ HasGroups /\ PingLockFree /\ pc' = "stopPod"
     \/ ~HasGroups /\ pc' = "stopSend"
  /\ UNCHANGED <<thread, ids, part, holder, debug, collided>>

\* Items of pods, if there are any, are unregistered here.
FreePods ==
  /\ pc = "freePods" /\ pc' = "stopSend"
  /\ Freed({"podLock"})
  /\ UNCHANGED <<thread, ids, holder, debug, collided>>

FreePing ==
  /\ pc = "freePing" /\ pc' = "exited"
  /\ PingLockFree
  /\ Freed({"pingLock"} \cup {p \in {"pingMap"} : part[p] = "made"})
  /\ UNCHANGED <<thread, ids, holder, debug, collided>>

\* SIGKILL or SIGTERM at any time, and SIGINT before its handler is there.
Killed ==
  /\ pc \notin Ended /\ pc' = "killed"
  /\ Gone

\* Restart=always of cpds-agent.service.
NewProcess == pc \in Ended /\ pc' = "start" /\ Gone
-----------------------------------------------------------------------------
(***************************************************************************)
(* The threads.                                                            *)
(***************************************************************************)
\* The threads that write a message under the lock.
Lockers == {"pod", "containers"}

TakePingLock(t) ==
  /\ thread[t] = "running"
  /\ holder = "nobody" /\ holder' = t
  /\ UNCHANGED <<pc, thread, ids, part, debug, collided>>

GivePingLock(t) ==
  /\ Live(t)
  /\ holder = t /\ holder' = "nobody"
  /\ UNCHANGED <<pc, thread, ids, part, debug, collided>>

\* Both threads are in gen_ping_tag, and one tag or a whole series of them is given
\* out again.
TagsCollide ==
  /\ \A t \in Lockers : Live(t)
  /\ ~collided /\ collided' = TRUE
  /\ UNCHANGED <<pc, thread, ids, part, holder, debug>>

\* A cancelled thread ends at a cancellation point.  Under the lock that is the
\* writing of a message, and then the lock stays taken; a mutant has one anyway.
EndsAnywhere(t) == TRUE
MayEnd(t) == holder = t => debug \/ collided

EndCancelled(t) ==
  /\ thread[t] = "cancelled" /\ MayEnd(t)
  /\ thread' = [thread EXCEPT ![t] = "ended"]
  /\ UNCHANGED <<pc, ids, part, holder, debug, collided>>

\* The receive thread ends by itself after too many errors.
RecvGivesUp ==
  /\ thread["recv"] = "running"
  /\ thread' = [thread EXCEPT !["recv"] = "ended"]
  /\ UNCHANGED <<pc, ids, part, holder, debug, collided>>
-----------------------------------------------------------------------------
MainStarts ==
  \/ Startup \/ InitPing \/ InitRegistry \/ InitGroups \/ RegisterMetrics
  \/ StartHttp \/ StartContainers \/ StartUpdates \/ InstallHandler

Stopping == \E t \in Cancellable : Cancel(t) \/ Join(t) \/ JoinNothing(t)

\* Main's teardown but for the groups' destroy functions, which close the bus
\* connections as well.
MainStops ==
  Stopping \/ FreeContainers \/ StopHttp \/ FreeRegistry \/ FreePods \/ FreePing
-----------------------------------------------------------------------------
\* No thread works with a part that is freed, or was never made: whichever
\* initialisation failed and whenever the signal comes, the teardown stops every
\* user of a part before it frees it.
NoUseAfterFree ==
  \A t \in Threads : Live(t) => \A p \in Uses(t) :
    \/ part[p] = "made"
    \/ p \in StaticLocks /\ part[p] = "never"
=============================================================================
