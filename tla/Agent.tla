------------------------------- MODULE Agent -------------------------------
(***************************************************************************)
(* The whole daemon as systemd sees it: its start and teardown             *)
(* (Lifecycle), the thread that updates the groups (UpdateScheduler) and   *)
(* three of those groups (ServiceStatus), composed with what goes on       *)
(* around it: units start and stop, the system bus comes and goes, the     *)
(* machine crashes, and systemd starts the daemon again when it has ended  *)
(* (Restart=always in cpds-agent.service).                                 *)
(***************************************************************************)
EXTENDS Lifecycle, UpdateScheduler, ServiceStatus

ASSUME AgentAssumption ==
  /\ Askers \subseteq Groups
  /\ \A g \in Askers : Period[g] # 0

vars == <<lifeVars, schedVars, outside, serviceMetrics>>

TypeOK == LifeTypeOK /\ SchedTypeOK /\ SvcTypeOK

Init == LifeInit /\ SchedInit /\ SvcInit
-----------------------------------------------------------------------------
unthreaded == <<schedVars, outside, serviceMetrics>>

Start == MainStarts /\ UNCHANGED unthreaded
Stop == MainStops /\ UNCHANGED unthreaded

TakeLock == (\E t \in Lockers : TakePingLock(t)) /\ UNCHANGED unthreaded
GiveLock == (\E t \in Lockers : GivePingLock(t)) /\ UNCHANGED unthreaded
Collide == TagsCollide /\ UNCHANGED unthreaded
EndThread == (\E t \in Cancellable \ {"updates"} : EndCancelled(t)) /\ UNCHANGED unthreaded
RecvEnds == RecvGivesUp /\ UNCHANGED unthreaded

Signal == Interrupt /\ UNCHANGED unthreaded

\* What ends the process at once.
Death ==
  /\ Killed \/ \E t \in Cancellable : JoinCrashes(t)
  /\ SchedRestart /\ SvcRestart
  /\ UNCHANGED outside

\* Each asker drops its connection in its destroy function.
CloseGroups ==
  /\ FreeGroups
  /\ conn' = IF HasGroups THEN NoConn ELSE conn
  /\ UNCHANGED <<schedVars, outside, gauge, updateFlag, crashes>>

\* One round of the update thread; a cancelled thread may still be in one.
Update ==
  /\ Live("updates")
  /\ Tick /\ UpdateServices(Due)
  /\ UNCHANGED lifeVars

\* The counter and update_flag are static, but no second update thread is ever
\* created: the model forgets them with the thread, and the samples, which are
\* freed before anything else that can be observed.
UpdateEnds ==
  /\ EndCancelled("updates")
  /\ SchedRestart /\ NoSamples
  /\ UNCHANGED <<outside, conn>>

\* systemd starts the daemon again, with a memory that is new.
Restart ==
  /\ NewProcess /\ SchedRestart /\ SvcRestart
  /\ UNCHANGED outside

\* The machine goes down with the daemon.
PowerCycle ==
  /\ MachineCrash
  /\ pc' = "killed" /\ Gone /\ SchedRestart /\ SvcRestart

\* Nobody but the update thread looks at the units and the bus, so they change
\* while it runs; a daemon that is started again finds them changed.
Environment ==
  /\ Live("updates")
  /\ BusLost \/ BusBack \/ \E u \in Units : UnitChanges(u)
  /\ UNCHANGED <<lifeVars, schedVars>>

Next ==
  \/ Start \/ Stop \/ CloseGroups \/ Signal \/ Death
  \/ TakeLock \/ GiveLock \/ Collide \/ EndThread \/ RecvEnds
  \/ Update \/ UpdateEnds \/ Restart \/ PowerCycle \/ Environment

\* A teardown that has begun goes on, a thread gives the lock back or ends, and
\* the update thread wakes again and again.  FreeGroups waits for a lock that the
\* pod thread takes for a moment in every round, and gets it in the end.  There is
\* one holder and, as main joins before it goes on, one cancelled thread at a time.
Fairness ==
  /\ WF_vars(Stop) /\ SF_vars(CloseGroups)
  /\ WF_vars(Update) /\ WF_vars(UpdateEnds)
  /\ WF_vars(GiveLock) /\ WF_vars(EndThread)

Spec == Init /\ [][Next]_vars /\ Fairness
-----------------------------------------------------------------------------
(***************************************************************************)
(* What is promised.                                                       *)
(***************************************************************************)
\* main logs "shutting down..." and then "cpds-agent service stopped": a
\* teardown, from a signal or from an initialisation that failed, comes to its
\* end.
ServiceStops == pc \in Down ~> pc \in Ended

\* With the shipped log.conf it does, unless two items came to one tag before it or
\* while it was under way.
AgentStops == pc \in Down /\ ~debug ~> pc \in Ended \/ collided

Updating == thread["updates"] = "running"
Reachable(g) == bus /\ conn[g] # "broken"

\* A unit that stays up while its group can reach systemd is shown as up in the
\* end and from then on, and one that stays down is shown as down even if the
\* bus is lost: a daemon that started first, a changed unit and a broken
\* connection do not leave an old answer behind.
StatusFollowsUnit ==
  \A u \in Watched :
    /\ <>[](Updating /\ u \in active /\ Reachable(GroupOf[u])) => <>[](gauge[u] = "active")
    /\ <>[](Updating /\ u \notin active) => <>[](gauge[u] = "inactive")

\* The comment of group_kernel_fault_update: when the agent is up before
\* kdump.service it goes on waiting, and publishes every dump once kdump is up.
CrashesReported ==
  <>[](Updating /\ Kdump \in active /\ Reachable(KernelFault)) => <>[](crashes = dumps)
=============================================================================
