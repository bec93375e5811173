--------------------------- MODULE ServiceStatus ---------------------------
(***************************************************************************)
(* The three groups that ask systemd about units over the system bus:      *)
(* group_container_service_metrics.c (ten units), group_node_service_      *)
(* metrics.c (systemd-journald) and group_kernel_fault_metrics.c, which    *)
(* waits for kdump.service and then publishes, once, the crash dumps under *)
(* /var/crash.  Each group keeps a connection of its own, opened at the    *)
(* first question and never opened again: when the bus goes away the       *)
(* connection is broken for good.                                          *)
(*                                                                         *)
(* A group's update is one step: the answers for two units have nothing to *)
(* do with each other.                                                     *)
(***************************************************************************)
EXTENDS Naturals

CONSTANTS
  Watched,      \* the units whose status is a metric
  GroupOf,      \* the group that asks for each of them
  Kdump,        \* kdump.service
  KernelFault,  \* the group that asks for it
  MaxCrashes    \* bound: crashes of the machine

Units == Watched \cup {Kdump}
Askers == {GroupOf[u] : u \in Watched} \cup {KernelFault}

ASSUME ServiceAssumption ==
  /\ DOMAIN GroupOf = Watched /\ Kdump \notin Watched
  /\ KernelFault \notin {GroupOf[u] : u \in Watched}
  /\ MaxCrashes \in Nat

VARIABLES
  bus,          \* whether the system bus answers
  active,       \* the units in ActiveState "active"
  dumps,        \* the dumps under /var/crash
  conn,         \* sd_bus *bus of each group
  gauge,        \* the status metric of each watched unit
  updateFlag,   \* update_flag of the kernel fault group
  crashes       \* the samples of cpds_kernel_crash

outside == <<bus, active, dumps>>
serviceMetrics == <<conn, gauge, updateFlag, crashes>>

SvcTypeOK ==
  /\ bus \in BOOLEAN /\ active \subseteq Units
  /\ dumps \in 0..MaxCrashes
  /\ conn \in [Askers -> {"none", "open", "broken"}]
  /\ gauge \in [Watched -> {"none", "active", "inactive"}]
  /\ updateFlag \in {0, 1}
  /\ crashes \in 0..MaxCrashes

NoConn == [g \in Askers |-> "none"]
NoGauge == [u \in Watched |-> "none"]

\* The agent may start before the bus and before any unit.
SvcInit ==
  /\ bus \in BOOLEAN /\ active = {}
  /\ dumps = 0
  /\ conn = NoConn /\ gauge = NoGauge
  /\ updateFlag = 1 /\ crashes = 0

NoSamples == gauge' = NoGauge /\ updateFlag' = 1 /\ crashes' = 0

\* A new process has no connection and no samples.
SvcRestart == conn' = NoConn /\ NoSamples
-----------------------------------------------------------------------------
(***************************************************************************)
(* Units start and stop, the bus goes and comes back.                      *)
(***************************************************************************)
UnitChanges(u) ==
  /\ active' \in {active \cup {u}, active \ {u}} \ {active}
  /\ UNCHANGED <<bus, dumps, serviceMetrics>>

BusLost ==
  /\ bus /\ bus' = FALSE
  /\ conn' = [g \in Askers |-> IF conn[g] = "open" THEN "broken" ELSE conn[g]]
  /\ UNCHANGED <<active, dumps, gauge, updateFlag, crashes>>

BusBack ==
  /\ ~bus /\ bus' = TRUE
  /\ UNCHANGED <<active, dumps, serviceMetrics>>

\* The machine goes down and leaves a dump.
MachineCrash ==
  /\ dumps < MaxCrashes /\ dumps' = dumps + 1
  /\ active' = {} /\ bus' \in BOOLEAN
-----------------------------------------------------------------------------
(***************************************************************************)
(* The updates of the groups that are due.                                 *)
(***************************************************************************)
\* The connection a group has after it asked: opened if it has none yet.
Connected(g) == IF conn[g] = "none" /\ bus THEN "open" ELSE conn[g]

\* Any error counts as not active; the mutant keeps what an earlier answer said.
KeptAnswer(u) ==
  IF Connected(GroupOf[u]) # "open" THEN gauge[u]
  ELSE IF u \in active THEN "active" ELSE "inactive"
Answer(u) ==
  IF Connected(GroupOf[u]) = "open" /\ u \in active THEN "active" ELSE "inactive"

KdumpIsUp == Connected(KernelFault) = "open" /\ Kdump \in active

\* update_flag = 0 comes behind the early return for a kdump.service that is not
\* up yet; the mutant puts it before.
ClearedAtOnce == 0
ClearedWhenRead == IF KdumpIsUp THEN 0 ELSE updateFlag

Asking(due) == {g \in Askers \cap due : g = KernelFault => updateFlag = 1}

UpdateServices(due) ==
  /\ conn' = [g \in Askers |-> IF g \in Asking(due) THEN Connected(g) ELSE conn[g]]
  /\ gauge' = [u \in Watched |-> IF GroupOf[u] \in due THEN Answer(u) ELSE gauge[u]]
  /\ IF KernelFault \in Asking(due)
     THEN /\ crashes' = IF KdumpIsUp THEN dumps ELSE crashes
          /\ updateFlag' = ClearedWhenRead
     ELSE UNCHANGED <<crashes, updateFlag>>
  /\ UNCHANGED outside
=============================================================================
