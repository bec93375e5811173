-------------------------- MODULE UpdateScheduler --------------------------
(***************************************************************************)
(* Which group of metrics is updated when: do_update_metrics of            *)
(* src/src/collection.c, over the list that metric_groups.c puts in order. *)
(* The update thread wakes once a second and walks the list; the k-th      *)
(* group is due when the number of the tick plus its offset in the list is *)
(* a multiple of its period, so that groups of one period do not all fall  *)
(* on the same tick.  At the first tick the offsets are left out and every *)
(* group is due.                                                           *)
(*                                                                         *)
(* The tick counter only grows.  All that the code asks of it is whether   *)
(* it is the first tick and its remainders, so the model lets it start     *)
(* over, at 1, after a common multiple of the periods.                     *)
(***************************************************************************)
EXTENDS Naturals, Sequences

CONSTANTS
  Period,       \* update_period of each group, in the order of the list; 0: never
  Wrap          \* bound: the tick after which the counter starts over

Groups == DOMAIN Period

ASSUME SchedulerAssumption ==
  /\ Period \in Seq(Nat)
  /\ Wrap \in Nat \ {0}
  /\ \A g \in Groups : Period[g] # 0 => Wrap % Period[g] = 0

VARIABLES
  i,            \* the static counter of do_update_metrics
  since         \* history: ticks since each group was updated last

schedVars == <<i, since>>

SchedTypeOK ==
  /\ i \in 0..Wrap
  /\ since \in [Groups -> Nat]

\* No group has been updated for longer than its period when the daemon starts.
SchedInit ==
  /\ i = 0
  /\ since = Period

SchedRestart == i' = 0 /\ since' = Period

\* offset++ behind every group of the list, but not in the first tick; the bug
\* a mutant plants counts there too.
OffsetAlways(g) == g - 1
Offset(g) == IF i > 0 THEN g - 1 ELSE 0

Due == {g \in Groups : Period[g] # 0 /\ (i + Offset(g)) % Period[g] = 0}

\* The mutant forgets to start over.
PlainNext == i + 1
NextTick == IF i = Wrap THEN 1 ELSE i + 1

Tick ==
  /\ i' = NextTick
  /\ since' = LET due == Due IN [g \in Groups |->
       IF g \in due \/ Period[g] = 0 THEN 0 ELSE since[g] + 1]
-----------------------------------------------------------------------------
\* Every group that is to be updated is updated in the first tick and from then
\* on never left out for as many ticks as its period has, wherever the offset of
\* its place in the list puts it.
PeriodKept ==
  i > 0 => \A g \in Groups : Period[g] # 0 => since[g] < Period[g]
=============================================================================
