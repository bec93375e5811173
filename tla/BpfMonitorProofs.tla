-------------------------- MODULE BpfMonitorProofs --------------------------
(***************************************************************************)
(* Proofs about BpfMonitor, for any processes, threads and containers, any *)
(* size of the maps and any bounds.                                        *)
(***************************************************************************)
EXTENDS BpfMonitor, FiniteSetTheorems, TLAPS

(***************************************************************************)
(* Maps and the elements handlers point to.                                *)
(***************************************************************************)
\* A map that takes a key keeps the others, and one that loses a key too.
LEMMA Taken ==
  ASSUME NEW m, NEW k, NEW v
  PROVE  /\ DOMAIN Updated(m, k, v) \subseteq DOMAIN m \cup {k}
         /\ \A x \in DOMAIN m \ {k} :
              x \in DOMAIN Updated(m, k, v) /\ Updated(m, k, v)[x] = m[x]
         /\ k \in DOMAIN Updated(m, k, v) => Updated(m, k, v)[k] = v
<1>1. CASE HasRoom(m, k)
  BY <1>1 DEF Updated, With
<1>2. CASE ~HasRoom(m, k)
  BY <1>2 DEF Updated, HasRoom
<1>3. QED
  BY <1>1, <1>2

LEMMA Lost ==
  ASSUME NEW m, NEW k
  PROVE  /\ DOMAIN Without(m, k) = DOMAIN m \ {k}
         /\ \A x \in DOMAIN m \ {k} : Without(m, k)[x] = m[x]
BY DEF Without, Restrict

LEMMA ElementType ==
  ASSUME NEW K, NEW V, NEW e \in Elements(K, V)
  PROVE  e.by \subseteq Tids /\ e.by # {} /\ e.key \in K \cup {NoKey} /\ e.val \in V
BY DEF Elements

LEMMA IsElement ==
  ASSUME NEW K, NEW V, NEW by, by \subseteq Tids, by # {}, NEW k \in K \cup {NoKey}, NEW v \in V
  PROVE  [by |-> by, key |-> k, val |-> v] \in Elements(K, V)
BY DEF Elements

\* After a lookup of k there is one element of that key, to which t points too.
LEMMA Pointed ==
  ASSUME NEW es, NEW t, NEW k, NEW v, NEW e \in Pointing(es, t, k, v)
  PROVE  \/ e \in es /\ e.key # k
         \/ /\ e.key = k /\ e.val = v /\ t \in e.by
            /\ \A u \in e.by \ {t} : \E x \in es : x.key = k /\ u \in x.by
BY DEF Pointing

LEMMA PointingType ==
  ASSUME NEW K, NEW V, NEW es, es \subseteq Elements(K, V),
         NEW t \in Tids, NEW k \in K, NEW v \in V
  PROVE  Pointing(es, t, k, v) \subseteq Elements(K, V)
<1> DEFINE there == {e \in es : e.key = k}
           by == {t} \cup UNION {e.by : e \in there}
           new == [by |-> by, key |-> k, val |-> v]
<1>1. Pointing(es, t, k, v) = (es \ there) \cup {new}
  BY DEF Pointing
<1>2. \A e \in es : e.by \subseteq Tids
  BY ElementType
<1>3. by \subseteq Tids /\ by # {}
  BY <1>2
<1> HIDE DEF by
<1>4. new \in Elements(K, V)
  BY <1>3, IsElement
<1>5. QED
  BY <1>1, <1>4

LEMMA ReleasedFrom ==
  ASSUME NEW es, NEW t, NEW e \in Released(es, t)
  PROVE  \E x \in es :
           /\ x.by # {t}
           /\ e = [by |-> x.by \ {t}, key |-> x.key, val |-> x.val]
BY DEF Released

LEMMA ReleasedType ==
  ASSUME NEW K, NEW V, NEW es, es \subseteq Elements(K, V), NEW t
  PROVE  Released(es, t) \subseteq Elements(K, V)
<1> SUFFICES ASSUME NEW e \in Released(es, t)
             PROVE  e \in Elements(K, V)
  OBVIOUS
<1>1. PICK x \in es : x.by # {t} /\ e = [by |-> x.by \ {t}, key |-> x.key, val |-> x.val]
  BY ReleasedFrom
<1>2. x.by \subseteq Tids /\ x.by # {} /\ x.key \in K \cup {NoKey} /\ x.val \in V
  BY ElementType
<1>3. x.by \ {t} \subseteq Tids /\ x.by \ {t} # {}
  BY <1>1, <1>2
<1>4. QED
  BY <1>1, <1>2, <1>3, IsElement

LEMMA FreedFrom ==
  ASSUME NEW es, NEW k, NEW e \in Freed(es, k)
  PROVE  \E x \in es : /\ e.by = x.by /\ e.val = x.val
                       /\ \/ x.key = k /\ e.key = NoKey
                          \/ x.key # k /\ e.key = x.key
BY DEF Freed

LEMMA FreedType ==
  ASSUME NEW K, NEW V, NEW es, es \subseteq Elements(K, V), NEW k
  PROVE  Freed(es, k) \subseteq Elements(K, V)
<1> SUFFICES ASSUME NEW x \in es
             PROVE  [by |-> x.by, key |-> IF x.key = k THEN NoKey ELSE x.key, val |-> x.val]
                      \in Elements(K, V)
  BY DEF Freed
<1>1. x.by \subseteq Tids /\ x.by # {} /\ x.key \in K \cup {NoKey} /\ x.val \in V
  BY ElementType
<1>2. QED
  BY <1>1, IsElement

LEMMA TakenForKey ==
  ASSUME NEW es, NEW e, NEW k, NEW v, NEW x \in TakenFor(es, e, k, v)
  PROVE  \/ x \in es \ {e}
         \/ x.by = e.by /\ x.key = k /\ x.val = v
BY DEF TakenFor

LEMMA TakenForType ==
  ASSUME NEW K, NEW V, NEW es, es \subseteq Elements(K, V), NEW e \in Elements(K, V),
         NEW k \in K \cup {NoKey}, NEW v \in V
  PROVE  TakenFor(es, e, k, v) \subseteq Elements(K, V)
<1>1. e.by \subseteq Tids /\ e.by # {}
  BY ElementType
<1>2. [by |-> e.by, key |-> k, val |-> v] \in Elements(K, V)
  BY <1>1, IsElement
<1>3. QED
  BY <1>2 DEF TakenFor
-----------------------------------------------------------------------------
(***************************************************************************)
(* Types.  Threads and processes may be infinitely many; those that live,  *)
(* and the keys of pid_monitor_map, are finite at any time, so that their  *)
(* number can be compared with the size of the maps.                       *)
(***************************************************************************)
WorldType == alive \subseteq born /\ born \subseteq Tids /\ stopped \in Stopped /\ IsFiniteSet(alive)
CallType ==
  /\ call \in [Tids -> Steps] /\ value \in [Tids -> Nat] /\ calls \in 0..MaxCalls
  /\ \A t \in Tids : call[t] # "none" => t \in alive
  /\ DOMAIN entered \subseteq Tids /\ Range(entered) \subseteq Mains
  /\ \A t \in DOMAIN entered : InCall(t)
IsMonitorMap(m) ==
  /\ DOMAIN m \subseteq Pids /\ Range(m) \subseteq Mains
  /\ IsFiniteSet(DOMAIN m) /\ Cardinality(DOMAIN m) <= MapSize
AreWatched(es, m) ==
  /\ es \subseteq Elements(Pids, Mains)
  /\ \A e \in es : e.key # NoKey => e.key \in DOMAIN m /\ e.val = m[e.key]
WatchType == IsMonitorMap(monitored) /\ AreWatched(watch, monitored) /\ misled \subseteq Tids
CountType ==
  /\ DOMAIN count \subseteq Mains /\ Range(count) \subseteq Nat
  /\ tally \subseteq Elements(Mains, Nat)
  /\ \A e \in tally : e.key # NoKey => e.key \in DOMAIN count
  /\ reused \subseteq Mains /\ finished \in [Mains -> Nat] /\ overlap \subseteq Mains
UserType ==
  /\ pc \in {"idle", "perf", "clear", "fill", "ended"}
  /\ list \in List /\ toFill \subseteq list.procs /\ toClear \subseteq Pids
  /\ changes \in 0..MaxChanges /\ failed \in BOOLEAN
  /\ pc # "fill" => toFill = {}
  /\ IsFiniteSet(list.mains)
TypeInv == WorldType /\ CallType /\ WatchType /\ CountType /\ UserType

LEMMA WithIsMonitorMap ==
  ASSUME NEW m, IsMonitorMap(m), NEW k \in Pids, NEW v \in Mains, HasRoom(m, k)
  PROVE  IsMonitorMap(With(m, k, v))
<1> USE BpfAssumption
<1> DEFINE w == With(m, k, v)
<1>1. Cardinality(DOMAIN m) \in Nat
  BY FS_CardinalityType DEF IsMonitorMap
<1>2. DOMAIN w = DOMAIN m \cup {k} /\ Range(w) \subseteq Range(m) \cup {v}
  BY DEF With, Range
<1>3. /\ IsFiniteSet(DOMAIN m \cup {k})
      /\ Cardinality(DOMAIN m \cup {k}) =
           IF k \in DOMAIN m THEN Cardinality(DOMAIN m) ELSE Cardinality(DOMAIN m) + 1
  BY FS_AddElement DEF IsMonitorMap
<1> HIDE DEF w
<1>4. IsMonitorMap(w)
  BY <1>1, <1>2, <1>3 DEF IsMonitorMap, HasRoom
<1>5. QED
  BY <1>4 DEF w

LEMMA WithoutIsMonitorMap ==
  ASSUME NEW m, IsMonitorMap(m), NEW k
  PROVE  IsMonitorMap(Without(m, k))
<1> DEFINE w == Without(m, k)
<1>1. DOMAIN w = DOMAIN m \ {k} /\ Range(w) \subseteq Range(m)
  BY DEF Without, Restrict, Range
<1>2. /\ IsFiniteSet(DOMAIN m \ {k})
      /\ Cardinality(DOMAIN m \ {k}) <= Cardinality(DOMAIN m)
  BY FS_Subset DEF IsMonitorMap
<1>3. Cardinality(DOMAIN m) \in Nat /\ Cardinality(DOMAIN m \ {k}) \in Nat
  BY <1>2, FS_CardinalityType DEF IsMonitorMap
<1> HIDE DEF w
<1>4. IsMonitorMap(w)
  BY <1>1, <1>2, <1>3, BpfAssumption DEF IsMonitorMap
<1>5. QED
  BY <1>4 DEF w

\* What a key that comes in leaves in the map and in the elements handlers point to:
\* its own value in the element it took, what was there in the others.
LEMMA PutIn ==
  ASSUME NEW k \in Pids, NEW v \in Mains, NEW STATE es, Put(k, v, es),
         IsMonitorMap(monitored), AreWatched(es, monitored), misled \subseteq Tids
  PROVE  /\ WatchType'
         /\ DOMAIN monitored' \subseteq DOMAIN monitored \cup {k}
         /\ \A x \in DOMAIN monitored' :
              \/ x = k /\ monitored'[x] = v
              \/ x \in DOMAIN monitored /\ monitored'[x] = monitored[x]
         /\ \A e \in watch' : \E x \in es :
              e.by = x.by /\ (e.val = x.val \/ (e.val = v /\ misled' # {}))
         /\ misled \subseteq misled'
<1> USE BpfAssumption
<1>e. es \subseteq Elements(Pids, Mains)
  BY DEF AreWatched
<1>1. CASE ~HasRoom(monitored, k)
  <2>1. watch' = es /\ monitored' = monitored /\ misled' = misled
    BY <1>1 DEF Put
  <2>2. WatchType'
    BY <2>1 DEF WatchType, IsMonitorMap, AreWatched
  <2>3. QED
    BY <2>1, <2>2, <1>e
<1>2. CASE HasRoom(monitored, k)
  <2>1. monitored' = With(monitored, k, v)
    BY <1>2 DEF Put
  <2>2. IsMonitorMap(monitored')
    BY <1>2, <2>1, WithIsMonitorMap
  <2>3. /\ DOMAIN monitored' = DOMAIN monitored \cup {k}
        /\ \A x \in DOMAIN monitored' : monitored'[x] = IF x = k THEN v ELSE monitored[x]
    BY <2>1 DEF With
  <2>4. \A x \in DOMAIN monitored' :
          \/ x = k /\ monitored'[x] = v
          \/ x \in DOMAIN monitored /\ monitored'[x] = monitored[x]
    BY <2>3
  <2>f. Freed(es, k) \subseteq Elements(Pids, Mains)
    BY <1>e, FreedType
  <2>5. \A e \in Freed(es, k) : \E x \in es :
          /\ e.by = x.by /\ e.val = x.val
          /\ \/ x.key = k /\ e.key = NoKey
             \/ x.key # k /\ e.key = x.key
    BY FreedFrom
  <2>6. \A e \in Freed(es, k) : e.key # NoKey => e.key \in DOMAIN monitored' /\ e.val = monitored'[e.key]
    BY <2>3, <2>5 DEF AreWatched
  <2>7. CASE watch' = Freed(es, k) /\ misled' = misled
    <3>1. AreWatched(watch', monitored')
      BY <2>f, <2>6, <2>7 DEF AreWatched
    <3>2. QED
      BY <2>2, <2>3, <2>4, <2>5, <2>7, <3>1 DEF WatchType, IsMonitorMap, AreWatched
  <2>8. ASSUME NEW e \in es, e.key = NoKey,
               watch' = TakenFor(Freed(es, k), e, k, v), misled' = IF e.val = v THEN misled ELSE misled \cup e.by
        PROVE  /\ AreWatched(watch', monitored')
               /\ misled' \subseteq Tids /\ misled \subseteq misled'
               /\ \A f \in watch' : \E x \in es :
                    f.by = x.by /\ (f.val = x.val \/ (f.val = v /\ misled' # {}))
    <3>1. \A x \in watch' : \/ x \in Freed(es, k)
                            \/ x.by = e.by /\ x.key = k /\ x.val = v
      BY <2>8, TakenForKey
    <3>t. watch' \subseteq Elements(Pids, Mains)
      BY <1>e, <2>f, <2>8, TakenForType
    <3>2. AreWatched(watch', monitored')
      BY <2>3, <2>6, <3>1, <3>t DEF AreWatched
    <3>e. e.by \subseteq Tids /\ e.by # {}
      BY <1>e, ElementType
    <3>3. misled' \subseteq Tids /\ misled \subseteq misled'
      BY <2>8, <3>e
    <3>4. \A f \in watch' : \E x \in es :
                    f.by = x.by /\ (f.val = x.val \/ (f.val = v /\ misled' # {}))
      <4> SUFFICES ASSUME NEW f \in watch'
                   PROVE  \E x \in es : f.by = x.by /\ (f.val = x.val \/ (f.val = v /\ misled' # {}))
        OBVIOUS
      <4>1. CASE f \in Freed(es, k)
        BY <2>5, <4>1
      <4>2. CASE f.by = e.by /\ f.key = k /\ f.val = v
        BY <2>8, <3>e, <4>2
      <4>3. QED
        BY <3>1, <4>1, <4>2
    <3>5. QED
      BY <2>8, <3>2, <3>3, <3>4
  <2>9. QED
    <3>1. CASE watch' = Freed(es, k) /\ misled' = misled
      BY <2>7, <3>1
    <3>2. CASE \E e \in es : /\ e.key = NoKey
                             /\ watch' = TakenFor(Freed(es, k), e, k, v)
                             /\ misled' = IF e.val = v THEN misled ELSE misled \cup e.by
      <4>1. /\ AreWatched(watch', monitored')
            /\ misled' \subseteq Tids /\ misled \subseteq misled'
            /\ \A f \in watch' : \E x \in es :
                    f.by = x.by /\ (f.val = x.val \/ (f.val = v /\ misled' # {}))
        BY <2>8, <3>2
      <4>2. WatchType'
        <5>1. AreWatched(watch, monitored)'
          BY <4>1 DEF AreWatched
        <5>2. misled' \subseteq Tids
          BY <4>1
        <5>3. QED
          BY <2>2, <5>1, <5>2 DEF WatchType, IsMonitorMap
      <4>3. QED
        BY <2>3, <2>4, <4>1, <4>2
    <3>3. QED
      BY <1>2, <3>1, <3>2 DEF Put
<1>3. QED
  BY <1>1, <1>2

\* What leaves the processes' map, or handlers done with it, alone keeps its type.
LEMMA KeyRemoved ==
  ASSUME WatchType, NEW k, monitored' = Without(monitored, k), watch' = Freed(watch, k),
         misled' = misled
  PROVE  WatchType'
<1>1. IsMonitorMap(monitored')
  BY WithoutIsMonitorMap DEF WatchType
<1>2. watch' \subseteq Elements(Pids, Mains)
  BY FreedType DEF WatchType, AreWatched
<1>3. ASSUME NEW e \in watch', e.key # NoKey
      PROVE  e.key \in DOMAIN monitored' /\ e.val = monitored'[e.key]
  <2>1. PICK x \in watch : e.val = x.val /\ x.key # k /\ e.key = x.key
    BY <1>3, FreedFrom
  <2>2. x.key \in DOMAIN monitored /\ x.val = monitored[x.key]
    BY <1>3, <2>1 DEF WatchType, AreWatched
  <2>3. /\ x.key \in DOMAIN Without(monitored, k)
        /\ Without(monitored, k)[x.key] = monitored[x.key]
    BY <2>1, <2>2 DEF Without, Restrict
  <2>4. QED
    BY <2>1, <2>2, <2>3
<1>4. QED
  BY <1>1, <1>2, <1>3 DEF WatchType, IsMonitorMap, AreWatched

LEMMA StillWatched ==
  ASSUME NEW STATE es, NEW STATE m, NEW t, AreWatched(es, m)
  PROVE  AreWatched(Released(es, t), m)
<1>1. Released(es, t) \subseteq Elements(Pids, Mains)
  BY ReleasedType DEF AreWatched
<1>2. \A e \in Released(es, t) : \E x \in es : e.key = x.key /\ e.val = x.val
  BY ReleasedFrom
<1>3. QED
  BY <1>1, <1>2 DEF AreWatched

LEMMA NowPointing ==
  ASSUME WatchType, NEW t \in Tids, NEW p \in DOMAIN monitored
  PROVE  AreWatched(Pointing(watch, t, p, monitored[p]), monitored)
<1>1. p \in Pids /\ monitored[p] \in Mains
  BY DEF WatchType, IsMonitorMap, Range
<1>2. Pointing(watch, t, p, monitored[p]) \subseteq Elements(Pids, Mains)
  BY <1>1, PointingType DEF WatchType, AreWatched
<1>3. ASSUME NEW e \in Pointing(watch, t, p, monitored[p]), e.key # NoKey
      PROVE  e.key \in DOMAIN monitored /\ e.val = monitored[e.key]
  <2>1. CASE e \in watch
    BY <1>3, <2>1 DEF WatchType, AreWatched
  <2>2. CASE e.key = p /\ e.val = monitored[p]
    BY <2>2
  <2>3. QED
    BY <1>3, <2>1, <2>2, Pointed
<1>4. QED
  BY <1>2, <1>3 DEF AreWatched

\* The containers that run are finitely many.
LEMMA RunningAreFinite ==
  ASSUME TypeInv
  PROVE  IsFiniteSet({m \in Mains : Alive(m)})
<1> DEFINE f == [t \in alive |-> PidOf[t]]
           S == {PidOf[t] : t \in alive}
<1>1. f \in Surjection(alive, S)
  BY DEF Surjection
<1>2. IsFiniteSet(S)
  BY <1>1, FS_Surjection DEF TypeInv, WorldType
<1>3. {m \in Mains : Alive(m)} \in SUBSET S
  BY DEF Alive
<1>4. QED
  BY <1>2, <1>3, FS_Subset

LEMMA WorldTypes ==
  ASSUME TypeInv, World
  PROVE  TypeInv'
<1> USE BpfAssumption
<1>1. ASSUME NEW t \in Tids, ContainerStarts(t) \/ Fork(t) \/ ThreadStarts(t)
      PROVE  TypeInv'
  <2>1. /\ born' = born \cup {t} /\ alive' = alive \cup {t}
        /\ call' = call \/ call' = [call EXCEPT ![t] = "fork"]
        /\ UNCHANGED <<stopped, callVars, watchVars, countVars, userVars, toClear, faultVars>>
    BY <1>1 DEF ContainerStarts, Fork, ThreadStarts
  <2>2. WorldType'
    BY <2>1, FS_AddElement DEF TypeInv, WorldType
  <2>3. CallType'
    <3>1. call' \in [Tids -> Steps] /\ \A u \in Tids : call'[u] # "none" => u \in alive'
      BY <2>1 DEF TypeInv, CallType, Steps
    <3>2. \A u \in DOMAIN entered' : InCall(u)'
      <4>1. CASE call' = call
        BY <2>1, <4>1 DEF TypeInv, CallType, callVars, InCall
      <4>2. CASE Fork(t)
        <5>1. t \notin alive /\ call' = [call EXCEPT ![t] = "fork"]
          BY <4>2 DEF Fork, TypeInv, WorldType
        <5>2. t \notin DOMAIN entered
          BY <5>1 DEF TypeInv, CallType, InCall
        <5>3. QED
          BY <2>1, <5>1, <5>2 DEF TypeInv, CallType, callVars, InCall
      <4>3. QED
        BY <1>1, <4>1, <4>2 DEF ContainerStarts, ThreadStarts
    <3>3. QED
      BY <2>1, <3>1, <3>2 DEF TypeInv, CallType, callVars
  <2>4. QED
    BY <2>1, <2>2, <2>3
       DEF TypeInv, WatchType, IsMonitorMap, AreWatched, CountType, UserType, watchVars, countVars,
           userVars, faultVars
<1>2. ASSUME StoppedContainers
      PROVE  TypeInv'
  BY <1>2 DEF StoppedContainers, TypeInv, WorldType, CallType, WatchType, IsMonitorMap, AreWatched,
              CountType, UserType, InCall, callVars, watchVars, countVars, userVars
<1>3. QED
  BY <1>1, <1>2 DEF World

LEMMA ExecTypes ==
  ASSUME TypeInv, NEW t \in Tids, ExecLookup(t) \/ ExecUpdate(t)
  PROVE  TypeInv'
<1> USE BpfAssumption
<1>1. /\ UNCHANGED <<worldVars, callVars, countVars, pc, list, toFill, faultVars>>
      /\ call[t] # "none"
      /\ call' = [call EXCEPT ![t] = "exec"] \/ call' = [call EXCEPT ![t] = "none"]
  BY DEF ExecLookup, ExecUpdate, userVars
<1>2. call' \in [Tids -> Steps] /\ \A u \in Tids : call'[u] # "none" => u \in alive'
  BY <1>1 DEF TypeInv, CallType, Steps, worldVars
<1>3. \A u \in DOMAIN entered : InCall(u)'
  <2>1. call[t] = "fork" \/ call[t] = "exec"
    BY DEF ExecLookup, ExecUpdate
  <2>2. t \notin DOMAIN entered
    BY <2>1 DEF TypeInv, CallType, InCall
  <2>3. QED
    BY <1>1, <2>2 DEF TypeInv, CallType, InCall
<1>4. CallType'
  BY <1>1, <1>2, <1>3 DEF TypeInv, CallType, callVars
<1>5. CASE ExecLookup(t)
  <2>1. UNCHANGED <<monitored, misled, toClear>>
    BY <1>5 DEF ExecLookup
  <2>2. AreWatched(watch', monitored)
    <3>1. CASE UNCHANGED watch
      BY <3>1 DEF TypeInv, WatchType, AreWatched
    <3>2. ASSUME NEW p \in DOMAIN monitored, watch' = Pointing(watch, t, p, monitored[p])
          PROVE  AreWatched(watch', monitored)
      BY <3>2, NowPointing DEF TypeInv
    <3>3. QED
      BY <1>5, <3>1, <3>2 DEF ExecLookup
  <2>3. WatchType'
    BY <2>1, <2>2 DEF TypeInv, WatchType, IsMonitorMap, AreWatched
  <2>4. QED
    BY <1>1, <1>4, <2>1, <2>3 DEF TypeInv, WorldType, CountType, UserType, worldVars, countVars,
                                  faultVars
<1>6. CASE ExecUpdate(t)
  <2>1. PICK e \in watch : Put(PidOf[t], e.val, Released(watch, t))
    BY <1>6 DEF ExecUpdate, Inherited
  <2>2. PidOf[t] \in Pids /\ e.val \in Mains
    BY ElementType DEF TypeInv, WatchType, AreWatched
  <2>3. WatchType'
    <3>1. AreWatched(Released(watch, t), monitored)
      BY StillWatched DEF TypeInv, WatchType
    <3>2. QED
      BY <2>1, <2>2, <3>1, PutIn DEF TypeInv, WatchType
  <2>4. toClear' \subseteq Pids
    BY <1>6, <2>2 DEF ExecUpdate, TypeInv, UserType
  <2>5. QED
    BY <1>1, <1>4, <2>3, <2>4 DEF TypeInv, WorldType, CountType, UserType, worldVars, countVars,
                                  faultVars
<1>7. QED
  BY <1>5, <1>6

LEMMA HandleExitTypes ==
  ASSUME TypeInv, NEW t \in Tids, HandleExit(t)
  PROVE  TypeInv'
<1>1. /\ t \in alive /\ call[t] = "none" /\ alive' = alive \ {t}
      /\ monitored' = Without(monitored, PidOf[t]) /\ watch' = Freed(watch, PidOf[t])
      /\ UNCHANGED <<born, stopped, call, callVars, misled, countVars, userVars, toClear, faultVars>>
  BY DEF HandleExit
<1>2. WorldType'
  <2>1. IsFiniteSet(alive \ {t})
    BY FS_RemoveElement DEF TypeInv, WorldType
  <2>2. QED
    BY <1>1, <2>1 DEF TypeInv, WorldType
<1>3. WatchType'
  BY <1>1, KeyRemoved DEF TypeInv
<1>4. CallType'
  BY <1>1 DEF TypeInv, CallType, callVars, InCall
<1>5. QED
  BY <1>1, <1>2, <1>3, <1>4 DEF TypeInv, CountType, UserType, countVars, userVars, faultVars

LEMMA EnterTypes ==
  ASSUME TypeInv, NEW t \in Tids, EnterLookup(t) \/ EnterNote(t)
  PROVE  TypeInv'
<1>1. UNCHANGED <<worldVars, value, monitored, misled, countVars, userVars, toClear, faultVars>>
  BY DEF EnterLookup, EnterNote
<1>2. CASE EnterLookup(t)
  <2>1. /\ t \in alive /\ call[t] = "none" /\ PidOf[t] \in DOMAIN monitored
        /\ calls < MaxCalls /\ calls' = calls + 1
        /\ call' = [call EXCEPT ![t] = "enter"] /\ entered' = entered
        /\ watch' = Pointing(watch, t, PidOf[t], monitored[PidOf[t]])
    BY <1>2 DEF EnterLookup
  <2>2. t \notin DOMAIN entered
    BY <2>1 DEF TypeInv, CallType, InCall
  <2>3. CallType'
    <3>1. calls' \in 0..MaxCalls
      BY <2>1, BpfAssumption DEF TypeInv, CallType
    <3>2. QED
      BY <1>1, <2>1, <2>2, <3>1 DEF TypeInv, CallType, InCall, Steps, worldVars
  <2>4. WatchType'
    <3>1. AreWatched(watch', monitored)
      BY <2>1, NowPointing DEF TypeInv
    <3>2. QED
      BY <1>1, <3>1 DEF TypeInv, WatchType, IsMonitorMap, AreWatched
  <2>5. QED
    BY <1>1, <2>3, <2>4 DEF TypeInv, WorldType, CountType, UserType, worldVars, countVars, userVars,
                            faultVars
<1>3. CASE EnterNote(t)
  <2>1. /\ call[t] = "enter" /\ call' = [call EXCEPT ![t] = "in"] /\ calls' = calls
        /\ watch' = Released(watch, t)
    BY <1>3 DEF EnterNote
  <2>2. PICK e \in watch : entered' = Updated(entered, t, e.val)
    BY <1>3 DEF EnterNote
  <2>3. e.val \in Mains
    BY ElementType DEF TypeInv, WatchType, AreWatched
  <2>4. DOMAIN entered' \subseteq DOMAIN entered \cup {t} /\ Range(entered') \subseteq Mains
    BY <2>2, <2>3 DEF TypeInv, CallType, Updated, With, Range
  <2>5. CallType'
    BY <1>1, <2>1, <2>4 DEF TypeInv, CallType, InCall, Steps, worldVars
  <2>6. WatchType'
    <3>1. AreWatched(watch', monitored)
      BY <2>1, StillWatched DEF TypeInv, WatchType
    <3>2. QED
      BY <1>1, <3>1 DEF TypeInv, WatchType, IsMonitorMap, AreWatched
  <2>7. QED
    BY <1>1, <2>5, <2>6 DEF TypeInv, WorldType, CountType, UserType, worldVars, countVars, userVars,
                            faultVars
<1>4. QED
  BY <1>2, <1>3

LEMMA ExitTypes ==
  ASSUME TypeInv, NEW t \in Tids, ExitFind(t) \/ ExitRead(t) \/ ExitWrite(t) \/ ExitUncounted(t)
  PROVE  TypeInv'
<1>u. UNCHANGED <<worldVars, calls, watchVars, reused, userVars, toClear, faultVars>>
  BY DEF ExitFind, ExitRead, ExitWrite, ExitUncounted, callVars, countVars
<1>q. \A m \in DOMAIN count : count[m] \in Nat
  BY DEF TypeInv, CountType, Range
<1>1. CASE ExitFind(t)
  <2>1. /\ call[t] = "in" /\ entered[t] \in DOMAIN count
        /\ call' = [call EXCEPT ![t] = "exit"] /\ tally' = Pointing(tally, t, entered[t], 0)
        /\ UNCHANGED <<value, entered, count, finished, overlap>>
    BY <1>1 DEF ExitFind, callVars
  <2>2. CallType'
    BY <1>u, <2>1 DEF TypeInv, CallType, InCall, Steps, worldVars
  <2>3. tally' \subseteq Elements(Mains, Nat)
    BY <2>1, PointingType DEF TypeInv, CountType
  <2>4. ASSUME NEW e \in tally', e.key # NoKey
        PROVE  e.key \in DOMAIN count
    <3>1. e \in tally \/ e.key = entered[t]
      BY <2>1, <2>4, Pointed
    <3>2. QED
      BY <2>1, <2>4, <3>1 DEF TypeInv, CountType
  <2>5. CountType'
    BY <1>u, <2>1, <2>3, <2>4 DEF TypeInv, CountType
  <2>6. QED
    BY <1>u, <2>2, <2>5
       DEF TypeInv, WorldType, WatchType, IsMonitorMap, AreWatched, UserType, worldVars, watchVars,
           userVars, faultVars
<1>2. CASE ExitRead(t)
  <2>1. /\ call[t] = "exit" /\ call' = [call EXCEPT ![t] = "write"]
        /\ UNCHANGED <<entered, finished, count, tally>>
    BY <1>2 DEF ExitRead
  <2>2. PICK e \in tally :
          /\ value' = [value EXCEPT ![t] = IF e.key = NoKey THEN e.val ELSE count[e.key]]
          /\ overlap' = IF e.key # NoKey /\ \E u \in e.by : call[u] = "write"
                        THEN overlap \cup {e.key} ELSE overlap
    BY <1>2 DEF ExitRead
  <2>3. e.val \in Nat /\ (e.key # NoKey => e.key \in DOMAIN count /\ e.key \in Mains)
    BY ElementType DEF TypeInv, CountType
  <2>4. value' \in [Tids -> Nat] /\ overlap' \subseteq Mains
    BY <1>q, <2>2, <2>3 DEF TypeInv, CallType, CountType
  <2>5. CallType' /\ CountType'
    BY <1>u, <2>1, <2>4 DEF TypeInv, CallType, CountType, InCall, Steps, worldVars
  <2>6. QED
    BY <1>u, <2>5
       DEF TypeInv, WorldType, WatchType, IsMonitorMap, AreWatched, UserType, worldVars, watchVars,
           userVars, faultVars
<1>3. CASE ExitWrite(t) \/ ExitUncounted(t)
  <2>1. /\ call' = [call EXCEPT ![t] = "none"] /\ entered' = Without(entered, t)
        /\ value' = value \/ value' = [value EXCEPT ![t] = 0]
        /\ UNCHANGED overlap
    BY <1>3 DEF ExitWrite, ExitUncounted, countVars
  <2>2. DOMAIN entered' = DOMAIN entered \ {t} /\ Range(entered') \subseteq Range(entered)
    BY <2>1 DEF Without, Restrict, Range
  <2>3. CallType'
    BY <1>u, <2>1, <2>2 DEF TypeInv, CallType, InCall, Steps, worldVars
  <2>4. CountType'
    <3>1. CASE ExitUncounted(t)
      BY <1>u, <3>1 DEF ExitUncounted, TypeInv, CountType, countVars
    <3>2. ASSUME NEW e \in tally, e.key = NoKey,
                 tally' = Released(TakenFor(tally, e, NoKey, value[t] + 1), t),
                 UNCHANGED <<count, finished>>
          PROVE  CountType'
      <4> DEFINE es == TakenFor(tally, e, NoKey, value[t] + 1)
      <4>1. value[t] + 1 \in Nat
        BY DEF TypeInv, CallType
      <4>2. es \subseteq Elements(Mains, Nat)
        BY <4>1, TakenForType DEF TypeInv, CountType
      <4>3. \A x \in es : x.key # NoKey => x.key \in DOMAIN count
        <5> SUFFICES ASSUME NEW x \in es, x.key # NoKey
                     PROVE  x.key \in DOMAIN count
          OBVIOUS
        <5>1. x \in tally
          BY TakenForKey
        <5>2. QED
          BY <5>1 DEF TypeInv, CountType
      <4> HIDE DEF es
      <4>4. tally' \subseteq Elements(Mains, Nat)
        BY <3>2, <4>2, ReleasedType DEF es
      <4>5. \A x \in tally' : x.key # NoKey => x.key \in DOMAIN count
        <5> SUFFICES ASSUME NEW x \in tally', x.key # NoKey
                     PROVE  x.key \in DOMAIN count
          OBVIOUS
        <5>1. \E y \in es : x.key = y.key
          BY <3>2, ReleasedFrom DEF es
        <5>2. QED
          BY <4>3, <5>1
      <4>6. QED
        BY <1>u, <2>1, <3>2, <4>4, <4>5 DEF TypeInv, CountType
    <3>3. ASSUME NEW e \in tally, e.key # NoKey, tally' = Released(tally, t),
                 count' = [count EXCEPT ![e.key] = value[t] + 1],
                 finished' = IF entered[t] = e.key
                             THEN [finished EXCEPT ![e.key] = finished[e.key] + 1] ELSE finished
          PROVE  CountType'
      <4>1. e.key \in DOMAIN count /\ e.key \in Mains /\ value[t] + 1 \in Nat
        BY <3>3 DEF TypeInv, CallType, CountType
      <4>2. DOMAIN count' = DOMAIN count /\ \A m \in DOMAIN count : count'[m] \in Nat
        BY <1>q, <3>3, <4>1
      <4>3. Range(count') \subseteq Nat
        BY <4>2 DEF Range
      <4>4. finished' \in [Mains -> Nat]
        BY <3>3, <4>1 DEF TypeInv, CountType
      <4>5. tally' \subseteq Elements(Mains, Nat)
        BY <3>3, ReleasedType DEF TypeInv, CountType
      <4>6. \A x \in tally' : x.key # NoKey => x.key \in DOMAIN count
        <5> SUFFICES ASSUME NEW x \in tally', x.key # NoKey
                     PROVE  x.key \in DOMAIN count
          OBVIOUS
        <5>1. \E y \in tally : x.key = y.key
          BY <3>3, ReleasedFrom
        <5>2. QED
          BY <5>1 DEF TypeInv, CountType
      <4>7. QED
        BY <1>u, <2>1, <4>2, <4>3, <4>4, <4>5, <4>6 DEF TypeInv, CountType
    <3>4. QED
      BY <1>3, <3>1, <3>2, <3>3 DEF ExitWrite
  <2>5. QED
    BY <1>u, <2>3, <2>4
       DEF TypeInv, WorldType, WatchType, IsMonitorMap, AreWatched, UserType, worldVars, watchVars,
           userVars, faultVars
<1>4. QED
  BY <1>1, <1>2, <1>3

LEMMA DroppedFrom ==
  ASSUME NEW gone, NEW e \in Dropped(gone)
  PROVE  \E x \in tally :
           \/ /\ x.key \in gone
              /\ e = [by |-> x.by, key |-> NoKey, val |-> count[x.key]]
           \/ x.key \notin gone /\ e = x
BY DEF Dropped

LEMMA TakenByFrom ==
  ASSUME NEW new, NEW es, NEW g \in Takings(new, es), NEW e \in TakenBy(new, es, g)
  PROVE  \/ e \in es /\ \A m \in new : g[m] # e
         \/ \E m \in new :
              /\ g[m] # NoKey /\ g[m] \in es /\ g[m].key = NoKey
              /\ e = [by |-> g[m].by, key |-> m, val |-> 0]
<1>1. g \in [new -> {x \in es : x.key = NoKey} \cup {NoKey}]
  BY DEF Takings
<1>2. CASE e \in es \ Range(g)
  BY <1>1, <1>2 DEF Range
<1>3. CASE e \in {[by |-> g[m].by, key |-> m, val |-> 0] : m \in {n \in new : g[n] # NoKey}}
  BY <1>1, <1>3
<1>4. QED
  BY <1>2, <1>3 DEF TakenBy

LEMMA DroppedType ==
  ASSUME TypeInv, NEW gone \in SUBSET DOMAIN count
  PROVE  Dropped(gone) \subseteq Elements(Mains, Nat)
<1> SUFFICES ASSUME NEW e \in Dropped(gone)
             PROVE  e \in Elements(Mains, Nat)
  OBVIOUS
<1>1. PICK x \in tally :
        \/ /\ x.key \in gone
           /\ e = [by |-> x.by, key |-> NoKey, val |-> count[x.key]]
        \/ x.key \notin gone /\ e = x
  BY DroppedFrom
<1>2. x \in Elements(Mains, Nat)
  BY DEF TypeInv, CountType
<1>3. x.by \subseteq Tids /\ x.by # {}
  BY <1>2, ElementType
<1>4. ASSUME x.key \in gone
      PROVE  [by |-> x.by, key |-> NoKey, val |-> count[x.key]] \in Elements(Mains, Nat)
  <2>1. count[x.key] \in Nat
    BY <1>4 DEF TypeInv, CountType, Range
  <2>2. QED
    BY <1>3, <2>1, IsElement
<1>5. QED
  BY <1>1, <1>2, <1>4

LEMMA TakenByType ==
  ASSUME NEW new \in SUBSET Mains, NEW es, es \subseteq Elements(Mains, Nat),
         NEW g \in Takings(new, es)
  PROVE  TakenBy(new, es, g) \subseteq Elements(Mains, Nat)
<1> SUFFICES ASSUME NEW e \in TakenBy(new, es, g)
             PROVE  e \in Elements(Mains, Nat)
  OBVIOUS
<1>1. CASE e \in es
  BY <1>1
<1>2. ASSUME NEW m \in new, g[m] \in es, e = [by |-> g[m].by, key |-> m, val |-> 0]
      PROVE  e \in Elements(Mains, Nat)
  <2>1. g[m].by \subseteq Tids /\ g[m].by # {}
    BY <1>2, ElementType
  <2>2. QED
    BY <1>2, <2>1, IsElement
<1>3. QED
  BY <1>1, <1>2, TakenByFrom

LEMMA SetPerfMapTypes ==
  ASSUME TypeInv, SetPerfMap
  PROVE  TypeInv'
<1> DEFINE gone == DOMAIN count \ list.mains
           new == list.mains \ DOMAIN count
<1>1. /\ pc' = "clear" /\ toClear' = DOMAIN monitored /\ pc = "perf"
      /\ UNCHANGED <<list, toFill, worldVars, call, callVars, watchVars, faultVars>>
  BY DEF SetPerfMap, OldKeys
<1>2. CASE UNCHANGED countVars
  <2>1. CountType'
    BY <1>2 DEF TypeInv, CountType, countVars
  <2>2. QED
    BY <1>1, <2>1 DEF TypeInv, WorldType, CallType, InCall, WatchType, IsMonitorMap, AreWatched,
                      UserType, worldVars, callVars, watchVars, faultVars
<1>3. ASSUME count' = KeptCounts, NEW g \in Takings(new, Dropped(gone)),
             tally' = TakenBy(new, Dropped(gone), g),
             reused' = (reused \ new) \cup {m \in new : g[m] # NoKey},
             finished' = [m \in Mains |-> IF m \in new THEN 0 ELSE finished[m]],
             overlap' = overlap \ new
      PROVE  TypeInv'
  <2>1. list.mains \subseteq Mains
    BY DEF TypeInv, UserType, List
  <2>2. \A m \in DOMAIN count : count[m] \in Nat
    BY DEF TypeInv, CountType, Range
  <2>3. DOMAIN count' = list.mains /\ Range(count') \subseteq Nat
    BY <1>3, <2>2 DEF KeptCounts, Range
  <2>4. Dropped(gone) \subseteq Elements(Mains, Nat)
    BY DroppedType
  <2>5. tally' \subseteq Elements(Mains, Nat)
    BY <1>3, <2>1, <2>4, TakenByType
  <2>6. ASSUME NEW e \in tally', e.key # NoKey
        PROVE  e.key \in list.mains
    <3>1. CASE e \in Dropped(gone)
      <4>1. e \in tally /\ e.key \notin gone
        BY <2>6, <3>1, DroppedFrom
      <4>2. QED
        BY <2>6, <4>1 DEF TypeInv, CountType
    <3>2. CASE \E m \in new : e = [by |-> g[m].by, key |-> m, val |-> 0]
      BY <3>2
    <3>3. QED
      BY <1>3, <3>1, <3>2, TakenByFrom
  <2>7. CountType'
    BY <1>3, <2>1, <2>3, <2>5, <2>6 DEF TypeInv, CountType
  <2>8. QED
    BY <1>1, <2>7 DEF TypeInv, WorldType, CallType, InCall, WatchType, IsMonitorMap, AreWatched,
                      UserType, worldVars, callVars, watchVars, faultVars
<1>4. QED
  BY <1>2, <1>3 DEF SetPerfMap

LEMMA ThreadTypes ==
  ASSUME TypeInv,
         Scan \/ Oversize \/ Cleared \/ Filled \/ Destroy \/ \E p \in Pids : ClearKey(p) \/ FillKey(p)
  PROVE  TypeInv'
<1> USE BpfAssumption
<1>n. Nothing \in List /\ IsFiniteSet(Nothing.mains) /\ {} \subseteq Nothing.procs
  BY FS_EmptySet DEF Nothing, List
<1>1. ASSUME Scan
      PROVE  TypeInv'
  <2>1. /\ pc = "idle" /\ pc' = "perf"
        /\ UNCHANGED <<worldVars, call, callVars, watchVars, countVars, toClear, toFill>>
    BY <1>1 DEF Scan
  <2>2. list' \in List /\ IsFiniteSet(list'.mains)
    <3>1. CASE list' = Nothing
      BY <1>n, <3>1
    <3>2. CASE list' = [mains |-> {m \in Mains : Alive(m)},
                        procs |-> {p \in Pids : Alive(p) /\ Alive(HomeOf[p])}, stopped |-> stopped]
      BY <3>2, RunningAreFinite DEF List, TypeInv, WorldType
    <3>3. QED
      BY <1>1, <3>1, <3>2 DEF Scan
  <2>3. changes' \in 0..MaxChanges /\ failed' \in BOOLEAN
    <3>1. \/ UNCHANGED <<changes, failed>>
          \/ changes < MaxChanges /\ changes' = changes + 1 /\ failed' = TRUE
      BY <1>1 DEF Scan, faultVars
    <3>2. changes' \in 0..MaxChanges
      BY <3>1 DEF TypeInv, UserType
    <3>3. failed' \in BOOLEAN
      BY <3>1 DEF TypeInv, UserType
    <3>4. QED
      BY <3>2, <3>3
  <2>4. UserType'
    BY <2>1, <2>2, <2>3 DEF TypeInv, UserType
  <2>5. QED
    BY <2>1, <2>4 DEF TypeInv, WorldType, CallType, InCall, WatchType, IsMonitorMap, AreWatched,
                      CountType, worldVars, callVars, watchVars, countVars
<1>2. ASSUME Oversize \/ Cleared \/ Filled
      PROVE  TypeInv'
  <2>1. UNCHANGED <<worldVars, call, callVars, watchVars, countVars, toClear, faultVars>>
    BY <1>2 DEF Oversize, Cleared, Filled
  <2>2. UserType'
    BY <1>2, <1>n, <2>1 DEF Oversize, Cleared, Filled, TypeInv, UserType, faultVars
  <2>3. QED
    BY <2>1, <2>2 DEF TypeInv, WorldType, CallType, InCall, WatchType, IsMonitorMap, AreWatched,
                      CountType, worldVars, callVars, watchVars, countVars
<1>3. ASSUME NEW p \in Pids, ClearKey(p) \/ FillKey(p)
      PROVE  TypeInv'
  <2>1. UNCHANGED <<pc, list, worldVars, call, callVars, countVars, faultVars>>
    BY <1>3 DEF ClearKey, FillKey, userVars
  <2>2. UserType'
    BY <1>3, <2>1 DEF ClearKey, FillKey, TypeInv, UserType, userVars, faultVars
  <2>3. WatchType'
    <3>1. CASE ClearKey(p)
      BY <3>1, KeyRemoved DEF ClearKey, TypeInv
    <3>2. CASE FillKey(p)
      <4>1. HomeOf[p] \in Mains /\ Put(p, HomeOf[p], watch)
        BY <3>2 DEF FillKey
      <4>2. QED
        BY <4>1, PutIn DEF TypeInv, WatchType
    <3>3. QED
      BY <1>3, <3>1, <3>2
  <2>4. QED
    BY <2>1, <2>2, <2>3 DEF TypeInv, WorldType, CallType, InCall, CountType, worldVars, callVars,
                            countVars
<1>4. ASSUME Destroy
      PROVE  TypeInv'
  <2>1. /\ pc \in {"idle", "perf"} /\ pc' = "ended"
        /\ monitored' = Empty /\ count' = Empty /\ entered' = Empty /\ watch' = {} /\ tally' = {}
        /\ UNCHANGED <<list, toFill, toClear, worldVars, call, value, calls, misled, reused, finished,
                       overlap, faultVars>>
    BY <1>4 DEF Destroy
  <2>2. DOMAIN Empty = {} /\ Range(Empty) = {}
    BY DEF Empty, Range
  <2>3. WatchType'
    BY <2>1, <2>2, FS_EmptySet DEF TypeInv, WatchType, IsMonitorMap, AreWatched
  <2>4. CallType'
    BY <2>1, <2>2 DEF TypeInv, CallType, worldVars
  <2>5. CountType'
    BY <2>1, <2>2 DEF TypeInv, CountType
  <2>6. QED
    BY <2>1, <2>3, <2>4, <2>5 DEF TypeInv, WorldType, UserType, worldVars, faultVars
<1>5. QED
  BY <1>1, <1>2, <1>3, <1>4

\* The types hold in every state, with finitely many threads alive.
LEMMA TypeInvHolds == Spec => []TypeInv
<1>1. Init => TypeInv
  <2>1. SUFFICES ASSUME Init
                 PROVE  TypeInv
    OBVIOUS
  <2> USE BpfAssumption
  <2>2. DOMAIN Empty = {} /\ Range(Empty) = {}
    BY DEF Empty, Range
  <2>3. WatchType
    BY <2>1, <2>2, FS_EmptySet DEF Init, WatchType, IsMonitorMap, AreWatched
  <2>4. Nothing \in List /\ Nothing.mains = {} /\ Nothing.procs = {}
    BY DEF Nothing, List
  <2>5. WorldType
    BY <2>1, FS_EmptySet DEF Init, WorldType
  <2>6. UserType
    <3>1. /\ pc = "idle" /\ list = Nothing /\ toClear = {} /\ toFill = {}
          /\ changes = 0 /\ failed = FALSE
      BY <2>1 DEF Init
    <3>2. changes \in 0..MaxChanges
      BY <3>1
    <3>3. failed \in BOOLEAN
      BY <3>1
    <3>4. QED
      BY <2>4, <3>1, <3>2, <3>3, FS_EmptySet DEF UserType
  <2>7. CallType
    BY <2>1, <2>2 DEF Init, CallType, Steps
  <2>8. CountType
    BY <2>1, <2>2 DEF Init, CountType
  <2>9. QED
    BY <2>3, <2>5, <2>6, <2>7, <2>8 DEF TypeInv
<1>2. TypeInv /\ [Next]_vars => TypeInv'
  <2>1. ASSUME TypeInv, UNCHANGED vars
        PROVE  TypeInv'
    BY <2>1 DEF vars, TypeInv, WorldType, CallType, InCall, WatchType, IsMonitorMap, AreWatched,
                CountType, UserType, worldVars, callVars, watchVars, countVars, userVars, faultVars
  <2>2. QED
    BY <2>1, WorldTypes, ExecTypes, HandleExitTypes, EnterTypes, ExitTypes, SetPerfMapTypes,
       ThreadTypes DEF Next, Handlers, Exec, ContainerThread, Terminated
<1>3. QED
  BY <1>1, <1>2, PTL DEF Spec

\* The types hold for any number of processes, threads and containers; the map of
\* processes never holds more keys than it was made for, and the elements that are in
\* it hold what the map says, however often they were reused.
THEOREM BpfTypeOK == Spec => []TypeOK
<1>1. TypeInv => TypeOK
  <2>1. SUFFICES ASSUME TypeInv
                 PROVE  TypeOK
    OBVIOUS
  <2>2. DOMAIN entered \subseteq {t \in alive : InCall(t)}
    BY <2>1 DEF TypeInv, CallType, InCall
  <2>3. QED
    BY <2>1, <2>2 DEF TypeInv, WorldType, CallType, WatchType, IsMonitorMap, AreWatched, CountType,
                      UserType, TypeOK
<1>2. QED
  BY <1>1, TypeInvHolds, PTL
-----------------------------------------------------------------------------
(***************************************************************************)
(* Where calls are counted.  OnlyReuseMisleads is not inductive: it also   *)
(* takes that what is in the elements handlers point to is right for each  *)
(* of them, also when the element is free, until another container takes   *)
(* it; the list that is still to be written is right by itself.            *)
(***************************************************************************)
WatchGoesHome == \A e \in watch : \A t \in e.by : e.val = HomeOf[PidOf[t]]
HomeInv == misled = {} => CallsGoHome /\ WatchGoesHome

\* A parent's element is right for its child, and its process's for a thread.
LEMMA LookupGoesHome ==
  ASSUME TypeInv, CallsGoHome, WatchGoesHome, NEW t \in Tids, NEW p \in DOMAIN monitored,
         HomeOf[p] = HomeOf[PidOf[t]],
         NEW e \in Pointing(watch, t, p, monitored[p]), NEW u \in e.by
  PROVE  e.val = HomeOf[PidOf[u]]
<1>1. CASE e \in watch
  BY <1>1 DEF WatchGoesHome
<1>2. CASE /\ e.key = p /\ e.val = monitored[p]
           /\ \A v \in e.by \ {t} : \E x \in watch : x.key = p /\ v \in x.by
  <2>1. monitored[p] = HomeOf[PidOf[t]]
    BY DEF CallsGoHome
  <2>2. CASE u = t
    BY <1>2, <2>1, <2>2
  <2>3. ASSUME NEW x \in watch, x.key = p, u \in x.by
        PROVE  e.val = HomeOf[PidOf[u]]
    <3>1. p # NoKey
      BY BpfAssumption DEF TypeInv, WatchType, IsMonitorMap
    <3>2. x.val = monitored[p]
      BY <2>3, <3>1 DEF TypeInv, WatchType, AreWatched
    <3>3. QED
      BY <1>2, <2>3, <3>2 DEF WatchGoesHome
  <2>4. QED
    BY <1>2, <2>2, <2>3
<1>3. QED
  BY <1>1, <1>2, Pointed

LEMMA ReleaseIsSafe ==
  ASSUME WatchGoesHome, NEW t
  PROVE  \A e \in Released(watch, t) : \A u \in e.by : e.val = HomeOf[PidOf[u]]
<1> SUFFICES ASSUME NEW e \in Released(watch, t), NEW u \in e.by
             PROVE  e.val = HomeOf[PidOf[u]]
  OBVIOUS
<1>1. PICK x \in watch : e = [by |-> x.by \ {t}, key |-> x.key, val |-> x.val]
  BY ReleasedFrom
<1>2. u \in x.by /\ e.val = x.val
  BY <1>1
<1>3. QED
  BY <1>2 DEF WatchGoesHome

LEMMA RemovalIsSafe ==
  ASSUME CallsGoHome, WatchGoesHome, NEW k, entered' = entered,
         monitored' = Without(monitored, k), watch' = Freed(watch, k)
  PROVE  CallsGoHome' /\ WatchGoesHome'
<1>1. CallsGoHome'
  BY DEF CallsGoHome, Without, Restrict
<1>2. \A e \in watch' : \E x \in watch : e.by = x.by /\ e.val = x.val
  BY FreedFrom
<1>3. WatchGoesHome'
  BY <1>2 DEF WatchGoesHome
<1>4. QED
  BY <1>1, <1>3

\* A key comes in with its own container; the elements of others it may take then
\* mislead those that point to them.
LEMMA PutIsSafe ==
  ASSUME TypeInv, CallsGoHome, NEW k \in Pids, NEW STATE es, AreWatched(es, monitored),
         \A e \in es : \A u \in e.by : e.val = HomeOf[PidOf[u]],
         NEW v \in Mains, v = HomeOf[k], Put(k, v, es), entered' = entered, misled' = {}
  PROVE  CallsGoHome' /\ WatchGoesHome'
<1>1. /\ \A x \in DOMAIN monitored' :
           \/ x = k /\ monitored'[x] = v
           \/ x \in DOMAIN monitored /\ monitored'[x] = monitored[x]
      /\ \A e \in watch' : \E x \in es : e.by = x.by /\ (e.val = x.val \/ (e.val = v /\ misled' # {}))
  BY PutIn DEF TypeInv, WatchType
<1>2. CallsGoHome'
  BY <1>1 DEF CallsGoHome
<1>3. WatchGoesHome'
  BY <1>1 DEF WatchGoesHome
<1>4. QED
  BY <1>2, <1>3

LEMMA HomeInvHolds == Spec => []HomeInv
<1>1. Init => HomeInv
  BY DEF Init, HomeInv, CallsGoHome, WatchGoesHome, Empty
<1>2. TypeInv /\ HomeInv /\ [Next]_vars => HomeInv'
  <2> SUFFICES ASSUME TypeInv, HomeInv, [Next]_vars, misled' = {}
               PROVE  CallsGoHome' /\ WatchGoesHome'
    BY DEF HomeInv
  <2> USE BpfAssumption
  <2>0. misled = {} => CallsGoHome /\ WatchGoesHome
    BY DEF HomeInv
  <2>1. ASSUME UNCHANGED <<entered, watchVars>>
        PROVE  CallsGoHome' /\ WatchGoesHome'
    BY <2>0, <2>1 DEF CallsGoHome, WatchGoesHome, watchVars
  <2>2. ASSUME NEW t \in Tids, ExecLookup(t) \/ EnterLookup(t)
        PROVE  CallsGoHome' /\ WatchGoesHome'
    <3>1. UNCHANGED <<entered, monitored, misled>>
      BY <2>2 DEF ExecLookup, EnterLookup, callVars
    <3>2. CallsGoHome' /\ CallsGoHome /\ WatchGoesHome
      BY <2>0, <3>1 DEF CallsGoHome
    <3>3. ASSUME NEW p \in DOMAIN monitored, HomeOf[p] = HomeOf[PidOf[t]],
                 watch' = Pointing(watch, t, p, monitored[p])
          PROVE  WatchGoesHome'
      BY <3>2, <3>3, LookupGoesHome DEF WatchGoesHome
    <3>4. CASE watch' = watch
      BY <3>2, <3>4 DEF WatchGoesHome
    <3>5. QED
      BY <2>2, <3>2, <3>3, <3>4 DEF ExecLookup, EnterLookup
  <2>3. ASSUME NEW t \in Tids, ExecUpdate(t)
        PROVE  CallsGoHome' /\ WatchGoesHome'
    <3>1. PICK e \in watch : t \in e.by /\ Put(PidOf[t], e.val, Released(watch, t))
      BY <2>3 DEF ExecUpdate, Inherited
    <3>2. /\ PidOf[t] \in Pids /\ e.val \in Mains
          /\ AreWatched(Released(watch, t), monitored)
      BY ElementType, StillWatched DEF TypeInv, WatchType, AreWatched
    <3>3. misled = {}
      BY <3>1, <3>2, PutIn DEF TypeInv, WatchType
    <3>4. e.val = HomeOf[PidOf[t]] /\ entered' = entered
      BY <2>0, <2>3, <3>1, <3>3 DEF WatchGoesHome, ExecUpdate, callVars
    <3>5. QED
      BY <2>0, <3>1, <3>2, <3>3, <3>4, ReleaseIsSafe, PutIsSafe
  <2>4. ASSUME NEW t \in Tids, HandleExit(t)
        PROVE  CallsGoHome' /\ WatchGoesHome'
    BY <2>0, <2>4, RemovalIsSafe DEF HandleExit, callVars
  <2>5. ASSUME NEW t \in Tids, EnterNote(t)
        PROVE  CallsGoHome' /\ WatchGoesHome'
    <3>1. /\ UNCHANGED <<monitored, misled>> /\ watch' = Released(watch, t)
          /\ \E e \in watch : t \in e.by /\ entered' = Updated(entered, t, e.val)
      BY <2>5 DEF EnterNote
    <3>2. CallsGoHome /\ WatchGoesHome
      BY <2>0, <3>1
    <3>3. entered' = Updated(entered, t, HomeOf[PidOf[t]])
      BY <3>1, <3>2 DEF WatchGoesHome
    <3>4. \A u \in DOMAIN entered' : entered'[u] = HomeOf[PidOf[u]]
      <4> SUFFICES ASSUME NEW u \in DOMAIN entered'
                   PROVE  entered'[u] = HomeOf[PidOf[u]]
        OBVIOUS
      <4>1. CASE u = t
        BY <3>3, <4>1, Taken
      <4>2. CASE u # t
        <5>1. u \in DOMAIN entered /\ entered'[u] = entered[u]
          BY <3>3, <4>2, Taken
        <5>2. QED
          BY <3>2, <5>1 DEF CallsGoHome
      <4>3. QED
        BY <4>1, <4>2
    <3>5. QED
      BY <3>1, <3>2, <3>4, ReleaseIsSafe DEF CallsGoHome, WatchGoesHome
  <2>6. ASSUME NEW t \in Tids, ExitWrite(t) \/ ExitUncounted(t)
        PROVE  CallsGoHome' /\ WatchGoesHome'
    <3>1. UNCHANGED <<monitored, watch, misled>> /\ entered' = Without(entered, t)
      BY <2>6 DEF ExitWrite, ExitUncounted, watchVars
    <3>2. CallsGoHome /\ WatchGoesHome
      BY <2>0, <3>1
    <3>3. QED
      BY <3>1, <3>2 DEF CallsGoHome, WatchGoesHome, Without, Restrict
  <2>7. ASSUME NEW p \in Pids, ClearKey(p)
        PROVE  CallsGoHome' /\ WatchGoesHome'
    BY <2>0, <2>7, RemovalIsSafe DEF ClearKey, callVars
  <2>8. ASSUME NEW p \in Pids, FillKey(p)
        PROVE  CallsGoHome' /\ WatchGoesHome'
    <3>1. HomeOf[p] \in Mains /\ Put(p, HomeOf[p], watch) /\ entered' = entered
      BY <2>8 DEF FillKey, callVars
    <3>2. AreWatched(watch, monitored)
      BY DEF TypeInv, WatchType
    <3>3. misled = {}
      BY <3>1, <3>2, PutIn DEF TypeInv, WatchType
    <3>4. \A e \in watch : \A u \in e.by : e.val = HomeOf[PidOf[u]]
      BY <2>0, <3>3 DEF WatchGoesHome
    <3>5. QED
      BY <2>0, <3>1, <3>2, <3>3, <3>4, PutIsSafe
  <2>9. ASSUME Destroy
        PROVE  CallsGoHome' /\ WatchGoesHome'
    BY <2>9 DEF Destroy, CallsGoHome, WatchGoesHome, Empty
  <2>10. QED
    BY <2>1, <2>2, <2>3, <2>4, <2>5, <2>6, <2>7, <2>8, <2>9
       DEF Next, World, Handlers, Exec, ContainerThread, Terminated, vars, callVars, StoppedContainers,
           ContainerStarts, Fork, ThreadStarts, ExitFind, ExitRead, Scan, Oversize, SetPerfMap,
           Cleared, Filled
<1>3. QED
  BY <1>1, <1>2, TypeInvHolds, PTL DEF Spec

\* Whatever is counted is counted for the container it happened in, however long the
\* list of the container thread is under way and whoever forks, as long as no element
\* that a handler of exec or of entry points to has gone to another container.
THEOREM OnlyReuseMisleadsHolds == Spec => []OnlyReuseMisleads
<1>1. HomeInv => OnlyReuseMisleads
  BY DEF HomeInv, OnlyReuseMisleads
<1>2. QED
  BY <1>1, HomeInvHolds, PTL
-----------------------------------------------------------------------------
(***************************************************************************)
(* Counting.  Handlers that have found counters point to one element each, *)
(* and elements that are in the map have different keys.  A handler there  *)
(* between its load and its store has a value that was the counter's, and  *)
(* still is unless another came in between; two handlers there at once     *)
(* make the container overlapped.  None of it holds for an element that a  *)
(* container took while a handler pointed to it.                           *)
(***************************************************************************)
Apart(es) ==
  \A e, f \in es : (e.key = f.key /\ e.key # NoKey) \/ e.by \cap f.by # {} => e = f
Pointers == \A e \in tally : \A t \in e.by : call[t] \in {"exit", "write"}
\* Handlers that count for the container they looked up.
Own(e) == e.key # NoKey /\ e.key \notin reused
OwnCalls == \A e \in tally : Own(e) => \A t \in e.by : t \in DOMAIN entered /\ entered[t] = e.key
WritersFit ==
  \A e \in tally : Own(e) => \A t \in e.by : call[t] = "write" =>
    /\ value[t] <= finished[e.key]
    /\ e.key \notin overlap => value[t] = count[e.key]
WritersApart ==
  \A e \in tally : Own(e) => \A t, u \in e.by :
    call[t] = "write" /\ call[u] = "write" /\ t # u => e.key \in overlap
CountInv == Apart(tally) /\ Pointers /\ OwnCalls /\ WritersFit /\ WritersApart /\ CountsAreExact

\* What leaves the counters and the handlers that have found them alone.
LEMMA CountStays ==
  ASSUME TypeInv, CountInv, UNCHANGED countVars,
         \A t \in Tids : call[t] \in {"exit", "write"} =>
           /\ call'[t] = call[t] /\ value'[t] = value[t]
           /\ t \in DOMAIN entered => t \in DOMAIN entered' /\ entered'[t] = entered[t]
  PROVE  CountInv'
<1>1. UNCHANGED <<count, tally, reused, finished, overlap>>
  BY DEF countVars
<1>2. \A e \in tally : \A t \in e.by :
        /\ t \in Tids /\ call[t] \in {"exit", "write"}
        /\ call'[t] = call[t] /\ value'[t] = value[t]
        /\ t \in DOMAIN entered => t \in DOMAIN entered' /\ entered'[t] = entered[t]
  BY ElementType DEF TypeInv, CountType, CountInv, Pointers
<1>3. Apart(tally)' /\ CountsAreExact' /\ Pointers'
  BY <1>1, <1>2 DEF CountInv, Apart, CountsAreExact, Pointers
<1>4. OwnCalls'
  BY <1>1, <1>2 DEF CountInv, OwnCalls, Own
<1>5. WritersFit' /\ WritersApart'
  BY <1>1, <1>2 DEF CountInv, WritersFit, WritersApart, Own
<1>6. QED
  BY <1>3, <1>4, <1>5 DEF CountInv

\* Fewer pointers into the same elements.
LEMMA ReleasedApart ==
  ASSUME NEW es, Apart(es), NEW t
  PROVE  Apart(Released(es, t))
<1> SUFFICES ASSUME NEW e \in Released(es, t), NEW f \in Released(es, t),
                    (e.key = f.key /\ e.key # NoKey) \/ e.by \cap f.by # {}
             PROVE  e = f
  BY DEF Apart
<1>1. PICK x \in es : e = [by |-> x.by \ {t}, key |-> x.key, val |-> x.val]
  BY ReleasedFrom
<1>2. PICK y \in es : f = [by |-> y.by \ {t}, key |-> y.key, val |-> y.val]
  BY ReleasedFrom
<1>3. (x.key = y.key /\ x.key # NoKey) \/ x.by \cap y.by # {}
  BY <1>1, <1>2
<1>4. x = y
  BY <1>3 DEF Apart
<1>5. QED
  BY <1>1, <1>2, <1>4

LEMMA ExitFindCounts ==
  ASSUME TypeInv, CountInv, NEW t \in Tids, ExitFind(t)
  PROVE  CountInv'
<1> DEFINE m == entered[t]
<1>1. /\ call[t] = "in" /\ t \in DOMAIN entered /\ m \in DOMAIN count
      /\ call' = [call EXCEPT ![t] = "exit"] /\ tally' = Pointing(tally, t, m, 0)
      /\ UNCHANGED <<value, entered, count, reused, finished, overlap>>
  BY DEF ExitFind, callVars
<1>2. m # NoKey
  BY <1>1, BpfAssumption DEF TypeInv, CountType
<1>3. \A e \in tally : t \notin e.by
  BY <1>1 DEF CountInv, Pointers
<1>4. \A u \in Tids : call'[u] = IF u = t THEN "exit" ELSE call[u]
  BY <1>1 DEF TypeInv, CallType
<1>5. ASSUME NEW e \in tally'
      PROVE  \/ e \in tally /\ e.key # m
             \/ /\ e.key = m /\ t \in e.by
                /\ \A u \in e.by \ {t} : \E x \in tally : x.key = m /\ u \in x.by
  BY <1>1, Pointed
<1> HIDE DEF m
<1>b. \A e \in tally' : e.by \subseteq Tids
  <2>1. tally' \subseteq Elements(Mains, Nat)
    BY <1>1, PointingType DEF m, TypeInv, CountType
  <2>2. QED
    BY <2>1, ElementType
<1>6. Apart(tally')
  <2> SUFFICES ASSUME NEW e \in tally', NEW f \in tally',
                      (e.key = f.key /\ e.key # NoKey) \/ e.by \cap f.by # {}
               PROVE  e = f
    BY DEF Apart
  <2>1. CASE e \in tally /\ f \in tally
    BY <2>1 DEF CountInv, Apart
  <2>2. ASSUME NEW g \in tally', g.key = m, NEW h \in tally, h.key # m
        PROVE  g.by \cap h.by = {}
    <3> SUFFICES ASSUME NEW u \in g.by, u \in h.by
                 PROVE  FALSE
      OBVIOUS
    <3>1. u # t
      BY <1>3
    <3>2. PICK x \in tally : x.key = m /\ u \in x.by
      BY <1>5, <2>2, <3>1
    <3>3. x = h
      BY <3>2 DEF CountInv, Apart
    <3>4. QED
      BY <2>2, <3>2, <3>3
  <2>3. CASE e.key = m /\ f.key = m
    <3>1. \A g \in tally' : g.key = m =>
            g = [by |-> {t} \cup UNION {x.by : x \in {y \in tally : y.key = m}}, key |-> m, val |-> 0]
      BY <1>1 DEF Pointing
    <3>2. QED
      BY <2>3, <3>1
  <2>4. QED
    BY <1>5, <2>1, <2>2, <2>3
<1>7. ASSUME NEW e \in tally', NEW u \in e.by, u # t
      PROVE  \E x \in tally : x.key = e.key /\ u \in x.by
  BY <1>5, <1>7
<1>8. Pointers' /\ OwnCalls'
  <2>1. Pointers'
    BY <1>4, <1>7, <1>b DEF CountInv, Pointers
  <2>2. OwnCalls'
    BY <1>1, <1>5, <1>7 DEF CountInv, OwnCalls, Own, m
  <2>3. QED
    BY <2>1, <2>2
<1>9. WritersFit'
  BY <1>1, <1>4, <1>7, <1>b DEF CountInv, WritersFit, Own
<1>10. WritersApart'
  <2> SUFFICES ASSUME NEW e \in tally', Own(e)', NEW u \in e.by, NEW w \in e.by,
                      call'[u] = "write", call'[w] = "write", u # w
               PROVE  e.key \in overlap'
    BY DEF WritersApart
  <2>1. u # t /\ w # t /\ call[u] = "write" /\ call[w] = "write"
    BY <1>4, <1>b
  <2>2. PICK x \in tally : x.key = e.key /\ u \in x.by
    BY <1>7, <2>1
  <2>3. PICK y \in tally : y.key = e.key /\ w \in y.by
    BY <1>7, <2>1
  <2>4. x = y /\ Own(x)
    BY <1>1, <2>2, <2>3 DEF CountInv, Apart, Own
  <2>5. QED
    BY <1>1, <2>1, <2>2, <2>3, <2>4 DEF CountInv, WritersApart
<1>11. CountsAreExact'
  BY <1>1 DEF CountInv, CountsAreExact
<1>12. QED
  BY <1>6, <1>8, <1>9, <1>10, <1>11 DEF CountInv

LEMMA ExitReadCounts ==
  ASSUME TypeInv, CountInv, NEW t \in Tids, ExitRead(t)
  PROVE  CountInv'
<1>1. /\ call[t] = "exit" /\ call' = [call EXCEPT ![t] = "write"]
      /\ UNCHANGED <<entered, count, tally, reused, finished>>
  BY DEF ExitRead
<1>2. PICK e \in tally :
        /\ t \in e.by
        /\ value' = [value EXCEPT ![t] = IF e.key = NoKey THEN e.val ELSE count[e.key]]
        /\ overlap' = IF e.key # NoKey /\ \E u \in e.by : call[u] = "write"
                      THEN overlap \cup {e.key} ELSE overlap
  BY DEF ExitRead
<1>3. call'[t] = "write" /\ \A u \in Tids \ {t} : call'[u] = call[u] /\ value'[u] = value[u]
  <2>1. call \in [Tids -> Steps] /\ value \in [Tids -> Nat]
    BY DEF TypeInv, CallType
  <2>2. call'[t] = "write" /\ \A u \in Tids \ {t} : call'[u] = call[u]
    BY <1>1, <2>1
  <2>3. \A u \in Tids \ {t} : value'[u] = value[u]
    BY <1>2, <2>1
  <2>4. QED
    BY <2>2, <2>3
<1>4. overlap \subseteq overlap' /\ \A f \in tally : t \in f.by => f = e
  BY <1>2 DEF CountInv, Apart
<1>b. \A f \in tally : f.by \subseteq Tids
  BY ElementType DEF TypeInv, CountType
<1>5. WritersFit'
  <2> SUFFICES ASSUME NEW f \in tally, Own(f), NEW u \in f.by, call'[u] = "write"
               PROVE  /\ value'[u] <= finished[f.key]
                      /\ f.key \notin overlap' => value'[u] = count[f.key]
    BY <1>1 DEF WritersFit, Own
  <2>1. CASE u = t
    <3>1. f = e /\ value'[t] = count[f.key] /\ f.key \in DOMAIN count
      BY <1>2, <1>4, <2>1 DEF Own, TypeInv, CallType, CountType
    <3>2. count[f.key] <= finished[f.key]
      BY <3>1 DEF Own, CountInv, CountsAreExact
    <3>3. QED
      BY <2>1, <3>1, <3>2
  <2>2. CASE u # t
    <3>1. u \in Tids \ {t}
      BY <1>b, <2>2
    <3>2. call[u] = "write" /\ value'[u] = value[u]
      BY <1>3, <3>1
    <3>3. value[u] <= finished[f.key] /\ (f.key \notin overlap => value[u] = count[f.key])
      BY <3>2 DEF CountInv, WritersFit
    <3>4. QED
      BY <1>4, <3>2, <3>3
  <2>3. QED
    BY <2>1, <2>2
<1>6. WritersApart'
  <2> SUFFICES ASSUME NEW f \in tally, Own(f), NEW u \in f.by, NEW w \in f.by,
                      call'[u] = "write", call'[w] = "write", u # w
               PROVE  f.key \in overlap'
    BY <1>1 DEF WritersApart, Own
  <2>1. CASE u # t /\ w # t
    <3>1. u \in Tids \ {t} /\ w \in Tids \ {t}
      BY <1>b, <2>1
    <3>2. call[u] = "write" /\ call[w] = "write"
      BY <1>3, <3>1
    <3>3. QED
      BY <1>4, <3>2 DEF CountInv, WritersApart
  <2>2. CASE u = t \/ w = t
    <3>0. f = e /\ f.key # NoKey
      BY <1>4, <2>2 DEF Own
    <3>1. \E x \in e.by : call[x] = "write"
      <4>1. u \in Tids /\ w \in Tids
        BY <1>b
      <4>2. CASE u = t
        BY <1>3, <3>0, <4>1, <4>2
      <4>3. CASE w = t
        BY <1>3, <3>0, <4>1, <4>3
      <4>4. QED
        BY <2>2, <4>2, <4>3
    <3>2. QED
      BY <1>2, <3>0, <3>1
  <2>3. QED
    BY <2>1, <2>2
<1>7. Pointers' /\ OwnCalls' /\ Apart(tally)' /\ CountsAreExact'
  <2>1. Pointers'
    BY <1>1, <1>3, <1>b DEF CountInv, Pointers
  <2>2. OwnCalls'
    BY <1>1 DEF CountInv, OwnCalls, Own
  <2>3. Apart(tally)' /\ CountsAreExact'
    BY <1>1, <1>4 DEF CountInv, Apart, CountsAreExact
  <2>4. QED
    BY <2>1, <2>2, <2>3
<1>8. QED
  BY <1>5, <1>6, <1>7 DEF CountInv

\* Storing changes one counter, and only the value of the handler that is done.
LEMMA ExitWriteCounts ==
  ASSUME TypeInv, CountInv, NEW t \in Tids, ExitWrite(t)
  PROVE  CountInv'
<1>1. /\ call[t] = "write" /\ call' = [call EXCEPT ![t] = "none"]
      /\ value' = [value EXCEPT ![t] = 0] /\ entered' = Without(entered, t)
      /\ UNCHANGED <<reused, overlap>>
  BY DEF ExitWrite
<1>2. \A u \in Tids \ {t} : /\ call'[u] = call[u] /\ value'[u] = value[u]
                            /\ u \in DOMAIN entered => u \in DOMAIN entered' /\ entered'[u] = entered[u]
  BY <1>1, Lost DEF TypeInv, CallType
<1>b. \A f \in tally : f.by \subseteq Tids
  BY ElementType DEF TypeInv, CountType
<1>3. ASSUME NEW es, Apart(es), tally' = Released(es, t),
             \A x \in es : x \in tally \/ (x.key = NoKey /\ \E y \in tally : x.by = y.by)
      PROVE  /\ Apart(tally)' /\ Pointers' /\ OwnCalls'
             /\ \A f \in tally' : Own(f)' =>
                  \E x \in tally : f.key = x.key /\ Own(x) /\ f.by = x.by \ {t}
  <2>1. \A f \in tally' : \E x \in es : f = [by |-> x.by \ {t}, key |-> x.key, val |-> x.val]
    BY <1>3, ReleasedFrom
  <2>2. \A f \in tally' : \E y \in tally : f.by = y.by \ {t} /\ (f.key # NoKey => f.key = y.key)
    BY <1>3, <2>1
  <2>3. Apart(tally)'
    BY <1>3, ReleasedApart DEF Apart
  <2>4. Pointers'
    BY <1>2, <1>b, <2>2 DEF CountInv, Pointers
  <2>5. \A f \in tally' : Own(f)' =>
          \E x \in tally : f.key = x.key /\ Own(x) /\ f.by = x.by \ {t}
    BY <1>1, <2>2 DEF Own
  <2>6. OwnCalls'
    BY <1>2, <1>b, <2>5 DEF CountInv, OwnCalls
  <2>7. QED
    BY <2>3, <2>4, <2>5, <2>6
<1>4. ASSUME NEW e \in tally, t \in e.by, e.key = NoKey,
             tally' = Released(TakenFor(tally, e, NoKey, value[t] + 1), t), UNCHANGED <<count, finished>>
      PROVE  CountInv'
  <2> DEFINE es == TakenFor(tally, e, NoKey, value[t] + 1)
  <2>1. \A x \in es : x \in tally \ {e} \/ x = [by |-> e.by, key |-> NoKey, val |-> value[t] + 1]
    BY DEF TakenFor
  <2>2. Apart(es)
    <3> SUFFICES ASSUME NEW x \in es, NEW y \in es,
                        (x.key = y.key /\ x.key # NoKey) \/ x.by \cap y.by # {}
                 PROVE  x = y
      BY DEF Apart
    <3>1. CASE x \in tally \ {e} /\ y \in tally \ {e}
      BY <3>1 DEF CountInv, Apart
    <3>2. ASSUME NEW z \in tally \ {e}
          PROVE  z.by \cap e.by = {}
      BY <3>2 DEF CountInv, Apart
    <3>3. QED
      BY <2>1, <3>1, <3>2
  <2>3. \A x \in es : x \in tally \/ (x.key = NoKey /\ \E y \in tally : x.by = y.by)
    BY <2>1
  <2> HIDE DEF es
  <2>4. /\ Apart(tally)' /\ Pointers' /\ OwnCalls'
        /\ \A f \in tally' : Own(f)' =>
             \E x \in tally : f.key = x.key /\ Own(x) /\ f.by = x.by \ {t}
    BY <1>3, <1>4, <2>2, <2>3 DEF es
  <2>5. WritersFit' /\ WritersApart'
    <3>1. WritersFit'
      BY <1>1, <1>2, <1>4, <1>b, <2>4 DEF CountInv, WritersFit
    <3>2. WritersApart'
      BY <1>1, <1>2, <1>b, <2>4 DEF CountInv, WritersApart
    <3>3. QED
      BY <3>1, <3>2
  <2>6. CountsAreExact'
    BY <1>1, <1>4 DEF CountInv, CountsAreExact
  <2>7. QED
    BY <2>4, <2>5, <2>6 DEF CountInv
<1>5. ASSUME NEW e \in tally, t \in e.by, e.key # NoKey, tally' = Released(tally, t),
             count' = [count EXCEPT ![e.key] = value[t] + 1],
             finished' = IF entered[t] = e.key
                         THEN [finished EXCEPT ![e.key] = finished[e.key] + 1] ELSE finished
      PROVE  CountInv'
  <2> DEFINE m == e.key
  <2>1. /\ m \in DOMAIN count /\ m \in Mains /\ value[t] \in Nat /\ finished \in [Mains -> Nat]
        /\ \A n \in DOMAIN count : count[n] \in Nat
    BY <1>5 DEF TypeInv, CallType, CountType, Range
  <2>2. /\ Apart(tally)' /\ Pointers' /\ OwnCalls'
        /\ \A f \in tally' : Own(f)' =>
             \E x \in tally : f.key = x.key /\ Own(x) /\ f.by = x.by \ {t}
    BY <1>3, <1>5 DEF CountInv
  <2>3. ASSUME m \notin reused
        PROVE  /\ finished' = [finished EXCEPT ![m] = finished[m] + 1]
               /\ value[t] <= finished[m]
               /\ m \notin overlap => value[t] = count[m] /\ count[m] = finished[m]
    <3>1. Own(e) /\ entered[t] = m
      BY <1>5, <2>3 DEF CountInv, OwnCalls, Own
    <3>2. QED
      BY <1>1, <1>5, <2>1, <2>3, <3>1 DEF CountInv, WritersFit, CountsAreExact
  <2>4. CountsAreExact'
    <3> SUFFICES ASSUME NEW n \in DOMAIN count, n \notin reused
                 PROVE  /\ count'[n] <= finished'[n]
                        /\ n \notin overlap => count'[n] = finished'[n]
      BY <1>1, <1>5 DEF CountsAreExact
    <3>1. CASE n = m
      BY <1>5, <2>1, <2>3, <3>1
    <3>2. CASE n # m
      <4>1. count'[n] = count[n] /\ finished'[n] = finished[n]
        BY <1>5, <2>1, <3>2 DEF TypeInv, CountType
      <4>2. QED
        BY <4>1 DEF CountInv, CountsAreExact
    <3>3. QED
      BY <3>1, <3>2
  <2>5. WritersApart'
    BY <1>1, <1>2, <1>b, <2>2 DEF CountInv, WritersApart
  <2>6. WritersFit'
    <3> SUFFICES ASSUME NEW x \in tally, Own(x), NEW u \in x.by, u # t, call[u] = "write"
                 PROVE  /\ value[u] <= finished'[x.key]
                        /\ x.key \notin overlap => value[u] = count'[x.key]
      BY <1>1, <1>2, <1>b, <2>2 DEF WritersFit
    <3>0. /\ u \in Tids /\ value[u] \in Nat /\ x.key \in DOMAIN count /\ x.key \in Mains
          /\ value[u] <= finished[x.key]
          /\ x.key \notin overlap => value[u] = count[x.key]
      BY <1>b DEF TypeInv, CallType, CountType, CountInv, WritersFit, Own
    <3>1. CASE x.key = m
      <4>1. x = e
        BY <1>5, <3>1 DEF CountInv, Apart
      <4>2. m \in overlap
        BY <1>1, <1>5, <4>1 DEF CountInv, WritersApart
      <4>3. finished'[m] = finished[m] + 1
        BY <2>1, <2>3, <4>1 DEF Own
      <4>4. QED
        BY <2>1, <3>0, <3>1, <4>2, <4>3
    <3>2. CASE x.key # m
      <4>1. count'[x.key] = count[x.key] /\ finished'[x.key] = finished[x.key]
        BY <1>5, <2>1, <3>0, <3>2 DEF TypeInv, CountType
      <4>2. QED
        BY <3>0, <4>1
    <3>3. QED
      BY <3>1, <3>2
  <2>7. QED
    BY <2>2, <2>4, <2>5, <2>6 DEF CountInv
<1>6. QED
  BY <1>4, <1>5 DEF ExitWrite

\* The elements that are left to containers that stay keep their key and their handlers;
\* those that are taken are of containers in reused.
LEMMA SetPerfMapCounts ==
  ASSUME TypeInv, CountInv, SetPerfMap
  PROVE  CountInv'
<1> DEFINE gone == DOMAIN count \ list.mains
           new == list.mains \ DOMAIN count
           D == Dropped(gone)
<1>1. UNCHANGED <<list, call, value, entered>>
  BY DEF SetPerfMap, callVars
<1>2. CASE UNCHANGED countVars
  BY <1>1, <1>2, CountStays
<1>3. ASSUME count' = KeptCounts, NEW g \in Takings(new, D), tally' = TakenBy(new, D, g),
             reused' = (reused \ new) \cup {m \in new : g[m] # NoKey},
             finished' = [m \in Mains |-> IF m \in new THEN 0 ELSE finished[m]],
             overlap' = overlap \ new
      PROVE  CountInv'
  <2>1. list.mains \subseteq Mains /\ NoKey \notin Mains
    BY BpfAssumption DEF TypeInv, UserType, List
  <2>2. /\ DOMAIN count' = list.mains
        /\ \A m \in list.mains \cap DOMAIN count :
             count'[m] = count[m] /\ finished'[m] = finished[m] /\ (m \in overlap' <=> m \in overlap)
        /\ \A m \in new : count'[m] = 0 /\ finished'[m] = 0
    BY <1>3, <2>1 DEF KeptCounts
  <2>3. \A e \in D : \E x \in tally :
          \/ x.key \in gone /\ e = [by |-> x.by, key |-> NoKey, val |-> count[x.key]]
          \/ x.key \notin gone /\ e = x
    BY DroppedFrom
  <2>4. \A e \in D : e.key # NoKey => e \in tally /\ e.key \in list.mains \cap DOMAIN count
    <3> SUFFICES ASSUME NEW e \in D, e.key # NoKey
                 PROVE  e \in tally /\ e.key \in list.mains \cap DOMAIN count
      OBVIOUS
    <3>1. e \in tally /\ e.key \notin gone
      BY <2>3
    <3>2. e.key \in DOMAIN count
      BY <3>1 DEF TypeInv, CountType
    <3>3. QED
      BY <3>1, <3>2
  <2>5. \A e \in tally' :
          \/ e \in D /\ \A m \in new : g[m] # e
          \/ \E m \in new : /\ g[m] # NoKey /\ g[m] \in D
                            /\ e = [by |-> g[m].by, key |-> m, val |-> 0]
    <3> SUFFICES ASSUME NEW e \in tally'
                 PROVE  \/ e \in D /\ \A m \in new : g[m] # e
                        \/ \E m \in new : /\ g[m] # NoKey /\ g[m] \in D
                                          /\ e = [by |-> g[m].by, key |-> m, val |-> 0]
      OBVIOUS
    <3>1. e \in TakenBy(new, D, g)
      BY <1>3
    <3> HIDE DEF new, D
    <3>2. QED
      BY <3>1, TakenByFrom
  <2>6. \A m, n \in new : g[m] = g[n] => m = n \/ g[m] = NoKey
    BY DEF Takings
  <2> HIDE DEF D
  <2>7. Apart(D)
    <3> SUFFICES ASSUME NEW e \in D, NEW f \in D, (e.key = f.key /\ e.key # NoKey) \/ e.by \cap f.by # {}
                 PROVE  e = f
      BY DEF Apart
    <3>1. CASE e.key = f.key /\ e.key # NoKey
      BY <2>4, <3>1 DEF CountInv, Apart
    <3>2. CASE e.by \cap f.by # {}
      <4>1. PICK x \in tally :
              \/ x.key \in gone /\ e = [by |-> x.by, key |-> NoKey, val |-> count[x.key]]
              \/ x.key \notin gone /\ e = x
        BY <2>3
      <4>2. PICK y \in tally :
              \/ y.key \in gone /\ f = [by |-> y.by, key |-> NoKey, val |-> count[y.key]]
              \/ y.key \notin gone /\ f = y
        BY <2>3
      <4>3. x.by \cap y.by # {}
        BY <3>2, <4>1, <4>2
      <4>4. x = y
        BY <4>3 DEF CountInv, Apart
      <4>5. QED
        BY <4>1, <4>2, <4>4
    <3>3. QED
      BY <3>1, <3>2
  <2>8. Apart(tally')
    <3> SUFFICES ASSUME NEW e \in tally', NEW f \in tally',
                        (e.key = f.key /\ e.key # NoKey) \/ e.by \cap f.by # {}
                 PROVE  e = f
      BY DEF Apart
    <3>1. ASSUME NEW x \in D, \A m \in new : g[m] # x, NEW n \in new, g[n] \in D
          PROVE  x.key # n /\ x.by \cap g[n].by = {}
      <4>1. x.key # n
        BY <2>1, <2>4
      <4>2. x.by \cap g[n].by = {}
        BY <2>7, <3>1 DEF Apart
      <4>3. QED
        BY <4>1, <4>2
    <3>2. CASE e \in D /\ f \in D
      BY <2>7, <3>2 DEF Apart
    <3>3. CASE e \in D /\ (\A m \in new : g[m] # e) /\ f \notin D
      BY <2>5, <3>1, <3>3
    <3>4. CASE f \in D /\ (\A m \in new : g[m] # f) /\ e \notin D
      BY <2>5, <3>1, <3>4
    <3>5. ASSUME NEW m \in new, g[m] # NoKey, g[m] \in D, e = [by |-> g[m].by, key |-> m, val |-> 0],
                 NEW n \in new, g[n] # NoKey, g[n] \in D, f = [by |-> g[n].by, key |-> n, val |-> 0]
          PROVE  e = f
      <4>1. CASE m = n
        BY <3>5, <4>1
      <4>2. CASE g[m].by \cap g[n].by # {}
        <5>1. g[m] = g[n]
          BY <2>7, <3>5, <4>2 DEF Apart
        <5>2. QED
          BY <2>6, <3>5, <4>1, <5>1
      <4>3. QED
        BY <3>5, <4>1, <4>2
    <3>6. QED
      BY <2>5, <3>2, <3>3, <3>4, <3>5
  <2>9. Pointers'
    <3>1. \A e \in D : \E x \in tally : e.by = x.by
      BY <2>3
    <3>2. \A e \in tally' : \E x \in tally : e.by = x.by
      BY <2>5, <3>1
    <3>3. QED
      BY <1>1, <3>2 DEF CountInv, Pointers
  <2>10. ASSUME NEW e \in tally', Own(e)'
         PROVE  e \in tally /\ Own(e) /\ e.key \in list.mains \cap DOMAIN count
    <3>1. e.key # NoKey /\ e.key \notin reused'
      BY <2>10 DEF Own
    <3>2. e \in D
      <4>1. ASSUME NEW m \in new, g[m] # NoKey
            PROVE  m \in reused'
        BY <1>3, <4>1
      <4>2. QED
        BY <2>5, <3>1, <4>1
    <3>3. QED
      BY <1>3, <2>4, <3>1, <3>2 DEF Own
  <2>11. OwnCalls'
    BY <1>1, <2>10 DEF CountInv, OwnCalls
  <2>12. WritersFit'
    BY <1>1, <2>2, <2>10 DEF CountInv, WritersFit
  <2>13. WritersApart'
    BY <1>1, <2>2, <2>10 DEF CountInv, WritersApart
  <2>14. CountsAreExact'
    BY <1>3, <2>2 DEF CountInv, CountsAreExact
  <2>15. QED
    BY <2>8, <2>9, <2>11, <2>12, <2>13, <2>14 DEF CountInv
<1>4. QED
  BY <1>2, <1>3 DEF SetPerfMap

\* A counter never exceeds the calls of its container that were counted since it came
\* into the map, through sweeps, deaths, failures of docker and late handlers, unless it
\* took an element that a handler of a container before it was counting in; and it is
\* exact unless two handlers were counting for the container at once.
THEOREM CountsAreExactHolds == Spec => []CountsAreExact
<1>1. Init => CountInv
  BY DEF Init, CountInv, Apart, Pointers, OwnCalls, WritersFit, WritersApart, CountsAreExact, Empty
<1>2. TypeInv /\ CountInv /\ [Next]_vars => CountInv'
  <2> SUFFICES ASSUME TypeInv, CountInv, [Next]_vars
               PROVE  CountInv'
    OBVIOUS
  <2>1. ASSUME UNCHANGED <<call, callVars, countVars>>
        PROVE  CountInv'
    BY <2>1, CountStays DEF callVars
  <2>2. ASSUME NEW t \in Tids, call[t] \notin {"exit", "write"}, UNCHANGED <<value, countVars>>,
               \/ call' = call
               \/ \E step \in {"none", "fork", "exec", "enter", "in"} : call' = [call EXCEPT ![t] = step],
               \A u \in DOMAIN entered \ {t} : u \in DOMAIN entered' /\ entered'[u] = entered[u]
        PROVE  CountInv'
    <3>1. ASSUME NEW u \in Tids, call[u] \in {"exit", "write"}
          PROVE  /\ call'[u] = call[u] /\ value'[u] = value[u]
                 /\ u \in DOMAIN entered => u \in DOMAIN entered' /\ entered'[u] = entered[u]
      BY <2>2, <3>1 DEF TypeInv, CallType
    <3>2. QED
      BY <2>2, <3>1, CountStays
  <2>3. ASSUME NEW t \in Tids, ContainerStarts(t) \/ Fork(t) \/ ThreadStarts(t)
        PROVE  CountInv'
    <3>1. CASE Fork(t)
      <4>1. call[t] = "none"
        BY <3>1 DEF Fork, TypeInv, WorldType, CallType
      <4>2. QED
        BY <2>2, <3>1, <4>1 DEF Fork, callVars
    <3>2. QED
      BY <2>1, <2>3, <3>1 DEF ContainerStarts, ThreadStarts
  <2>4. ASSUME NEW t \in Tids, ExecLookup(t) \/ ExecUpdate(t) \/ EnterLookup(t)
        PROVE  CountInv'
    BY <2>2, <2>4 DEF ExecLookup, ExecUpdate, EnterLookup, callVars
  <2>5. ASSUME NEW t \in Tids, EnterNote(t) \/ ExitUncounted(t)
        PROVE  CountInv'
    <3>1. /\ call[t] \notin {"exit", "write"} /\ UNCHANGED <<value, countVars>>
          /\ call' = [call EXCEPT ![t] = "in"] \/ call' = [call EXCEPT ![t] = "none"]
      BY <2>5 DEF EnterNote, ExitUncounted
    <3>2. \A u \in DOMAIN entered \ {t} : u \in DOMAIN entered' /\ entered'[u] = entered[u]
      <4>1. CASE EnterNote(t)
        BY <4>1, Taken DEF EnterNote
      <4>2. CASE ExitUncounted(t)
        BY <4>2, Lost DEF ExitUncounted
      <4>3. QED
        BY <2>5, <4>1, <4>2
    <3>3. CASE call' = [call EXCEPT ![t] = "in"]
      BY <2>2, <3>1, <3>2, <3>3
    <3>4. CASE call' = [call EXCEPT ![t] = "none"]
      BY <2>2, <3>1, <3>2, <3>4
    <3>5. QED
      BY <3>1, <3>3, <3>4
  <2>6. ASSUME Destroy
        PROVE  CountInv'
    BY <2>6 DEF Destroy, CountInv, Apart, Pointers, OwnCalls, WritersFit, WritersApart, CountsAreExact,
                Empty
  <2>7. QED
    BY <2>1, <2>3, <2>4, <2>5, <2>6, ExitFindCounts, ExitReadCounts, ExitWriteCounts, SetPerfMapCounts
       DEF Next, World, Handlers, Exec, ContainerThread, Terminated, vars, StoppedContainers,
           HandleExit, Scan, Oversize, ClearKey, Cleared, FillKey, Filled
<1>3. CountInv => CountsAreExact
  BY DEF CountInv
<1>4. QED
  BY <1>1, <1>2, <1>3, TypeInvHolds, PTL DEF Spec
-----------------------------------------------------------------------------
(***************************************************************************)
(* Watched processes and counted containers.  A main process that has      *)
(* ended never comes back, so what a late handler or an old list writes is *)
(* harmless when its container is counted or has ended; that holds of what *)
(* is in an element whichever key it was for.                              *)
(***************************************************************************)
Ended == {m \in Mains : (\E u \in born : PidOf[u] = m) /\ ~Alive(m)}
Known == DOMAIN count \cup Ended
Started == {PidOf[u] : u \in born}

ListIsWhole ==
  /\ DOMAIN count \cup list.mains \subseteq Started
  /\ \A p \in list.procs : HomeOf[p] \in list.mains
WatchedKnown ==
  /\ \A p \in DOMAIN monitored : monitored[p] \in Known
  /\ \A e \in watch : e.val \in Known
ListKnows ==
  /\ pc = "perf" => DOMAIN count \subseteq list.mains \cup Ended
  /\ pc \in {"clear", "fill"} => \A p \in list.procs : HomeOf[p] \in Known
WatchInv == ListIsWhole /\ (~failed => WatchedKnown /\ ListKnows)

\* A container ends for good.
LEMMA EndedStay ==
  ASSUME TypeInv, [Next]_vars
  PROVE  Ended \subseteq Ended' /\ Started \subseteq Started'
<1> USE BpfAssumption
<1>1. ASSUME NEW t \in Tids, ContainerStarts(t) \/ Fork(t) \/ ThreadStarts(t)
      PROVE  Ended \subseteq Ended' /\ Started \subseteq Started'
  <2>1. born' = born \cup {t} /\ alive' = alive \cup {t}
    BY <1>1 DEF ContainerStarts, Fork, ThreadStarts
  <2>2. PidOf[t] \notin Ended
    BY <1>1 DEF Ended, ContainerStarts, Fork, ThreadStarts
  <2>3. QED
    BY <2>1, <2>2 DEF Ended, Started, Alive
<1>2. CASE born' = born /\ alive' \subseteq alive
  BY <1>2 DEF Ended, Started, Alive
<1>3. CASE \E t \in Tids : HandleExit(t)
  BY <1>2, <1>3 DEF HandleExit
<1>4. QED
  BY <1>1, <1>2, <1>3
     DEF Next, vars, worldVars, World, Handlers, ContainerThread, Terminated, StoppedContainers,
         Exec, ExecLookup, ExecUpdate, EnterLookup, EnterNote, ExitFind, ExitRead, ExitWrite,
         ExitUncounted, Scan, Oversize, SetPerfMap, ClearKey, Cleared, FillKey, Filled, Destroy

\* What leaves the counted containers, the list and the thread alone, and adds nothing to
\* the processes' map and to what handlers see, keeps the invariant.
LEMMA GoingIsSafe ==
  ASSUME TypeInv, WatchInv, [Next]_vars,
         DOMAIN count' = DOMAIN count, UNCHANGED <<pc, list, failed>>,
         ~failed /\ WatchedKnown /\ ListKnows =>
           /\ \A p \in DOMAIN monitored' : monitored'[p] \in Known
           /\ \A e \in watch' : e.val \in Known
  PROVE  WatchInv'
<1>1. Known \subseteq Known' /\ Ended \subseteq Ended' /\ Started \subseteq Started'
  BY EndedStay DEF Known
<1>2. ListIsWhole'
  BY <1>1 DEF WatchInv, ListIsWhole
<1>3. ASSUME ~failed'
      PROVE  WatchedKnown' /\ ListKnows'
  <2>1. WatchedKnown /\ ListKnows
    BY <1>3 DEF WatchInv
  <2>2. WatchedKnown'
    BY <1>1, <1>3, <2>1 DEF WatchedKnown
  <2>3. ListKnows'
    BY <1>1, <2>1 DEF ListKnows
  <2>4. QED
    BY <2>2, <2>3
<1>4. QED
  BY <1>2, <1>3 DEF WatchInv

LEMMA LookupWatches ==
  ASSUME TypeInv, WatchInv, [Next]_vars, NEW t \in Tids, ExecLookup(t) \/ EnterLookup(t)
  PROVE  WatchInv'
<1>1. UNCHANGED <<monitored, count, pc, list, failed>>
  BY DEF ExecLookup, EnterLookup, countVars, userVars, faultVars
<1>2. ASSUME WatchedKnown, NEW e \in watch'
      PROVE  e.val \in Known
  <2>1. CASE watch' = watch
    BY <1>2, <2>1 DEF WatchedKnown
  <2>2. ASSUME NEW p \in DOMAIN monitored, watch' = Pointing(watch, t, p, monitored[p])
        PROVE  e.val \in Known
    <3>1. e \in watch \/ e.val = monitored[p]
      BY <1>2, <2>2, Pointed
    <3>2. QED
      BY <1>2, <3>1 DEF WatchedKnown
  <2>3. QED
    BY <2>1, <2>2 DEF ExecLookup, EnterLookup
<1>3. WatchedKnown => \A p \in DOMAIN monitored' : monitored'[p] \in Known
  BY <1>1 DEF WatchedKnown
<1>4. QED
  BY <1>1, <1>2, <1>3, GoingIsSafe

LEMMA PutWatches ==
  ASSUME TypeInv, WatchInv, [Next]_vars, DOMAIN count' = DOMAIN count, UNCHANGED <<pc, list, failed>>,
         NEW k \in Pids, NEW v \in Mains, NEW STATE es, Put(k, v, es),
         AreWatched(es, monitored), \A e \in es : \E x \in watch : e.val = x.val,
         ~failed /\ WatchedKnown /\ ListKnows => v \in Known
  PROVE  WatchInv'
<1>1. /\ \A x \in DOMAIN monitored' :
           \/ x = k /\ monitored'[x] = v
           \/ x \in DOMAIN monitored /\ monitored'[x] = monitored[x]
      /\ \A e \in watch' : \E x \in es : e.val = x.val \/ e.val = v
  BY PutIn DEF TypeInv, WatchType
<1>2. ASSUME ~failed, WatchedKnown, ListKnows
      PROVE  /\ \A p \in DOMAIN monitored' : monitored'[p] \in Known
             /\ \A e \in watch' : e.val \in Known
  <2>1. v \in Known
    BY <1>2
  <2>2. QED
    BY <1>1, <1>2, <2>1 DEF WatchedKnown
<1>3. QED
  BY <1>2, GoingIsSafe

LEMMA ReleaseWatches ==
  ASSUME NEW t
  PROVE  \A e \in Released(watch, t) : \E x \in watch : e.val = x.val
<1> SUFFICES ASSUME NEW e \in Released(watch, t)
             PROVE  \E x \in watch : e.val = x.val
  OBVIOUS
<1>1. PICK x \in watch : e = [by |-> x.by \ {t}, key |-> x.key, val |-> x.val]
  BY ReleasedFrom
<1>2. QED
  BY <1>1

LEMMA RemovalWatches ==
  ASSUME TypeInv, WatchInv, [Next]_vars, DOMAIN count' = DOMAIN count, UNCHANGED <<pc, list, failed>>,
         NEW k, monitored' = Without(monitored, k), watch' = Freed(watch, k)
  PROVE  WatchInv'
<1>1. \A p \in DOMAIN monitored' : p \in DOMAIN monitored /\ monitored'[p] = monitored[p]
  BY DEF Without, Restrict
<1>2. \A e \in watch' : \E x \in watch : e.val = x.val
  BY FreedFrom
<1>3. WatchedKnown => /\ \A p \in DOMAIN monitored' : monitored'[p] \in Known
                      /\ \A e \in watch' : e.val \in Known
  BY <1>1, <1>2 DEF WatchedKnown
<1>4. QED
  BY <1>3, GoingIsSafe

\* The list of a sweep holds every container that runs, with those its processes are
\* of; when docker ps fails it is empty, and nothing is claimed from then on.
LEMMA ScanWatches ==
  ASSUME TypeInv, WatchInv, [Next]_vars, Scan
  PROVE  WatchInv'
<1> USE BpfAssumption
<1>1. /\ Known \subseteq Known' /\ Ended' = Ended /\ Started' = Started
      /\ pc' = "perf" /\ UNCHANGED <<monitored, watch, count, alive, born>>
  BY EndedStay DEF Known, Ended, Started, Alive, Scan, worldVars, watchVars, countVars
<1>2. CASE list' = Nothing /\ failed' = TRUE
  BY <1>1, <1>2 DEF WatchInv, ListIsWhole, Nothing
<1>3. CASE /\ list'.mains = {m \in Mains : Alive(m)}
           /\ list'.procs = {p \in Pids : Alive(p) /\ Alive(HomeOf[p])}
           /\ failed' = failed
  <2>1. \A m \in Mains : Alive(m) => m \in Started
    BY DEF Alive, Started, TypeInv, WorldType
  <2>2. ListIsWhole'
    BY <1>1, <1>3, <2>1 DEF WatchInv, ListIsWhole
  <2>3. \A m \in Mains \cap Started : m \in list'.mains \cup Ended
    BY <1>3 DEF Ended, Started
  <2>4. DOMAIN count \subseteq Mains
    BY DEF TypeInv, CountType
  <2>5. ASSUME ~failed'
        PROVE  WatchedKnown' /\ ListKnows'
    <3>1. WatchedKnown'
      BY <1>1, <1>3, <2>5 DEF WatchInv, WatchedKnown
    <3>2. ListKnows'
      BY <1>1, <2>3, <2>4 DEF ListKnows, WatchInv, ListIsWhole
    <3>3. QED
      BY <3>1, <3>2
  <2>6. QED
    BY <2>2, <2>5 DEF WatchInv
<1>4. ASSUME list' = [mains |-> {m \in Mains : Alive(m)},
                      procs |-> {p \in Pids : Alive(p) /\ Alive(HomeOf[p])}, stopped |-> stopped],
             UNCHANGED faultVars
      PROVE  WatchInv'
  <2>1. list'.mains = {m \in Mains : Alive(m)}
    BY <1>4
  <2>2. list'.procs = {p \in Pids : Alive(p) /\ Alive(HomeOf[p])}
    BY <1>4
  <2>3. QED
    BY <1>3, <1>4, <2>1, <2>2 DEF faultVars
<1>5. QED
  BY <1>2, <1>4, Zenon DEF Scan

\* When the list is not given up it fits perf_stat_map, so that the containers that are
\* counted from then on are those of the list.
LEMMA SetWatches ==
  ASSUME TypeInv, WatchInv, [Next]_vars, SetPerfMap
  PROVE  WatchInv'
<1> USE BpfAssumption
<1>1. /\ Ended' = Ended /\ Started' = Started
      /\ pc = "perf" /\ pc' = "clear" /\ UNCHANGED <<monitored, watch, list, failed>>
  BY DEF Ended, Started, Alive, SetPerfMap, worldVars, watchVars, faultVars
<1>2. DOMAIN count' = list.mains
  <2>1. Cardinality(list.mains) \in Nat /\ list.stopped \in Nat
    BY FS_CardinalityType DEF TypeInv, UserType, List
  <2>2. ~(Containers >= MapSize) => ~(Containers > MapSize)
    BY <2>1 DEF Containers
  <2>3. ~(Containers >= MapSize)
    BY DEF SetPerfMap, TooMany
  <2>4. count' = KeptCounts
    BY <2>2, <2>3 DEF SetPerfMap
  <2>5. QED
    BY <2>4 DEF KeptCounts
<1>3. ListIsWhole'
  BY <1>1, <1>2 DEF WatchInv, ListIsWhole
<1>4. ASSUME ~failed'
      PROVE  WatchedKnown' /\ ListKnows'
  <2>1. WatchedKnown /\ ListKnows
    BY <1>1, <1>4 DEF WatchInv
  <2>2. Known \subseteq Known'
    BY <1>1, <1>2, <2>1 DEF Known, ListKnows
  <2>3. WatchedKnown'
    BY <1>1, <2>1, <2>2 DEF WatchedKnown
  <2>4. ListKnows'
    BY <1>1, <1>2 DEF ListKnows, Known, WatchInv, ListIsWhole
  <2>5. QED
    BY <2>3, <2>4
<1>5. QED
  BY <1>3, <1>4 DEF WatchInv

\* The rest of what the container thread does.
LEMMA ThreadWatches ==
  ASSUME TypeInv, WatchInv, [Next]_vars,
         Oversize \/ Cleared \/ Filled \/ Destroy
  PROVE  WatchInv'
<1>1. CASE Destroy
  <2>1. /\ monitored' = Empty /\ watch' = {} /\ count' = Empty /\ pc' = "ended"
        /\ UNCHANGED <<list, failed>>
    BY <1>1 DEF Destroy, faultVars
  <2>2. DOMAIN Empty = {}
    BY DEF Empty
  <2>3. Started \subseteq Started'
    BY EndedStay
  <2>4. ListIsWhole'
    BY <2>1, <2>2, <2>3 DEF WatchInv, ListIsWhole
  <2>5. WatchedKnown' /\ ListKnows'
    BY <2>1, <2>2 DEF WatchedKnown, ListKnows
  <2>6. QED
    BY <2>4, <2>5 DEF WatchInv
<1>2. CASE Oversize \/ Cleared \/ Filled
  <2>1. /\ Known' = Known /\ Ended' = Ended /\ Started' = Started
        /\ UNCHANGED <<count, monitored, watch, failed>>
    BY <1>2 DEF Known, Ended, Started, Alive, Oversize, Cleared, Filled, worldVars, watchVars,
                countVars, faultVars
  <2>2. /\ list' = list \/ list' = Nothing
        /\ pc' # "perf"
        /\ pc' \in {"clear", "fill"} => pc \in {"clear", "fill"} /\ list' = list
    BY <1>2 DEF Oversize, Cleared, Filled
  <2>3. ListIsWhole'
    BY <2>1, <2>2 DEF WatchInv, ListIsWhole, Nothing
  <2>4. ASSUME ~failed'
        PROVE  WatchedKnown' /\ ListKnows'
    <3>1. WatchedKnown /\ ListKnows
      BY <2>1, <2>4 DEF WatchInv
    <3>2. ListKnows'
      BY <2>1, <2>2, <3>1 DEF ListKnows
    <3>3. WatchedKnown'
      BY <2>1, <3>1 DEF WatchedKnown
    <3>4. QED
      BY <3>2, <3>3
  <2>5. QED
    BY <2>3, <2>4 DEF WatchInv
<1>3. QED
  BY <1>1, <1>2

\* A process is watched only for a container that is counted or has ended, as long as
\* docker ps has not failed, however late a handler or a list is and whichever elements
\* of the map are reused under the handlers that point to them.
THEOREM MonitoredAreCountedHolds == Spec => []MonitoredAreCounted
<1>1. Init => WatchInv
  BY DEF Init, WatchInv, ListIsWhole, WatchedKnown, ListKnows, Empty, Nothing
<1>2. TypeInv /\ WatchInv /\ [Next]_vars => WatchInv'
  <2> SUFFICES ASSUME TypeInv, WatchInv, [Next]_vars
               PROVE  WatchInv'
    OBVIOUS
  <2>0. WatchedKnown => /\ \A p \in DOMAIN monitored : monitored[p] \in Known
                        /\ \A e \in watch : e.val \in Known
    BY DEF WatchedKnown
  <2>1. ASSUME UNCHANGED <<monitored, watch, count, pc, list, failed>>
        PROVE  WatchInv'
    BY <2>0, <2>1, GoingIsSafe
  <2>2. ASSUME NEW t \in Tids, ExecUpdate(t)
        PROVE  WatchInv'
    <3>1. PICK e \in watch : Put(PidOf[t], e.val, Released(watch, t))
      BY <2>2 DEF ExecUpdate, Inherited
    <3>2. /\ PidOf[t] \in Pids /\ e.val \in Mains
          /\ AreWatched(Released(watch, t), monitored)
      BY ElementType, StillWatched, BpfAssumption DEF TypeInv, WatchType, AreWatched
    <3>3. UNCHANGED <<count, pc, list, failed>>
      BY <2>2 DEF ExecUpdate, countVars, userVars, faultVars
    <3>4. WatchedKnown => e.val \in Known
      BY DEF WatchedKnown
    <3>5. QED
      BY <3>1, <3>2, <3>3, <3>4, PutWatches, ReleaseWatches
  <2>3. ASSUME NEW t \in Tids, HandleExit(t)
        PROVE  WatchInv'
    BY <2>3, RemovalWatches DEF HandleExit, countVars, userVars, faultVars
  <2>4. ASSUME NEW t \in Tids, EnterNote(t)
        PROVE  WatchInv'
    <3>1. UNCHANGED <<monitored, count, pc, list, failed>> /\ watch' = Released(watch, t)
      BY <2>4 DEF EnterNote, countVars, userVars, faultVars
    <3>2. \A e \in watch' : \E x \in watch : e.val = x.val
      BY <3>1, ReleaseWatches
    <3>3. QED
      BY <2>0, <3>1, <3>2, GoingIsSafe
  <2>5. ASSUME NEW t \in Tids, ExitFind(t) \/ ExitRead(t) \/ ExitWrite(t) \/ ExitUncounted(t)
        PROVE  WatchInv'
    <3>1. DOMAIN count' = DOMAIN count /\ UNCHANGED <<monitored, watch, pc, list, failed>>
      BY <2>5 DEF ExitFind, ExitRead, ExitWrite, ExitUncounted, watchVars, countVars, userVars, faultVars
    <3>2. QED
      BY <2>0, <3>1, GoingIsSafe
  <2>6. ASSUME NEW p \in Pids, ClearKey(p)
        PROVE  WatchInv'
    BY <2>6, RemovalWatches DEF ClearKey, countVars, userVars, faultVars
  <2>7. ASSUME NEW p \in Pids, FillKey(p)
        PROVE  WatchInv'
    <3>1. /\ pc = "fill" /\ p \in toFill /\ Put(p, HomeOf[p], watch)
          /\ UNCHANGED <<count, pc, list, failed>>
      BY <2>7 DEF FillKey, countVars, faultVars
    <3>2. HomeOf[p] \in Mains /\ AreWatched(watch, monitored)
      BY BpfAssumption DEF TypeInv, WatchType
    <3>3. ListKnows => HomeOf[p] \in Known
      BY <3>1 DEF ListKnows, TypeInv, UserType
    <3>4. QED
      BY <3>1, <3>2, <3>3, PutWatches
  <2>8. QED
    BY <2>1, <2>2, <2>3, <2>4, <2>5, <2>6, <2>7, LookupWatches, ScanWatches, SetWatches, ThreadWatches
       DEF Next, World, Handlers, Exec, ContainerThread, Terminated, vars, StoppedContainers,
           ContainerStarts, Fork, ThreadStarts, watchVars, countVars, userVars, faultVars
<1>3. TypeInv /\ WatchInv => MonitoredAreCounted
  BY DEF MonitoredAreCounted, WatchInv, WatchedKnown, Known, Ended
<1>4. QED
  BY <1>1, <1>2, <1>3, TypeInvHolds, PTL DEF Spec
=============================================================================
