------------------------------ MODULE PodInfo ------------------------------
(***************************************************************************)
(* The pod metrics of src/src/metrics/group_pod_info_metrics.c.  A thread  *)
(* asks the kubelet for its pods every three seconds and merges the answer *)
(* into pod_info_list, registering with the ping service the pods that run *)
(* under an address of their own; the metrics thread publishes the list.   *)
(*                                                                         *)
(* The merge holds the group's rwlock and calls the ping service pod by    *)
(* pod, so it is one step per pod.  The clearing of the metrics happens    *)
(* before the lock is taken, the publishing after.                         *)
(*                                                                         *)
(* The ping service is taken by its contract: gen_ping_tag returns a tag   *)
(* nobody has had, an item counts up on its own.                           *)
(***************************************************************************)
EXTENDS Naturals, FiniteSets, Sequences, SequencesExt

CONSTANTS
  Pods,         \* what the kubelet knows, one for each namespace and name
  NameOf,       \* metadata.name, which is all the agent compares
  OwnIps,       \* pod addresses that are not the node's
  HostIp, NoIp, \* the node's own address; no podIP in the answer
  MaxTag,       \* bound: tags handed out
  MaxCnt,       \* bound: what an item counts to
  MaxChanges    \* bound: changes at the kubelet

ASSUME PodAssumption ==
  /\ IsFiniteSet(Pods) /\ DOMAIN NameOf = Pods
  /\ HostIp \notin OwnIps /\ NoIp \notin OwnIps /\ HostIp # NoIp
  /\ MaxTag \in Nat /\ MaxCnt \in Nat /\ MaxChanges \in Nat

Tag == 1..MaxTag
Ips == OwnIps \cup {HostIp, NoIp}
Names == {NameOf[p] : p \in Pods}

VARIABLES
  kube,         \* the pods at the kubelet
  changes,
  podList,      \* pod_info_list
  newList,      \* the answer being merged
  pos,          \* the entry of podList the merge has come to
  pc,           \* the pod thread
  lastTag,      \* gen_ping_tag
  dest,         \* the items of the ping service: address ...
  cnt,          \* ... and count, for send_cnt, recv_cnt and rtt together
  registered,
  updPc,        \* the metrics thread, in group_pod_info_update
  states,       \* the samples of cpds_pod_state
  pings,        \* the samples of the three ping counters
  merged,       \* history: the answer that was merged last, as a bag
  shown         \* history: its pods, when the metrics were published last

pingVars == <<lastTag, dest, cnt, registered>>
listVars == <<podList, newList, pos, pc, merged>>
metricVars == <<updPc, states, pings, shown>>
kubeVars == <<kube, changes>>
vars == <<pingVars, listVars, metricVars, kubeVars>>

\* value is 1 when the phase is Running and the main container, if the answer has
\* one, is running too.
Status == [listed : BOOLEAN, ip : Ips, value : {0, 1}]
Key == [name : Names, ip : Ips, value : {0, 1}]
Entry == [name : Names, ip : Ips, value : {0, 1}, tag : 0..MaxTag, cnt : 0..MaxCnt]
KeyOf(e) == [name |-> e.name, ip |-> e.ip, value |-> e.value]
KeysOf(list) == {KeyOf(e) : e \in ToSet(list)}
KeyBag(list) == ToBag([i \in DOMAIN list |-> KeyOf(list[i])])

TypeOK ==
  /\ kube \in [Pods -> Status]
  /\ podList \in Seq(Entry) /\ newList \in Seq(Entry)
  /\ pos \in 1..Len(podList) + 1
  /\ pc \in {"sleep", "merge", "cancelled", "ended"}
  /\ lastTag \in 0..MaxTag
  /\ registered \subseteq 1..lastTag
  /\ dest \in [Tag -> Ips] /\ cnt \in [Tag -> 0..MaxCnt]
  /\ updPc \in {"idle", "cleared"}
  /\ states \subseteq Key /\ IsABag(merged) /\ BagToSet(merged) \subseteq Key /\ shown \subseteq Key
  /\ pings \subseteq [name : Names, ip : Ips, cnt : 0..MaxCnt]
  /\ changes \in 0..MaxChanges

NoStatus == [listed |-> FALSE, ip |-> NoIp, value |-> 0]

Init ==
  /\ kube = [p \in Pods |-> NoStatus] /\ changes = 0
  /\ podList = <<>> /\ newList = <<>> /\ pos = 1 /\ pc = "sleep"
  /\ lastTag = 0 /\ registered = {}
  /\ dest = [t \in Tag |-> NoIp] /\ cnt = [t \in Tag |-> 0]
  /\ updPc = "idle" /\ states = {} /\ pings = {}
  /\ merged = EmptyBag /\ shown = {}
-----------------------------------------------------------------------------
(***************************************************************************)
(* Around the agent: the kubelet's pods change, the ping service counts.   *)
(***************************************************************************)
KubeChange(p) ==
  /\ changes < MaxChanges
  /\ changes' = changes + 1
  /\ \E s \in Status :
       /\ s # kube[p]
       /\ ~s.listed => s = NoStatus
       /\ s.value = 1 /\ s.ip \in OwnIps =>
            \A q \in Pods \ {p} : kube[q].value = 0 \/ kube[q].ip # s.ip
       /\ kube' = [kube EXCEPT ![p] = s]
  /\ UNCHANGED <<pingVars, listVars, metricVars>>

Counted(t) ==
  /\ t \in registered /\ cnt[t] < MaxCnt
  /\ cnt' = [cnt EXCEPT ![t] = @ + 1]
  /\ UNCHANGED <<lastTag, dest, registered, listVars, metricVars, kubeVars>>
-----------------------------------------------------------------------------
(***************************************************************************)
(* The pod thread.  A request that fails or times out, and an answer that  *)
(* cannot be parsed, change nothing.  An answer that can be, in whatever   *)
(* order the kubelet lists the pods, is merged under the lock.             *)
(***************************************************************************)
Answer == {p \in Pods : kube[p].listed}
NewEntry(p) ==
  [name |-> NameOf[p], ip |-> kube[p].ip, value |-> kube[p].value, tag |-> 0, cnt |-> 0]

Fetch ==
  /\ pc = "sleep"
  /\ lastTag + Cardinality(Pods) <= MaxTag
  /\ \E order \in SetToSeqs(Answer) :
       newList' = [i \in DOMAIN order |-> NewEntry(order[i])]
  /\ merged' = KeyBag(newList')
  /\ pos' = 1
  /\ pc' = "merge"
  /\ UNCHANGED <<podList, pingVars, metricVars, kubeVars>>

\* ip changed, or was not known; with the tag of before, which may be 0.
Moved(old, new) == old.ip # new.ip
Pingable(e) == e.ip # NoIp /\ e.value = 1 /\ e.ip # HostIp

\* unregister_ping_item; the bug a mutant plants forgets the call.
KeptRegistered(t) == registered
Unregistered(t) == registered \ {t}

\* unregister_ping_item(old) and then gen_ping_tag, register_ping_item.
Renew(old, ip) ==
  /\ lastTag < MaxTag
  /\ lastTag' = lastTag + 1
  /\ registered' = Unregistered(old) \cup {lastTag + 1}
  /\ dest' = [dest EXCEPT ![lastTag + 1] = ip]
  /\ cnt' = [cnt EXCEPT ![lastTag + 1] = 0]

\* get_ping_info copies the counters if the tag is registered; the mutant asks
\* before the entry got its new tag.
CountedBefore(e, t) ==
  LET old == podList[pos].tag IN
  [e EXCEPT !.tag = t, !.cnt = IF old \in registered THEN cnt[old] ELSE e.cnt]
WithCounts(e, t) ==
  [e EXCEPT !.tag = t, !.cnt = IF t \in registered' THEN cnt'[t] ELSE e.cnt]

\* A pod that is no longer pinged has no tag; the mutant lets it inherit one.
Inherited(e) == [e EXCEPT !.tag = podList[pos].tag]
Untagged(e) == e

\* An entry whose name is in the answer becomes the first entry of that name.
Matches(e) == {j \in DOMAIN newList : newList[j].name = e.name}

\* The answer's entry is taken out of the answer.
TakenOut(j) == RemoveAt(newList, j)

MergeFound ==
  LET old == podList[pos]
      j == CHOOSE i \in Matches(old) : \A k \in Matches(old) : i <= k
      new == newList[j]
  IN
  /\ pc = "merge" /\ pos <= Len(podList)
  /\ Matches(old) # {}
  /\ \/ /\ ~Pingable(new)
        /\ registered' = Unregistered(old.tag)
        /\ podList' = [podList EXCEPT ![pos] = Untagged(new)]
        /\ UNCHANGED <<lastTag, dest, cnt>>
     \/ /\ Pingable(new) /\ Moved(old, new)
        /\ Renew(old.tag, new.ip)
        /\ podList' = [podList EXCEPT ![pos] = WithCounts(new, lastTag')]
     \/ /\ Pingable(new) /\ ~Moved(old, new)
        /\ UNCHANGED pingVars
        /\ podList' = [podList EXCEPT ![pos] = WithCounts(new, old.tag)]
  /\ newList' = TakenOut(j)
  /\ pos' = pos + 1
  /\ UNCHANGED <<pc, merged, metricVars, kubeVars>>

\* The next entry was remembered before this one was removed; the mutant moves
\* on from the hole.
PastRemoved == pos + 1
AtRemoved == pos

MergeGone ==
  /\ pc = "merge" /\ pos <= Len(podList)
  /\ Matches(podList[pos]) = {}
  /\ registered' = Unregistered(podList[pos].tag)
  /\ podList' = RemoveAt(podList, pos)
  /\ pos' = AtRemoved
  /\ UNCHANGED <<lastTag, dest, cnt, newList, pc, merged, metricVars, kubeVars>>

MergeNew ==
  LET new == Head(newList) IN
  /\ pc = "merge" /\ pos > Len(podList) /\ newList # <<>>
  /\ \/ Pingable(new) /\ Renew(0, new.ip) /\ podList' = Append(podList, [new EXCEPT !.tag = lastTag'])
     \/ ~Pingable(new) /\ UNCHANGED pingVars /\ podList' = Append(podList, new)
  /\ newList' = Tail(newList)
  /\ pos' = Len(podList) + 2
  /\ UNCHANGED <<pc, merged, metricVars, kubeVars>>

MergeEnd ==
  /\ pc = "merge" /\ pos > Len(podList) /\ newList = <<>>
  /\ pc' = "sleep"
  /\ pos' = 1
  /\ UNCHANGED <<podList, newList, merged, pingVars, metricVars, kubeVars>>
-----------------------------------------------------------------------------
(***************************************************************************)
(* The metrics thread, every three ticks: clear the four metrics, then     *)
(* take the lock and publish the list.                                     *)
(***************************************************************************)
Clear ==
  /\ updPc = "idle" /\ pc \in {"sleep", "merge"}
  /\ updPc' = "cleared"
  /\ states' = {} /\ pings' = {}
  /\ UNCHANGED <<shown, pingVars, listVars, kubeVars>>

\* The update takes the group's lock; the mutant does not.
NoLock == TRUE
LockFree == pc # "merge"

Publish ==
  /\ updPc = "cleared"
  /\ LockFree
  /\ states' = KeysOf(podList)
  /\ pings' = {[name |-> e.name, ip |-> e.ip, cnt |-> e.cnt] : e \in {f \in ToSet(podList) : f.tag > 0}}
  /\ shown' = BagToSet(merged)
  /\ updPc' = "idle"
  /\ UNCHANGED <<pingVars, listVars, kubeVars>>
-----------------------------------------------------------------------------
(***************************************************************************)
(* Shutdown, when the metrics thread has ended: cancel and join the pod    *)
(* thread, which is not cancelled inside the merge, and unregister the     *)
(* pods one after the other.                                               *)
(***************************************************************************)
CancelThread ==
  /\ pc = "sleep" /\ updPc = "idle"
  /\ pc' = "cancelled"
  /\ UNCHANGED <<podList, newList, pos, merged, pingVars, metricVars, kubeVars>>

DestroyEntry ==
  /\ pc = "cancelled" /\ podList # <<>>
  /\ registered' = Unregistered(Head(podList).tag)
  /\ podList' = Tail(podList)
  /\ UNCHANGED <<lastTag, dest, cnt, newList, pos, pc, merged, metricVars, kubeVars>>

DestroyEnd ==
  /\ pc = "cancelled" /\ podList = <<>>
  /\ pc' = "ended"
  /\ UNCHANGED <<podList, newList, pos, merged, pingVars, metricVars, kubeVars>>

Terminated == pc = "ended" /\ UNCHANGED vars
-----------------------------------------------------------------------------
PodThread == Fetch \/ MergeFound \/ MergeGone \/ MergeNew \/ MergeEnd
MetricsThread == Clear \/ Publish
Shutdown == CancelThread \/ DestroyEntry \/ DestroyEnd
Environment == (\E p \in Pods : KubeChange(p)) \/ (\E t \in Tag : Counted(t))

Next == PodThread \/ MetricsThread \/ Shutdown \/ Environment \/ Terminated

Spec == Init /\ [][Next]_vars

\* The threads are scheduled, and the kubelet answers again and again.
FairSpec == Spec /\ WF_vars(PodThread) /\ WF_vars(MetricsThread) /\ WF_vars(DestroyEntry)
-----------------------------------------------------------------------------
(***************************************************************************)
(* Properties.                                                             *)
(***************************************************************************)

\* The ping service pings exactly the tagged entries of the list, each under a
\* tag of its own and at the address the list has for it, also half-way through
\* a merge: no item is left behind, lost, shared or aimed at an old address.
ItemsMatchList ==
  /\ registered = {e.tag : e \in ToSet(podList)} \ {0}
  /\ \A i, j \in DOMAIN podList :
       podList[i].tag # 0 => /\ dest[podList[i].tag] = podList[i].ip
                             /\ podList[j].tag = podList[i].tag => i = j

\* Only a running pod with an address of its own is pinged.
OnlyPingablePinged ==
  \A i \in DOMAIN podList : podList[i].tag # 0 => Pingable(podList[i])

\* The list a merge leaves is the kubelet's answer: nothing of an earlier answer
\* survives, nothing of this one is missed or doubled, whatever the order and the names.
MergeYieldsAnswer ==
  pc = "sleep" => KeyBag(podList) = merged

\* What is published is one answer of the kubelet, never half of one and half
\* of the next.
PublishedIsOneAnswer ==
  updPc = "idle" => states = shown

\* The counts kept for a pod are those of the item it has now, not of one it had
\* under another address.
CountsAreOwn ==
  \A i \in DOMAIN podList : podList[i].tag # 0 => podList[i].cnt <= cnt[podList[i].tag]

\* Once the kubelet's pods stop changing, nothing stays pinged but running pods
\* at their address.
StalePingsEnd ==
  <>[](\A t \in registered :
         \E p \in Pods : kube[p].listed /\ kube[p].value = 1 /\ kube[p].ip = dest[t])

\* group_pod_info_metrics.c:276: if the pod's address is not the host's and the pod
\* is running, it is registered for ping statistics.
RunningPodIsPinged ==
  pc = "sleep" => \A i \in DOMAIN podList : Pingable(podList[i]) => podList[i].tag # 0

\* With names that tell pods apart, each name owns its item as PingOwnership says.
TagOfName(n) ==
  IF \E i \in DOMAIN podList : podList[i].name = n
  THEN podList[CHOOSE i \in DOMAIN podList : podList[i].name = n].tag
  ELSE 0
Ownership == INSTANCE PingOwnership WITH
  Owners <- Names,
  holds <- [n \in Names |-> TagOfName(n)],
  items <- registered,
  used <- 1..lastTag
ImplementsOwnership == Ownership!Spec
=============================================================================
