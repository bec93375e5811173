# Verification of cpds-agent

TLA+ models of cpds-agent, the TLC configurations that check them on small
instances, and proofs that hold for every instance: of every safety property the
passing runs check, in the ping service, the pod information, the container
collector, the kernel statistics, the metrics with their hash tables and the
daemon's life, and of the three refinements.
Paths below are those of the repository, under `src/`.

## 1. The system

cpds-agent is a C daemon that runs on every node. It collects statistics of the
node, its containers and its pods, and serves them as Prometheus metrics under
`GET /metrics`. Its own code is `src/src` (about 5,500 lines); `src/prom` and
`src/promhttp` are the Prometheus client library, vendored and changed.

The processes of control are: the main thread; the *metrics thread*
(`collection.c`, a tick every second); the *container thread*
(`container_collector.c`, a sweep every second); the *pod thread*
(`group_pod_info_metrics.c`, an answer of the kubelet every three seconds); the
*send* and *receive* threads of the ping service (`ping.c`); one *HTTP thread*
of libmicrohttpd; and the eBPF programs, which the kernel runs on any processor
at any time.

They share: the table of ping items (one rwlock), the four lists of containers
(one rwlock), the list of pods (one rwlock), and every metric (a rwlock each,
and another for the map of its samples). A thread that holds the lock of the
pods takes that of the ping table and of metrics; one that holds the lock of
the containers takes those of metrics. No lock is taken in the other order, so
the locks cannot deadlock by themselves; the models therefore take a critical
section that calls nothing that blocks as one step.

### Inventory

| component | state | operations | hard behaviours | what makes it correct |
|---|---|---|---|---|
| ping service (`ping/ping.c`) | tag counter; table tag -> item (address, sent, received, rtt); raw socket; two threads | gen_ping_tag, register, unregister, get_ping_info; sweep; receive; reset of the socket; destroy | tags are made without a lock; the sweep's iterator outlives its lock; requests are counted before they are sent; replies are lost, repeated, late; the shutdown races the reset of the socket | an owner keeps the item it registered, none is pinged with no owner; received <= sent; every item is pinged; the shutdown ends and frees nothing in use |
| pod information (`metrics/group_pod_info_metrics.c`) | list of pods with tag and counters | fetch, merge, publish, destroy | entries are removed while the list is walked; pods are told apart by name only; registration depends on what changed since the last answer | list = last answer; items = tagged entries at their addresses; what is published is one answer |
| container collector (`container/container_collector.c`) | map of containers; four lists copied from it | sweep (docker ps, then inspect each), remove, insert, tell the kernel, copy, destroy | docker changes between two commands; commands fail half-way; a sweep cancelled while it fills an entry, new or old; readers between two copies | items = entries; readers meet at most two sweeps; the lists agree in the end with docker; the shutdown ends |
| eBPF statistics (`bpf_stat/`) | perf_stat_map, pid_monitor_map, two maps of calls under way | two setters; handlers for mmap, clone, exec, exit | handlers run while the maps are replaced, with pointers into elements that are reused; several processors | a call is counted once, for its own container, unless an element was reused under its handler; the maps agree, and in the end with the processes there are |
| metric groups (`metrics/group_*.c`) | fifteen groups of metrics; the node network group has a ping item | init, update, destroy | cleared and filled, or set in place, while being scraped, in another order | of the metrics cleared first a scrape shows one version, none older after a newer; every sample that was set is there |
| metric library (`src/prom`) | samples of each metric; hash table with a list of keys; collectors, among them one of the process itself; registry | find or make a sample, set, clear, format, destroy | value stored without the lock; a table that grows, and that frees a key its list still has when a key is set twice | the list of keys is exactly the samples; locks are always given back |
| HTTP (`src/promhttp`, `web_service.c`) | the daemon handle | answer a request, stop | a request under way at the shutdown | metrics outlive it |
| update scheduler (`collection.c`) | tick counter | one tick | groups are spread over ticks | each group updated once in every period |
| lifecycle (`main.c`, `registration.c`, `web_service.c`) | done flag, ids of the threads | init of the parts, signal, teardown | init fails half-way; ids of threads that were never created; the order of the teardown; threads cancelled with a lock | every user of a part is stopped before it is freed; the teardown ends |
| service status, kernel faults (`group_*_service_metrics.c`, `group_kernel_fault_metrics.c`) | a D-Bus connection each; whether the crash dumps were read | ask systemd, publish, read the dumps once | the agent is up before the bus or the unit; the bus is lost, the connection is opened once; the machine crashes | a status follows its unit; a crash is published |
| configuration, command line, logging | agent context, log level | load, override, defaults | an unreadable log.conf turns debug messages on | the command line wins over the file |

How the groups update their metrics, under `src/metrics`:

| all cleared, then set | set in place |
|---|---|
| `group_container_resource_metrics.c` (130-150, then 152-195), `_basic`, `_perf`, `_process` | `group_node_cpu_metrics.c` (72-90; cleared when the file cannot be opened) |
| `group_node_fs_metrics.c` (68-101) | `group_node_memory_metrics.c` (66-114) |
| `group_pod_info_metrics.c` (165-183) | `group_node_disk_metrics.c`, diskstats (166-209; cleared when the file cannot be opened) |
| `group_kernel_fault_metrics.c`, crashes (175-194) | `group_node_network_metrics.c`, tcp and ping (237-291) |
| `group_node_network_metrics.c`, interfaces (195-230) | `group_node_basic_metrics.c` (77), the service groups |
| `group_node_disk_metrics.c`, block devices (103-137), lvm (231-251) | `group_agent_alive_metrics.c` (46-49), by `prom_counter_inc` |

The container resource group clears in one order and sets in another, sets the
ping metrics of a container only if it was pinged (167), and those of the network
once per interface. A scrape reads the metrics in the order of a hash table's
list of keys.

`PROJECT.json` lists the hazards, each at its line with the properties aimed at
it.

## 2. The modules

| module | models | extends or uses |
|---|---|---|
| `PingOwnership` | what the users of the ping service are promised | |
| `PingService` | `ping.c`, its callers and the network | implements `PingOwnership` |
| `PodInfo` | `group_pod_info_metrics.c` with the metrics thread and the kubelet | implements `PingOwnership` |
| `ContainerCollector` | `container_collector.c` with docker | implements `PingOwnership` |
| `BpfMonitor` | the eBPF programs of `bpf_stat.bpf.c` against the setters of `bpf_stat.c` and what `container_collector.c` gives them | |
| `PromMap` | `prom_map.c`: operators on a hash table with its list of keys | |
| `MetricScrape` | one update function, of either kind, against a scrape, and the teardown of metrics | extends `PromMap` |
| `Lifecycle` | the initialisations and the teardown of `main.c` with the threads they start and stop | |
| `UpdateScheduler` | `do_update_metrics` of `collection.c` over the list of `metric_groups.c` | |
| `ServiceStatus` | the three groups that ask systemd, with the bus and the units | |
| `Agent` | the daemon under systemd: the composition of the three | extends `Lifecycle`, `UpdateScheduler`, `ServiceStatus` |
| `PingOwnershipProofs`, `PingServiceProofs`, `BpfMonitorProofs`, `PromMapProofs`, `MetricScrapeProofs`, `AgentProofs`, `ContainerCollectorProofs`, `PodInfoProofs` | theorems, each about the module it is named after | |
| `MC*` | values of the constants for TLC | |

The composition goes through the contract. `PingService` is shown to implement
`PingOwnership` for owners of one thread, and to keep a weaker promise
(`OwnerHasItsItem`) for owners of two; `PodInfo` and `ContainerCollector` take
from the service what the contract gives and are shown to be clients that
implement it in turn, with pods and containers as the owners.

`Agent` composes by conjunction: each of its actions is an action of one module
with the other modules' variables unchanged, but where the code does two things
at once: an update is a `Tick` of the scheduler and `UpdateServices` of the
groups that are `Due`; the end of a process is the end of what it remembered in
every module.

In every module a mutant of a helper stands just above it (`KeptItem` above
`WithoutItem`): the bug that the property which names it would find. They are
used by no action.

### PingService

`lastTag` is the static counter of `gen_ping_tag`, read by `ReadTag` and written
by `WriteTag` because the increment has no lock; `phase`, `seenTag` and `ownTag`
are where an owner's thread is between the two and `register_ping_item`. The
owners of one thread call one at a time (`ThreadFree`). `registered`, `dest`,
`sendCnt`, `recvCnt` are `ping_map`. The send thread is `StartSweep`,
`NextItem` (the critical section that counts two requests, or none once an item
has sent `MaxSend`), `SendPing` (twice,
outside the lock), `ItemSent`, `EndSweep`. The iterator it keeps across the
lock becomes invalid when the table changes; glib says nothing of what it then
returns, so `Rearranged` lets the rest of the sweep meet any of the items.
A send can come to nothing: the socket is gone, the name does not resolve, or
the checksum is refused (it is computed over twenty bytes past the packet).
`RecvPing` counts a reply for whatever item has its tag. `RecvFail` and
`ResetSocket` follow the two counters of `recv_thread`, whose outer one is
never set back. `DestroyClose` to `DestroyMap` are `destroy_ping_svc` statement
by statement, and `Restart` a kill and a new start, with packets still under
way. `wire` has the packets per tag; `noise` and `issued` are history.

### PodInfo

`Fetch` is one request and its parsing: the answer lists the pods in any order.
`MergeFound`, `MergeGone` and `MergeNew` are the iterations of the two loops of
`update_pod_info_list`, `MergeEnd` its end. They are separate steps because
they call the ping service, which goes on counting (`Counted`). `Clear` and
`Publish` are `group_pod_info_update`, before and after it takes the lock.
`CancelThread`, `DestroyEntry`, `DestroyEnd` are `group_pod_info_destroy`. A
request that fails changes nothing, so it has no action. `kube` is the kubelet:
any pod may appear, vanish, move, start and stop; two running pods do not have
one address.

### ContainerCollector

`Tick` is `docker ps`; `Update`, `Keep`, `Remove` one iteration over `cmap`,
when the container is listed and inspected, listed but not inspected, no
longer listed; `Insert` one new container, put into `cmap` even if inspect
failed; `EndWalk` the end of the sweep (the hand-over to the kernel that comes
here is `BpfMonitor`'s); `Cache` the four copies. `docker` changes between any two of them.
`Cancel`, `CancelInFill`, `CancelInRefill`, `DestroyEntry`, `DestroyEnd` are
`stop_updating_container_info`, cancellation being possible where the sweep
runs commands and reads files. In `CancelInFill` the entry is a new one that is
in no table yet; in `CancelInRefill` it is one of `cmap`, whose lists of
statistics may have been freed and not made again (`dangling`), so that
`DestroyEntry` frees them a second time, which may end the process (`crashed`).

### BpfMonitor

`monitored` is `pid_monitor_map`, `count` `perf_stat_map` with one counter for
the six of a container, `entered` the two maps of calls under way. The programs
for mmap and clone are `EnterLookup`, `EnterNote`, `ExitFind`, `ExitRead`,
`ExitWrite` and `ExitUncounted`; `ExecLookup` and `ExecUpdate` are `handle_exec`,
and `HandleExit` is `handle_exit`, which runs for every thread. Between any two
of them other programs, on other processors, and the container thread may come.

The maps are preallocated (`bpf_stat.bpf.c:46-80`, no `BPF_F_NO_PREALLOC`): an
element that is deleted or replaced is free at once, keeps its content, and is
taken by the next key to come in. A lookup returns a pointer to an element and not
a copy. `watch` and `tally` have the elements of the two maps that some handler
points to: who does, the key the element now belongs to (`NoKey` if it is free),
and what is in it. `Put` lets a key that comes in take a free one of these or
another; `TakenBy` does it for the containers that come into `perf_stat_map`, all
in one step. A handler reads and writes where its pointer leads
(`ExecUpdate`, `EnterNote`, `ExitRead`, `ExitWrite`).

The container thread takes `Scan`, then `Oversize` or `SetPerfMap`, then `ClearKey`
and `FillKey` for each key: `bpf_map_get_next_key` starts again from the front
when its key has gone, so every old key is met, and a new one perhaps. `list`
is what the sweep learnt, and is old by the time it is written: processes end,
fork and start threads at any step. `Updated` gives a full map's refusal.
`misled` (threads whose element went to another container), `reused` (containers
that took an element of `tally`), `finished`, `overlap` and `failed` are history.

### MetricScrape

The module has one update function, the smallest unit there is: a group that calls
several, as disk and network do, makes them in turn over metrics of their own.
`Updates` says what it may do: which metrics it clears first, and of which entries
it sets a sample in which metric; `ClearedFirst` are those that every update
clears. The clearing, the setting and the reading take any order (`Proceed`,
`ReadMetric`), since the three of the code differ.

`Collect` is the collector's new list, or what the system has to say next.
`UpdateBegins`, `Clear` (per metric), `FindSample` (under the metric's lock) and
`StoreValue` (without) are an update; `ScrapeBegins`, `ReadMetric` (the lock is
taken), `ReadSample`, `MetricRead` (and given back), `ScrapeEnds` a request.
A value is the number of the collection it comes from, so an answer says by
itself how old each of its parts is. `samples` has a table of `PromMap` per
metric: `FindSample` looks labels up and sets them if they are new, two entries
may have the same labels, and a scrape takes the list of keys and looks each of
them up. `StopUpdating`, `StopHttp`, `DestroyMetrics` are the teardown in the
order of `main.c`.

### PromMap

A table is a record of the code's fields: `addrs` (buckets of nodes), `keys`,
`size`, `max`, and `dangling`, the keys whose entry in the list points to memory
that was freed. `SetKey` is `prom_map_set` (grow if more than half full, then
replace or append), `DeleteKey` is `prom_map_delete`, `Stored` the change of a
value in place. The hash is a constant that may give anything. `IsMap` is a
table's type, `WellFormed` what it is to be.

### Lifecycle, UpdateScheduler, ServiceStatus, Agent

`pc` is where main is: the initialisations in the order of
`do_cpds_agent_service` (`Startup` to `InstallHandler`), each with every way to
fail and what it leaves made; the loop; and the teardown at `out:`, statement by
statement (`Cancel`, `Join`, `FreeContainers`, `StopHttp`, `FreeRegistry`,
`FreeGroups`, `FreePods`, `FreePing`). `ids` are the static thread ids the
teardown looks at. A `pthread_create` that fails may have written one, and
joining it is undefined: `JoinNothing` comes back, `JoinCrashes` ends the
process. `holder` is who is inside the ping lock, `debug` whether debug
messages are written, `collided` whether two items have been given one tag
(`TagsCollide`; how it comes to that is in `PingService`). `MayEnd` says where a
thread that is cancelled inside the lock ends: in a debug message, or in the INFO
message about a tag that is taken, which the shipped `log.conf` writes too.

`Tick` is one round of `do_update_metrics`; `since` counts the rounds since each
group was updated. The tick counter starts over at a common multiple of the
periods, which changes none of its remainders.

`UpdateServices` is what the groups that are due ask and publish; `conn` is the
connection of each, `gauge` the published status, `updateFlag` and `crashes`
those of the kernel fault group. Units, bus and crashes of the machine are the
environment.

## 3. What is checked

Deadlock is checked in every run: `Terminated` is the only place where a model
may stop, and it is where the program has ended. `Agent` has none: systemd
starts the daemon again for ever.

| run | question | properties |
|---|---|---|
| `PingTwoThreads` | what is left of the contract when two threads call the service | `TypeOK`, `OwnerHasItsItem`, `NoOrphanItem`, `EveryItemIsPinged` |
| `PingOneThread` | is the contract kept when they are one; what can the network and a kill do to the counters; is anything freed in use | `ImplementsOwnership`, `RepliesWithinRequests`, `TableOutlivesThreads` |
| `Pods` | merge, publishing and shutdown under all changes of two pods | `TypeOK`, `ItemsMatchList`, `OnlyPingablePinged`, `MergeYieldsAnswer`, `PublishedIsOneAnswer`, `CountsAreOwn`, `StalePingsEnd`, `ImplementsOwnership` |
| `Containers` | the sweep under all changes of two containers, and its readers | `TypeOK`, `ItemsMatchContainers`, `ListsAgree`, `ListsConverge`, `RunningArePinged`, `ImplementsOwnership` |
| `Bpf` | who is watched while the maps are set; what a sweep repairs | `TypeOK`, `MonitoredAreCounted`, `SweepsRepair` |
| `BpfCounts` | what is counted, for whom, unless an element is reused under a handler | `OnlyReuseMisleads`, `CountsAreExact` |
| `Scrape` | updates against scrapes and the teardown | `TypeOK`, `OneVersionPerMetric`, `NoOlderAfterNewer`, `QuietScrapeIsExact`, `KeysMatchNodes`, `MetricsOutliveThreads`, `UpdatesEnd` |
| `Agent` | starts, failures, signals, kills, machine crashes, restarts, and what the metrics then say | `TypeOK`, `NoUseAfterFree`, `PeriodKept`, `AgentStops`, `StatusFollowsUnit`, `CrashesReported` |
| `PingTagRace`, `PingGiveUp`, `PodNotPinged`, `ShutdownHangs` | findings, section 6 | one each, violated |

### Bounds

- Ping: two owners, which is one per calling thread; two tags, so that a tag is
  lost by one owner to another; two addresses, so that an item at the wrong one
  shows; two requests, which is one ping of an item. A kill and one stray
  packet per tag, and one reset of the socket, in `PingOneThread`; three resets,
  where the receive thread gives up, in `PingGiveUp`. An item that has sent `MaxSend`
  is met by the sweep as any other and sends no more, which the code does not do:
  with it the sweep itself has no bound.
- Pods: two pods, two addresses besides the host's and none; three changes,
  with which a pod starts, moves and stops; five tags, so
  that no run ends for want of them before its third change was merged. The pods
  have different names; that the merge is right for equal ones too is proved.
- Containers: two containers, two processes, two addresses, three changes
  (start, stop, start elsewhere), one command that fails for no reason of
  docker's; seven tags, more than these changes can use up, which
  `ListsConverge` needs.
- Bpf: two containers, of which one has a second thread and a child process, so
  that an exit can end a thread, a process or a container; maps for three, which
  one more process, or two containers that are stopped, overfill; two changes (the
  stopped containers, or a docker ps that fails). `Bpf` has no calls: nothing it
  asks depends on them. `BpfCounts` has two, so that two can be counting at once
  and one can count in an element another container took, without the second
  thread, and one docker ps that fails, which takes every container out of the
  map. No thread or process number is used twice.
- Scrape: three metrics, two cleared first and one set in place, so that any two
  of the three ways to be read before, at and after a change occur; three entries
  of which two have the same labels; updates that differ in what they set, one
  of them clears all and sets nothing; a table that starts with one bucket, so that
  it grows and rehashes at the second sample, and a hash that then keeps or moves a
  key; two collections, so that a scrape can meet two versions and samples just
  made.
- Agent: no bound on restarts, failures, signals, kills, changes of the unit or
  of the bus. A table of four groups with the periods 2, never, 1, 2, so that a
  group that is never updated still counts in the offsets, and two groups of one
  period fall on different ticks; one unit besides kdump; one crash of the
  machine. The tick counter starts over after two ticks, a common multiple of
  the periods. The unit and the bus change while the update thread runs: nobody
  else looks at them, and a daemon that starts meets whatever they were left at.

### Fairness

- `PingService`: the send thread is scheduled (WF), the receive thread finishes
  a reset and ends when cancelled, `destroy_ping_svc` goes on when its join
  returns. Callers, packets, errors and kills owe nothing.
  `EveryItemIsPinged` allows that an unlucky iterator skips an item in each
  sweep that a change disturbs; that it is met at last rests on there being
  finitely many changes (`MaxTag`), as when pods and containers settle.
- `PodInfo`: both threads are scheduled and the kubelet answers again and again;
  the answers' content is not constrained. The shutdown need not come, once
  begun it goes on.
- `ContainerCollector`: the thread is scheduled and docker's commands return.
  Docker's changes owe nothing. `ListsConverge` and `RunningArePinged` speak of
  what holds once they have stopped, with docker active and the agent up.
- `BpfMonitor`: the container thread is scheduled, and a `handle_exec` that has
  begun ends (in `Bpf`; `BpfCounts` asks for no progress). Processes, calls and
  docker owe nothing; `SweepsRepair` speaks of what holds when they have settled.
- `MetricScrape`: both threads are scheduled; a writer that waits gets the lock
  although scrapes go on (SF on `Clear` and `FindSample`): there is one reader
  thread, and it is outside of any one metric's lock most of a scrape.
  Requests owe nothing. Nothing is assumed of the shutdown.
- `Agent`: a teardown that has begun goes on; a thread that is cancelled ends
  where it may, or gives the ping lock back; the update thread wakes again and
  again. SF on `CloseGroups`, which waits for the ping lock while the pod thread
  takes and gives it in every round: a free lock is not refused for ever.
  Starting, signals, systemd and the environment owe nothing, so
  `StatusFollowsUnit` and `CrashesReported` speak of a daemon that in the end
  stays up.

## 4. What is proved

Everything here holds for every value of the constants that the named
assumptions allow.

**Ping service** (`PingServiceProofs`, `PingOwnershipProofs`), for every set of
owners, threads and addresses, from `PingAssumption` (the bounds are numbers,
`ThreadOf` maps owners to threads) and `TagAssumption` (tags are positive
numbers):

- `ContractHolds`: `PingOwnership!Spec => [](ExclusiveTags /\ ItemsAreHeld)`.
  Neither is inductive: a tag that is given up must not come back while an
  owner could still hold it. The invariant adds that held tags are used ones
  (`HeldTagsAreUsed`), which `Fresh` then keeps apart.
- `PingTypeCorrect`: `TypeOK`.
- `TableOutlivesThreadsHolds`: strengthened by what each value of `svc` already
  implies of the two threads (`ShutdownInv`).
- `RepliesWithinRequestsHolds`: strengthened by `SweepInv` (the item being
  pinged has a tag, requests left only while it is pinged) and `Untouched`: a
  tag that has not been handed out has nothing on the wire but noise, and its
  counters are zero. Without it `Register`, which sets counters to zero, could
  meet packets that are counted nowhere.
- `OwnerHasItsItemHolds` and `NoOrphanItemHolds`: strengthened by `Held`, which
  relates each item to the owners whose tag it has through the phases of a
  registration, and by `issued` counting them.
- `PingImplementsOwnership` and `UniqueTagsForOneThread`, with the hypothesis
  `OneThread` that all owners have the same thread; `PingTagRace` is the
  counterexample for two. An owner holds its tag from `Register` on, which is
  `Acquire`; `ReadTag` and `WriteTag` are stutters. What is needed is `Serial`:
  at most one owner is in a call, and the counter it read is still the counter
  when it writes. A tag is then handed out once (`IssuedOnce`), so that the
  exemptions in `OwnerHasItsItem` and `RepliesWithinRequests` are empty.

**Pod information** (`PodInfoProofs`), for any finite set of pods, any names and
addresses, from `PodAssumption` (an answer of the kubelet is finite, the node's
address and "no address" are not pods' addresses, the bounds are numbers):

- `PodTypeOK`.
- `ItemsMatchListHolds`, `OnlyPingablePingedHolds`, `CountsAreOwnHolds`. The
  invariant `Tidy` says the three entry by entry, with a witness in the list for
  every item; one lemma for each thing the merge does to the list (an entry is
  replaced, appended, removed) shows that it stays tidy. That an entry of the
  answer has no tag yet is part of the type of the answer.
- `MergeYieldsAnswerHolds`, for names that occur several times too. Half-way
  through the merge each pod is as often in the part of the list that is done
  (`Occ` up to `pos - 1`) and in what is left of the answer, taken together, as
  it was in the answer (`HalfMerged`): the merge only ever carries an entry from
  one to the other. The occurrences are cardinalities of sets of positions, so
  that no recursion over lists is needed.
- `PublishedIsOneAnswerHolds`: between the clearing and the publishing the pod
  thread may merge and not end (`PublishInv`), so that the lock is only free when
  the list is an answer.
- `PodInfoImplementsOwnership`, with the hypothesis `NamesTellApart`: with two
  pods of one name a name has two items. `NamesInv` says that a name is at most
  once in the list and in the answer, and in both only until the merge has come
  to it (`DoneOnce`). `MergeFound` and `MergeNew` are then `Acquire`, `Release`
  or a stutter of that name, `MergeGone` and `DestroyEntry` `Release` or a
  stutter.

**Kernel statistics** (`BpfMonitorProofs`):

- `OnlyReuseMisleadsHolds`, from `BpfAssumption` (every process has a container,
  whose main process is its own). The invariant (`HomeInv`) adds that what is in an
  element a handler points to is the home of its process, also when the element is
  free, as long as none went to another container (`WatchGoesHome`). The list that
  is being written needs no such part: a process's home never changes.
- `CountsAreExactHolds`. The invariant (`CountInv`) adds, of the elements no
  container took from another: whoever points to one looked its container up
  (`OwnCalls`); a handler between its load and its store has a value it may store
  (`WritersFit`); and two such handlers make the container overlapped
  (`WritersApart`). Without the last a store could lose a call unnoticed. No
  handler points to two elements and no key has two (`Apart`).
- `BpfTypeOK`.
- `MonitoredAreCountedHolds`. The argument is that a main process that has ended
  never comes back (`EndedStay`), so what a late handler of exec or an old list
  writes is harmless if its container is counted or has ended (`Known`).
  `WatchedKnown` says it of what is watched and of what a handler has found,
  `ListKnows` of the list between the two maps: while the first is still to be
  set, whatever it counts now is in the list or has ended, and once it is set,
  whatever the list watches is known.

**Hash table** (`PromMapProofs`), for any hash, keys and values: the lemmas
`NewMapOK`, `SetKeyOK`, `StoredOK`, `DeleteKeyOK`, `GetOK` say that each
operation takes a well-formed table to one with the keys and the nodes it is meant to have;
`GrownOK` that growing loses no node. `SetKeyOK` has as its hypothesis that the
key is not there yet. That is not for convenience: setting a
key twice leaves the list with a string that was freed (`Replaced` makes it
`dangling`), and the callers in the agent do look first. What makes the lemmas
go through is that a bucket is determined by the hash: a key that is anywhere in
the table is where `Get` looks (`HasKeyIsListed`).

**Metrics** (`MetricScrapeProofs`), for any number of metrics, entries, labels
and versions, from `ScrapeAssumption` and `PromMapAssumption`:

- `ScrapeTypeOK`, `TablesStayWellFormed`, `MetricsFreedLast`, and, for the
  metrics that every update clears first, whatever else it sets, in any order:
  `OneUpdatePerMetric` and `AnswersDoNotGoBack`. The properties of an answer are not
  inductive, since they say nothing of the samples that are still to be read.
  The invariant says that at any time there is one version `v` such that every
  sample of each of these metrics is of `v` or new, nothing answered is newer, and
  what was read of the metric being read is of `v` or new (`FromVersion`). An update
  moves on to its own version only once it has cleared all of them
  (`ClearedBehind`); as a clear waits for the reader of its metric, a scrape has
  read nothing of `v` that it could then mix. `SourceIsAhead` orders the
  versions, and `SampleIsThere` says that the sample an update is about to store
  is still in its table.
- `QuietScrapesAreExact`. Published last is the list of the last update that came
  to its end. Every sample it set is in the answer with its value; nothing else is
  in a metric it cleared, while a metric set in place keeps what was there.
  `Published` says that of the samples outside of an update;
  `HalfWay` what they are between two stores, where the entries that are left and
  the sample just made are the exceptions; `ReadSoFar` that a scrape no update
  has met has read of each metric before the one it is at everything, and of that
  one everything but `unread`.

**The daemon** (`AgentProofs`), for any list of groups and periods and any
units, from `ThreadsAssumption` (the six threads of the code),
`SchedulerAssumption`, `ServiceAssumption` and `AgentAssumption`:

- `AgentTypeOK`.
- `NothingUsedAfterFree`. The invariant (`LifeInv`) says at which places of main
  each thread is over (`OverThreadsAreOver`), what is made at each place of the
  start (`MadeSoFar`), and that a thread that is not over has its id set
  (`LiveAreKnown`): so the teardown, which looks at the ids alone, cannot pass
  over it, in whichever initialisation main turned round.
- `EveryPeriodKept`. The invariant (`SchedInv`) is
  `since[g] <= ((i - 1) + (g - 1)) % Period[g]`: when the remainder is back at 0
  the group has just been due. The first tick leaves the offsets out, but it
  updates every group, so the bound holds after it for any offset. The
  arithmetic of remainders is in the lemmas at the head of the module.

**Container collector** (`ContainerCollectorProofs`), for any containers,
processes and addresses, from `CollectorAssumption`:

- `CollectorTypeOK`, `ItemsAreContainers`, `ListsOfTwoSweeps`. What is added to
  `ItemsMatchContainers`: a container that a sweep still means to insert and
  `cmap` has is one the sweep has yet to visit, where it is taken from the
  insertions (`NewIsNotThere`), so that no entry is overwritten with its item
  left behind; and a tag that leaked is no entry's (`LeakedApart`), so that an
  entry gives back its own item. An entry dangles only once the thread was cancelled
  (`NoneDanglesYet`), and one that stopped has no processes
  (`StoppedHasNoProcesses`). `ListsAgree` says of each place between the four
  copies which lists are those of this sweep and needs no strengthening.
- `CollectorImplementsOwnership`: `Update` and `Insert` are `Acquire` or a
  stutter, `Remove` and `DestroyEntry` `Release` or a
  stutter. `CancelInRefill` is as `Update`, and `CancelInFill` a stutter: the item it leaves was never anybody's. It has no hypothesis, since
  docker's ids tell containers apart.

The proofs have one step per action and, below it, one per conjunct the action
can disturb. `PingTwoThreads`, `PingOneThread`, `Pods`,
`Containers`, `Bpf`, `BpfCounts`, `Scrape` and `Agent` check the same properties
on small instances.

With `ContractHolds` the three refinements say that, for any number of pods and
containers, no two of one thread share a tag and no item is pinged for nobody.
What they do not say is that the pod thread and the container thread can use one
service at the same time: `OneThread` is a hypothesis that the daemon does not
fulfil, and there `OwnerHasItsItem` is what remains.

Only model-checked: all liveness (`EveryItemIsPinged`, `StalePingsEnd`,
`ListsConverge`, `RunningArePinged`, `SweepsRepair`, `UpdatesEnd`, `AgentStops`,
`StatusFollowsUnit`, `CrashesReported`), which rests on fairness, and the
properties that the code violates.

## 5. What is left out, and why

- Data: packet layout, round-trip time, the statistics themselves, the text of
  the answer, the time and reason read from a crash dump. No property is about
  them.
- `PingService` takes every critical section as one step and a lock as always
  granted in the end. What happens when a thread is cancelled inside one is in
  `Lifecycle`, where the lock has a holder.
- A thread that waits for a lock cannot be cancelled; `Lifecycle` lets it end. If
  the lock is free in the end so does the thread, and if it is lost main is stuck
  as well.
- The locks inside the logging library, in which a cancelled thread could end as
  well, and a signal handler that logs: zlog is not part of the repository.
- The parsing of the command line and of the configuration: sequential, run
  once. That it may fail, and the log level it leaves, is in `Lifecycle`.
- The process collector: it reads its own process at each scrape into metrics
  nobody else touches. Histograms: the agent makes none.
- libbpf and json (more than 60,000 of the repository's 69,652 lines), zlog,
  libmicrohttpd: third-party code. The agent's own code is about 5,500 lines, and
  `src/prom` about 4,800, so that the models, whatever they cover of those,
  stand for a small share of the whole repository.
- `prom_map_delete`, which nothing calls while the agent runs, is proved about
  (`DeleteKeyOK`) and in no run. The add and sub operations are not called;
  `prom_counter_inc` is, by `group_agent_alive_metrics.c:46-49` alone, which is not
  modelled: one sample, and one writer.
- `Lifecycle` has parts, made or freed, and not what is in them: that a cancelled
  refill leaves freed lists is in `ContainerCollector` (`CancelInRefill`). The
  socket of the ping service is only usable or not: that it may be closed twice, or
  made anew after the close (`ping.c:392` against `121-124`), is seen by no
  property.

## 6. Findings

- `PingTagRace`. Pod thread and container thread call `gen_ping_tag`
  (`ping.c:350-354`) with no lock between them and may get one tag. The second
  registration is then ignored and the first to unregister ends the pinging for
  both. `OwnerHasItsItem` says what remains: an owner whose tag nobody else got
  keeps its item.
- `PingGiveUp`. `recv_thread` counts resets over the life of the daemon
  (`ping.c:324`) and does not look at what `reset_socket` returned. After nine
  failed receives it ends although the socket is good; requests go on being
  counted, replies are not.
- `PodNotPinged`. In the merge a known pod is registered only when its address
  changed (`group_pod_info_metrics.c:235`). One that was seen before it ran, or
  stopped for a while, at the same address, is never pinged, against the comment
  at line 276.
- `ShutdownHangs`. With a `log.conf` that cannot be loaded, `log_init` falls back
  to one that logs debug messages (`logger.c:33-41`). `register_ping_item` and
  `unregister_ping_item` write one while they hold the rwlock (`ping.c:437`,
  `454`), and writing is a cancellation point. The shipped `log.conf` logs INFO, and
  `register_ping_item` writes such a message under the lock when a tag is taken
  (`ping.c:431`), which `PingTagRace` shows it can be. A container thread or pod thread
  that is cancelled there ends with the lock, and main waits for it in
  `unregister_ping_item` or `destroy_ping_svc` for ever. `AgentStops` says that
  without debug messages and without a collision the teardown ends, as far as
  locks, threads and joins go.

Observed on the way, with the models doing as the code does:

- `fill_net_dev_stat_list` and `fill_process_stat_list` free the
  list of an entry, then open and read files, and only what they return is put back
  (`container_collector.c:265-310`, `375-388`, `611-612`). A thread cancelled while
  it reads leaves the entry with a freed list, which `cmap_value_destroy` frees
  again (`1106-1121`): the teardown may end in a crash. In `ContainerCollector` that
  is `CancelInRefill`, and a `DestroyEntry` that comes to `crashed`; the safety
  properties hold up to there.
- `handle_exec` and the entry handlers read through a pointer into
  `pid_monitor_map`, which every sweep empties and fills. If the element is taken
  for a process of another container in between, the child, with all it does until
  the next sweep, or the call, is counted there. `OnlyReuseMisleads` says that
  nothing else leads a call astray. A handler counting for a container that is taken
  out of `perf_stat_map` writes into an element that the insertions of the same call
  (`bpf_stat.c:123-127`) may have given to a new container, which from then on
  shows calls it never made. `CountsAreExact` says what holds otherwise. Both take
  a handler that is under way, on another processor, while the map is being set.
  Taken by itself `CallsGoHome`, or a `CountsAreExact` without its exemption, is
  violated in `BpfCounts`.
- Two disagreements with the text of the repository need no run to be seen: a container
  whose first inspect fails is put into `cmap`, and published, without its id
  (`container_collector.c:1045`); and counters are set, which
  `prom_metric_sample.h:53` forbids (`prom_metric_sample.c:90-97` has the test
  commented out). The models have both as the code does; `ListsConverge` shows
  that the first is over when inspect succeeds again.
- A bus that was lost is not opened again (`group_container_service_metrics.c:91`
  and its two siblings): the units are shown as not active, and a kdump that
  comes up later is not seen, until the daemon is restarted. `StatusFollowsUnit`
  and `CrashesReported` therefore exempt a broken connection.
- `ret` is 0 once `init_ping_svc` succeeded, so that a daemon whose later
  initialisation fails exits as if all was well (`main.c:44`, `87`).
- SIGTERM, which systemd sends, has no handler: the teardown is only taken on
  SIGINT or after a failure. SIGINT before `main.c:70` kills.

## 7. Plan

The order is that of what a fault would cost: what runs for ever comes before
what runs once.

1. `PingOwnership`, `PingService` and their proofs; `PodInfo`;
   `ContainerCollector`; `BpfMonitor` and its proofs; `MetricScrape`. Done.
2. `UpdateScheduler`, `Lifecycle`, `ServiceStatus` composed as `Agent`; `PromMap`
   under `MetricScrape`; the proofs of both, and of `ContainerCollector`. Done.
3. Proofs of `PodInfo`, of `MonitoredAreCounted` and `QuietScrapeIsExact`, and
   of the three refinements. Done.
4. `PingClients`: pod thread, container thread and the node's network group
   over `PingService` itself instead of its contract.
5. Disk and memory statistics as functions against a reference definition.
