---------------------------- MODULE MetricScrape ----------------------------
(***************************************************************************)
(* One update of metrics, between the thread that makes it and the HTTP    *)
(* thread that answers GET /metrics: an update function under              *)
(* src/src/metrics, prom_gauge_set and prom_counter_set, clearing, and the *)
(* formatter that walks the metrics.                                       *)
(*                                                                         *)
(* An update first clears some metrics, then sets samples of these and of  *)
(* others.  Most functions clear what they set; the metrics of node cpu,   *)
(* memory and basic, disk statistics, tcp, the node's ping and services    *)
(* are set in place, and cpu and disk statistics cleared when their file   *)
(* cannot be opened.  Updates says what the function at hand may do: which *)
(* metrics it clears, and of which entries it sets a sample in which       *)
(* metric - a container that was not pinged has none in the ping metrics.  *)
(* The orders of clearing, setting and answering are all different in the  *)
(* code, the last that of a hash table; each may be any here.              *)
(*                                                                         *)
(* Each metric has a rwlock: clearing and finding or making a sample hold  *)
(* it for writing and are one step; the scrape holds it for reading from a *)
(* metric's first sample to its last.  The value is stored without it.     *)
(*                                                                         *)
(* The samples of a metric are in a hash table (PromMap) under the labels  *)
(* they were made for; two entries may have the same labels.  The value of *)
(* a sample is the number of the collection it comes from, so that it says *)
(* how old it is; 0 is that of a sample just made.                         *)
(***************************************************************************)
EXTENDS PromMap, Functions

CONSTANTS
  Entries,      \* what a sample is about: a container, an interface, a pod
  LabelOf,      \* the labels of its samples
  Metrics,      \* those one function updates
  Updates,      \* what the function may do
  None,         \* no entry, no metric
  MaxVersion    \* bound: collections

Jobs == Entries \X Metrics

ASSUME ScrapeAssumption ==
  /\ LabelOf \in [Entries -> Keys]
  /\ None \notin Entries \cup Metrics
  /\ Updates \subseteq [clear : SUBSET Metrics, set : SUBSET Jobs]
  /\ MaxVersion \in Nat

\* The metrics that every update clears before it sets any sample.
ClearedFirst == {m \in Metrics : \A u \in Updates : m \in u.clear}

VARIABLES
  source,       \* the collector's list: what is to be done, and its version
  plist,        \* the list the update is working on
  upd,          \* the update thread
  at, entry,    \* the metric it has come to, and the entry
  toClear,      \* the metrics still to be cleared after it
  rest,         \* the samples still to be set after it
  samples,      \* the samples of each metric
  http,         \* the HTTP thread
  reading,      \* the metric it is reading, whose lock it holds
  toRead,       \* the metrics it has still to read
  unread,       \* the samples of the one it is reading still to be read
  answer,       \* what it has read
  published,    \* history: the list of the last complete update
  quiet,        \* history: no update was under way since the scrape began
  life          \* main

workVars == <<upd, at, entry, toClear, rest>>
httpVars == <<http, reading, toRead, unread, answer>>
vars == <<source, plist, workVars, samples, httpVars, published, quiet, life>>

List == [clear : SUBSET Metrics, set : SUBSET Jobs, version : 0..MaxVersion]
Nothing == [clear |-> Metrics, set |-> {}, version |-> 0]
\* The labels of the samples that some jobs are about, in metric m.
LabelsIn(m, jobs) == {LabelOf[j[1]] : j \in {i \in jobs : i[2] = m}}
NoAnswer == [k \in {} |-> 0]
IsAnswer(a) == DOMAIN a \subseteq Keys /\ Range(a) \subseteq 0..MaxVersion

TypeOK ==
  /\ source \in List /\ plist \in List /\ published \in List
  /\ upd \in {"idle", "clear", "find", "store", "ended"}
  /\ at \in Metrics \cup {None} /\ entry \in Entries \cup {None}
  /\ toClear \subseteq plist.clear /\ rest \subseteq plist.set
  /\ http \in {"idle", "scrape", "stopped"}
  /\ reading \in Metrics \cup {None} /\ toRead \subseteq Metrics
  /\ unread \subseteq Keys
  /\ reading # None => unread \subseteq samples[reading].keys
  /\ DOMAIN samples = Metrics /\ DOMAIN answer = Metrics
  /\ \A m \in Metrics : IsMap(samples[m], 0..MaxVersion) /\ IsAnswer(answer[m])
  /\ quiet \in BOOLEAN
  /\ life \in {"up", "updStopped", "httpStopped", "destroyed"}

Init ==
  /\ source = Nothing /\ plist = Nothing /\ published = Nothing
  /\ upd = "idle" /\ at = None /\ entry = None /\ toClear = {} /\ rest = {}
  /\ samples = [m \in Metrics |-> NewMap]
  /\ http = "idle" /\ reading = None /\ toRead = {} /\ unread = {}
  /\ answer = [m \in Metrics |-> NoAnswer]
  /\ quiet = FALSE
  /\ life = "up"
-----------------------------------------------------------------------------
(***************************************************************************)
(* The collector makes a new list, or the system has something new to say; *)
(* the lock of the list keeps the former from happening while an update    *)
(* works on the last one.                                                  *)
(***************************************************************************)
Collect ==
  /\ upd = "idle" /\ source.version < MaxVersion
  /\ \E u \in Updates :
       source' = [clear |-> u.clear, set |-> u.set, version |-> source.version + 1]
  /\ UNCHANGED <<plist, workVars, samples, httpVars, published, quiet, life>>
-----------------------------------------------------------------------------
(***************************************************************************)
(* The update thread.                                                      *)
(***************************************************************************)
\* pthread_rwlock_wrlock waits for the reader; the mutant takes no lock.
NoWriteLock(m) == TRUE
WriteLockFree(m) == reading # m

\* What an update of list l clears; the mutant only the metrics it is going to set.
OnlyThoseSet(l) == {m \in l.clear : LabelsIn(m, l.set) # {}}
ClearedBy(l) == l.clear

\* What comes next in an update with list l.
Proceed(l, clear, set) ==
  \/ /\ clear # {}
     /\ upd' = "clear" /\ at' \in clear /\ toClear' = clear \ {at'} /\ rest' = set
     /\ UNCHANGED <<entry, published>>
  \/ /\ clear = {}
     /\ \E e \in Entries, m \in Metrics :
          /\ <<e, m>> \in set
          /\ entry' = e /\ at' = m /\ rest' = set \ {<<e, m>>}
     /\ upd' = "find" /\ toClear' = {}
     /\ UNCHANGED published
  \/ /\ clear = {} /\ set = {}
     /\ upd' = "idle" /\ at' = None /\ entry' = None /\ toClear' = {} /\ rest' = {}
     /\ published' = l

UpdateBegins ==
  /\ upd = "idle" /\ life = "up"
  /\ plist' = source
  /\ Proceed(source, ClearedBy(source), source.set)
  /\ quiet' = FALSE
  /\ UNCHANGED <<source, samples, httpVars, life>>

\* prom_metric_clear_samples; the mutant clears nothing.
NotCleared(m) == samples
Cleared(m) == [samples EXCEPT ![m] = NewMap]

Clear ==
  /\ upd = "clear" /\ WriteLockFree(at)
  /\ samples' = Cleared(at)
  /\ Proceed(plist, toClear, rest)
  /\ UNCHANGED <<source, plist, httpVars, quiet, life>>

\* prom_metric_sample_from_labels makes the sample with the value 0.0 if it is
\* new; the mutant makes one without a look.
SampleMade(s, k) == SetKey(s, k, 0)
SampleFor(s, k) == IF HasKey(s, k) THEN s ELSE SetKey(s, k, 0)

FindSample ==
  /\ upd = "find" /\ WriteLockFree(at)
  /\ samples' = [samples EXCEPT ![at] = SampleFor(@, LabelOf[entry])]
  /\ upd' = "store"
  /\ UNCHANGED <<source, plist, at, entry, toClear, rest, httpVars, published, quiet, life>>

\* prom_metric_sample_set; nothing keeps a reader out.
StoreValue ==
  /\ upd = "store"
  /\ samples' = [samples EXCEPT ![at] = Stored(@, LabelOf[entry], plist.version)]
  /\ Proceed(plist, {}, rest)
  /\ UNCHANGED <<source, plist, httpVars, quiet, life>>
-----------------------------------------------------------------------------
(***************************************************************************)
(* The HTTP thread, one request at a time: metric after metric under its   *)
(* lock, sample after sample, each read as it is at that moment.           *)
(***************************************************************************)
ScrapeBegins ==
  /\ http = "idle" /\ life \in {"up", "updStopped"}
  /\ http' = "scrape"
  /\ toRead' = Metrics /\ answer' = [m \in Metrics |-> NoAnswer]
  /\ quiet' = (upd \in {"idle", "ended"})
  /\ UNCHANGED <<source, plist, workVars, samples, reading, unread, published, life>>

ReadMetric(m) ==
  /\ http = "scrape" /\ reading = None /\ m \in toRead
  /\ reading' = m /\ toRead' = toRead \ {m} /\ unread' = samples[m].keys
  /\ UNCHANGED <<source, plist, workVars, samples, http, answer, published, quiet, life>>

ReadSample(k) ==
  /\ reading # None /\ k \in unread
  /\ answer' = [answer EXCEPT ![reading] =
       [l \in DOMAIN @ \cup {k} |-> IF l = k THEN Get(samples[reading], k) ELSE @[l]]]
  /\ unread' = unread \ {k}
  /\ UNCHANGED <<source, plist, workVars, samples, http, reading, toRead, published, quiet, life>>

\* The mutant leaves without unlocking.
StillLocked == reading
Unlocked == None

MetricRead ==
  /\ reading # None /\ unread = {}
  /\ reading' = Unlocked
  /\ UNCHANGED <<source, plist, workVars, samples, http, toRead, unread, answer, published, quiet, life>>

ScrapeEnds ==
  /\ http = "scrape" /\ reading = None /\ toRead = {}
  /\ http' = "idle"
  /\ UNCHANGED <<source, plist, workVars, samples, reading, toRead, unread, answer, published,
                 quiet, life>>
-----------------------------------------------------------------------------
(***************************************************************************)
(* Shutdown, in the order of do_cpds_agent_service.  The update thread is  *)
(* cancelled where it calls the system, never with a sample in its hands;  *)
(* MHD_stop_daemon waits for the request being answered.                   *)
(***************************************************************************)
\* The mutant does not stop the HTTP thread first.
AfterUpdates == life = "updStopped"
AfterHttp == life = "httpStopped"

StopUpdating ==
  /\ life = "up" /\ upd \in {"idle", "clear", "find"}
  /\ upd' = "ended" /\ life' = "updStopped"
  /\ quiet' = (quiet /\ upd = "idle")
  /\ UNCHANGED <<source, plist, at, entry, toClear, rest, samples, httpVars, published>>

StopHttp ==
  /\ life = "updStopped" /\ http = "idle"
  /\ http' = "stopped" /\ life' = "httpStopped"
  /\ UNCHANGED <<source, plist, workVars, samples, reading, toRead, unread, answer, published, quiet>>

DestroyMetrics ==
  /\ AfterHttp
  /\ life' = "destroyed"
  /\ UNCHANGED <<source, plist, workVars, samples, httpVars, published, quiet>>

Terminated == life = "destroyed" /\ UNCHANGED vars
-----------------------------------------------------------------------------
UpdateThread == UpdateBegins \/ Clear \/ FindSample \/ StoreValue
Scraping ==
  \/ \E m \in Metrics : ReadMetric(m)
  \/ \E k \in Keys : ReadSample(k)
  \/ MetricRead \/ ScrapeEnds
Shutdown == StopUpdating \/ StopHttp \/ DestroyMetrics

Next == Collect \/ UpdateThread \/ ScrapeBegins \/ Scraping \/ Shutdown \/ Terminated

Spec == Init /\ [][Next]_vars

\* Both threads are scheduled; a waiting writer gets the lock although scrapes
\* go on, which a rwlock promises only with strong fairness.
FairSpec ==
  /\ Spec
  /\ WF_vars(UpdateThread) /\ WF_vars(Scraping)
  /\ SF_vars(Clear) /\ SF_vars(FindSample)
-----------------------------------------------------------------------------
(***************************************************************************)
(* Properties.                                                             *)
(***************************************************************************)

\* The versions an answer shows for a metric, apart from samples just made.
Shown(m) == Range(answer[m]) \ {0}

\* What an answer says of a metric that is always cleared first comes from one update,
\* however the scrape and the unlocked stores fall together.  A metric that is set in
\* place may show two.
OneVersionPerMetric == \A m \in ClearedFirst : Cardinality(Shown(m)) <= 1

\* Of these metrics, whatever is read next is not older than what the answer shows
\* already, in whichever order the metrics are cleared, set and read: all of them are
\* cleared before any is set.
NoOlderAfterNewer ==
  [][\A m, n \in ClearedFirst : \A v \in Shown(m), w \in Shown(n)' \ Shown(n) : v <= w]_vars

\* A scrape that no update overlaps answers, in every metric, the samples the last
\* complete update set, with its values; and nothing else in the metrics that update
\* cleared.  In the others samples of what is gone stay.
QuietScrapeIsExact ==
  http = "scrape" /\ quiet /\ upd = "idle" /\ reading = None /\ toRead = {} =>
    \A m \in Metrics :
      LET set == LabelsIn(m, published.set) IN
      /\ \A k \in set : k \in DOMAIN answer[m] /\ answer[m][k] = published.version
      /\ m \in published.clear => DOMAIN answer[m] = set

\* A scrape walks the list of keys and looks each of them up: in every metric the
\* list is exactly the samples there are, each where its labels hash to and none
\* with freed memory, while the table grows and labels come twice.
KeysMatchNodes == \A m \in Metrics : WellFormed(samples[m])

\* The metrics are freed only when neither thread can be using one.
MetricsOutliveThreads == life = "destroyed" => upd = "ended" /\ http = "stopped"

\* An update ends although scrapes go on and on, unless the shutdown comes first: the
\* scrape never keeps a lock.
UpdatesEnd == upd # "idle" ~> upd \in {"idle", "ended"}
=============================================================================
