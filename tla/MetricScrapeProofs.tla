------------------------- MODULE MetricScrapeProofs -------------------------
(***************************************************************************)
(* What is proved of an update and the scrape for any metrics, entries,    *)
(* labels and hash, and whatever the updates clear and set: types, that    *)
(* every table stays well-formed, what an answer can mix, what a scrape    *)
(* without an update shows, and that the metrics outlive both threads.     *)
(*                                                                         *)
(* The invariant says that at any time the samples of all metrics that are *)
(* always cleared first come from one version v, which no answer is ahead  *)
(* of: an update clears them all before it sets the first, and a metric    *)
(* that is being read is not cleared.  Of the others it says only that     *)
(* they are tables.                                                        *)
(***************************************************************************)
EXTENDS MetricScrape, PromMapProofs

\* What a sample of metric m may hold when version v is being shown.
Values(m, v) == IF m \in ClearedFirst THEN {0, v} ELSE 0..MaxVersion

FromVersion(v) ==
  /\ v <= plist.version
  /\ \A m \in Metrics : IsTable(samples[m], Values(m, v))
  /\ \A m \in ClearedFirst : \A x \in Range(answer[m]) : x <= v
  /\ reading \in ClearedFirst => Range(answer[reading]) \subseteq {0, v}
  /\ upd \in {"find", "store"} => v = plist.version

SourceIsAhead ==
  /\ plist.version <= source.version
  /\ ClearedFirst \subseteq plist.clear /\ ClearedFirst \subseteq source.clear
ClearedBehind ==
  upd = "clear" => \A m \in plist.clear \ (toClear \cup {at}) :
    /\ samples[m] = NewMap
    /\ reading = m => Range(answer[m]) = {}
NotReadYet ==
  http = "scrape" => reading \notin toRead /\ \A m \in toRead : answer[m] = NoAnswer
OneEach ==
  \A m \in ClearedFirst : \E v \in 0..MaxVersion : Range(answer[m]) \subseteq {0, v}
SampleIsThere == upd = "store" => LabelOf[entry] \in samples[at].keys
Working ==
  /\ upd \in {"clear", "find", "store"} => at \in Metrics
  /\ upd \in {"find", "store"} => entry \in Entries
ReadingIsScraping == reading # None => http = "scrape"
StoppedInOrder ==
  /\ life # "up" <=> upd = "ended"
  /\ life \in {"httpStopped", "destroyed"} <=> http = "stopped"

Inv ==
  /\ TypeOK
  /\ \E v \in 0..MaxVersion : FromVersion(v)
  /\ SourceIsAhead /\ ClearedBehind /\ NotReadYet /\ OneEach /\ SampleIsThere
  /\ Working /\ ReadingIsScraping /\ StoppedInOrder

LEMMA EmptyAnswer == Range(NoAnswer) = {} /\ DOMAIN NoAnswer = {} /\ IsAnswer(NoAnswer)
BY DEF NoAnswer, Range, IsAnswer

LEMMA ConstantsType ==
  /\ MaxVersion \in Nat /\ None \notin Metrics /\ None \notin Entries
  /\ LabelOf \in [Entries -> Keys]
BY ScrapeAssumption

LEMMA ValuesRange ==
  ASSUME NEW m, NEW v \in 0..MaxVersion
  PROVE  0 \in Values(m, v) /\ v \in Values(m, v) /\ Values(m, v) \subseteq 0..MaxVersion
BY ConstantsType DEF Values

LEMMA ClearedFirstMetrics ==
  /\ ClearedFirst \subseteq Metrics
  /\ \A u \in Updates : ClearedFirst \subseteq u.clear /\ u.clear \in SUBSET Metrics
                        /\ u.set \in SUBSET Jobs
BY ScrapeAssumption DEF ClearedFirst

\* A table of some values is a table of more.
LEMMA WiderTable ==
  ASSUME NEW V, NEW W, V \subseteq W, NEW m, IsTable(m, V)
  PROVE  IsTable(m, W)
BY DEF IsTable, IsMap

LEMMA InitInv ==
  ASSUME Init
  PROVE  Inv
<1>1. TypeOK
  <2>1. IsMap(NewMap, 0..MaxVersion)
    BY NewMapOK DEF IsTable
  <2>2. Nothing \in List
    BY ConstantsType DEF Nothing, List
  <2>3. /\ DOMAIN samples = Metrics /\ DOMAIN answer = Metrics
        /\ \A m \in Metrics : samples[m] = NewMap /\ answer[m] = NoAnswer
    BY DEF Init
  <2>4. QED
    BY <2>1, <2>2, <2>3, EmptyAnswer DEF Init, TypeOK
<1>2. FromVersion(0)
  BY NewMapOK, EmptyAnswer, ClearedFirstMetrics, ConstantsType DEF Init, FromVersion, Nothing
<1>3. OneEach
  BY EmptyAnswer, ConstantsType, ClearedFirstMetrics DEF Init, OneEach
<1>4. SourceIsAhead
  BY ClearedFirstMetrics DEF Init, SourceIsAhead, Nothing
<1>5. QED
  BY <1>1, <1>2, <1>3, <1>4, ConstantsType
     DEF Init, Inv, ClearedBehind, NotReadYet, SampleIsThere, Working, ReadingIsScraping,
         StoppedInOrder

LEMMA CollectInv ==
  ASSUME Inv, Collect
  PROVE  Inv'
<1>u. UNCHANGED <<plist, upd, at, entry, toClear, rest, samples, http, reading, toRead, unread,
                  answer, published, quiet, life>>
  BY DEF Collect, workVars, httpVars
<1>1. PICK u \in Updates :
        source' = [clear |-> u.clear, set |-> u.set, version |-> source.version + 1]
  BY DEF Collect
<1>2. source.version \in 0..MaxVersion /\ source.version < MaxVersion /\ plist.version \in 0..MaxVersion
  BY DEF Inv, TypeOK, List, Collect
<1>3. source' \in List
  BY <1>1, <1>2, ClearedFirstMetrics, ConstantsType DEF List
<1>4. TypeOK'
  BY <1>u, <1>3 DEF Inv, TypeOK
<1>5. SourceIsAhead'
  BY <1>u, <1>1, <1>2, ClearedFirstMetrics DEF Inv, SourceIsAhead
<1>6. PICK v \in 0..MaxVersion : FromVersion(v)
  BY DEF Inv
<1>7. FromVersion(v)'
  BY <1>u, <1>6 DEF FromVersion
<1>8. QED
  BY <1>u, <1>4, <1>5, <1>7
     DEF Inv, ClearedBehind, NotReadYet, OneEach, SampleIsThere, Working, ReadingIsScraping,
         StoppedInOrder

\* Where an update comes to next.
LEMMA ProceedsTo ==
  ASSUME NEW l, NEW clear \in SUBSET Metrics, NEW set \in SUBSET Jobs,
         Proceed(l, clear, set), entry \in Entries \cup {None}
  PROVE  /\ upd' \in {"idle", "clear", "find"}
         /\ at' \in Metrics \cup {None} /\ entry' \in Entries \cup {None}
         /\ toClear' \subseteq clear /\ rest' \subseteq set
         /\ published' \in {published, l}
         /\ upd' = "clear" => /\ at' \in Metrics /\ clear = toClear' \cup {at'}
                              /\ rest' = set
         /\ upd' = "find" => /\ clear = {} /\ at' \in Metrics /\ entry' \in Entries
                             /\ <<entry', at'>> \in set /\ rest' = set \ {<<entry', at'>>}
         /\ upd' = "idle" => clear = {} /\ set = {} /\ published' = l
<1>1. CASE clear # {}
  <2>1. /\ upd' = "clear" /\ at' \in clear /\ toClear' = clear \ {at'} /\ rest' = set
        /\ entry' = entry /\ published' = published
    BY <1>1 DEF Proceed
  <2>2. QED
    BY <2>1
<1>2. CASE clear = {} /\ upd' = "find"
  <2>1. PICK e \in Entries, m \in Metrics :
          <<e, m>> \in set /\ entry' = e /\ at' = m /\ rest' = set \ {<<e, m>>}
    BY <1>2 DEF Proceed
  <2>2. toClear' = {} /\ published' = published
    BY <1>2 DEF Proceed
  <2>3. QED
    BY <1>2, <2>1, <2>2
<1>3. CASE clear = {} /\ upd' # "find"
  <2>1. /\ set = {} /\ upd' = "idle" /\ at' = None /\ entry' = None /\ toClear' = {}
        /\ rest' = {} /\ published' = l
    BY <1>3 DEF Proceed
  <2>2. QED
    BY <1>3, <2>1
<1>4. QED
  BY <1>1, <1>2, <1>3

LEMMA UpdateBeginsInv ==
  ASSUME Inv, UpdateBegins
  PROVE  Inv'
<1>u. UNCHANGED <<source, samples, http, reading, toRead, unread, answer, life>>
  BY DEF UpdateBegins, httpVars
<1>t. /\ source \in List /\ source.clear \in SUBSET Metrics /\ source.set \in SUBSET Jobs
      /\ source.version \in 0..MaxVersion /\ plist.version \in 0..MaxVersion
      /\ published \in List /\ upd = "idle" /\ life = "up" /\ entry \in Entries \cup {None}
  BY DEF Inv, TypeOK, List, UpdateBegins
<1>p. plist' = source /\ quiet' = FALSE /\ Proceed(source, source.clear, source.set)
  BY DEF UpdateBegins, ClearedBy
<1>1. /\ upd' \in {"idle", "clear", "find"}
      /\ at' \in Metrics \cup {None} /\ entry' \in Entries \cup {None}
      /\ toClear' \subseteq source.clear /\ rest' \subseteq source.set
      /\ published' \in {published, source}
      /\ upd' = "clear" => /\ at' \in Metrics /\ source.clear = toClear' \cup {at'}
      /\ upd' = "find" => source.clear = {} /\ at' \in Metrics /\ entry' \in Entries
  BY <1>p, <1>t, ProceedsTo
<1>2. TypeOK'
  BY <1>u, <1>t, <1>p, <1>1 DEF Inv, TypeOK
<1>3. SourceIsAhead'
  BY <1>u, <1>p, <1>t DEF Inv, SourceIsAhead
<1>4. \E v \in 0..MaxVersion : FromVersion(v)'
  <2>1. PICK v \in 0..MaxVersion : FromVersion(v)
    BY DEF Inv
  <2>2. v <= source.version
    BY <2>1, <1>t DEF FromVersion, Inv, SourceIsAhead
  <2>3. CASE upd' # "find"
    BY <2>1, <2>2, <2>3, <1>u, <1>p, <1>1 DEF FromVersion
  <2>4. CASE upd' = "find"
    <3>1. ClearedFirst = {}
      BY <2>4, <1>1, <1>t DEF Inv, SourceIsAhead
    <3>2. \A m \in Metrics : Values(m, v) = Values(m, source.version)
      BY <3>1 DEF Values
    <3>3. FromVersion(source.version)'
      BY <2>1, <3>1, <3>2, <1>u, <1>p, <1>t DEF FromVersion
    <3>4. QED
      BY <3>3, <1>t, <1>u
  <2>5. QED
    BY <2>3, <2>4
<1>5. ClearedBehind' /\ SampleIsThere' /\ Working'
  BY <1>1, <1>p DEF ClearedBehind, SampleIsThere, Working
<1>6. QED
  BY <1>u, <1>t, <1>1, <1>2, <1>3, <1>4, <1>5
     DEF Inv, NotReadYet, OneEach, ReadingIsScraping, StoppedInOrder

LEMMA ClearInv ==
  ASSUME Inv, Clear
  PROVE  Inv'
<1>i. TypeOK /\ at \in Metrics /\ upd = "clear" /\ reading # at
  BY DEF Inv, Working, Clear, WriteLockFree
<1>s. /\ DOMAIN samples' = Metrics
      /\ \A m \in Metrics : samples'[m] = IF m = at THEN NewMap ELSE samples[m]
  BY <1>i DEF TypeOK, Clear, Cleared
<1>t. /\ plist \in List /\ plist.version \in 0..MaxVersion /\ plist.clear \in SUBSET Metrics
      /\ toClear \in SUBSET plist.clear /\ toClear \in SUBSET Metrics
      /\ rest \in SUBSET plist.set /\ rest \in SUBSET Jobs
      /\ published \in List /\ entry \in Entries \cup {None}
  BY <1>i DEF TypeOK, List
<1>u. UNCHANGED <<source, plist, http, reading, toRead, unread, answer, quiet, life>>
  BY DEF Clear, httpVars
<1>p. Proceed(plist, toClear, rest)
  BY DEF Clear
<1>1. /\ upd' \in {"idle", "clear", "find"}
      /\ at' \in Metrics \cup {None} /\ entry' \in Entries \cup {None}
      /\ toClear' \subseteq toClear /\ rest' \subseteq rest
      /\ published' \in {published, plist}
      /\ upd' = "clear" => at' \in Metrics /\ toClear = toClear' \cup {at'}
      /\ upd' = "find" => toClear = {} /\ at' \in Metrics /\ entry' \in Entries
  BY <1>p, <1>t, ProceedsTo
<1>2. TypeOK'
  <2>1. \A m \in Metrics : IsMap(samples'[m], 0..MaxVersion)
    BY <1>i, <1>s, NewMapOK DEF TypeOK, IsTable
  <2>2. reading # None => unread \subseteq samples'[reading].keys
    BY <1>i, <1>s DEF TypeOK
  <2>3. toClear' \subseteq plist.clear /\ rest' \subseteq plist.set /\ published' \in List
    BY <1>1, <1>t
  <2>4. QED
    BY <1>i, <1>s, <1>u, <1>1, <2>1, <2>2, <2>3 DEF TypeOK
<1>3. \A m \in plist.clear \ toClear :
        samples'[m] = NewMap /\ (reading = m => Range(answer[m]) = {})
  BY <1>i, <1>s, <1>t DEF Inv, ClearedBehind
<1>4. ClearedBehind'
  BY <1>1, <1>3, <1>u DEF ClearedBehind
<1>5. \E v \in 0..MaxVersion : FromVersion(v)'
  <2>1. PICK v \in 0..MaxVersion : FromVersion(v)
    BY DEF Inv
  <2>2. CASE upd' # "find"
    <3>1. \A m \in Metrics : IsTable(samples'[m], Values(m, v))
      BY <2>1, <1>s, NewMapOK DEF FromVersion
    <3>2. FromVersion(v)'
      BY <2>1, <2>2, <3>1, <1>u, <1>1 DEF FromVersion
    <3>3. QED
      BY <3>2
  <2>3. CASE upd' = "find"
    <3>1. \A m \in ClearedFirst :
            samples'[m] = NewMap /\ (reading = m => Range(answer[m]) = {})
      BY <2>3, <1>1, <1>3 DEF Inv, SourceIsAhead
    <3>2. ASSUME NEW m \in Metrics
          PROVE  IsTable(samples'[m], Values(m, plist.version))
      <4>1. CASE m \in ClearedFirst
        BY <3>1, <4>1, NewMapOK
      <4>2. CASE m \notin ClearedFirst
        BY <2>1, <4>2, <1>s, NewMapOK DEF FromVersion, Values
      <4>3. QED
        BY <4>1, <4>2
    <3>3. ASSUME NEW m \in ClearedFirst, NEW x \in Range(answer[m])
          PROVE  x <= plist.version
      <4>1. x <= v /\ v <= plist.version
        BY <2>1 DEF FromVersion
      <4>2. x \in 0..MaxVersion
        BY <1>i, ClearedFirstMetrics DEF TypeOK, IsAnswer
      <4>3. QED
        BY <4>1, <4>2, <1>t
    <3>4. FromVersion(plist.version)'
      BY <3>1, <3>2, <3>3, <1>u, <1>t DEF FromVersion
    <3>5. QED
      BY <3>4, <1>t, <1>u
  <2>4. QED
    BY <2>2, <2>3
<1>6. SampleIsThere' /\ Working'
  BY <1>1 DEF SampleIsThere, Working
<1>7. QED
  BY <1>i, <1>u, <1>1, <1>2, <1>4, <1>5, <1>6
     DEF Inv, SourceIsAhead, NotReadYet, OneEach, ReadingIsScraping, StoppedInOrder

\* Finding and storing change the table of one metric, which keeps its keys or
\* gets one more, of the version that is being published.
LEMMA OneTable ==
  ASSUME Inv, upd \in {"find", "store"}, NEW t,
         IsTable(t, Values(at, plist.version)), samples[at].keys \subseteq t.keys,
         samples' = [samples EXCEPT ![at] = t],
         UNCHANGED <<source, plist, reading, unread, answer>>
  PROVE  /\ \A m \in Metrics : IsMap(samples'[m], 0..MaxVersion)
         /\ DOMAIN samples' = Metrics
         /\ reading # None => unread \subseteq samples'[reading].keys
         /\ FromVersion(plist.version)'
<1>i. TypeOK /\ at \in Metrics /\ DOMAIN samples = Metrics
  BY DEF Inv, TypeOK, Working
<1>s. DOMAIN samples' = Metrics /\ \A m \in Metrics : samples'[m] = IF m = at THEN t ELSE samples[m]
  BY <1>i
<1>p. plist.version \in 0..MaxVersion
  BY <1>i DEF TypeOK, List
<1>1. PICK v \in 0..MaxVersion : FromVersion(v)
  BY DEF Inv
<1>2. FromVersion(plist.version)
  BY <1>1 DEF FromVersion
<1>3. FromVersion(plist.version)'
  BY <1>2, <1>s DEF FromVersion
<1>4. \A m \in Metrics : IsMap(samples'[m], 0..MaxVersion)
  <2>1. IsTable(t, 0..MaxVersion)
    BY <1>p, ValuesRange, WiderTable
  <2>2. QED
    BY <2>1, <1>i, <1>s DEF TypeOK, IsTable
<1>5. reading # None => unread \subseteq samples'[reading].keys
  BY <1>i, <1>s DEF TypeOK
<1>6. QED
  BY <1>3, <1>4, <1>5, <1>s

LEMMA FindSampleTable ==
  ASSUME Inv, FindSample, NEW t, t = SampleFor(samples[at], LabelOf[entry])
  PROVE  /\ IsTable(t, Values(at, plist.version))
         /\ t.keys = samples[at].keys \cup {LabelOf[entry]}
         /\ NodesOf(t) \subseteq NodesOf(samples[at]) \cup {Node(LabelOf[entry], 0)}
         /\ LabelOf[entry] \in samples[at].keys => t = samples[at]
<1> DEFINE k == LabelOf[entry]
           V == Values(at, plist.version)
<1>i. at \in Metrics /\ upd = "find" /\ entry \in Entries /\ plist.version \in 0..MaxVersion
  BY DEF Inv, TypeOK, List, Working, FindSample
<1>k. k \in Keys
  BY <1>i, ConstantsType
<1>1. IsTable(samples[at], V)
  BY <1>i DEF Inv, FromVersion
<1>2. 0 \in V
  BY <1>i, ValuesRange
<1>3. t = IF HasKey(samples[at], k) THEN samples[at] ELSE SetKey(samples[at], k, 0)
  BY DEF SampleFor
<1> HIDE DEF k, V
<1>4. HasKey(samples[at], k) <=> k \in samples[at].keys
  BY <1>1, <1>k, HasKeyIsListed DEF IsTable
<1>5. CASE k \in samples[at].keys
  BY <1>1, <1>3, <1>4, <1>5 DEF k, V
<1>6. CASE k \notin samples[at].keys
  <2>1. t = SetKey(samples[at], k, 0)
    BY <1>3, <1>4, <1>6
  <2>2. /\ IsTable(SetKey(samples[at], k, 0), V)
        /\ SetKey(samples[at], k, 0).keys = samples[at].keys \cup {k}
        /\ NodesOf(SetKey(samples[at], k, 0)) = NodesOf(samples[at]) \cup {Node(k, 0)}
    BY <1>1, <1>2, <1>k, <1>6, SetKeyOK
  <2>3. QED
    BY <2>1, <2>2, <1>6 DEF k, V
<1>7. QED
  BY <1>5, <1>6

LEMMA FindSampleInv ==
  ASSUME Inv, FindSample
  PROVE  Inv'
<1> DEFINE t == SampleFor(samples[at], LabelOf[entry])
<1>i. TypeOK /\ at \in Metrics /\ upd = "find"
  BY DEF Inv, TypeOK, Working, FindSample
<1>2. IsTable(t, Values(at, plist.version)) /\ t.keys = samples[at].keys \cup {LabelOf[entry]}
  BY FindSampleTable
<1>3. samples' = [samples EXCEPT ![at] = t]
  BY DEF FindSample
<1> HIDE DEF t
<1>4. /\ upd' = "store"
      /\ UNCHANGED <<source, plist, at, entry, toClear, rest, http, reading, toRead, unread,
                     answer, published, quiet, life>>
  BY DEF FindSample, httpVars
<1>5. /\ \A m \in Metrics : IsMap(samples'[m], 0..MaxVersion)
      /\ DOMAIN samples' = Metrics
      /\ reading # None => unread \subseteq samples'[reading].keys
      /\ FromVersion(plist.version)'
  BY <1>i, <1>2, <1>3, <1>4, OneTable
<1>6. TypeOK'
  BY <1>i, <1>4, <1>5 DEF TypeOK
<1>7. SampleIsThere'
  BY <1>i, <1>2, <1>3, <1>4 DEF SampleIsThere, TypeOK
<1>8. plist'.version \in 0..MaxVersion
  BY <1>i, <1>4 DEF TypeOK, List
<1>9. \E v \in 0..MaxVersion : FromVersion(v)'
  BY <1>4, <1>5, <1>8
<1>10. QED
  BY <1>4, <1>6, <1>7, <1>9, <1>i
     DEF Inv, SourceIsAhead, ClearedBehind, NotReadYet, OneEach, Working,
         ReadingIsScraping, StoppedInOrder

LEMMA StoreValueTable ==
  ASSUME Inv, StoreValue, NEW t, t = Stored(samples[at], LabelOf[entry], plist.version)
  PROVE  /\ IsTable(t, Values(at, plist.version))
         /\ t.keys = samples[at].keys /\ LabelOf[entry] \in samples[at].keys
         /\ NodesOf(t) = {n \in NodesOf(samples[at]) : n.key # LabelOf[entry]}
                           \cup {Node(LabelOf[entry], plist.version)}
<1> DEFINE k == LabelOf[entry]
           v == plist.version
           V == Values(at, v)
<1>i. at \in Metrics /\ upd = "store" /\ entry \in Entries /\ v \in 0..MaxVersion
  BY DEF Inv, TypeOK, List, Working, StoreValue
<1>k. k \in Keys /\ k \in samples[at].keys
  BY <1>i, ConstantsType DEF Inv, SampleIsThere
<1>1. IsTable(samples[at], V)
  BY <1>i DEF Inv, FromVersion
<1>2. v \in V
  BY <1>i, ValuesRange
<1>3. t = Stored(samples[at], k, v)
  OBVIOUS
<1> HIDE DEF k, v, V
<1>4. QED
  <2>1. /\ IsTable(Stored(samples[at], k, v), V)
        /\ Stored(samples[at], k, v).keys = samples[at].keys
        /\ NodesOf(Stored(samples[at], k, v))
             = {n \in NodesOf(samples[at]) : n.key # k} \cup {Node(k, v)}
    BY <1>1, <1>2, <1>k, StoredOK
  <2>2. QED
    BY <2>1, <1>3, <1>k DEF k, v, V

LEMMA StoreValueInv ==
  ASSUME Inv, StoreValue
  PROVE  Inv'
<1> DEFINE t == Stored(samples[at], LabelOf[entry], plist.version)
<1>i. TypeOK /\ at \in Metrics /\ upd = "store"
  BY DEF Inv, TypeOK, Working, StoreValue
<1>2. IsTable(t, Values(at, plist.version)) /\ t.keys = samples[at].keys
  BY StoreValueTable
<1>3. samples' = [samples EXCEPT ![at] = t]
  BY DEF StoreValue
<1> HIDE DEF t
<1>t. /\ plist \in List /\ rest \in SUBSET plist.set /\ rest \in SUBSET Jobs
      /\ published \in List /\ entry \in Entries \cup {None} /\ {} \in SUBSET Metrics
  BY <1>i DEF TypeOK, List
<1>4. UNCHANGED <<source, plist, http, reading, toRead, unread, answer, quiet, life>>
      /\ Proceed(plist, {}, rest)
  BY DEF StoreValue, httpVars
<1>n. /\ upd' \in {"idle", "clear", "find"} /\ upd' # "clear"
      /\ at' \in Metrics \cup {None} /\ entry' \in Entries \cup {None}
      /\ toClear' = {} /\ rest' \subseteq rest
      /\ published' \in {published, plist}
      /\ upd' = "find" => at' \in Metrics /\ entry' \in Entries
  BY <1>4, <1>t, ProceedsTo
<1>5. /\ \A m \in Metrics : IsMap(samples'[m], 0..MaxVersion)
      /\ DOMAIN samples' = Metrics
      /\ reading # None => unread \subseteq samples'[reading].keys
      /\ FromVersion(plist.version)'
  BY <1>i, <1>2, <1>3, <1>4, OneTable
<1>6. TypeOK'
  <2>1. rest' \subseteq plist.set /\ toClear' \subseteq plist.clear /\ published' \in List
    BY <1>n, <1>t
  <2>2. QED
    BY <1>i, <1>4, <1>n, <1>5, <2>1 DEF TypeOK
<1>8. plist'.version \in 0..MaxVersion
  BY <1>i, <1>4 DEF TypeOK, List
<1>9. \E v \in 0..MaxVersion : FromVersion(v)'
  BY <1>4, <1>5, <1>8
<1>10. SampleIsThere' /\ ClearedBehind' /\ Working'
  BY <1>n DEF SampleIsThere, ClearedBehind, Working
<1>11. QED
  BY <1>4, <1>n, <1>6, <1>9, <1>10, <1>i
     DEF Inv, SourceIsAhead, NotReadYet, OneEach, ReadingIsScraping, StoppedInOrder

LEMMA ScrapeBeginsInv ==
  ASSUME Inv, ScrapeBegins
  PROVE  Inv'
<1>1. /\ http = "idle" /\ http' = "scrape" /\ toRead' = Metrics
      /\ DOMAIN answer' = Metrics /\ \A m \in Metrics : answer'[m] = NoAnswer
      /\ UNCHANGED <<source, plist, upd, at, entry, toClear, rest, samples, reading, unread,
                     published, life>>
  BY DEF ScrapeBegins, workVars
<1>i. TypeOK /\ reading = None
  BY <1>1 DEF Inv, ReadingIsScraping
<1>2. TypeOK'
  <2>1. quiet' \in BOOLEAN
    BY DEF ScrapeBegins
  <2>2. QED
    BY <1>i, <1>1, <2>1, EmptyAnswer DEF TypeOK
<1>3. PICK v \in 0..MaxVersion : FromVersion(v)
  BY DEF Inv
<1>4. FromVersion(v)'
  BY <1>i, <1>1, <1>3, EmptyAnswer, ClearedFirstMetrics, ConstantsType DEF FromVersion
<1>5. OneEach'
  BY <1>1, EmptyAnswer, ClearedFirstMetrics, ConstantsType DEF OneEach
<1>6. NotReadYet' /\ ClearedBehind'
  BY <1>1, <1>i, ConstantsType DEF Inv, NotReadYet, ClearedBehind, TypeOK, List
<1>7. StoppedInOrder'
  BY <1>1 DEF Inv, StoppedInOrder
<1>8. QED
  BY <1>1, <1>i, <1>2, <1>4, <1>5, <1>6, <1>7
     DEF Inv, SourceIsAhead, SampleIsThere, Working, ReadingIsScraping

LEMMA ReadMetricInv ==
  ASSUME Inv, NEW m \in Metrics, ReadMetric(m)
  PROVE  Inv'
<1>1. /\ http = "scrape" /\ reading = None /\ m \in toRead
      /\ reading' = m /\ toRead' = toRead \ {m} /\ unread' = samples[m].keys
      /\ UNCHANGED <<source, plist, upd, at, entry, toClear, rest, samples, http, answer,
                     published, quiet, life>>
  BY DEF ReadMetric, workVars
<1>2. answer[m] = NoAnswer
  BY <1>1 DEF Inv, NotReadYet
<1>3. TypeOK'
  <2>1. samples[m].keys \subseteq Keys
    BY DEF Inv, TypeOK, IsMap
  <2>2. QED
    BY <1>1, <2>1 DEF Inv, TypeOK
<1>4. PICK v \in 0..MaxVersion : FromVersion(v)
  BY DEF Inv
<1>5. FromVersion(v)'
  BY <1>1, <1>2, <1>4, EmptyAnswer DEF FromVersion
<1>6. NotReadYet' /\ ClearedBehind'
  BY <1>1, <1>2, EmptyAnswer DEF Inv, NotReadYet, ClearedBehind
<1>7. QED
  BY <1>1, <1>3, <1>5, <1>6
     DEF Inv, SourceIsAhead, OneEach, SampleIsThere, Working, ReadingIsScraping, StoppedInOrder

\* One more sample of the metric being read, of the version shown if the metric is
\* always cleared first.
LEMMA SampleRead ==
  ASSUME Inv, NEW k \in Keys, ReadSample(k), NEW v \in 0..MaxVersion, FromVersion(v)
  PROVE  /\ reading \in Metrics /\ DOMAIN answer' = Metrics
         /\ \A m \in Metrics : m # reading => answer'[m] = answer[m]
         /\ DOMAIN answer'[reading] = DOMAIN answer[reading] \cup {k}
         /\ \E x \in Values(reading, v) :
              Range(answer'[reading]) \subseteq Range(answer[reading]) \cup {x}
<1> DEFINE a == answer[reading]
           x == Get(samples[reading], k)
<1>i. TypeOK /\ k \in unread /\ reading # None
  BY DEF Inv, ReadSample
<1>r. reading \in Metrics /\ k \in samples[reading].keys
  BY <1>i DEF TypeOK
<1>2. x \in Values(reading, v)
  BY <1>r, GetOK DEF FromVersion
<1>3. /\ DOMAIN answer' = Metrics
      /\ \A m \in Metrics : answer'[m] =
           IF m = reading THEN [l \in DOMAIN a \cup {k} |-> IF l = k THEN x ELSE a[l]]
           ELSE answer[m]
  BY <1>i, <1>r DEF ReadSample, TypeOK
<1> HIDE DEF x, a
<1>b. answer'[reading] = [l \in DOMAIN a \cup {k} |-> IF l = k THEN x ELSE a[l]]
  BY <1>3, <1>r
<1>4. /\ DOMAIN answer'[reading] = DOMAIN a \cup {k}
      /\ Range(answer'[reading]) \subseteq Range(a) \cup {x}
  <2> DEFINE b == [l \in DOMAIN a \cup {k} |-> IF l = k THEN x ELSE a[l]]
  <2>1. DOMAIN b = DOMAIN a \cup {k}
    OBVIOUS
  <2>2. \A l \in DOMAIN b : b[l] \in {a[j] : j \in DOMAIN a} \cup {x}
    OBVIOUS
  <2>3. QED
    BY <2>1, <2>2, <1>b DEF Range
<1>5. QED
  BY <1>r, <1>2, <1>3, <1>4 DEF a

LEMMA ReadSampleInv ==
  ASSUME Inv, NEW k \in Keys, ReadSample(k)
  PROVE  Inv'
<1>u. /\ unread' = unread \ {k} /\ k \in unread
      /\ UNCHANGED <<source, plist, upd, at, entry, toClear, rest, samples, http, reading,
                     toRead, published, quiet, life>>
  BY DEF ReadSample, workVars
<1>i. TypeOK /\ reading # None /\ http = "scrape"
  BY DEF Inv, ReadSample, ReadingIsScraping
<1>1. PICK v \in 0..MaxVersion : FromVersion(v)
  BY DEF Inv
<1>2. /\ reading \in Metrics /\ DOMAIN answer' = Metrics
      /\ \A m \in Metrics : m # reading => answer'[m] = answer[m]
      /\ DOMAIN answer'[reading] = DOMAIN answer[reading] \cup {k}
      /\ \E x \in Values(reading, v) :
           Range(answer'[reading]) \subseteq Range(answer[reading]) \cup {x}
  BY <1>1, SampleRead
<1>3. PICK x \in Values(reading, v) :
        Range(answer'[reading]) \subseteq Range(answer[reading]) \cup {x}
  BY <1>2
<1>4. \A m \in Metrics : IsAnswer(answer'[m])
  <2>1. x \in 0..MaxVersion
    BY <1>3, ValuesRange
  <2>2. IsAnswer(answer'[reading])
    BY <1>i, <1>2, <1>3, <2>1 DEF TypeOK, IsAnswer
  <2>3. QED
    BY <1>i, <1>2, <2>2 DEF TypeOK
<1>5. TypeOK'
  BY <1>i, <1>u, <1>2, <1>4 DEF TypeOK
<1>6. reading \in ClearedFirst => Range(answer'[reading]) \subseteq {0, v}
  BY <1>1, <1>3 DEF FromVersion, Values
<1>7. FromVersion(v)'
  <2>1. ASSUME NEW m \in ClearedFirst, NEW y \in Range(answer'[m])
        PROVE  y <= v
    <3>1. CASE m = reading
      BY <2>1, <3>1, <1>6
    <3>2. CASE m # reading
      BY <2>1, <3>2, <1>1, <1>2, ClearedFirstMetrics DEF FromVersion
    <3>3. QED
      BY <3>1, <3>2
  <2>2. QED
    BY <1>1, <1>6, <1>u, <2>1 DEF FromVersion
<1>8. OneEach'
  BY <1>2, <1>6, ClearedFirstMetrics DEF Inv, OneEach
<1>9. NotReadYet'
  BY <1>2, <1>u, <1>i DEF Inv, NotReadYet, TypeOK
<1>10. ClearedBehind'
  <2>1. samples[reading].keys # {}
    BY <1>i, <1>u DEF TypeOK
  <2>2. samples[reading] # NewMap
    BY <2>1, NewMapOK
  <2>3. QED
    BY <2>2, <1>u DEF Inv, ClearedBehind
<1>11. QED
  BY <1>u, <1>5, <1>7, <1>8, <1>9, <1>10
     DEF Inv, SourceIsAhead, SampleIsThere, Working, ReadingIsScraping, StoppedInOrder

LEMMA MetricReadInv ==
  ASSUME Inv, MetricRead
  PROVE  Inv'
<1>1. /\ reading' = None /\ reading # None
      /\ UNCHANGED <<source, plist, upd, at, entry, toClear, rest, samples, http, toRead, unread,
                     answer, published, quiet, life>>
  BY DEF MetricRead, Unlocked, workVars
<1>2. TypeOK'
  BY <1>1 DEF Inv, TypeOK
<1>3. PICK v \in 0..MaxVersion : FromVersion(v)
  BY DEF Inv
<1>4. FromVersion(v)'
  BY <1>1, <1>3, ClearedFirstMetrics, ConstantsType DEF FromVersion
<1>5. ClearedBehind' /\ NotReadYet'
  BY <1>1, ConstantsType DEF Inv, ClearedBehind, NotReadYet, TypeOK, List
<1>6. QED
  BY <1>1, <1>2, <1>4, <1>5
     DEF Inv, SourceIsAhead, OneEach, SampleIsThere, Working, ReadingIsScraping, StoppedInOrder

LEMMA ScrapeEndsInv ==
  ASSUME Inv, ScrapeEnds
  PROVE  Inv'
<1>1. /\ http' = "idle" /\ http = "scrape" /\ reading = None
      /\ UNCHANGED <<source, plist, upd, at, entry, toClear, rest, samples, reading, toRead,
                     unread, answer, published, quiet, life>>
  BY DEF ScrapeEnds, workVars
<1>2. TypeOK'
  BY <1>1 DEF Inv, TypeOK
<1>3. PICK v \in 0..MaxVersion : FromVersion(v)
  BY DEF Inv
<1>4. FromVersion(v)'
  BY <1>1, <1>3 DEF FromVersion
<1>5. QED
  BY <1>1, <1>2, <1>4
     DEF Inv, SourceIsAhead, ClearedBehind, NotReadYet, OneEach, SampleIsThere, Working,
         ReadingIsScraping, StoppedInOrder

LEMMA ShutdownInv ==
  ASSUME Inv, Shutdown
  PROVE  Inv'
<1>u. UNCHANGED <<source, plist, at, entry, toClear, rest, samples, reading, toRead, unread,
                  answer, published>>
  BY DEF Shutdown, StopUpdating, StopHttp, DestroyMetrics, workVars, httpVars
<1>1. TypeOK'
  BY <1>u DEF Inv, TypeOK, Shutdown, StopUpdating, StopHttp, DestroyMetrics, workVars, httpVars
<1>2. PICK v \in 0..MaxVersion : FromVersion(v)
  BY DEF Inv
<1>3. upd' = upd \/ upd' = "ended"
  BY DEF Shutdown, StopUpdating, StopHttp, DestroyMetrics, workVars
<1>4. FromVersion(v)'
  BY <1>u, <1>2, <1>3 DEF FromVersion
<1>5. (http' = "scrape" <=> http = "scrape") /\ StoppedInOrder'
  BY DEF Inv, StoppedInOrder, TypeOK, Shutdown, StopUpdating, StopHttp, DestroyMetrics,
         AfterHttp, workVars, httpVars
<1>6. QED
  BY <1>u, <1>1, <1>3, <1>4, <1>5
     DEF Inv, SourceIsAhead, ClearedBehind, NotReadYet, OneEach, SampleIsThere, Working,
         ReadingIsScraping

LEMMA InvStep ==
  ASSUME Inv, [Next]_vars
  PROVE  Inv'
<1>1. CASE Collect
  BY <1>1, CollectInv
<1>2. CASE UpdateThread
  BY <1>2, UpdateBeginsInv, ClearInv, FindSampleInv, StoreValueInv DEF UpdateThread
<1>3. CASE ScrapeBegins
  BY <1>3, ScrapeBeginsInv
<1>4. CASE Scraping
  BY <1>4, ReadMetricInv, ReadSampleInv, MetricReadInv, ScrapeEndsInv DEF Scraping
<1>5. CASE Shutdown
  BY <1>5, ShutdownInv
<1>6. CASE UNCHANGED vars
  <2>1. PICK v \in 0..MaxVersion : FromVersion(v)
    BY DEF Inv
  <2>2. FromVersion(v)'
    BY <1>6, <2>1 DEF FromVersion, vars, workVars, httpVars
  <2>3. TypeOK'
    BY <1>6 DEF vars, workVars, httpVars, Inv, TypeOK
  <2>4. /\ SourceIsAhead' /\ ClearedBehind' /\ NotReadYet' /\ OneEach' /\ SampleIsThere'
        /\ Working' /\ ReadingIsScraping' /\ StoppedInOrder'
    BY <1>6
       DEF vars, workVars, httpVars, Inv, SourceIsAhead, ClearedBehind, NotReadYet,
           OneEach, SampleIsThere, Working, ReadingIsScraping, StoppedInOrder
  <2>5. QED
    BY <2>2, <2>3, <2>4 DEF Inv
<1>7. QED
  BY <1>1, <1>2, <1>3, <1>4, <1>5, <1>6 DEF Next, Terminated

\* The invariant holds in every reachable state.
THEOREM InvHolds == Spec => []Inv
BY InitInv, InvStep, PTL DEF Spec

\* Type correctness for any metrics, entries, labels and updates.
THEOREM ScrapeTypeOK == Spec => []TypeOK
<1>1. Inv => TypeOK
  BY DEF Inv
<1>2. QED
  BY <1>1, InvHolds, PTL

\* KeysMatchNodes: no update leaves a key in the list whose string is freed, for
\* any hash and however often the table has grown.
THEOREM TablesStayWellFormed == Spec => []KeysMatchNodes
<1>1. Inv => KeysMatchNodes
  BY DEF Inv, FromVersion, IsTable, KeysMatchNodes
<1>2. QED
  BY <1>1, InvHolds, PTL

\* OneVersionPerMetric: what an answer says of a metric never mixes two updates if every
\* update clears it before it sets anything.
THEOREM OneUpdatePerMetric == Spec => []OneVersionPerMetric
<1>1. ASSUME Inv
      PROVE  OneVersionPerMetric
  <2>1. SUFFICES ASSUME NEW m \in ClearedFirst
                 PROVE  Cardinality(Shown(m)) <= 1
    BY DEF OneVersionPerMetric
  <2>2. PICK v \in 0..MaxVersion : Range(answer[m]) \subseteq {0, v}
    BY <1>1 DEF Inv, OneEach
  <2>3. Shown(m) \in SUBSET {v}
    BY <2>2 DEF Shown
  <2>4. IsFiniteSet({v}) /\ Cardinality({v}) = 1
    BY FS_Singleton
  <2>5. QED
    BY <2>3, <2>4, FS_Subset
<1>2. QED
  BY <1>1, InvHolds, PTL

\* NoOlderAfterNewer: what is read of such a metric is never older than what the answer
\* shows of any of them, whichever the orders of clearing, setting and reading.
THEOREM AnswersDoNotGoBack == Spec => NoOlderAfterNewer
<1>1. ASSUME Inv, [Next]_vars
      PROVE  [\A m, n \in ClearedFirst :
                \A v \in Shown(m), w \in Shown(n)' \ Shown(n) : v <= w]_vars
  <2>1. SUFFICES ASSUME NEW m \in ClearedFirst, NEW n \in ClearedFirst,
                        NEW y \in Shown(m), NEW w \in Shown(n)' \ Shown(n)
                 PROVE  y <= w
    OBVIOUS
  <2>2. CASE \E k \in Keys : ReadSample(k)
    <3>1. PICK k \in Keys : ReadSample(k)
      BY <2>2
    <3>2. PICK v \in 0..MaxVersion : FromVersion(v)
      BY <1>1 DEF Inv
    <3>3. /\ \A o \in Metrics : o # reading => answer'[o] = answer[o]
          /\ \E x \in Values(reading, v) :
               Range(answer'[reading]) \subseteq Range(answer[reading]) \cup {x}
      BY <1>1, <3>1, <3>2, SampleRead
    <3>4. n = reading
      BY <2>1, <3>3, ClearedFirstMetrics DEF Shown
    <3>5. w = v
      BY <2>1, <3>3, <3>4 DEF Shown, Values
    <3>6. QED
      BY <2>1, <3>2, <3>5 DEF FromVersion, Shown
  <2>3. CASE ScrapeBegins
    <3>1. Range(answer'[n]) = {}
      BY <2>3, EmptyAnswer, ClearedFirstMetrics DEF ScrapeBegins
    <3>2. QED
      BY <2>1, <3>1 DEF Shown
  <2>4. CASE answer' = answer
    BY <2>1, <2>4 DEF Shown
  <2>5. QED
    BY <1>1, <2>2, <2>3, <2>4
       DEF Next, Collect, UpdateThread, UpdateBegins, Clear, FindSample, StoreValue, Scraping,
           ReadMetric, MetricRead, ScrapeEnds, Shutdown, StopUpdating, StopHttp, DestroyMetrics,
           Terminated, vars, httpVars
<1>2. QED
  BY <1>1, InvHolds, PTL DEF Spec, NoOlderAfterNewer

\* MetricsOutliveThreads: the shutdown frees the metrics last.
THEOREM MetricsFreedLast == Spec => []MetricsOutliveThreads
<1>1. Inv => MetricsOutliveThreads
  BY DEF Inv, StoppedInOrder, MetricsOutliveThreads
<1>2. QED
  BY <1>1, InvHolds, PTL
-----------------------------------------------------------------------------
(***************************************************************************)
(* A scrape that no update overlaps.  What it answers is what the tables   *)
(* hold, so the invariant follows an update: in every metric the samples   *)
(* of the jobs done are there with the update's version; the metrics it    *)
(* cleared have no more than these and the one just made.                  *)
(***************************************************************************)
Holds(m, jobs, v) ==
  /\ LabelsIn(m, jobs) \subseteq samples[m].keys
  /\ \A n \in NodesOf(samples[m]) : n.key \in LabelsIn(m, jobs) => n.value = v

Done == plist.set \ (rest \cup {<<entry, at>>})
Published ==
  upd = "idle" => \A m \in Metrics :
    /\ Holds(m, published.set, published.version)
    /\ m \in published.clear => samples[m].keys \subseteq LabelsIn(m, published.set)
AllToSet == upd = "clear" => rest = plist.set
HalfWay ==
  upd \in {"find", "store"} =>
    /\ <<entry, at>> \in plist.set \ rest
    /\ \A m \in Metrics :
         /\ Holds(m, Done, plist.version)
         /\ m \in plist.clear =>
              samples[m].keys \subseteq
                LabelsIn(m, IF upd = "store" THEN plist.set \ rest ELSE Done)
QuietIsIdle == upd \in {"clear", "find", "store"} => ~quiet
ReadAlready ==
  \A m \in Metrics \ toRead :
    answer[m] = [k \in samples[m].keys \ (IF m = reading THEN unread ELSE {})
                   |-> Get(samples[m], k)]
ReadSoFar == http = "scrape" /\ quiet /\ upd = "idle" => ReadAlready
QuietInv == Published /\ AllToSet /\ HalfWay /\ QuietIsIdle /\ ReadSoFar

LEMMA LabelsOfMore ==
  ASSUME NEW m, NEW S, NEW e, NEW a
  PROVE  \A x : x \in LabelsIn(m, S \cup {<<e, a>>}) <=>
                  x \in LabelsIn(m, S) \/ (a = m /\ x = LabelOf[e])
<1>1. \A jobs, x : x \in LabelsIn(m, jobs) <=> \E i \in jobs : i[2] = m /\ x = LabelOf[i[1]]
  BY DEF LabelsIn
<1>2. <<e, a>>[1] = e /\ <<e, a>>[2] = a
  OBVIOUS
<1> HIDE DEF LabelsIn
<1> DEFINE j == <<e, a>>
<1>3. j[1] = e /\ j[2] = a
  BY <1>2
<1> HIDE DEF j
<1>4. \A x : x \in LabelsIn(m, S \cup {j}) <=>
               x \in LabelsIn(m, S) \/ (a = m /\ x = LabelOf[e])
  BY <1>1, <1>3
<1>5. QED
  BY <1>4 DEF j

LEMMA NoLabels == \A m : LabelsIn(m, {}) = {}
BY DEF LabelsIn

\* What an update goes on with: the metrics agree with what it has done.
LEMMA ProceedQuiet ==
  ASSUME NEW l, NEW left \in SUBSET Jobs, left \subseteq l.set, Proceed(l, {}, left),
         entry \in Entries \cup {None}, plist' = l, ~quiet',
         \A m \in Metrics :
           /\ LabelsIn(m, l.set \ left) \subseteq samples'[m].keys
           /\ \A n \in NodesOf(samples'[m]) :
                n.key \in LabelsIn(m, l.set \ left) => n.value = l.version
           /\ m \in l.clear => samples'[m].keys \subseteq LabelsIn(m, l.set \ left)
  PROVE  QuietInv'
<1>1. /\ upd' \in {"idle", "clear", "find"}
      /\ upd' # "clear"
      /\ upd' = "find" => /\ <<entry', at'>> \in left /\ rest' = left \ {<<entry', at'>>}
      /\ upd' = "idle" => left = {} /\ published' = l
  <2>1. {} \in SUBSET Metrics
    OBVIOUS
  <2> HIDE DEF Proceed
  <2>2. QED
    BY <2>1, ProceedsTo
<1>2. CASE upd' = "idle"
  <2>1. l.set \ left = l.set
    BY <1>1, <1>2
  <2>2. Published'
    BY <1>1, <1>2, <2>1 DEF Published, Holds
  <2>3. QED
    BY <1>2, <2>2 DEF QuietInv, AllToSet, HalfWay, QuietIsIdle, ReadSoFar
<1>3. CASE upd' = "find"
  <2>1. Done' = l.set \ left
    BY <1>1, <1>3 DEF Done
  <2>2. <<entry', at'>> \in l.set \ rest'
    BY <1>1, <1>3
  <2>3. HalfWay'
    BY <1>3, <2>1, <2>2 DEF HalfWay, Holds
  <2>4. QED
    BY <1>3, <2>3 DEF QuietInv, Published, AllToSet, QuietIsIdle, ReadSoFar
<1>4. QED
  BY <1>1, <1>2, <1>3

LEMMA UpdateBeginsQuiet ==
  ASSUME Inv, UpdateBegins
  PROVE  QuietInv'
<1>t. /\ source.clear \in SUBSET Metrics /\ source.set \in SUBSET Jobs
      /\ entry \in Entries \cup {None}
  BY DEF Inv, TypeOK, List
<1>p. /\ plist' = source /\ ~quiet' /\ source' = source /\ samples' = samples
      /\ Proceed(source, source.clear, source.set)
  BY DEF UpdateBegins, ClearedBy
<1>1. CASE source.clear = {}
  <2>1. Proceed(source, {}, source.set)
    BY <1>1, <1>p
  <2>2. source.set \ source.set = {}
    OBVIOUS
  <2>3. QED
    BY <1>1, <1>p, <1>t, <2>1, <2>2, NoLabels, ProceedQuiet
<1>2. CASE source.clear # {}
  <2>1. upd' = "clear" /\ rest' = source.set
    BY <1>2, <1>p DEF Proceed
  <2>2. QED
    BY <1>p, <2>1 DEF QuietInv, Published, AllToSet, HalfWay, QuietIsIdle, ReadSoFar
<1>3. QED
  BY <1>1, <1>2

LEMMA ClearQuiet ==
  ASSUME Inv, QuietInv, Clear
  PROVE  QuietInv'
<1>i. /\ TypeOK /\ at \in Metrics /\ upd = "clear" /\ ~quiet /\ rest = plist.set
      /\ rest \in SUBSET Jobs /\ plist.clear \in SUBSET Metrics
      /\ entry \in Entries \cup {None}
  BY DEF Inv, TypeOK, List, Working, Clear, QuietInv, QuietIsIdle, AllToSet
<1>s. /\ DOMAIN samples' = Metrics
      /\ \A m \in Metrics : samples'[m] = IF m = at THEN NewMap ELSE samples[m]
  BY <1>i DEF TypeOK, Clear, Cleared
<1>u. plist' = plist /\ quiet' = quiet /\ Proceed(plist, toClear, rest)
  BY DEF Clear
<1>1. CASE toClear = {}
  <2>1. \A m \in plist.clear : samples'[m] = NewMap
    BY <1>1, <1>i, <1>s DEF Inv, ClearedBehind
  <2>2. plist.set \ rest = {}
    BY <1>i
  <2>3. Proceed(plist, {}, rest) /\ rest \subseteq plist.set /\ ~quiet'
    BY <1>1, <1>i, <1>u
  <2>4. QED
    BY <1>i, <1>u, <2>1, <2>2, <2>3, NoLabels, NewMapOK, ProceedQuiet
<1>2. CASE toClear # {}
  <2>1. upd' = "clear" /\ rest' = rest
    BY <1>2, <1>u DEF Proceed
  <2>2. QED
    BY <1>i, <1>u, <2>1 DEF QuietInv, Published, AllToSet, HalfWay, QuietIsIdle, ReadSoFar
<1>3. QED
  BY <1>1, <1>2

LEMMA FindSampleQuiet ==
  ASSUME Inv, QuietInv, FindSample
  PROVE  QuietInv'
<1> DEFINE k == LabelOf[entry]
           t == SampleFor(samples[at], k)
           v == plist.version
<1>i. at \in Metrics /\ upd = "find" /\ ~quiet /\ DOMAIN samples = Metrics
  BY DEF Inv, TypeOK, Working, FindSample, QuietInv, QuietIsIdle
<1>2. /\ t.keys = samples[at].keys \cup {k}
      /\ NodesOf(t) \subseteq NodesOf(samples[at]) \cup {Node(k, 0)}
      /\ k \in samples[at].keys => t = samples[at]
  BY FindSampleTable
<1>3. \A m \in Metrics : samples'[m] = IF m = at THEN t ELSE samples[m]
  BY <1>i DEF FindSample
<1>4. upd' = "store" /\ UNCHANGED <<plist, at, entry, rest, quiet>>
  BY DEF FindSample
<1>5. /\ <<entry, at>> \in plist.set \ rest
      /\ \A m \in Metrics :
           /\ LabelsIn(m, Done) \subseteq samples[m].keys
           /\ \A n \in NodesOf(samples[m]) : n.key \in LabelsIn(m, Done) => n.value = v
           /\ m \in plist.clear => samples[m].keys \subseteq LabelsIn(m, Done)
  BY <1>i DEF QuietInv, HalfWay, Holds
<1>6. plist.set \ rest = Done \cup {<<entry, at>>} /\ Done' = Done
  BY <1>4, <1>5 DEF Done
<1> HIDE DEF t, v
<1>7. ASSUME NEW m \in Metrics
      PROVE  /\ LabelsIn(m, Done) \subseteq samples'[m].keys
             /\ \A n \in NodesOf(samples'[m]) : n.key \in LabelsIn(m, Done) => n.value = v
             /\ m \in plist.clear => samples'[m].keys \subseteq LabelsIn(m, plist.set \ rest)
  <2>1. LabelsIn(m, plist.set \ rest) = LabelsIn(m, Done) \cup (IF m = at THEN {k} ELSE {})
    <3>1. \A x : x \in LabelsIn(m, Done \cup {<<entry, at>>}) <=>
                   x \in LabelsIn(m, Done) \/ (at = m /\ x = k)
      BY LabelsOfMore
    <3> HIDE DEF k
    <3>2. QED
      BY <3>1, <1>6
  <2> HIDE DEF k
  <2>2. CASE m # at
    BY <1>3, <1>5, <2>1, <2>2
  <2>3. CASE m = at /\ k \in samples[at].keys
    BY <1>2, <1>3, <1>5, <2>1, <2>3
  <2>4. CASE m = at /\ k \notin samples[at].keys
    <3>1. k \notin LabelsIn(at, Done)
      BY <1>5, <1>i, <2>4
    <3>2. Node(k, 0).key = k
      BY DEF Node
    <3>3. \A n \in NodesOf(t) : n.key \in LabelsIn(at, Done) => n.value = v
      BY <1>2, <1>5, <1>i, <3>1, <3>2
    <3>4. samples'[m] = t
      BY <1>3, <2>4
    <3>5. QED
      BY <1>2, <1>5, <1>i, <2>1, <2>4, <3>3, <3>4
  <2>5. QED
    BY <2>2, <2>3, <2>4
<1>8. HalfWay'
  BY <1>4, <1>5, <1>6, <1>7 DEF HalfWay, Holds, v
<1>9. QED
  BY <1>4, <1>8, <1>i DEF QuietInv, Published, AllToSet, QuietIsIdle, ReadSoFar

LEMMA StoreValueQuiet ==
  ASSUME Inv, QuietInv, StoreValue
  PROVE  QuietInv'
<1> DEFINE k == LabelOf[entry]
           v == plist.version
           t == Stored(samples[at], k, v)
<1>i. /\ at \in Metrics /\ upd = "store" /\ ~quiet /\ DOMAIN samples = Metrics
      /\ rest \subseteq plist.set /\ rest \in SUBSET Jobs /\ entry \in Entries \cup {None}
  BY DEF Inv, TypeOK, List, Working, StoreValue, QuietInv, QuietIsIdle
<1>2. /\ t.keys = samples[at].keys /\ k \in samples[at].keys
      /\ NodesOf(t) = {n \in NodesOf(samples[at]) : n.key # k} \cup {Node(k, v)}
  BY StoreValueTable
<1>3. \A m \in Metrics : samples'[m] = IF m = at THEN t ELSE samples[m]
  BY <1>i DEF StoreValue
<1>5. /\ <<entry, at>> \in plist.set \ rest
      /\ \A m \in Metrics :
           /\ LabelsIn(m, Done) \subseteq samples[m].keys
           /\ \A n \in NodesOf(samples[m]) : n.key \in LabelsIn(m, Done) => n.value = v
           /\ m \in plist.clear => samples[m].keys \subseteq LabelsIn(m, plist.set \ rest)
  BY <1>i DEF QuietInv, HalfWay, Holds
<1>6. plist.set \ rest = Done \cup {<<entry, at>>}
  BY <1>5 DEF Done
<1>p. plist' = plist /\ quiet' = quiet /\ Proceed(plist, {}, rest)
  BY DEF StoreValue
<1> HIDE DEF t, v
<1>7. ASSUME NEW m \in Metrics
      PROVE  /\ LabelsIn(m, plist.set \ rest) \subseteq samples'[m].keys
             /\ \A n \in NodesOf(samples'[m]) :
                  n.key \in LabelsIn(m, plist.set \ rest) => n.value = v
             /\ m \in plist.clear => samples'[m].keys \subseteq LabelsIn(m, plist.set \ rest)
  <2>1. LabelsIn(m, plist.set \ rest) = LabelsIn(m, Done) \cup (IF m = at THEN {k} ELSE {})
    <3>1. \A x : x \in LabelsIn(m, Done \cup {<<entry, at>>}) <=>
                   x \in LabelsIn(m, Done) \/ (at = m /\ x = k)
      BY LabelsOfMore
    <3> HIDE DEF k
    <3>2. QED
      BY <3>1, <1>6
  <2> HIDE DEF k
  <2>2. CASE m # at
    BY <1>3, <1>5, <2>1, <2>2
  <2>3. CASE m = at
    <3>1. Node(k, v).value = v
      BY DEF Node
    <3>2. samples'[m] = t
      BY <1>3, <2>3
    <3>3. \A n \in NodesOf(t) : n.key \in LabelsIn(m, Done) \cup {k} => n.value = v
      BY <1>2, <1>5, <1>i, <2>3, <3>1
    <3>4. QED
      BY <1>2, <1>5, <1>i, <2>1, <2>3, <3>2, <3>3
  <2>4. QED
    BY <2>2, <2>3
<1>8. QED
  BY <1>i, <1>p, <1>7, ProceedQuiet DEF v

LEMMA ReadSampleQuiet ==
  ASSUME Inv, QuietInv, NEW k \in Keys, ReadSample(k), quiet, upd = "idle"
  PROVE  ReadSoFar'
<1>1. /\ k \in unread /\ unread' = unread \ {k} /\ reading # None /\ http = "scrape"
      /\ answer' = [answer EXCEPT ![reading] =
           [l \in DOMAIN @ \cup {k} |-> IF l = k THEN Get(samples[reading], k) ELSE @[l]]]
      /\ UNCHANGED <<samples, reading, toRead>>
  BY DEF Inv, ReadingIsScraping, ReadSample
<1>2. reading \in Metrics /\ DOMAIN answer = Metrics /\ unread \subseteq samples[reading].keys
  BY <1>1 DEF Inv, TypeOK
<1>3. \A m \in Metrics \ toRead :
        answer[m] = [l \in samples[m].keys \ (IF m = reading THEN unread ELSE {})
                       |-> Get(samples[m], l)]
  BY <1>1 DEF QuietInv, ReadSoFar, ReadAlready
<1>4. reading \notin toRead
  BY <1>1 DEF Inv, NotReadYet
<1>5. answer[reading] = [l \in samples[reading].keys \ unread |-> Get(samples[reading], l)]
  BY <1>2, <1>3, <1>4
<1> DEFINE s == samples[reading]
<1>6. answer'[reading] = [l \in s.keys \ unread' |-> Get(s, l)]
  <2>1. answer'[reading] =
          [l \in DOMAIN answer[reading] \cup {k} |->
             IF l = k THEN Get(s, k) ELSE answer[reading][l]]
    BY <1>1, <1>2
  <2>2. DOMAIN answer[reading] \cup {k} = s.keys \ unread'
    BY <1>1, <1>2, <1>5
  <2>3. \A l \in s.keys \ unread' : l # k => answer[reading][l] = Get(s, l)
    BY <1>1, <1>5
  <2> HIDE DEF s
  <2>4. QED
    BY <2>1, <2>2, <2>3
<1>7. \A m \in Metrics : m # reading => answer'[m] = answer[m]
  BY <1>1, <1>2
<1>8. ASSUME NEW m \in Metrics \ toRead
      PROVE  answer'[m] = [l \in samples[m].keys \ (IF m = reading THEN unread' ELSE {})
                             |-> Get(samples[m], l)]
  BY <1>3, <1>6, <1>7
<1>9. samples' = samples /\ reading' = reading /\ toRead' = toRead
  BY <1>1
<1>10. ReadAlready'
  BY <1>8, <1>9 DEF ReadAlready
<1>11. QED
  BY <1>10 DEF ReadSoFar

LEMMA ScrapeQuiet ==
  ASSUME Inv, QuietInv, ScrapeBegins \/ Scraping
  PROVE  QuietInv'
<1>1. /\ UNCHANGED <<plist, upd, at, entry, rest, samples, published>>
      /\ quiet' = quiet \/ (quiet' <=> upd \in {"idle", "ended"})
  BY DEF ScrapeBegins, Scraping, ReadMetric, ReadSample, MetricRead, ScrapeEnds, workVars
<1>2. Published' /\ AllToSet' /\ HalfWay' /\ QuietIsIdle'
  <2>1. Published' /\ AllToSet'
    BY <1>1 DEF QuietInv, Published, AllToSet, Holds
  <2>2. HalfWay'
    <3>1. Done' = Done
      BY <1>1 DEF Done
    <3>2. QED
      BY <1>1, <3>1 DEF QuietInv, HalfWay, Holds
  <2>3. QuietIsIdle'
    BY <1>1 DEF QuietInv, QuietIsIdle
  <2>4. QED
    BY <2>1, <2>2, <2>3
<1>3. ASSUME ScrapeBegins
      PROVE  ReadSoFar'
  <2>1. Metrics \ toRead' = {}
    BY <1>3 DEF ScrapeBegins
  <2>2. ReadAlready'
    BY <2>1 DEF ReadAlready
  <2>3. QED
    BY <2>2 DEF ReadSoFar
<1>4. ASSUME NEW m \in Metrics, ReadMetric(m)
      PROVE  ReadSoFar'
  <2>1. /\ http = "scrape" /\ http' = http /\ reading = None /\ m \in toRead /\ reading' = m
        /\ toRead' = toRead \ {m} /\ unread' = samples[m].keys
        /\ UNCHANGED <<samples, answer, quiet>>
    BY <1>4 DEF ReadMetric
  <2>2. answer[m] = NoAnswer
    BY <2>1 DEF Inv, NotReadYet
  <2>3. answer[m] = [l \in samples[m].keys \ samples[m].keys |-> Get(samples[m], l)]
    BY <2>2 DEF NoAnswer
  <2>4. QED
    BY <1>1, <2>1, <2>3, ConstantsType DEF QuietInv, ReadSoFar, ReadAlready
<1>5. ASSUME NEW k \in Keys, ReadSample(k)
      PROVE  ReadSoFar'
  <2>1. UNCHANGED <<http, quiet>>
    BY <1>5 DEF ReadSample
  <2>2. QED
    BY <1>1, <1>5, <2>1, ReadSampleQuiet DEF ReadSoFar, ReadAlready
<1>6. ASSUME MetricRead
      PROVE  ReadSoFar'
  <2>1. unread = {} /\ reading' = None /\ UNCHANGED <<http, quiet, samples, toRead, unread, answer>>
    BY <1>6 DEF MetricRead, Unlocked
  <2>2. ReadAlready => ReadAlready'
    BY <2>1, ConstantsType DEF ReadAlready
  <2>3. QED
    BY <1>1, <2>1, <2>2 DEF QuietInv, ReadSoFar
<1>7. ASSUME ScrapeEnds
      PROVE  ReadSoFar'
  <2>1. http' # "scrape"
    BY <1>7 DEF ScrapeEnds
  <2>2. QED
    BY <2>1 DEF ReadSoFar
<1>8. ReadSoFar'
  BY <1>3, <1>4, <1>5, <1>6, <1>7 DEF Scraping
<1>9. QED
  BY <1>2, <1>8 DEF QuietInv

\* The invariant is about nothing else.
LEMMA QuietUnchanged ==
  ASSUME QuietInv, http' = http \/ http' # "scrape",
         UNCHANGED <<plist, upd, at, entry, rest, samples, published, quiet, reading, toRead,
                     unread, answer>>
  PROVE  QuietInv'
<1>1. Published' /\ AllToSet' /\ QuietIsIdle'
  BY DEF QuietInv, Published, AllToSet, Holds, QuietIsIdle
<1>2. HalfWay'
  <2>1. Done' = Done
    BY DEF Done
  <2>2. QED
    BY <2>1 DEF QuietInv, HalfWay, Holds
<1>3. ReadSoFar'
  <2>1. ReadAlready => ReadAlready'
    BY DEF ReadAlready
  <2>2. QED
    BY <2>1 DEF QuietInv, ReadSoFar
<1>4. QED
  BY <1>1, <1>2, <1>3 DEF QuietInv

LEMMA QuietStep ==
  ASSUME Inv, QuietInv, [Next]_vars
  PROVE  QuietInv'
<1>1. CASE Collect
  BY <1>1, QuietUnchanged DEF Collect, workVars, httpVars
<1>2. CASE UpdateThread
  BY <1>2, UpdateBeginsQuiet, ClearQuiet, FindSampleQuiet, StoreValueQuiet DEF UpdateThread
<1>3. CASE ScrapeBegins \/ Scraping
  BY <1>3, ScrapeQuiet
<1>4. CASE StopUpdating
  <2>1. upd' = "ended"
    BY <1>4 DEF StopUpdating
  <2>2. QED
    BY <2>1 DEF QuietInv, Published, AllToSet, HalfWay, QuietIsIdle, ReadSoFar
<1>5. CASE StopHttp \/ DestroyMetrics
  <2>1. http' = http \/ http' # "scrape"
    BY <1>5 DEF StopHttp, DestroyMetrics, httpVars
  <2>2. UNCHANGED <<plist, upd, at, entry, rest, samples, published, quiet, reading, toRead,
                    unread, answer>>
    BY <1>5 DEF StopHttp, DestroyMetrics, workVars, httpVars
  <2>3. QED
    BY <2>1, <2>2, QuietUnchanged
<1>6. CASE UNCHANGED vars
  BY <1>6, QuietUnchanged DEF vars, workVars, httpVars
<1>7. QED
  BY <1>1, <1>2, <1>3, <1>4, <1>5, <1>6 DEF Next, Shutdown, Terminated

\* QuietScrapeIsExact: whatever the labels and the tables, a scrape that no update
\* overlaps answers, in every metric, the samples set by the list that was published last,
\* with its values, and nothing else in the metrics that list's update cleared.
THEOREM QuietScrapesAreExact == Spec => []QuietScrapeIsExact
<1>1. Init => QuietInv
  <2>1. SUFFICES ASSUME Init
                 PROVE  QuietInv
    OBVIOUS
  <2>2. Published
    BY <2>1, NoLabels, NewMapOK DEF Init, Published, Holds, Nothing
  <2>3. QED
    BY <2>1, <2>2 DEF Init, QuietInv, AllToSet, HalfWay, QuietIsIdle, ReadSoFar, ReadAlready
<1>2. Inv /\ QuietInv /\ [Next]_vars => QuietInv'
  BY QuietStep
<1>3. Inv /\ QuietInv => QuietScrapeIsExact
  <2> DEFINE set(m) == LabelsIn(m, published.set)
  <2>1. SUFFICES ASSUME Inv, QuietInv, http = "scrape", quiet, upd = "idle",
                        reading = None, toRead = {}, NEW m \in Metrics
                 PROVE  /\ \A k \in set(m) :
                             k \in DOMAIN answer[m] /\ answer[m][k] = published.version
                        /\ m \in published.clear => DOMAIN answer[m] = set(m)
    BY DEF QuietScrapeIsExact
  <2>2. answer[m] = [k \in samples[m].keys |-> Get(samples[m], k)]
    <3>1. m # None
      BY ConstantsType
    <3>2. QED
      BY <2>1, <3>1 DEF QuietInv, ReadSoFar, ReadAlready
  <2>3. /\ set(m) \subseteq samples[m].keys
        /\ \A n \in NodesOf(samples[m]) : n.key \in set(m) => n.value = published.version
        /\ m \in published.clear => samples[m].keys \subseteq set(m)
    BY <2>1 DEF QuietInv, Published, Holds
  <2> HIDE DEF set
  <2>4. ASSUME NEW k \in set(m)
        PROVE  Get(samples[m], k) = published.version
    <3>1. PICK v \in 0..MaxVersion : FromVersion(v)
      BY <2>1 DEF Inv
    <3>2. IsTable(samples[m], Values(m, v)) /\ k \in samples[m].keys /\ k \in Keys
      BY <2>1, <2>3, <3>1 DEF FromVersion, Inv, TypeOK, IsMap
    <3>3. \E n \in NodesOf(samples[m]) : n.key = k /\ Get(samples[m], k) = n.value
      BY <3>2, GetOK
    <3>4. QED
      BY <2>3, <3>3
  <2>5. QED
    BY <2>2, <2>3, <2>4
<1>4. QED
  BY <1>1, <1>2, <1>3, InvHolds, PTL DEF Spec
=============================================================================
