CONSTANTS
  Entries = {"web", "web2", "db"}
  LabelOf <- LabelTable
  Keys = {"web", "db"}
  Hash <- HashTable
  InitialSize = 1
  Metrics = {"state", "ping", "disk"}
  Updates <- UpdateChoices
  None = "none"
  MaxVersion = 2
SPECIFICATION FairSpec
INVARIANTS
  TypeOK
  OneVersionPerMetric
  QuietScrapeIsExact
  MetricsOutliveThreads
  KeysMatchNodes
PROPERTIES
  NoOlderAfterNewer
  UpdatesEnd
