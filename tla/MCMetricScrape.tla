--------------------------- MODULE MCMetricScrape ---------------------------
(***************************************************************************)
(* Two metrics that are always cleared first, state and ping, and one set  *)
(* in place, disk, cleared only when its file cannot be opened; entries of *)
(* which two have the same labels, not always all pinged; and tables that  *)
(* start with one bucket, so that they grow and rehash.  (The code's hash  *)
(* needs two; which bucket it gives does not matter here.)                 *)
(***************************************************************************)
EXTENDS MetricScrape

LabelTable == [e \in {"web", "web2", "db"} |-> IF e = "db" THEN "db" ELSE "web"]
HashTable(k, max) == IF k = "db" THEN 0 ELSE max - 1

Update(running, pinged, disks) ==
  [clear |-> {"state", "ping"},
   set |-> (running \X {"state"}) \cup (pinged \X {"ping"}) \cup (disks \X {"disk"})]
UpdateChoices ==
  { Update({"web", "db"}, {"db"}, {"web"}), Update({"web", "web2"}, {}, {"db"}),
    [clear |-> {"state", "ping", "disk"}, set |-> {}] }
=============================================================================
