---------------------------- MODULE MCBpfMonitor ----------------------------
\* Two containers for TLC: web with a second thread and a child, db with one.
EXTENDS BpfMonitor, TLC

CONSTANTS web, webChild, db, t1, t2, t3, t4

Home == web :> web @@ webChild :> web @@ db :> db
Process == Restrict(t1 :> web @@ t2 :> web @@ t3 :> webChild @@ t4 :> db, Tids)
=============================================================================
