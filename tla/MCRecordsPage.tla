--------------------------- MODULE MCRecordsPage ----------------------------
(* Two tabs, one of them opened for process 2, and two files.  In the      *)
(* first file process 2 comes first, so that its index has no series to    *)
(* start with unless process 2 is asked for, and process 2 has no points   *)
(* for one of the metrics.  The second file has process 1 only.            *)
EXTENDS RecordsPage, TLC

CONSTANTS t1, t2, f1, f2, rss, cpu

MCPidsOf == (f1 :> {1, 2}) @@ (f2 :> {1})
MCFirstPid == (f1 :> 2) @@ (f2 :> 1)
MCUrl == (t1 :> [pid |-> None, metric |-> None]) @@
         (t2 :> [pid |-> 2, metric |-> rss])
MCNoPoints == {<<f1, 2, cpu>>}
=============================================================================
