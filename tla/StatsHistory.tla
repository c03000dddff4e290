---------------------------- MODULE StatsHistory ----------------------------
(***************************************************************************)
(* The entry of one process in g_process_table after every sequence of     *)
(* records, compared with the definitions of the metrics over the whole    *)
(* sequence.                                                               *)
(***************************************************************************)
EXTENDS ProcessStats, FiniteSetsExt

CONSTANTS
  Ticks, Bytes, Gauge,  \* values of the counters and of the gauges
  Steps,                \* the time between two records
  Unreadable,           \* the parts of a record that may be invalid
  MaxRecords

ASSUME HistoryAssumption ==
  /\ Ticks \subseteq 0..(Word - 1) /\ Bytes \subseteq Nat /\ Gauge \subseteq Nat
  /\ Steps \subseteq Nat \ {0} /\ \A d \in Steps : Scale % d = 0
  /\ Unreadable \subseteq {"io", "fd"} /\ MaxRecords \in Nat

VARIABLES entry, history

historyVars == <<entry, history>>

NoEntry == [number_of_records |-> 0]

HistoryInit == entry = NoEntry /\ history = <<>>

Last == history[Len(history)]

Validity(part) == IF part \in Unreadable THEN BOOLEAN ELSE {TRUE}

(* Reading of an invalid part leaves 0 for the descriptors; the -1 for the *)
(* bytes is never looked at.                                               *)
Inputs ==
  {[timestamp |-> (IF history = <<>> THEN 1 ELSE Last.timestamp) + d,
    ticks |-> t, rss_kb |-> r, io_valid |-> io,
    read_kbytes |-> IF io THEN b ELSE 0, fd_valid |-> fd,
    fds |-> IF fd THEN f ELSE 0] :
     d \in Steps, t \in Ticks, r \in Gauge, io \in Validity("io"),
     b \in Bytes, fd \in Validity("fd"), f \in Gauge}

(* process_stats_update: get_or_create_process, then the aggregation.      *)
Update(input) ==
  /\ entry' = process_stats_update(input,
                IF entry = NoEntry THEN NewProcess(input) ELSE entry)
  /\ history' = Append(history, input)

HistoryNext ==
  Len(history) < MaxRecords /\ \E input \in Inputs : Update(input)

HistorySpec == HistoryInit /\ [][HistoryNext]_historyVars
-----------------------------------------------------------------------------
(* The definitions of the metrics over all records of a process.           *)
Records == 1..Len(history)
ValidIo == {n \in Records : history[n].io_valid}
ValidFd == {n \in Records : history[n].fd_valid}
Later(S) == {n \in S : \E m \in S : m < n}
Before(S, n) == Max({m \in S : m < n})

(* The sum of a sequence of numbers.                                       *)
SumOf(s) ==
  LET sum[n \in Nat] == IF n = 0 THEN 0 ELSE sum[n - 1] + s[n] IN sum[Len(s)]

Usage(n) ==
  IF n \in Later(Records) /\ history[n].ticks >= history[n - 1].ticks
    THEN (Scale * (history[n].ticks - history[n - 1].ticks))
           \div (history[n].timestamp - history[n - 1].timestamp)
    ELSE 0

Increase(n) ==
  LET before == history[Before(ValidIo, n)].read_kbytes
  IN IF n \in Later(ValidIo) /\ history[n].read_kbytes > before
       THEN history[n].read_kbytes - before ELSE 0

(* What process_stats_update keeps record by record is what the metrics    *)
(* are defined to be over the whole run, whatever parts of the records     *)
(* were invalid: the sum of the usages of the intervals and the bytes read *)
(* between valid records ...                                               *)
CountersMatchHistory ==
  history # <<>> =>
    /\ entry.cpu_usage_sum = SumOf([n \in Records |-> Usage(n)])
    /\ entry.total_read_kbytes = SumOf([n \in Records |-> Increase(n)])

(* ... the sum and the variation of the resident set, and the descriptors  *)
(* compared with the first valid count.                                    *)
GaugesMatchHistory ==
  history # <<>> =>
    /\ entry.rss_sum = SumOf([n \in Records |-> history[n].rss_kb])
    /\ entry.num_of_rss_records = Len(history)
    /\ entry.rss_variation = Last.rss_kb - history[1].rss_kb
    /\ ValidFd # {} =>
         /\ entry.current_num_of_fds = history[Max(ValidFd)].fds
         /\ entry.fd_delta = history[Max(ValidFd)].fds - history[Min(ValidFd)].fds

(* The time the read rate is taken over is the time over which the bytes   *)
(* were read, from the first to the last valid record, provided the bytes  *)
(* could be read every time in between.  (After a record without them the  *)
(* bytes count since the last valid record, the time since the last one of *)
(* any kind, so that the rate is too high.)                                *)
IoTimeCovered ==
  ValidIo # {} /\ Min(ValidIo)..Max(ValidIo) \subseteq ValidIo =>
    entry.io_time_acc =
      history[Max(ValidIo)].timestamp - history[Min(ValidIo)].timestamp

(* The average of the usages of the intervals is the processor time over   *)
(* the time of observation if the intervals have one length and the number *)
(* was not given to another process.  (Intervals of different lengths, as  *)
(* a late main makes them, have equal weights in the average.)             *)
AverageOverLifetime ==
  LET Length(n) == history[n].timestamp - history[n - 1].timestamp
  IN /\ Len(history) > 1
     /\ \A n \in Later(Records) : /\ history[n].ticks >= history[n - 1].ticks
                                  /\ Length(n) = Length(2)
     => entry.cpu_usage_sum * (Last.timestamp - history[1].timestamp)
          = entry.cpu_usage_samples * Scale * (Last.ticks - history[1].ticks)
=============================================================================
