------------------------------ MODULE Snapshot ------------------------------
(***************************************************************************)
(* collect_snapshot of code/process_snapshot/process_snapshot.c against a  *)
(* kernel that goes on working: processes use the processor, read, exit,   *)
(* and give their number to a successor while the program is going through *)
(* /proc.  One step is one access to a file of /proc; the record put       *)
(* together from them goes to process_stats_update (ProcessStats).         *)
(*                                                                         *)
(* Resident set and descriptor count are gauges, chosen when they are      *)
(* read.  Ticks and bytes read are counters of the process.  A process has *)
(* one thread and uses at most one tick per unit of time.                  *)
(***************************************************************************)
EXTENDS ProcessStats

CONSTANTS
  Pid, Comm,                 \* process numbers and names
  FilterPids, FilterComms,   \* --filter_by_pid, --filter_by_name
  Excluded,                  \* {getpid()} without include_self, else {}
  Gauge,                     \* resident sets and descriptor counts
  IoMayBeDenied,             \* /proc/<pid>/io and fd may be unreadable
  MaxTime, MaxSnapshots, MaxIncarnations

ASSUME SnapshotAssumption ==
  /\ Pid \subseteq Nat \ {0} /\ FilterPids \subseteq Pid /\ Excluded \subseteq Pid
  /\ Comm # {} /\ FilterComms \subseteq Comm /\ Gauge \subseteq Nat /\ Gauge # {}
  /\ IoMayBeDenied \in BOOLEAN
  /\ MaxTime \in Nat \ {0} /\ MaxSnapshots \in Nat /\ MaxIncarnations \in Nat \ {0}
  /\ \A d \in 1..(MaxTime - 1) : Scale % d = 0

VARIABLES
  now, proc,      \* the clock; proc[p]: the process with number p
  started,        \* how many processes have had number p
  phase,          \* what the program does next
  timestamp,      \* when the snapshot began
  listed,         \* the numbers readdir has yet to return
  record,         \* the record being put together, with when and of whom
  table,          \* g_process_table
  g_number_of_snapshots,
  trail,          \* trail[p]: the last two records of p that were aggregated
  consumed        \* consumed[p]: what was read under number p since
                  \* /proc/<p>/io of the first valid record was opened

kernel == <<now, proc, started>>
vars == <<kernel, phase, timestamp, listed, record, table,
          g_number_of_snapshots, trail, consumed>>

NoProcess == [inc |-> 0]
NoEntry == [number_of_records |-> 0]
NoRecord == [pid |-> 0]
Alive(p) == proc[p] # NoProcess
Newborn(n, c) == [inc |-> n, comm |-> c, ticks |-> 0, read |-> 0]

(* The program itself is running, and runs on.                             *)
Init ==
  /\ now = 1
  /\ started = [p \in Pid |-> IF p \in Excluded THEN 1 ELSE 0]
  /\ proc = [p \in Pid |-> IF p \in Excluded
                             THEN Newborn(1, CHOOSE c \in Comm : TRUE)
                             ELSE NoProcess]
  /\ phase = "idle" /\ timestamp = 0 /\ listed = {} /\ record = NoRecord
  /\ table = [p \in Pid |-> NoEntry]
  /\ g_number_of_snapshots = 0
  /\ trail = [p \in Pid |-> <<>>]
  /\ consumed = [p \in Pid |-> 0]
-----------------------------------------------------------------------------
(* The kernel.                                                             *)

(* What the program itself uses is nowhere looked at unless it is included *)
(* among the others.                                                       *)
Work ==
  /\ now < MaxTime
  /\ now' = now + 1
  /\ \E busy, reading \in SUBSET {p \in Pid \ Excluded : Alive(p)} :
       /\ proc' = [p \in Pid |->
            IF Alive(p)
              THEN [proc[p] EXCEPT !.ticks = @ + (IF p \in busy THEN 1 ELSE 0),
                                   !.read = @ + (IF p \in reading THEN 1 ELSE 0)]
              ELSE proc[p]]
       /\ consumed' = [p \in Pid |-> consumed[p] + (IF p \in reading THEN 1 ELSE 0)]
  /\ UNCHANGED <<started, phase, timestamp, listed, record, table,
                 g_number_of_snapshots, trail>>

ProcessStarts(p) ==
  /\ ~Alive(p) /\ started[p] < MaxIncarnations
  /\ started' = [started EXCEPT ![p] = @ + 1]
  /\ \E c \in Comm :
       proc' = [proc EXCEPT ![p] = Newborn(started[p] + 1, c)]
  /\ UNCHANGED <<now, phase, timestamp, listed, record, table,
                 g_number_of_snapshots, trail, consumed>>

ProcessExits(p) ==
  /\ Alive(p) /\ p \notin Excluded
  /\ proc' = [proc EXCEPT ![p] = NoProcess]
  /\ UNCHANGED <<now, started, phase, timestamp, listed, record, table,
                 g_number_of_snapshots, trail, consumed>>
-----------------------------------------------------------------------------
(* collect_snapshot.                                                       *)

(* print_timestamp, rewinddir.  The monotonic clock has moved since the    *)
(* last snapshot.                                                          *)
BeginSnapshot ==
  /\ phase = "idle" /\ g_number_of_snapshots < MaxSnapshots
  /\ now > timestamp
  /\ timestamp' = now
  /\ listed' = {p \in Pid : Alive(p)}
  /\ phase' = "readdir"
  /\ UNCHANGED <<kernel, record, table, g_number_of_snapshots, trail, consumed>>

(* readdir, the lowest number first; the program skips itself.             *)
(* Mutant: the directory is not advanced.                                  *)
SameListed(p) == listed

WithoutFirst(p) == listed \ {p}

NextProcess ==
  /\ phase = "readdir"
  /\ \E p \in listed :
       /\ \A q \in listed : p <= q
       /\ listed' = WithoutFirst(p)
       /\ IF p \in Excluded THEN UNCHANGED <<phase, record>>
          ELSE phase' = "stat" /\ record' = [pid |-> p]
  /\ UNCHANGED <<kernel, timestamp, table, g_number_of_snapshots, trail, consumed>>

Continue == phase' = "readdir" /\ record' = NoRecord

(* read_proc_stat up to read_proc_io.                                      *)
ReadStat ==
  /\ phase = "stat"
  /\ LET p == record.pid
     IN \/ ~Alive(p) /\ Continue
        \/ /\ Alive(p)
           /\ phase' = "open_io"
           /\ \E rss \in Gauge :
                record' = [pid |-> p, comm |-> proc[p].comm,
                           at |-> now, timestamp |-> timestamp,
                           ticks |-> proc[p].ticks, rss_kb |-> rss,
                           io_inc |-> 0, io_valid |-> FALSE, read_kbytes |-> 0,
                           fd_inc |-> 0, fd_valid |-> FALSE, fds |-> 0]
  /\ UNCHANGED <<kernel, timestamp, listed, table, g_number_of_snapshots,
                 trail, consumed>>

(* The fopen of read_proc_io; it refers to the process that has the number *)
(* now.                                                                    *)
IoStarted(p) == table[p] # NoEntry /\ table[p].io_initialized

OpenIo ==
  /\ phase = "open_io"
  /\ \/ /\ Alive(record.pid)
        /\ phase' = "read_io"
        /\ record' = [record EXCEPT !.io_inc = proc[record.pid].inc]
        /\ consumed' = IF IoStarted(record.pid) THEN consumed
                       ELSE [consumed EXCEPT ![record.pid] = 0]
     \/ /\ ~Alive(record.pid) \/ IoMayBeDenied
        /\ phase' = "open_fd" /\ UNCHANGED <<record, consumed>>
  /\ UNCHANGED <<kernel, timestamp, listed, table, g_number_of_snapshots, trail>>

(* Its loop over the lines: a file that opens and then yields no line      *)
(* leaves the zeros it started with, and the result is success.            *)
ReadIo ==
  /\ phase = "read_io"
  /\ LET p == record.pid
         there == proc[p].inc = record.io_inc
     IN record' = [record EXCEPT !.io_valid = TRUE,
                                 !.read_kbytes = IF there THEN proc[p].read ELSE 0]
  /\ phase' = "open_fd"
  /\ UNCHANGED <<kernel, timestamp, listed, table, g_number_of_snapshots,
                 trail, consumed>>

(* is_filtering_enabled, is_comm_in_filter, is_pid_in_filter.              *)
Requested(r) ==
  \/ FilterPids = {} /\ FilterComms = {}
  \/ r.comm \in FilterComms \/ r.pid \in FilterPids

(* process_stats_update with the finished record; an entry is made for a   *)
(* number that has none, if there is memory for it.                        *)
UpdateStats(input) ==
  LET p == input.pid
      entry == IF table[p] = NoEntry THEN NewProcess(input) ELSE table[p]
  IN \/ table[p] = NoEntry /\ UNCHANGED <<table, trail>>
     \/ /\ table' = [table EXCEPT ![p] = process_stats_update(input, entry)]
        /\ trail' = [trail EXCEPT ![p] =
             Append(IF Len(@) = 2 THEN Tail(@) ELSE @,
                    [timestamp |-> input.timestamp, at |-> input.at])]

(* The filters, and the opendir of count_open_fds_for_pid for a record     *)
(* that passes; without the directory the count is invalid.                *)
OpenFd ==
  /\ phase = "open_fd"
  /\ \/ ~Requested(record) /\ Continue /\ UNCHANGED <<table, trail>>
     \/ /\ Requested(record) /\ Alive(record.pid)
        /\ phase' = "read_fd"
        /\ record' = [record EXCEPT !.fd_inc = proc[record.pid].inc]
        /\ UNCHANGED <<table, trail>>
     \/ /\ Requested(record) /\ (~Alive(record.pid) \/ IoMayBeDenied)
        /\ UpdateStats(record) /\ Continue
  /\ UNCHANGED <<kernel, timestamp, listed, g_number_of_snapshots, consumed>>

(* Its readdir loop, which finds nothing when the process is gone by now,  *)
(* and the rest of the iteration.                                          *)
ReadFd ==
  /\ phase = "read_fd"
  /\ \E n \in IF proc[record.pid].inc = record.fd_inc THEN Gauge ELSE {0} :
       UpdateStats([record EXCEPT !.fd_valid = TRUE, !.fds = n])
  /\ Continue
  /\ UNCHANGED <<kernel, timestamp, listed, g_number_of_snapshots, consumed>>

(* process_stats_snapshot_end.                                             *)
EndSnapshot ==
  /\ phase = "readdir" /\ listed = {}
  /\ phase' = "idle"
  /\ g_number_of_snapshots' = g_number_of_snapshots + 1
  /\ UNCHANGED <<kernel, timestamp, listed, record, table, trail, consumed>>
-----------------------------------------------------------------------------
Next ==
  \/ Work \/ BeginSnapshot \/ NextProcess \/ ReadStat \/ OpenIo \/ ReadIo
  \/ OpenFd \/ ReadFd \/ EndSnapshot
  \/ \E p \in Pid : ProcessStarts(p) \/ ProcessExits(p)

Spec == Init /\ [][Next]_vars

(* The types, and: a process has at most one record per snapshot.          *)
TypeOK ==
  /\ now \in 1..MaxTime
  /\ \A p \in Pid : Alive(p) => proc[p].inc \in 1..MaxIncarnations
  /\ phase \in {"idle", "readdir", "stat", "open_io", "read_io", "open_fd", "read_fd"}
  /\ phase \notin {"idle", "readdir"} <=> record # NoRecord
  /\ timestamp \in 0..now /\ listed \subseteq Pid
  /\ g_number_of_snapshots \in 0..MaxSnapshots
  /\ \A p \in Pid : table[p].number_of_records
                       <= g_number_of_snapshots + (IF phase = "idle" THEN 0 ELSE 1)
-----------------------------------------------------------------------------
Known == {p \in Pid : table[p] # NoEntry}

(* The bytes attributed to a number are never more than what was read      *)
(* under it since its first valid record, even if the number has been      *)
(* given to other processes and records were lost in between.              *)
ReadNotOverstated ==
  \A p \in Known : table[p].io_initialized =>
    table[p].total_read_kbytes <= consumed[p]

(* The processor time counted for an interval is never more than the time  *)
(* between the two readings of /proc/<pid>/stat, also when the second is   *)
(* of another process with the number of the first.                        *)
CpuWithinRealTime ==
  \A p \in Known :
    LET h == trail[p]
    IN Len(h) = 2 => table[p].cpu_usage * (h[2].timestamp - h[1].timestamp)
                       <= Scale * (h[2].at - h[1].at)
=============================================================================
