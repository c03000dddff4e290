---------------------------- MODULE ProcessStats ----------------------------
(***************************************************************************)
(* The per-process aggregation of code/process_stats/process_stats.c:      *)
(* what process_stats_update does to the table entry of a process, and the *)
(* averages that process_stats_print_metrics derives from an entry.        *)
(*                                                                         *)
(* An INPUT is one record of a snapshot: the processor ticks used so far   *)
(* (utime + stime), the time of the snapshot, the resident set, and what   *)
(* was read and how many descriptors are open, each with a flag that says  *)
(* whether the number is valid.  What is written is treated exactly as     *)
(* what is read, so that the one stands for both.                          *)
(*                                                                         *)
(* Processor usage is a quotient; it is kept in units of 1/Scale, where    *)
(* Scale is a multiple of every time difference that occurs.  An unsigned  *)
(* long holds Word values.                                                 *)
(***************************************************************************)
EXTENDS Integers, Sequences

CONSTANTS Scale, Word

ASSUME StatsAssumption == Scale \in Nat \ {0} /\ Word \in Nat \ {0}

(* get_or_create_process: calloc, then a few fields of the first record.   *)
NewProcess(input) ==
  [ prev_cpu_ticks |-> input.ticks, prev_timestamp |-> 0,
    number_of_records |-> 0,
    cpu_usage |-> 0, cpu_usage_sum |-> 0, cpu_usage_samples |-> 0,
    rss_initial_kb |-> 0, rss_kb |-> input.rss_kb, rss_sum |-> 0,
    rss_variation |-> 0, rss_initialized |-> FALSE, num_of_rss_records |-> 0,
    prev_read_kbytes |-> 0, total_read_kbytes |-> 0, io_time_acc |-> 0,
    io_initialized |-> FALSE,
    initial_num_of_fds |-> 0, current_num_of_fds |-> 0, fd_delta |-> 0,
    fd_initialized |-> FALSE ]

(* (curr_ticks - prev_ticks) in unsigned arithmetic, over the time.        *)
compute_cpu_usage(prev_ticks, curr_ticks, delta_time) ==
  (Scale * ((curr_ticks - prev_ticks) % Word)) \div delta_time

(* The usage since the last record counts if there was one, the ticks did  *)
(* not go down and time has passed.                                        *)
(* Mutants: the ticks are not compared; the first record counts, too.      *)
TimePassed(input, ps) ==
  ps.number_of_records > 0 /\ input.timestamp > ps.prev_timestamp
FirstCounts(input, ps) ==
  input.ticks >= ps.prev_cpu_ticks /\ input.timestamp > ps.prev_timestamp

UsageCounts(input, ps) ==
  /\ ps.number_of_records > 0
  /\ input.ticks >= ps.prev_cpu_ticks
  /\ input.timestamp > ps.prev_timestamp

calculate_cpu_data(input, ps) ==
  LET usage == IF UsageCounts(input, ps)
                 THEN compute_cpu_usage(ps.prev_cpu_ticks, input.ticks,
                                        input.timestamp - ps.prev_timestamp)
                 ELSE 0
  IN [ps EXCEPT !.cpu_usage = usage,
                !.cpu_usage_sum = @ + usage,
                !.cpu_usage_samples = @ + (IF UsageCounts(input, ps) THEN 1 ELSE 0),
                !.prev_cpu_ticks = input.ticks]

(* The first valid count is what the later ones are compared with.         *)
(* Mutant: each count is compared with the one before it.                  *)
FdsDeltaFromPrevious(input, ps) ==
  IF ~input.fd_valid THEN ps
  ELSE [ps EXCEPT !.current_num_of_fds = input.fds,
                  !.fd_initialized = TRUE,
                  !.initial_num_of_fds = input.fds,
                  !.fd_delta = input.fds - ps.initial_num_of_fds]

calculate_fds_delta(input, ps) ==
  IF ~input.fd_valid THEN ps
  ELSE IF ~ps.fd_initialized
    THEN [ps EXCEPT !.current_num_of_fds = input.fds,
                    !.initial_num_of_fds = input.fds,
                    !.fd_initialized = TRUE]
    ELSE [ps EXCEPT !.current_num_of_fds = input.fds,
                    !.fd_delta = input.fds - ps.initial_num_of_fds]

(* A resident set is valid if it is not negative.                          *)
calculate_rss_data(input, ps) ==
  IF input.rss_kb < 0 THEN ps
  ELSE LET initial == IF ps.rss_initialized THEN ps.rss_initial_kb ELSE input.rss_kb
       IN [ps EXCEPT !.rss_initial_kb = initial,
                     !.rss_initialized = TRUE,
                     !.rss_kb = input.rss_kb,
                     !.rss_sum = @ + input.rss_kb,
                     !.rss_variation = input.rss_kb - initial,
                     !.num_of_rss_records = @ + 1]

(* A counter that went down adds nothing.                                  *)
(* Mutant: an unsigned difference without the comparison.                  *)
UnsignedDelta(prev, curr) == (curr - prev) % Word

CounterDelta(prev, curr) == IF curr >= prev THEN curr - prev ELSE 0

(* Mutant: the time of the last interval only.                             *)
LastInterval(acc, dt) == dt

Accumulated(acc, dt) == acc + dt

calculate_io_data(input, ps) ==
  LET dt == input.timestamp - ps.prev_timestamp
  IN CASE ~input.io_valid -> ps
       [] input.io_valid /\ ~ps.io_initialized ->
            [ps EXCEPT !.prev_read_kbytes = input.read_kbytes,
                       !.io_initialized = TRUE]
       [] input.io_valid /\ ps.io_initialized /\ dt <= 0 -> ps
       [] OTHER ->
            [ps EXCEPT !.total_read_kbytes =
                            @ + CounterDelta(ps.prev_read_kbytes, input.read_kbytes),
                       !.io_time_acc = Accumulated(@, dt),
                       !.prev_read_kbytes = input.read_kbytes]

process_stats_update(input, ps) ==
  LET cpu == calculate_cpu_data(input, ps)
      fds == calculate_fds_delta(input, cpu)
      rss == calculate_rss_data(input, fds)
      io  == calculate_io_data(input, rss)
  IN [io EXCEPT !.prev_timestamp = input.timestamp,
                !.number_of_records = @ + 1]
=============================================================================
