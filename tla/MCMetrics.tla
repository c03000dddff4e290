----------------------------- MODULE MCMetrics ------------------------------
(* Tables of up to three processes with ties, with figures that go down,   *)
(* and with parts that were never valid; requests for one or two metrics   *)
(* and for all of them, for fewer and for more processes than there are.   *)
EXTENDS Metrics, TLC

Entry(cpu, rss, io, fds) ==
  [cpu_usage_sum |-> cpu[1], cpu_usage_samples |-> cpu[2], average_cpu_usage |-> <<0, 1>>,
   rss_sum |-> rss[1], num_of_rss_records |-> rss[2], rss_average_kb |-> 0,
   rss_variation_since_startup |-> rss[3],
   total_read_kbytes |-> io[1], total_write_kbytes |-> io[2], io_time_acc |-> io[3],
   avg_read_rate_kb_s |-> <<0, 1>>, avg_write_rate_kb_s |-> <<0, 1>>,
   fd_delta |-> fds[1], current_num_of_fds |-> fds[2]]

Busy == Entry(<<3, 2>>, <<7, 2, -3>>, <<4, 1, 2>>, <<-2, 3>>)
Steady == Entry(<<2, 1>>, <<3, 2, 1>>, <<3, 2, 1>>, <<1, 4>>)
Unseen == Entry(<<0, 0>>, <<0, 0, 0>>, <<0, 0, 0>>, <<0, 0>>)

MCTables == {<<Busy, Steady, Unseen>>, <<Steady, Unseen, Steady>>, <<Busy>>, <<>>}

Names == {Metric[i] : i \in DOMAIN Metric}

MCRequests ==
  {[m \in Names |-> IF m = a THEN 1 ELSE IF m = b THEN n ELSE 0] :
     a \in Names, b \in Names, n \in {0, 2, 5}}
  \cup {[m \in Names |-> n] : n \in {0, 2}}
=============================================================================
