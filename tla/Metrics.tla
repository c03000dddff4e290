------------------------------ MODULE Metrics -------------------------------
(***************************************************************************)
(* process_stats_print_metrics of code/process_stats/process_stats.c, the  *)
(* report at the end of an execution: averages, up to eleven rankings of   *)
(* the processes, on the console and in metrics.json.                      *)
(*                                                                         *)
(* A quotient is kept as a pair <<dividend, divisor>>; the text around the *)
(* figures is left out.  metrics.json is the sequence of what is written   *)
(* to it: its head, the blocks of the metrics, the commas between them and *)
(* its end.                                                                *)
(***************************************************************************)
EXTENDS Settings, Sequences, FiniteSets

CONSTANTS
  Tables,        \* the tables considered, functions from process numbers
  Requests,      \* the requests of the command line considered, by metric
  Closed         \* pfJsonOutput == NULL

VARIABLES
  stats_pc,
  configuration,
  requested,     \* requested[m]: how many processes to show, 0 if not asked
  g_process_table,
  next_block,    \* the metric to be written next
  pfJsonOutput,  \* what has been written to the open file, or Closed
  boIsFirstJsonMetric,
  console,       \* the rankings printed
  metrics_json,  \* the finished file of this execution, or Closed
  open_failed    \* metrics.json could not be opened

vars == <<stats_pc, configuration, requested, g_process_table,
          next_block, pfJsonOutput, boIsFirstJsonMetric, console,
          metrics_json, open_failed>>

Metric == <<"cpu_average", "rss_average", "rss_increase", "rss_delta",
            "kbytes_read", "written_kbytes", "read_rate", "write_rate",
            "fds_increase", "opened_fds", "fds_delta">>

(* process_state_t as process_stats_update leaves it: the averages are     *)
(* still those of calloc.                                                  *)
process_state_t ==
  [cpu_usage_sum : Int, cpu_usage_samples : Nat, average_cpu_usage : {<<0, 1>>},
   rss_sum : Int, num_of_rss_records : Nat, rss_average_kb : {0},
   rss_variation_since_startup : Int,
   total_read_kbytes : Nat, total_write_kbytes : Nat, io_time_acc : Nat,
   avg_read_rate_kb_s : {<<0, 1>>}, avg_write_rate_kb_s : {<<0, 1>>},
   fd_delta : Int, current_num_of_fds : Int]

(* HASH_COUNT of a table is a number.                                      *)
ASSUME TablesAssumption ==
  \A t \in Tables : /\ IsFiniteSet(DOMAIN t) /\ Cardinality(DOMAIN t) \in Nat
                    /\ \A p \in DOMAIN t : t[p] \in process_state_t

ASSUME RequestsAssumption ==
  Requests \subseteq [{Metric[i] : i \in DOMAIN Metric} -> Nat]

Init ==
  /\ stats_pc = "start"
  /\ \E console_on, json_on \in BOOLEAN :
       configuration = [config_default EXCEPT !["metrics_on_console"] = console_on,
                                              !["metrics_on_json"] = json_on]
  /\ requested \in Requests
  /\ g_process_table \in Tables
  /\ next_block = 1
  /\ pfJsonOutput = Closed /\ metrics_json = Closed
  /\ boIsFirstJsonMetric = FALSE
  /\ console = <<>> /\ open_failed = FALSE

StatsGoto(from, to) == stats_pc = from /\ stats_pc' = to

Asked(m) == requested[m] # 0
-----------------------------------------------------------------------------
(* ap_parse_args calls process_stats_initialize if there is something to   *)
(* report and an output for it.                                            *)
Initialize ==
  /\ stats_pc = "start"
  /\ stats_pc' = IF /\ \E i \in DOMAIN Metric : Asked(Metric[i])
                    /\ \/ config_get_metrics_console_enabled(configuration)
                       \/ config_get_metrics_json_enabled(configuration)
                 THEN "initialized" ELSE "nothing_to_do"
  /\ UNCHANGED <<configuration, requested, g_process_table, next_block,
                 pfJsonOutput, boIsFirstJsonMetric, console, metrics_json,
                 open_failed>>

(* The early returns: an empty table, or no memory for the array.          *)
Allocate ==
  /\ \/ StatsGoto("initialized", "open") /\ DOMAIN g_process_table # {}
     \/ StatsGoto("initialized", "nothing_to_do")
  /\ UNCHANGED <<configuration, requested, g_process_table, next_block,
                 pfJsonOutput, boIsFirstJsonMetric, console, metrics_json,
                 open_failed>>

(* open_metrics_file: malloc or fopen may fail.                            *)
OpenMetricsFile ==
  /\ StatsGoto("open", "begin")
  /\ pfJsonOutput' \in IF config_get_metrics_json_enabled(configuration)
                         THEN {<<>>, Closed} ELSE {Closed}
  /\ open_failed' = /\ config_get_metrics_json_enabled(configuration)
                    /\ pfJsonOutput' = Closed
  /\ UNCHANGED <<configuration, requested, g_process_table, next_block,
                 boIsFirstJsonMetric, console, metrics_json>>

(* metrics_json_begin writes whether there is a file or not.               *)
JsonBegin ==
  /\ \/ /\ StatsGoto("begin", "average")
        /\ pfJsonOutput # Closed
        /\ pfJsonOutput' = Append(pfJsonOutput, "head")
        /\ boIsFirstJsonMetric' = TRUE
     \/ /\ StatsGoto("begin", "crashed")
        /\ pfJsonOutput = Closed
        /\ UNCHANGED <<pfJsonOutput, boIsFirstJsonMetric>>
  /\ UNCHANGED <<configuration, requested, g_process_table, next_block,
                 console, metrics_json, open_failed>>

(* The loop over the table.                                                *)
WithAverages(e) ==
  [e EXCEPT
    !.average_cpu_usage = IF Asked("cpu_average") /\ e.cpu_usage_samples # 0
                            THEN <<e.cpu_usage_sum, e.cpu_usage_samples>> ELSE @,
    !.rss_average_kb = IF Asked("rss_average") /\ e.num_of_rss_records # 0
                         THEN e.rss_sum \div e.num_of_rss_records ELSE @,
    !.avg_read_rate_kb_s = IF Asked("read_rate") /\ e.io_time_acc # 0
                             THEN <<e.total_read_kbytes, e.io_time_acc>> ELSE @,
    !.avg_write_rate_kb_s = IF Asked("write_rate") /\ e.io_time_acc # 0
                              THEN <<e.total_write_kbytes, e.io_time_acc>> ELSE @]

Average ==
  /\ StatsGoto("average", "blocks")
  /\ g_process_table' = [p \in DOMAIN g_process_table |->
                           WithAverages(g_process_table[p])]
  /\ UNCHANGED <<configuration, requested, next_block, pfJsonOutput,
                 boIsFirstJsonMetric, console, metrics_json, open_failed>>
-----------------------------------------------------------------------------
(* The getters of g_metrics, and what the comparison functions compare:    *)
(* two of them take the absolute value.                                    *)
Getter(m, e) ==
  CASE m = "cpu_average" -> e.average_cpu_usage
    [] m = "rss_average" -> <<e.rss_average_kb, 1>>
    [] m \in {"rss_increase", "rss_delta"} -> <<e.rss_variation_since_startup, 1>>
    [] m = "kbytes_read" -> <<e.total_read_kbytes, 1>>
    [] m = "written_kbytes" -> <<e.total_write_kbytes, 1>>
    [] m = "read_rate" -> e.avg_read_rate_kb_s
    [] m = "write_rate" -> e.avg_write_rate_kb_s
    [] m \in {"fds_increase", "fds_delta"} -> <<e.fd_delta, 1>>
    [] m = "opened_fds" -> <<e.current_num_of_fds, 1>>

Absolute(q) == IF q[1] < 0 THEN <<-q[1], q[2]>> ELSE q

(* Mutant: a decrease is less than any increase.                           *)
SignedKey(m, e) == Getter(m, e)

SortKey(m, e) ==
  IF m \in {"rss_delta", "fds_delta"} THEN Absolute(Getter(m, e)) ELSE Getter(m, e)

Less(q, r) == q[1] * r[2] < r[1] * q[2]

(* What qsort may leave in the array of the entries: every process once,   *)
(* in some order, and entries that compare equal in any.                   *)
Arrangements ==
  LET pids == DOMAIN g_process_table
  IN {s \in [1..Cardinality(pids) -> pids] :
        \A p \in pids : \E i \in DOMAIN s : \A j \in DOMAIN s : s[j] = p <=> j = i}

SortedBy(m, s) ==
  \A i, j \in DOMAIN s :
    i < j => ~Less(SortKey(m, g_process_table[s[i]]), SortKey(m, g_process_table[s[j]]))

Shown(m) == LET count == Cardinality(DOMAIN g_process_table)
            IN IF requested[m] < count THEN requested[m] ELSE count

(* The rows of a ranking: process and figure.                              *)
Rows(m, s) == [i \in 1..Shown(m) |-> [pid |-> s[i], value |-> Getter(m, g_process_table[s[i]])]]

Block(m, s) == [metric |-> m, rows |-> Rows(m, s)]

(* write_metric_block_json.                                                *)
(* Mutant: the comma is not forgotten after the first block.               *)
CommaByPosition == next_block > 1

CommaNeeded == ~boIsFirstJsonMetric

WriteMetricBlock(block) ==
  IF pfJsonOutput = Closed THEN UNCHANGED <<pfJsonOutput, boIsFirstJsonMetric>>
    ELSE /\ pfJsonOutput' = pfJsonOutput \o (IF CommaNeeded THEN <<"comma">> ELSE <<>>)
                                         \o <<block>>
         /\ boIsFirstJsonMetric' = FALSE

(* The block of one metric.                                                *)
Ranking ==
  /\ stats_pc = "blocks" /\ next_block \in DOMAIN Metric
  /\ LET m == Metric[next_block]
     IN \/ ~Asked(m) /\ UNCHANGED <<console, pfJsonOutput, boIsFirstJsonMetric>>
        \/ /\ Asked(m)
           /\ \E s \in Arrangements :
                /\ SortedBy(m, s)
                /\ console' = IF config_get_metrics_console_enabled(configuration)
                                THEN Append(console, Block(m, s)) ELSE console
                /\ WriteMetricBlock(Block(m, s))
  /\ next_block' = next_block + 1
  /\ UNCHANGED <<stats_pc, configuration, requested, g_process_table,
                 metrics_json, open_failed>>

(* metrics_json_end.                                                       *)
JsonEnd ==
  /\ StatsGoto("blocks", "done") /\ next_block = Len(Metric) + 1
  /\ IF pfJsonOutput = Closed THEN UNCHANGED <<metrics_json, pfJsonOutput, boIsFirstJsonMetric>>
       ELSE /\ metrics_json' = Append(pfJsonOutput, "end")
            /\ pfJsonOutput' = Closed
            /\ boIsFirstJsonMetric' = TRUE
  /\ UNCHANGED <<configuration, requested, g_process_table, next_block,
                 console, open_failed>>

Terminated == stats_pc \in {"done", "nothing_to_do", "crashed"} /\ UNCHANGED vars

Next ==
  \/ Initialize \/ Allocate \/ OpenMetricsFile \/ JsonBegin \/ Average
  \/ Ranking \/ JsonEnd \/ Terminated

Spec == Init /\ [][Next]_vars
-----------------------------------------------------------------------------
(* What a ranking has to show, from the figures collected: the average     *)
(* over the samples and not over the time, changes by their size whatever  *)
(* their direction for the two deltas.                                     *)
Figure(m, e) ==
  LET quotient(a, b) == IF b = 0 THEN <<0, 1>> ELSE <<a, b>>
  IN CASE m = "cpu_average" -> quotient(e.cpu_usage_sum, e.cpu_usage_samples)
       [] m = "rss_average" ->
            IF e.num_of_rss_records = 0 THEN <<0, 1>>
                                        ELSE <<e.rss_sum \div e.num_of_rss_records, 1>>
       [] m = "read_rate" -> quotient(e.total_read_kbytes, e.io_time_acc)
       [] m = "write_rate" -> quotient(e.total_write_kbytes, e.io_time_acc)
       [] m \in {"rss_delta", "fds_delta"} -> Absolute(Getter(m, e))
       [] OTHER -> Getter(m, e)

(* Every ranking, printed or written, shows as many processes as were      *)
(* asked for (or all), different ones, the largest figures first, and no   *)
(* process left out has a larger figure than one that is shown.            *)
TopOfTable ==
  \A block \in {console[i] : i \in DOMAIN console} :
    LET F(p) == Figure(block.metric, g_process_table[p])
        pid(i) == block.rows[i].pid
    IN /\ Len(block.rows) = Shown(block.metric)
       /\ \A i, j \in DOMAIN block.rows :
            i < j => pid(i) # pid(j) /\ ~Less(F(pid(i)), F(pid(j)))
       /\ \A p \in DOMAIN g_process_table :
            \/ \E i \in DOMAIN block.rows : pid(i) = p
            \/ \A i \in DOMAIN block.rows : ~Less(F(pid(i)), F(p))

(* A finished metrics.json is one document: head, the blocks of exactly    *)
(* the metrics asked for with commas between them, end.  The blocks are    *)
(* the ones on the console.                                                *)
DocumentComplete ==
  metrics_json # Closed =>
    LET n == Len(console)
    IN /\ {console[i].metric : i \in 1..n} = {m \in DOMAIN requested : Asked(m)}
       /\ Len(metrics_json) = 2 * n + 1
       /\ metrics_json[1] = "head" /\ metrics_json[2 * n + 1] = "end"
       /\ \A i \in 1..n : metrics_json[2 * i] = console[i]
       /\ \A i \in 1..(n - 1) : metrics_json[2 * i + 1] = "comma"

(* The report only fails where metrics.json could not be opened: the head  *)
(* is written to a file that is not open in no other case, whatever the    *)
(* two outputs are configured to.                                          *)
CrashOnlyIfOpenFails == stats_pc = "crashed" => open_failed
=============================================================================
