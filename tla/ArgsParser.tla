----------------------------- MODULE ArgsParser -----------------------------
(***************************************************************************)
(* ap_parse_args and ap_free_arguments of code/args_parser/args_parser.c,  *)
(* called by main: the options in any order and number, the filter lists   *)
(* that grow on the heap while they are parsed, and every early return.    *)
(*                                                                         *)
(* An option is its parsed form: a duration is the number strtol finds and *)
(* its unit, a filter list is handled token by token.  Word stands for     *)
(* 2^64, InitialCapacity for AP_INITIAL_FILTER_CAPACITY.                   *)
(***************************************************************************)
EXTENDS Settings, Sequences

CONSTANTS
  Durations,        \* the [value, unit] given to -i
  Counts,           \* the numbers given to -n, and those to the metrics
  Metric,           \* the options that ask for a metric
  Token,            \* Token[type]: the tokens of the filter lists
  Bad,              \* an argument that cannot be parsed
  Word, InitialCapacity

ASSUME DurationAssumption == \A d \in Durations : d.value \in Int
ASSUME CountsAssumption == Counts \subseteq Nat \ {0}
ASSUME WordAssumption == Word \in Nat \ {0}
ASSUME CapacityAssumption == InitialCapacity \in Nat \ {0}

VARIABLES
  args_pc,
  gArguments,
  boIntervalProvided, boCountProvided,
  heap,             \* the blocks that malloc has given and free not taken
  bad_free,         \* free was called with something else
  stats_initialized,
  wrapped,          \* the product of the last interval did not fit
  asked             \* asked[type]: the tokens seen so far

argsVars == <<args_pc, gArguments, boIntervalProvided, boCountProvided, heap,
              bad_free, stats_initialized, wrapped, asked>>

FilterType == {"pid", "comm"}

(* The two lists of ap_pid_whitelist.  A buffer is named after its type    *)
(* and capacity, the copy of a name after the name.                        *)
NULL == <<>>
EmptyList == [buffer |-> NULL, items |-> <<>>, capacity |-> 0]
Buffer(type, capacity) == <<"buffer", type, capacity>>
NameCopy(token) == <<"name", token>>
Listed(list) == {list.items[i] : i \in DOMAIN list.items}

ArgsInit ==
  /\ args_pc = "idle"
  /\ gArguments = [interval_ms |-> 0, count |-> 0, delete_old_files |-> FALSE,
                   requested |-> [m \in Metric |-> 0],
                   whitelist |-> [type \in FilterType |-> EmptyList]]
  /\ boIntervalProvided = FALSE /\ boCountProvided = FALSE
  /\ heap = {} /\ bad_free = FALSE
  /\ stats_initialized = FALSE
  /\ wrapped = FALSE /\ asked = [type \in FilterType |-> {}]
-----------------------------------------------------------------------------
(* ap_free_arguments.                                                      *)
Blocks(whitelist) ==
  ({whitelist[type].buffer : type \in FilterType} \ {NULL})
    \cup {NameCopy(token) : token \in Listed(whitelist["comm"])}

(* Mutant: the pointers keep pointing to what was freed.                   *)
Unchanged(whitelist) == whitelist

Cleared(whitelist) == [type \in FilterType |-> EmptyList]

FreeArguments ==
  LET blocks == Blocks(gArguments.whitelist)
  IN /\ heap' = heap \ blocks
     /\ bad_free' = (bad_free \/ ~(blocks \subseteq heap))
     /\ gArguments' = [gArguments EXCEPT !.whitelist = Cleared(@)]

(* The early returns: free, print something, return parse_args_error.      *)
Fail == args_pc' = "error" /\ FreeArguments

(* ap_parse_args up to its loop.                                           *)
ParseBegin ==
  /\ args_pc = "idle" /\ args_pc' = "options"
  /\ FreeArguments
  /\ UNCHANGED <<boIntervalProvided, boCountProvided, stats_initialized,
                 wrapped, asked>>
-----------------------------------------------------------------------------
(* parse_duration_ms.                                                      *)
Millis == [ms |-> 1, s |-> 1000, m |-> 60 * 1000]

Exact(d) == d.value * Millis[d.unit]

(* Mutant: zero is a duration.                                             *)
AnyDuration(d) == d # Bad /\ d.value >= 0 /\ d.unit \in DOMAIN Millis

DurationOk(d) == d # Bad /\ d.value > 0 /\ d.unit \in DOMAIN Millis

OptInterval(d) ==
  /\ args_pc = "options"
  /\ \/ /\ DurationOk(d)
        /\ gArguments' = [gArguments EXCEPT !.interval_ms = Exact(d) % Word]
        /\ wrapped' = ~(Exact(d) < Word)
        /\ boIntervalProvided' = TRUE
        /\ UNCHANGED <<args_pc, heap, bad_free>>
     \/ ~DurationOk(d) /\ Fail /\ UNCHANGED <<wrapped, boIntervalProvided>>
  /\ UNCHANGED <<boCountProvided, stats_initialized, asked>>

(* parse_number_of_snapshots and parse_integer_arg.                        *)
OptCount(n) ==
  /\ args_pc = "options"
  /\ \/ /\ n # Bad
        /\ gArguments' = [gArguments EXCEPT !.count = n]
        /\ boCountProvided' = TRUE
        /\ UNCHANGED <<args_pc, heap, bad_free>>
     \/ n = Bad /\ Fail /\ UNCHANGED boCountProvided
  /\ UNCHANGED <<boIntervalProvided, stats_initialized, wrapped, asked>>

(* The eleven options -c, -r, -s, -d, -e, -f, -g, -a, -m, -p and -o.       *)
OptMetric(m, n) ==
  /\ args_pc = "options"
  /\ \/ /\ n # Bad
        /\ gArguments' = [gArguments EXCEPT !.requested[m] = n]
        /\ UNCHANGED <<args_pc, heap, bad_free>>
     \/ n = Bad /\ Fail
  /\ UNCHANGED <<boIntervalProvided, boCountProvided, stats_initialized,
                 wrapped, asked>>

OptDeleteOldFiles ==
  /\ args_pc = "options"
  /\ gArguments' = [gArguments EXCEPT !.delete_old_files = TRUE]
  /\ UNCHANGED <<args_pc, boIntervalProvided, boCountProvided, heap, bad_free,
                 stats_initialized, wrapped, asked>>

(* -v, -h and unknown options.                                             *)
OptStop ==
  /\ args_pc = "options"
  /\ Fail
  /\ UNCHANGED <<boIntervalProvided, boCountProvided, stats_initialized,
                 wrapped, asked>>
-----------------------------------------------------------------------------
(* append_filter_pid and append_filter_comm.  The reallocation is done     *)
(* before the copy of the name is allocated, either may fail.              *)
NewCapacity(list) == IF list.capacity = 0 THEN InitialCapacity ELSE list.capacity * 2

Full(list) == Len(list.items) = list.capacity

Grown(type, list) ==
  IF Full(list) THEN [list EXCEPT !.capacity = NewCapacity(list),
                                  !.buffer = Buffer(type, NewCapacity(list))]
                ELSE list

HeapGrown(type, list) ==
  IF Full(list) THEN (heap \ {list.buffer}) \cup {Grown(type, list).buffer}
                ELSE heap

Appended(list, token) == [list EXCEPT !.items = Append(@, token)]

(* Mutant: only a repetition of the token before is noticed.               *)
RepeatsLast(list, token) == list.items # <<>> /\ list.items[Len(list.items)] = token

Duplicate(list, token) == token \in Listed(list)

(* One token of parse_filter_pid_list.                                     *)
OptFilter(type, token) ==
  LET list == gArguments.whitelist[type]
  IN /\ args_pc = "options"
     /\ token # Bad
     /\ asked' = [asked EXCEPT ![type] = @ \cup {token}]
     /\ IF Duplicate(list, token)
          THEN UNCHANGED <<gArguments, heap>>
          ELSE /\ gArguments' = [gArguments EXCEPT !.whitelist[type] =
                                   Appended(Grown(type, list), token)]
               /\ heap' = HeapGrown(type, list)
                            \cup (IF type = "comm" THEN {NameCopy(token)} ELSE {})
     /\ UNCHANGED <<args_pc, boIntervalProvided, boCountProvided, bad_free,
                    stats_initialized, wrapped>>

(* A token that is empty or no process number, or a realloc that fails.    *)
OptFilterFails(type, token) ==
  /\ args_pc = "options"
  /\ \/ token = Bad
     \/ /\ Full(gArguments.whitelist[type])
        /\ ~Duplicate(gArguments.whitelist[type], token)
  /\ Fail
  /\ UNCHANGED <<boIntervalProvided, boCountProvided, stats_initialized,
                 wrapped, asked>>

(* The malloc of a name fails: the list may have been enlarged already.    *)
NoNameCopy(token) ==
  LET list == gArguments.whitelist["comm"]
      whitelist == [gArguments.whitelist EXCEPT !["comm"] = Grown("comm", list)]
      grown == HeapGrown("comm", list)
  IN /\ args_pc = "options" /\ args_pc' = "error"
     /\ ~Duplicate(list, token)
     /\ heap' = grown \ Blocks(whitelist)
     /\ bad_free' = (bad_free \/ ~(Blocks(whitelist) \subseteq grown))
     /\ gArguments' = [gArguments EXCEPT !.whitelist = Cleared(whitelist)]
     /\ UNCHANGED <<boIntervalProvided, boCountProvided, stats_initialized,
                    wrapped, asked>>
-----------------------------------------------------------------------------
(* The end of the options, with the configuration c.                       *)
ParseEnd(c) ==
  /\ args_pc = "options"
  /\ \/ /\ boIntervalProvided /\ boCountProvided
        /\ args_pc' = "ok"
        /\ stats_initialized' =
             /\ \E m \in Metric : gArguments.requested[m] # 0
             /\ \/ config_get_metrics_console_enabled(c)
                \/ config_get_metrics_json_enabled(c)
        /\ UNCHANGED <<gArguments, heap, bad_free>>
     \/ /\ ~(boIntervalProvided /\ boCountProvided)
        /\ Fail /\ UNCHANGED stats_initialized
  /\ UNCHANGED <<boIntervalProvided, boCountProvided, wrapped, asked>>

(* main calls ap_free_arguments: at its end, when the parsing has failed,  *)
(* and also when it was never reached.                                     *)
MainFrees ==
  /\ args_pc \in {"idle", "ok", "error"}
  /\ args_pc' = "freed"
  /\ FreeArguments
  /\ UNCHANGED <<boIntervalProvided, boCountProvided, stats_initialized,
                 wrapped, asked>>

Option ==
  \/ \E d \in Durations \cup {Bad} : OptInterval(d)
  \/ \E n \in Counts \cup {Bad} : OptCount(n)
  \/ \E m \in Metric, n \in Counts \cup {Bad} : OptMetric(m, n)
  \/ OptDeleteOldFiles \/ OptStop
  \/ \E type \in FilterType : \E token \in Token[type] \cup {Bad} :
       OptFilter(type, token) \/ OptFilterFails(type, token)
  \/ \E token \in Token["comm"] : NoNameCopy(token)
-----------------------------------------------------------------------------
(* The heap: free is only ever called with a live block, although main     *)
(* calls ap_free_arguments again behind every early return of the parser;  *)
(* the lists stay within the capacity of their live buffers; and nothing   *)
(* is left when main returns, wherever an allocation failed.               *)
MemorySafe ==
  /\ ~bad_free
  /\ Blocks(gArguments.whitelist) \subseteq heap
  /\ \A type \in FilterType : Len(gArguments.whitelist[type].items)
                                <= gArguments.whitelist[type].capacity
  /\ args_pc = "freed" => heap = {}

(* The filter that collect_snapshot gets is the set of all processes named *)
(* on the command line, each once, however the options are spread and      *)
(* however often the lists were enlarged.                                  *)
FilterComplete ==
  args_pc = "ok" =>
    \A type \in FilterType :
      LET list == gArguments.whitelist[type]
      IN /\ Listed(list) = asked[type]
         /\ \A i, j \in DOMAIN list.items : i # j => list.items[i] # list.items[j]

(* The timer is armed: the interval main passes on is at least a           *)
(* millisecond, also when -i is given several times, unless the number of  *)
(* milliseconds did not fit (an interval of 0 would disarm the timer and   *)
(* block main in its first read).                                          *)
TimerArmed ==
  args_pc = "ok" /\ ~wrapped => gArguments.interval_ms > 0 /\ gArguments.count > 0
=============================================================================
