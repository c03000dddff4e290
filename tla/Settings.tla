------------------------------ MODULE Settings ------------------------------
(***************************************************************************)
(* The configuration of code/config/config.c as a value: its defaults, the *)
(* conversion of one option and the accessors.                             *)
(*                                                                         *)
(* A value in the file is what its conversion tells apart: "true", "false" *)
(* or "junk" for a flag, the number atoi finds for the count of files, a   *)
(* number with the first character behind it for a size.  Sizes are scaled *)
(* down: KiB stands for 1024 and SizeWord for 2^64.                        *)
(***************************************************************************)
EXTENDS Integers

CONSTANTS
  KiB, SizeWord,
  Invalid        \* the result -1 of a conversion

ASSUME SizeAssumption ==
  KiB \in Nat \ {0} /\ SizeWord \in Nat /\ 10 * KiB * KiB < SizeWord

RawKey == {"raw_log_enabled", "raw_jsonl_enabled", "raw_console_enabled"}
BoolKey == RawKey \cup {"compression_enabled", "metrics_on_console",
                        "metrics_on_json", "include_self"}
Key == BoolKey \cup {"output_dir", "max_file_size", "max_number_of_files"}

CONFIG_MIN_FILE_SIZE_BYTES == KiB
CONFIG_MIN_NO_OF_FILES == 1
CONFIG_MAX_NO_OF_FILES == 1000

config_default ==
  [k \in Key |->
     CASE k = "output_dir" -> "/tmp/ptime"
       [] k = "max_file_size" -> 5 * KiB * KiB
       [] k = "max_number_of_files" -> 3
       [] OTHER -> k \in {"raw_log_enabled", "raw_jsonl_enabled",
                          "metrics_on_console", "metrics_on_json"}]

(* The static variable before anything is assigned to it.                  *)
Zeroed ==
  [k \in Key |-> CASE k = "output_dir" -> "" [] k \in BoolKey -> FALSE [] OTHER -> 0]

parse_bool(v) ==
  CASE v = "true" -> TRUE [] v = "false" -> FALSE [] OTHER -> Invalid

(* The product is unsigned and wraps; the conversion to off_t makes the    *)
(* upper half negative.                                                    *)
Factor == [none |-> 1, k |-> KiB, m |-> KiB * KiB, g |-> KiB * KiB * KiB]

Product(v) == v.n * Factor[v.unit]

OffT(n) == IF n % SizeWord < SizeWord \div 2 THEN n % SizeWord
                                             ELSE (n % SizeWord) - SizeWord

parse_size(v) ==
  IF v.n = Invalid \/ v.unit \notin DOMAIN Factor THEN Invalid ELSE OffT(Product(v))

(* config_set_option: the value it stores.  An unknown key is an error.    *)
Converted(key, v) ==
  CASE key \in BoolKey -> parse_bool(v)
    [] key = "max_file_size" -> parse_size(v)
    [] key \in {"max_number_of_files", "output_dir"} -> v
    [] OTHER -> Invalid

(* The accessors of the two outputs of the metrics.  The second one reads  *)
(* the field of the first.                                                 *)
config_get_metrics_console_enabled(c) == c["metrics_on_console"]

(* Mutant: the field that belongs to it.                                   *)
JsonField(c) == c["metrics_on_json"]

config_get_metrics_json_enabled(c) == c["metrics_on_console"]
=============================================================================
