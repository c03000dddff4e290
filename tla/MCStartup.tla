----------------------------- MODULE MCStartup ------------------------------
(* Files that lack an option, repeat options, or have lines that are junk  *)
(* or longer than the buffer, and the options of the command line with one *)
(* token of each kind more than the first buffer of a filter list holds.   *)
EXTENDS Startup, SequencesExt

CONSTANTS c, r, p1, p2, p3, n1, n2, n3

MCToken == [pid |-> {p1, p2, p3}, comm |-> {n1, n2, n3}]

Perms == Permutations({p1, p2, p3}) \cup Permutations({n1, n2, n3})

Option1(k, v) == <<[kind |-> "option", key |-> k, value |-> v]>>
Size(n, unit) == [n |-> n, unit |-> unit]

Basis == << Option1("output_dir", "/var/ptime"), Option1("max_file_size", Size(1, "m")),
            Option1("max_number_of_files", 2), Option1("raw_log_enabled", "true") >>

More == { Option1("raw_log_enabled", "false"), Option1("raw_jsonl_enabled", "true"),
          Option1("metrics_on_console", "true"), Option1("metrics_on_json", "junk"),
          Option1("max_file_size", Size(3, "k")), Option1("max_file_size", Size(9, "g")),
          Option1("max_file_size", Size(Invalid, "none")),
          Option1("max_number_of_files", 1000), Option1("unknown", "true"),
          <<[kind |-> "blank"]>>, <<[kind |-> "no_equals_sign"]>>,
          <<[kind |-> "comment"]>> \o Option1("max_number_of_files", 3) }

MCFiles == {Basis \o more : more \in BoundedSeq(More, 2)}
             \cup {SubSeq(Basis, 2, 4), SubSeq(Basis, 1, 3)}

MCDurations == {[value |-> 1, unit |-> "s"], [value |-> 0, unit |-> "ms"],
                [value |-> 2048, unit |-> "m"], [value |-> 1, unit |-> "junk"]}
=============================================================================
