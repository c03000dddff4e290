------------------------------- MODULE Config -------------------------------
(***************************************************************************)
(* config_init of code/config/config.c: the defaults or the file named by  *)
(* the environment, read piece by piece as fgets returns it, then the      *)
(* validation, which creates the output directory level by level while     *)
(* another instance may be doing the same.                                 *)
(*                                                                         *)
(* A line of the file is the sequence of the pieces fgets makes of it: one *)
(* piece, or several when the line is longer than the buffer.  Every piece *)
(* is handled as if it were a line.                                        *)
(***************************************************************************)
EXTENDS Settings, Sequences

CONSTANTS
  NotSet,        \* PROCESS_ANALYZER_CONFIG is not set
  Files,         \* the configuration files considered
  Depth          \* the number of levels of the output directory's path

ASSUME DepthAssumption == Depth \in Nat \ {0}
ASSUME FilesAssumption ==
  \A f \in Files :
    /\ f \in Seq({f[i] : i \in DOMAIN f})
    /\ \A i \in DOMAIN f :
         /\ f[i] \in Seq({f[i][j] : j \in DOMAIN f[i]}) /\ f[i] # <<>>
         /\ \A j \in DOMAIN f[i] :
              f[i][j].kind = "option" /\ f[i][j].key = "max_file_size" =>
                f[i][j].value.n \in Nat \cup {Invalid}

VARIABLES
  config_pc,
  file,          \* what PROCESS_ANALYZER_CONFIG leads to
  unread,        \* the pieces of it that are still to come
  configuration,
  level,         \* mkdir_p: the level it creates next
  made,          \* how many levels of the path are directories
  in_the_way,    \* the level whose name belongs to a file, or 0
  refused        \* a system call has failed, other than with EEXIST

configVars == <<config_pc, file, unread, configuration, level, made,
                in_the_way, refused>>

ConfigInit ==
  /\ config_pc = "start"
  /\ file \in Files \cup {NotSet} /\ unread = <<>>
  /\ configuration = Zeroed
  /\ level = 0 /\ refused = FALSE
  /\ made \in 0..Depth
  /\ in_the_way \in {0} \cup (made + 1)..Depth

ConfigGoto(from, to) == config_pc = from /\ config_pc' = to

(* A system call fails for want of rights or space, or of the file.        *)
Refuse(from, to) == ConfigGoto(from, to) /\ refused' = TRUE
-----------------------------------------------------------------------------
(* config_init, with the stat and the fopen of parse_config_file.          *)
LoadDefaults ==
  /\ ConfigGoto("start", "stat")
  /\ file = NotSet
  /\ configuration' = config_default
  /\ UNCHANGED <<file, unread, level, made, in_the_way, refused>>

OpenConfigFile ==
  /\ file # NotSet
  /\ \/ /\ ConfigGoto("start", "read")
        /\ unread' = file /\ UNCHANGED refused
     \/ Refuse("start", "error") /\ UNCHANGED unread
  /\ UNCHANGED <<file, configuration, level, made, in_the_way>>

(* Mutant: the first line of an option counts.                             *)
SetFirst(c, key, v) ==
  [c EXCEPT ![key] = IF c[key] = Zeroed[key] THEN Converted(key, v) ELSE @]

SetOption(c, key, v) == [c EXCEPT ![key] = Converted(key, v)]

(* What fgets has left after one piece of a line.                          *)
AfterPiece(lines) ==
  IF Len(Head(lines)) = 1 THEN Tail(lines)
  ELSE <<Tail(Head(lines))>> \o Tail(lines)

(* One iteration of parse_config_file.                                     *)
ReadPiece ==
  /\ config_pc = "read" /\ unread # <<>>
  /\ unread' = AfterPiece(unread)
  /\ LET piece == Head(Head(unread))
     IN \/ piece.kind \in {"blank", "comment"}
             /\ UNCHANGED <<config_pc, configuration>>
        \/ /\ piece.kind = "option" /\ Converted(piece.key, piece.value) # Invalid
           /\ configuration' = SetOption(configuration, piece.key, piece.value)
           /\ UNCHANGED config_pc
        \/ /\ \/ piece.kind = "no_equals_sign"
              \/ piece.kind = "option" /\ Converted(piece.key, piece.value) = Invalid
           /\ config_pc' = "error" /\ UNCHANGED configuration
  /\ UNCHANGED <<file, level, made, in_the_way, refused>>

EndOfFile ==
  /\ ConfigGoto("read", "stat")
  /\ unread = <<>>
  /\ UNCHANGED <<file, unread, configuration, level, made, in_the_way, refused>>

(* ensure_output_dir up to mkdir_p.  With an empty path mkdir_p fails.     *)
StatOutputDir ==
  /\ \/ /\ configuration["output_dir"] = ""
        /\ ConfigGoto("stat", "error") /\ UNCHANGED refused
     \/ /\ configuration["output_dir"] # ""
        /\ \/ made = Depth /\ ConfigGoto("stat", "access") /\ UNCHANGED refused
           \/ /\ in_the_way = Depth /\ made = Depth - 1
              /\ ConfigGoto("stat", "error") /\ UNCHANGED refused
           \/ /\ made < Depth /\ ~(in_the_way = Depth /\ made = Depth - 1)
              /\ ConfigGoto("stat", "mkdir") /\ UNCHANGED refused
           \/ Refuse("stat", "mkdir")
  /\ level' = 1
  /\ UNCHANGED <<file, unread, configuration, made, in_the_way>>

(* One mkdir of mkdir_p.  The name may exist by now: made by another       *)
(* instance since the stat, or as a file.                                  *)
(* Mutant: EEXIST is an error like any other.                              *)
NothingTolerated(l) == FALSE

Tolerated(l) == l <= made \/ (l = made + 1 /\ l = in_the_way)

MkdirNext == IF level = Depth THEN "access" ELSE "mkdir"

MakeDirectory ==
  /\ config_pc = "mkdir"
  /\ \/ /\ level = made + 1 /\ level # in_the_way
        /\ config_pc' = MkdirNext /\ made' = level /\ UNCHANGED refused
     \/ /\ Tolerated(level)
        /\ config_pc' = MkdirNext /\ UNCHANGED <<made, refused>>
     \/ /\ ~Tolerated(level) /\ (level # made + 1 \/ level = in_the_way)
        /\ config_pc' = "error" /\ UNCHANGED <<made, refused>>
     \/ Refuse("mkdir", "error") /\ UNCHANGED made
  /\ level' = level + 1
  /\ UNCHANGED <<file, unread, configuration, in_the_way>>

(* check_file_access creates a file in the directory and removes it.       *)
CheckAccess ==
  /\ \/ made = Depth /\ ConfigGoto("access", "validate") /\ UNCHANGED refused
     \/ made < Depth /\ ConfigGoto("access", "error") /\ UNCHANGED refused
     \/ Refuse("access", "error")
  /\ UNCHANGED <<file, unread, configuration, level, made, in_the_way>>

(* The rest of validate_config.                                            *)
Usable(c) ==
  /\ c["max_file_size"] >= CONFIG_MIN_FILE_SIZE_BYTES
  /\ c["max_number_of_files"] >= CONFIG_MIN_NO_OF_FILES
  /\ c["max_number_of_files"] < CONFIG_MAX_NO_OF_FILES
  /\ \E k \in RawKey : c[k]

Validate ==
  /\ config_pc = "validate"
  /\ config_pc' = IF Usable(configuration) THEN "success" ELSE "error"
  /\ UNCHANGED <<file, unread, configuration, level, made, in_the_way, refused>>

(* Another instance with the same output directory creates a level of it.  *)
OtherInstance ==
  /\ config_pc \notin {"success", "error"}
  /\ made < Depth /\ made + 1 # in_the_way
  /\ made' = made + 1
  /\ UNCHANGED <<config_pc, file, unread, configuration, level, in_the_way,
                 refused>>

ConfigNext ==
  \/ LoadDefaults \/ OpenConfigFile \/ ReadPiece \/ EndOfFile
  \/ StatOutputDir \/ MakeDirectory \/ CheckAccess \/ Validate \/ OtherInstance
-----------------------------------------------------------------------------
(* The lines about an option.                                              *)
Mentions(key) ==
  {i \in DOMAIN file : file[i][1].kind = "option" /\ file[i][1].key = key}

(* What the last one of them says, in exact arithmetic.                    *)
Meant(key) ==
  LET last == CHOOSE i \in Mentions(key) : \A j \in Mentions(key) : j <= i
      v == file[last][1].value
  IN IF key = "max_file_size" THEN Product(v) ELSE Converted(key, v)

SizeWraps ==
  \E i \in Mentions("max_file_size") :
    Product(file[i][1].value) >= SizeWord \div 2

(* A configuration was read from a file and accepted, and no line of the   *)
(* file is longer than the buffer of fgets (the rest of a long comment is  *)
(* taken for a line of its own).                                           *)
FileAccepted ==
  /\ config_pc = "success" /\ file # NotSet
  /\ \A i \in DOMAIN file : Len(file[i]) = 1

(* Every option that the file sets has the value of the last line that     *)
(* sets it, whatever stands before and behind that line, as long as no     *)
(* size overflows its 64 bits.                                             *)
SettingsFollowFile ==
  FileAccepted /\ ~SizeWraps =>
    \A key \in Key : Mentions(key) # {} => configuration[key] = Meant(key)

(* An option that the file does not set has the default that the README    *)
(* lists for it.  It has not: configuration_t starts from all zeros, and   *)
(* config_init takes config_default only when there is no file.            *)
DefaultsApply ==
  FileAccepted =>
    \A key \in Key : Mentions(key) = {} => configuration[key] = config_default[key]

(* The output directory of an accepted configuration is there, and no      *)
(* instance is turned away because another one creates the directory at    *)
(* the same time: without a refused call or a file in the way only the     *)
(* options themselves can be the reason.                                   *)
DirectoryReady ==
  /\ config_pc = "success" => made = Depth
  /\ config_pc = "error" /\ level > 0 /\ ~refused /\ in_the_way = 0 =>
       configuration["output_dir"] = "" \/ ~Usable(configuration)
=============================================================================
