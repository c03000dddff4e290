------------------------------ MODULE Startup -------------------------------
(* main of code/process_analyzer.c as far as the configuration and the     *)
(* arguments are concerned: config_init, then ap_parse_args, and           *)
(* ap_free_arguments on every way out.                                     *)
EXTENDS Config, ArgsParser

startupVars == <<configVars, argsVars>>

StartupInit == ConfigInit /\ ArgsInit

InitConfig == ConfigNext /\ UNCHANGED argsVars

(* The text of the file is gone with the locals of parse_config_file.      *)
CallParser ==
  /\ config_pc = "success"
  /\ ParseBegin
  /\ file' = NotSet
  /\ UNCHANGED <<config_pc, unread, configuration, level, made, in_the_way,
                 refused>>

ParseOptions ==
  /\ Option \/ ParseEnd(configuration)
  /\ UNCHANGED configVars

Return ==
  /\ IF args_pc = "idle" THEN config_pc = "error" ELSE TRUE
  /\ MainFrees
  /\ UNCHANGED configVars

Returned == args_pc = "freed" /\ UNCHANGED startupVars

StartupNext == InitConfig \/ CallParser \/ ParseOptions \/ Return \/ Returned

StartupSpec == StartupInit /\ [][StartupNext]_startupVars
=============================================================================
