-------------------------------- MODULE Main --------------------------------
(***************************************************************************)
(* main of code/process_analyzer.c together with the compression worker:   *)
(* Analyzer, whose calls into code/compression/compression_worker.c are no *)
(* longer single steps but the actions of CompressionWorker, with the      *)
(* worker thread running alongside.  Compression is enabled; without it    *)
(* all four functions of the worker return at once.                        *)
(*                                                                         *)
(* pc is the position in main, the variable main the position in the       *)
(* worker's functions.  A rotation inside a snapshot enqueues jobs, at pc  *)
(* "batch".  Both threads end with the process: nothing happens once pc is *)
(* in Ended.                                                               *)
(***************************************************************************)
EXTENDS Analyzer, CompressionWorker

allVars == <<analyzerVars, vars>>

MInit == AnalyzerInit /\ Init
-----------------------------------------------------------------------------
(* The calls of main into the worker's module.                             *)
StartWorker == CallWorkerInit /\ WorkerInit

Enqueue ==
  /\ pc = "batch"
  /\ EnqueueAlloc \/ EnqueueLock \/ EnqueueLink \/ EnqueueUnlock
  /\ UNCHANGED analyzerVars

Shutdown ==
  /\ pc \in {"shutdown", "failed_shutdown"}
  /\ \/ ShutdownLock \/ ShutdownStop \/ ShutdownUnlock
     \/ ShutdownJoin \/ ShutdownCleanup
  /\ pc' = IF main' = "crashed" THEN "killed" ELSE pc
  /\ UNCHANGED <<g_stop_requested, handlers, loopVars>>

(* A step of main outside of them: a snapshot is not over while it         *)
(* enqueues a job, and main waits for the shutdown to return.              *)
(* Mutant: main goes on without waiting for the shutdown.                  *)
LeaveRunning == main \in {"start", "run", "done"}

BetweenCalls ==
  IF pc \in {"shutdown", "failed_shutdown"} THEN main = "done"
                                          ELSE main \in {"start", "run", "done"}

OwnStep ==
  /\ BetweenCalls
  /\ \/ StartUp \/ StartTimer \/ GiveUp \/ RegisterHandlers
     \/ LoopHead \/ ReadTimer \/ Snapshot \/ EndBatch \/ WindDown
  /\ UNCHANGED vars

WorkerThread ==
  /\ pc \notin Ended
  /\ WorkerStep
  /\ UNCHANGED analyzerVars

Environment ==
  \/ (ReadFails \/ Tick \/ Interrupt \/ Over) /\ UNCHANGED vars
  \/ pc \notin Ended /\ SpuriousWakeup /\ UNCHANGED analyzerVars

MNext ==
  \/ StartWorker \/ Enqueue \/ Shutdown \/ OwnStep
  \/ WorkerThread \/ Environment

MSpec == MInit /\ [][MNext]_allVars

(* Both threads are scheduled, the timer keeps expiring, and a thread that *)
(* keeps asking for job_mutex is not passed over forever (the other one    *)
(* may take and release it again and again).                               *)
MFairSpec ==
  /\ MSpec
  /\ WF_allVars(StartWorker \/ Enqueue \/ Shutdown \/ OwnStep)
  /\ WF_allVars(WorkerThread) /\ WF_allVars(Tick /\ UNCHANGED vars)
  /\ SF_allVars(Enqueue /\ EnqueueLock) /\ SF_allVars(Shutdown /\ ShutdownLock)
  /\ SF_allVars(WorkerThread /\ WorkerLock)
-----------------------------------------------------------------------------
(* main never returns with the worker at work: whichever way it leaves     *)
(* (the count reached, a signal, a failing timer, the timer that could not *)
(* be created), every rotated file that was handed over has been           *)
(* compressed, if there is a thread to do it, and its job freed.           *)
ExitsDrained ==
  pc \in {"exit_0", "exit_1"} =>
    /\ main \in {"start", "done"}
    /\ freed = 1..allocated
    /\ worker # "absent" => compressed = allocated
=============================================================================
