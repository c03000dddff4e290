------------------------------ MODULE Analyzer ------------------------------
(***************************************************************************)
(* One execution of main in code/process_analyzer.c: the start-up calls    *)
(* with their early returns, the loop that reads the timer and takes the   *)
(* snapshots, SIGINT and SIGTERM arriving at any moment, and the order of  *)
(* the calls on the way out.                                               *)
(*                                                                         *)
(* The timer is the kernel's: while nobody reads it, its count of expired  *)
(* periods grows; a read takes the whole count, and blocks while it is 0.  *)
(***************************************************************************)
EXTENDS Naturals

CONSTANTS
  Count,        \* gArguments.count
  MaxPending    \* bound on the periods that expire between two reads

ASSUME CountAssumption == Count \in Nat \ {0}
ASSUME PendingAssumption == MaxPending \in Nat \ {0}

VARIABLES
  pc,                \* the call main executes next, or how it ended
  g_stop_requested,
  handlers,          \* register_signal_handler has been called
  armed,             \* the timer is running
  pending,           \* the timer's expiration count
  expirations,       \* main's local variable: snapshots left in this batch
  noOfIterations,
  read_failed,       \* a read of the timer has failed, not with EINTR
  ticks, snapshots,  \* periods expired, snapshots taken
  late_reads,        \* timer reads that succeeded after the stop request
  overrun            \* a read found that periods had been missed

analyzerVars == <<pc, g_stop_requested, handlers, armed, pending, expirations,
                  noOfIterations, read_failed, ticks, snapshots, late_reads,
                  overrun>>

loopVars == <<armed, pending, expirations, noOfIterations, read_failed, ticks,
              snapshots, late_reads, overrun>>

Ended == {"exit_0", "exit_1", "killed"}

AnalyzerInit ==
  /\ pc = "config_init"
  /\ g_stop_requested = FALSE /\ handlers = FALSE
  /\ armed = FALSE /\ pending = 0
  /\ expirations = 0 /\ noOfIterations = 0 /\ read_failed = FALSE
  /\ ticks = 0 /\ snapshots = 0 /\ late_reads = 0
  /\ overrun = FALSE
-----------------------------------------------------------------------------
Goto(from, to) == pc = from /\ pc' = to

(* config_init, ap_parse_args, process_snapshot_delete_old_files (which is *)
(* skipped without -j) and process_snapshot_initialize: each either goes   *)
(* on or frees the arguments and returns -1.                               *)
StartUp ==
  /\ \/ Goto("config_init", "parse_args")
     \/ Goto("parse_args", "delete_old_files")
     \/ Goto("delete_old_files", "snapshot_init")
     \/ Goto("snapshot_init", "worker_init")
     \/ /\ pc \in {"config_init", "parse_args", "delete_old_files",
                   "snapshot_init"}
        /\ pc' = "exit_1"
  /\ UNCHANGED <<g_stop_requested, handlers, loopVars>>

CallWorkerInit ==
  /\ Goto("worker_init", "timer")
  /\ UNCHANGED <<g_stop_requested, handlers, loopVars>>

(* Mutant: an interval of 0 ms, which timerfd_settime takes for "disarm".  *)
DisarmedTimer == FALSE

ArmedTimer == TRUE

(* getTimeFd.                                                              *)
StartTimer ==
  /\ \/ Goto("timer", "register") /\ armed' = ArmedTimer
     \/ Goto("timer", "failed_deinit") /\ UNCHANGED armed
  /\ UNCHANGED <<g_stop_requested, handlers, pending, expirations,
                 noOfIterations, read_failed, ticks, snapshots, late_reads,
                 overrun>>

(* Without a timer: process_snapshot_deinit, compression_worker_shutdown,  *)
(* ap_free_arguments and return -1.                                        *)
GiveUp ==
  /\ \/ Goto("failed_deinit", "failed_shutdown")
     \/ Goto("failed_shutdown", "exit_1")
  /\ UNCHANGED <<g_stop_requested, handlers, loopVars>>

RegisterHandlers ==
  /\ Goto("register", "loop")
  /\ handlers' = TRUE
  /\ UNCHANGED <<g_stop_requested, loopVars>>

(* The condition of both loops.                                            *)
(* Mutant: it is compared with the wrong operator.                         *)
OneTooMany == noOfIterations <= Count

CountLeft == noOfIterations < Count

(* The head of the outer loop and its test of g_stop_requested.            *)
(* Mutants: the flag is looked at only when a read is interrupted; the     *)
(* loop is left one iteration too early.                                   *)
LeaveLoopOnCount == ~CountLeft
LeaveLoopEarly == noOfIterations + 1 >= Count \/ g_stop_requested

LeaveLoop == ~CountLeft \/ g_stop_requested

LoopHead ==
  /\ pc = "loop"
  /\ pc' = IF LeaveLoop THEN "close" ELSE "read"
  /\ UNCHANGED <<g_stop_requested, handlers, loopVars>>

(* The blocking read takes the expiration count.                           *)
ReadTimer ==
  /\ Goto("read", "batch")
  /\ pending > 0
  /\ expirations' = pending /\ pending' = 0
  /\ late_reads' = late_reads + (IF g_stop_requested THEN 1 ELSE 0)
  /\ overrun' = (overrun \/ pending > 1)
  /\ UNCHANGED <<g_stop_requested, handlers, armed, noOfIterations,
                 read_failed, ticks, snapshots>>

(* It fails for another reason than a signal (EINTR is the handler's       *)
(* doing, see Interrupt).  A blocked read need not fail: no fairness here. *)
ReadFails ==
  /\ Goto("read", "close")
  /\ read_failed' = TRUE
  /\ UNCHANGED <<g_stop_requested, handlers, armed, pending, expirations,
                 noOfIterations, ticks, snapshots, late_reads,
                 overrun>>

(* Mutant: one snapshot per read, the periods that were missed are lost.   *)
OneSnapshotPerRead == expirations > 0 /\ snapshots <= noOfIterations

(* One run_snapshot_once of the inner loop.  Its second condition compares *)
(* noOfIterations, which the inner loop does not change.                   *)
InnerLoop == expirations > 0 /\ CountLeft

Snapshot ==
  /\ pc = "batch" /\ InnerLoop
  /\ expirations' = expirations - 1
  /\ snapshots' = snapshots + 1
  /\ UNCHANGED <<pc, g_stop_requested, handlers, armed, pending,
                 noOfIterations, read_failed, ticks, late_reads,
                 overrun>>

EndBatch ==
  /\ pc = "batch" /\ ~InnerLoop
  /\ pc' = "loop"
  /\ noOfIterations' = noOfIterations + 1
  /\ expirations' = 0
  /\ UNCHANGED <<g_stop_requested, handlers, armed, pending, read_failed,
                 ticks, snapshots, late_reads,
                 overrun>>

(* close(tfd), process_snapshot_deinit, compression_worker_shutdown,       *)
(* process_stats_print_metrics, ap_free_arguments.                         *)
WindDown ==
  /\ \/ Goto("close", "deinit") /\ armed' = FALSE
     \/ Goto("deinit", "shutdown") /\ UNCHANGED armed
     \/ Goto("shutdown", "metrics") /\ UNCHANGED armed
     \/ Goto("metrics", "free") /\ UNCHANGED armed
     \/ Goto("free", "exit_0") /\ UNCHANGED armed
  /\ UNCHANGED <<g_stop_requested, handlers, pending, expirations,
                 noOfIterations, read_failed, ticks, snapshots, late_reads,
                 overrun>>
-----------------------------------------------------------------------------
(* A period of the timer expires.                                          *)
Tick ==
  /\ armed /\ pc \notin Ended
  /\ pending < MaxPending
  /\ pending' = pending + 1 /\ ticks' = ticks + 1
  /\ UNCHANGED <<pc, g_stop_requested, handlers, armed, expirations,
                 noOfIterations, read_failed, snapshots, late_reads,
                 overrun>>

(* SIGINT or SIGTERM.  Before the handlers are installed it kills the      *)
(* process.  Afterwards it sets the flag and, when main is blocked in read *)
(* and is the thread that runs the handler, makes the read fail with       *)
(* EINTR.  It does not when it arrives between the test of the flag and    *)
(* the read, or when the kernel runs the handler in the worker thread.     *)
Interrupt ==
  /\ pc \notin Ended
  /\ IF ~handlers
       THEN pc' = "killed" /\ UNCHANGED g_stop_requested
       ELSE /\ g_stop_requested' = TRUE
            /\ \/ pc = "read" /\ pending = 0 /\ pc' = "close"
               \/ UNCHANGED pc
  /\ UNCHANGED <<handlers, loopVars>>

Over == pc \in Ended /\ UNCHANGED analyzerVars

AnalyzerNext ==
  \/ StartUp \/ CallWorkerInit \/ StartTimer \/ GiveUp \/ RegisterHandlers
  \/ LoopHead \/ ReadTimer \/ ReadFails \/ Snapshot \/ EndBatch \/ WindDown
  \/ Tick \/ Interrupt \/ Over

AnalyzerSpec == AnalyzerInit /\ [][AnalyzerNext]_analyzerVars
-----------------------------------------------------------------------------
AnalyzerTypeOK ==
  /\ pc \in {"config_init", "parse_args", "delete_old_files",
             "snapshot_init", "worker_init", "timer", "failed_deinit",
             "failed_shutdown", "register", "loop", "read", "batch", "close",
             "deinit", "shutdown", "metrics", "free"} \cup Ended
  /\ g_stop_requested \in BOOLEAN /\ handlers \in BOOLEAN /\ armed \in BOOLEAN
  /\ pending \in 0..MaxPending /\ expirations \in 0..MaxPending
  /\ noOfIterations \in 0..Count /\ read_failed \in BOOLEAN
  /\ snapshots \in Nat /\ ticks \in Nat /\ late_reads \in Nat
  /\ overrun \in BOOLEAN

(* Catching up: as long as the loop runs, every period of the timer that   *)
(* has expired got its snapshot, gets it in the present batch, or is still *)
(* in the timer's count.  None is dropped however late main is.            *)
EveryPeriodSampled ==
  pc \in {"loop", "read", "batch"} => ticks = snapshots + expirations + pending

(* An execution that nobody interrupts and whose timer can be read takes   *)
(* at least Count snapshots before it ends.                                *)
CountReached ==
  pc = "exit_0" /\ ~g_stop_requested /\ ~read_failed => snapshots >= Count

(* -n is the number of snapshots: there are never more than Count as long  *)
(* as main keeps up with the timer.  When a read finds that periods were   *)
(* missed, the batch that catches up with them counts as one iteration,    *)
(* and there may be more.                                                  *)
CountRespected == ~overrun => snapshots <= Count

(* After CTRL+C or SIGTERM at most one more batch of snapshots is taken,   *)
(* also when the signal came between the test of the flag and the read or  *)
(* was handled by the worker thread, so that the read was not interrupted. *)
StopWithinOneRead == late_reads <= 1

(* Every execution comes to an end, as the timer keeps expiring, also when *)
(* nobody interrupts it and no read fails.                                 *)
Terminates == <>(pc \in Ended)
-----------------------------------------------------------------------------
(* The inductive invariant behind the safety properties.                   *)
BeforeLoop == {"config_init", "parse_args", "delete_old_files",
               "snapshot_init", "worker_init", "timer", "failed_deinit",
               "failed_shutdown", "register"}
InLoop == {"loop", "read", "batch"}

(* Nothing is counted and no signal is caught before the loop; a read is   *)
(* only begun while iterations are left.                                   *)
LoopInv ==
  /\ pc \in BeforeLoop => /\ ~g_stop_requested /\ ~handlers
                          /\ expirations = 0 /\ noOfIterations = 0
                          /\ snapshots = 0 /\ late_reads = 0
                          /\ ~overrun /\ ~read_failed
  /\ pc \in {"read", "batch"} => noOfIterations < Count
  /\ pc \in InLoop => handlers /\ ~read_failed
  /\ pc # "batch" => expirations = 0

(* The snapshots of a batch make at least one, and without an overrun      *)
(* exactly one, per iteration.                                             *)
BatchInv ==
  LET due == IF pc = "batch" THEN noOfIterations + 1 ELSE noOfIterations
  IN /\ snapshots + expirations >= due
     /\ ~overrun => snapshots + expirations = due

PeriodInv ==
  pc \in BeforeLoop \cup InLoop => ticks = snapshots + expirations + pending

EndInv ==
  pc \in {"close", "deinit", "shutdown", "metrics", "free", "exit_0"} =>
    g_stop_requested \/ read_failed \/ noOfIterations = Count

StopInv ==
  /\ late_reads <= 1
  /\ late_reads > 0 => g_stop_requested
  /\ pc = "read" => late_reads = 0

AInv ==
  /\ AnalyzerTypeOK /\ LoopInv /\ BatchInv /\ PeriodInv /\ EndInv /\ StopInv
=============================================================================
