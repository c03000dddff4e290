---------------------------- MODULE Main_proofs -----------------------------
(***************************************************************************)
(* Proofs about CompressionWorker and about Main, for every count, every   *)
(* number of jobs and every bound on the periods missed.  IInv is an       *)
(* inductive invariant of the job queue and implies its safety properties, *)
(* and with a worker thread that was created the queue implements          *)
(* CompressionQueue.  In the program AInv, the invariant of main's loop,   *)
(* and IInv hold side by side; CallInv connects the two by saying how far  *)
(* the calls of main into the worker have got.                             *)
(***************************************************************************)
EXTENDS Main, TLAPS

(* The program starts with an empty list and no worker.                    *)
LEMMA InitIInv == Init => IInv
<1> SUFFICES ASSUME Init PROVE IInv
  BY Zenon
<1> USE MaxJobsAssumption DEF NULL, Node
<1>1. TypeOK
  <2>1. worker_running \in BOOLEAN
    BY Zenon DEF Init
  <2>2. next \in [Node -> 0..MaxJobs]
    BY DEF Init
  <2> QED
    BY <2>1, <2>2 DEF Init, TypeOK, MainPos, WorkerPos
<1>2. MutexInv /\ PhaseInv /\ OwnJobInv /\ OrderInv /\ NoLostWakeup
  BY Zenon DEF Init, MutexInv, PhaseInv, OwnJobInv, OrderInv, NoLostWakeup, Linked
<1>3. ListInv
  <2>1. freed = {n \in Node : /\ n <= Linked /\ n # wjob
                              /\ job_head = NULL \/ n < job_head}
    BY DEF Init, Linked
  <2> QED
    BY <2>1, Zenon DEF Init, ListInv, Linked
<1> QED
  BY <1>1, <1>2, <1>3, Zenon DEF IInv

(* A step of main that leaves the list, the worker's job and the count of  *)
(* linked jobs alone keeps what IInv says of the list.                     *)
LEMMA SameList ==
  ASSUME ListInv, UNCHANGED <<listVars, wjob>>, Linked' = Linked,
         main' = "cleanup" \/ main # "cleanup" \/ job_tail = NULL
  PROVE  ListInv'
BY Zenon DEF ListInv, listVars

(* Every step keeps IInv.                                                  *)
LEMMA StepIInv == IInv /\ [Next]_vars => IInv'
<1> SUFFICES ASSUME IInv, [Next]_vars
             PROVE  IInv'
  BY Zenon
<1> USE MaxJobsAssumption DEF NULL, Node
<1>inv. /\ TypeOK /\ MutexInv /\ PhaseInv /\ OwnJobInv /\ ListInv
        /\ OrderInv /\ NoLostWakeup
  BY Zenon DEF IInv
<1> USE DEF TypeOK, MutexInv, PhaseInv, OwnJobInv, OrderInv, NoLostWakeup,
            Linked, MainPos, WorkerPos, listVars
<1>1. CASE WorkerInit
  BY <1>1, <1>inv DEF WorkerInit, IInv, ListInv
<1>2. CASE EnqueueAlloc
  BY <1>2, <1>inv DEF EnqueueAlloc, FreshNext, IInv, ListInv
<1>3. CASE EnqueueLock
  BY <1>3, <1>inv, Zenon DEF EnqueueLock, Lock, IInv, ListInv
<1>4. CASE EnqueueLink
  <2> USE <1>4, <1>inv DEF EnqueueLink, Link, Signal
  <2>1. TypeOK' /\ MutexInv' /\ PhaseInv' /\ NoLostWakeup'
    BY Zenon DEF ListInv
  <2>2. OwnJobInv'
    BY Zenon DEF ListInv
  <2>3. Linked' = job /\ Linked = job - 1 /\ job \in Node
    OBVIOUS
  <2>4. freed' = {n \in Node : /\ n <= Linked' /\ n # wjob'
                               /\ job_head' = NULL \/ n < job_head'}
    BY <2>3 DEF ListInv
  <2>5. ListInv'
    <3>1. job_head' # NULL /\ job_head' <= Linked' /\ job_tail' = Linked'
      BY <2>3 DEF ListInv
    <3>2. next'[Linked'] = NULL
      BY <2>3 DEF ListInv
    <3>3. ASSUME NEW n \in Node, n >= job_head', n < Linked'
          PROVE  next'[n] = n + 1
      <4>1. CASE n = job_tail
        <5>1. job_head # NULL /\ job_tail = Linked
          BY <4>1 DEF ListInv
        <5> QED
          BY <2>3, <4>1, <5>1
      <4>2. CASE n # job_tail
        <5>1. job_tail # NULL /\ job_head # NULL /\ job_head' = job_head
          BY <2>3, <3>3, <4>2 DEF ListInv
        <5>2. n < Linked /\ next'[n] = next[n]
          BY <2>3, <3>3, <4>2, <5>1 DEF ListInv
        <5> QED
          BY <3>3, <5>1, <5>2, Zenon DEF ListInv
      <4> QED
        BY <4>1, <4>2, Zenon
    <3> QED
      BY <2>4, <3>1, <3>2, <3>3, Zenon DEF ListInv
  <2>6. OrderInv'
    BY DEF ListInv
  <2> QED
    BY <2>1, <2>2, <2>5, <2>6, ZenonT(60) DEF IInv
<1>5. CASE EnqueueUnlock
  BY <1>5, <1>inv DEF EnqueueUnlock, Unlock, IInv, ListInv
<1>6. CASE ShutdownLock
  BY <1>6, <1>inv, Zenon DEF ShutdownLock, Lock, IInv, ListInv
<1>7. CASE ShutdownStop
  BY <1>7, <1>inv, ZenonT(60) DEF ShutdownStop, ClearRunning, Signal, IInv,
                                  ListInv
<1>8. CASE ShutdownUnlock
  BY <1>8, <1>inv, ZenonT(60) DEF ShutdownUnlock, Unlock, IInv, ListInv
<1>9. CASE ShutdownJoin
  BY <1>9, <1>inv, ZenonT(60) DEF ShutdownJoin, IInv, ListInv
<1>10. CASE ShutdownCleanup
  <2> USE <1>10, <1>inv DEF ShutdownCleanup
  <2>1. TypeOK' /\ MutexInv' /\ PhaseInv' /\ NoLostWakeup' /\ OwnJobInv'
    BY DEF ListInv
  <2>2. OrderInv'
    BY Zenon DEF ListInv
  <2>3. CASE job_head = NULL
    BY <2>1, <2>2, <2>3, SMTT(60) DEF ListInv, IInv
  <2>4. CASE job_head # NULL
    <3>1. job_head' = IF job_head = Linked THEN NULL ELSE job_head + 1
      BY <2>4 DEF ListInv
    <3>2. freed' = {n \in Node : /\ n <= Linked' /\ n # wjob'
                                 /\ job_head' = NULL \/ n < job_head'}
      BY <2>4, <3>1, SMTT(60) DEF ListInv
    <3>3. ListInv'
      BY <2>4, <3>1, <3>2 DEF ListInv
    <3> QED
      BY <2>1, <2>2, <3>3, Zenon DEF IInv
  <2> QED
    BY <2>3, <2>4, Zenon
<1>11. CASE WorkerLock
  BY <1>11, <1>inv, ZenonT(60) DEF WorkerLock, Lock, IInv, ListInv
<1>12. CASE WorkerWait
  BY <1>12, <1>inv, ZenonT(60) DEF WorkerWait, Unlock, IInv, ListInv
<1>13. CASE WorkerExit
  BY <1>13, <1>inv, ZenonT(60) DEF WorkerExit, MayExit, Unlock, IInv, ListInv
<1>14. CASE WorkerPop
  <2> USE <1>14, <1>inv DEF WorkerPop, Pop
  <2>1. job_head' = IF job_head = Linked THEN NULL ELSE job_head + 1
    BY DEF ListInv
  <2>2. TypeOK' /\ MutexInv' /\ PhaseInv' /\ NoLostWakeup' /\ OwnJobInv'
    BY <2>1 DEF ListInv
  <2>3. OrderInv'
    BY <2>1 DEF ListInv
  <2>4. freed' = {n \in Node : /\ n <= Linked' /\ n # wjob'
                               /\ job_head' = NULL \/ n < job_head'}
    <3>1. job_head \in Node /\ job_head <= Linked /\ wjob = NULL
      BY DEF ListInv
    <3>2. ASSUME NEW n \in Node
          PROVE  n \in freed <=> n <= Linked /\ n < job_head
      BY <3>1 DEF ListInv
    <3>3. ASSUME NEW n \in Node
          PROVE  n \in freed' <=>
                   n <= Linked' /\ n # wjob' /\ (job_head' = NULL \/ n < job_head')
      <4>1. freed' = freed /\ wjob' = job_head /\ Linked' = Linked
        BY Zenon
      <4>2. Linked \in Nat
        OBVIOUS
      <4> HIDE DEF Linked, WorkerPop, Pop
      <4> QED
        BY <2>1, <3>1, <3>2, <4>1, <4>2
    <3> QED
      BY <2>2, <3>3, Zenon
  <2>5. ListInv'
    BY <2>1, <2>4, SMTT(60) DEF ListInv
  <2> QED
    BY <2>2, <2>3, <2>5, Zenon DEF IInv
<1>15. CASE WorkerUnlock
  BY <1>15, <1>inv, ZenonT(60) DEF WorkerUnlock, Unlock, IInv, ListInv
<1>16. CASE WorkerCompress
  <2> USE <1>16, <1>inv DEF WorkerCompress, FreeJob
  <2>1. TypeOK' /\ MutexInv' /\ PhaseInv' /\ NoLostWakeup' /\ OwnJobInv'
    BY DEF ListInv
  <2>2. OrderInv'
    BY Zenon DEF ListInv
  <2>3. freed' = {n \in Node : /\ n <= Linked' /\ n # wjob'
                               /\ job_head' = NULL \/ n < job_head'}
    BY DEF ListInv
  <2>4. ListInv'
    BY <2>3, ZenonT(60) DEF ListInv
  <2> QED
    BY <2>1, <2>2, <2>4, ZenonT(60) DEF IInv
<1>17. CASE SpuriousWakeup
  BY <1>17, <1>inv, ZenonT(60) DEF SpuriousWakeup, IInv, ListInv
<1>18. CASE Terminated \/ UNCHANGED vars
  <2>1. UNCHANGED vars
    BY <1>18, Zenon DEF Terminated
  <2>2. UNCHANGED <<listVars, wjob, main>> /\ Linked' = Linked
    BY <2>1, Zenon DEF vars
  <2>3. ListInv'
    BY <2>2, <1>inv, SameList, Zenon
  <2> QED
    BY <2>1, <2>3, <1>inv DEF vars, IInv
<1> QED
  BY <1>1, <1>2, <1>3, <1>4, <1>5, <1>6, <1>7, <1>8, <1>9, <1>10, <1>11,
     <1>12, <1>13, <1>14, <1>15, <1>16, <1>17, <1>18, Zenon
     DEF Next, MainStep, WorkerStep

(* IInv is an invariant of the queue.                                      *)
THEOREM Inductive == Spec => []IInv
BY InitIInv, StepIInv, PTL DEF Spec

(* Every variable keeps its type, whatever the number of jobs.             *)
THEOREM TypeCorrect == Spec => []TypeOK
<1>1. IInv => TypeOK
  BY Zenon DEF IInv
<1> QED
  BY <1>1, Inductive, PTL

(* Neither compression_enqueue_file, nor compression_thread_func, nor      *)
(* compression_worker_shutdown follows a pointer to a freed job.           *)
THEOREM MemorySafe == Spec => []NoUseAfterFree
<1>1. IInv => NoUseAfterFree
  <2> SUFFICES ASSUME IInv PROVE NoUseAfterFree
    BY Zenon
  <2> USE MaxJobsAssumption DEF NULL, Node
  <2>1. job_head \notin freed /\ wjob \notin freed
    BY DEF IInv, TypeOK, ListInv
  <2>2. job \notin freed
    BY DEF IInv, TypeOK, OwnJobInv, ListInv, OrderInv, Linked
  <2>3. main # "cleanup" => job_tail \notin freed
    BY DEF IInv, TypeOK, ListInv
  <2> QED
    BY <2>1, <2>2, <2>3, Zenon DEF NoUseAfterFree
<1> QED
  BY <1>1, Inductive, PTL

(* The worker never sleeps through a job or through the shutdown.          *)
THEOREM WakeupsNotLost == Spec => []NoLostWakeup
<1>1. IInv => NoLostWakeup
  BY Zenon DEF IInv
<1> QED
  BY <1>1, Inductive, PTL

(* With a thread to join, compression_worker_shutdown comes back from the  *)
(* join only when every job it was given has been compressed.              *)
LEMMA DrainedWhenJoined == IInv => DrainedAtJoin
BY Zenon DEF IInv, PhaseInv, OrderInv, DrainedAtJoin, Linked, NULL

(* This holds at every moment.                                             *)
THEOREM ShutdownDrains == Spec => []DrainedAtJoin
BY DrainedWhenJoined, Inductive, PTL

(* Once compression_worker_shutdown has returned, every job that was ever  *)
(* allocated has been freed, by the worker or by the loop that cleans up.  *)
LEMMA FreedWhenDone == IInv => NoLeak
<1> SUFFICES ASSUME IInv, main = "done" PROVE freed = 1..allocated
  BY Zenon DEF NoLeak
<1>1. job_head = NULL /\ wjob = NULL /\ Linked = allocated
  BY Zenon DEF IInv, PhaseInv, OrderInv, Linked
<1>2. allocated \in 0..MaxJobs
  BY Zenon DEF IInv, TypeOK
<1>3. freed = {n \in Node : n <= allocated /\ n # NULL}
  BY <1>1, Zenon DEF IInv, ListInv
<1> QED
  BY <1>2, <1>3, MaxJobsAssumption DEF Node, NULL

(* No job is ever leaked: this holds at every moment.                      *)
THEOREM AllFreed == Spec => []NoLeak
BY FreedWhenDone, Inductive, PTL

(* The list, the mutex and the condition variable implement the queue that *)
(* compresses each job once, in order, and that stops when it is empty.    *)
THEOREM RefinesQueue == Spec => ImplementsQueue
<1> USE MaxJobsAssumption DEF NULL, Node
<1>1. Init => Queue!AInit
  BY Zenon DEF Init, Queue!AInit, Linked
<1>2. IInv /\ [Next]_vars => [Queue!ANext]_(Queue!absVars)
  <2> SUFFICES ASSUME IInv, [Next]_vars
               PROVE  Queue!ANext \/ UNCHANGED Queue!absVars
    BY Zenon
  <2> USE DEF Linked, listVars, Queue!absVars
  <2>inv. TypeOK /\ MutexInv /\ PhaseInv /\ OwnJobInv /\ ListInv /\ OrderInv
    BY Zenon DEF IInv
  <2>1. CASE EnqueueLink
    BY <2>1, <2>inv DEF EnqueueLink, TypeOK, PhaseInv, OwnJobInv,
                        Queue!ANext, Queue!Submit
  <2>2. CASE WorkerPop
    BY <2>2, <2>inv DEF WorkerPop, Pop, TypeOK, PhaseInv, OrderInv, ListInv,
                        Queue!ANext, Queue!Take
  <2>3. CASE WorkerCompress
    BY <2>3, <2>inv, Zenon DEF WorkerCompress, TypeOK, OrderInv,
                        Queue!ANext, Queue!Finish
  <2>4. CASE ShutdownStop
    BY <2>4, <2>inv, Zenon DEF ShutdownStop, ClearRunning, TypeOK, PhaseInv,
                        Queue!ANext, Queue!Close
  <2>5. CASE ShutdownJoin
    BY <2>5, <2>inv, Zenon DEF ShutdownJoin, TypeOK, PhaseInv, OrderInv,
                        Queue!ANext, Queue!Stop
  <2>6. CASE WorkerInit
    BY <2>6, <2>inv, Zenon DEF WorkerInit, TypeOK, PhaseInv
  <2>7. CASE EnqueueAlloc \/ EnqueueLock \/ EnqueueUnlock
    <3>1. main # "start" /\ main' # "start" /\ worker_running' = worker_running
      BY <2>7, Zenon DEF EnqueueAlloc, EnqueueLock, EnqueueUnlock
    <3>2. Linked' = Linked
      BY <2>7, <2>inv, SMTT(60) DEF EnqueueAlloc, EnqueueLock, EnqueueUnlock, TypeOK
    <3>3. main \notin {"cleanup", "done"} /\ main' \notin {"cleanup", "done"}
      BY <2>7, Zenon DEF EnqueueAlloc, EnqueueLock, EnqueueUnlock
    <3>4. UNCHANGED <<wjob, compressed>>
      BY <2>7, Zenon DEF EnqueueAlloc, EnqueueLock, EnqueueUnlock
    <3> HIDE DEF Linked
    <3> QED
      BY <3>1, <3>2, <3>3, <3>4, Zenon
  <2>8. CASE ShutdownLock \/ ShutdownUnlock
    BY <2>8, <2>inv, SMTT(60) DEF ShutdownLock, ShutdownUnlock, TypeOK, PhaseInv
  <2>11. CASE ShutdownCleanup
    BY <2>11, <2>inv, Zenon DEF ShutdownCleanup, TypeOK, PhaseInv
  <2>9. CASE \/ WorkerLock \/ WorkerWait \/ WorkerExit \/ WorkerUnlock
             \/ SpuriousWakeup
    <3>1. UNCHANGED <<worker_running, allocated, main, wjob, compressed>>
      BY <2>9, Zenon DEF WorkerLock, WorkerWait, WorkerExit, WorkerUnlock,
                  SpuriousWakeup
    <3>2. main \notin {"cleanup", "done"}
      BY <2>9, <2>inv, Zenon DEF WorkerLock, WorkerWait, WorkerExit, WorkerUnlock,
                          SpuriousWakeup, PhaseInv
    <3> QED
      BY <3>1, <3>2, Zenon
  <2>10. CASE Terminated \/ UNCHANGED vars
    BY <2>10 DEF Terminated, vars
  <2> QED
    BY <2>1, <2>2, <2>3, <2>4, <2>5, <2>6, <2>7, <2>8, <2>9, <2>10,
       <2>11, Zenon DEF Next, MainStep, WorkerStep
<1> QED
  BY <1>1, <1>2, Inductive, PTL DEF Spec, ImplementsQueue, Queue!ASpec
-----------------------------------------------------------------------------
(* An execution of main starts in a state that satisfies AInv.             *)
LEMMA InitAInv == AnalyzerInit => AInv
<1> SUFFICES ASSUME AnalyzerInit PROVE AInv
  BY Zenon
<1> USE CountAssumption, PendingAssumption
    DEF AnalyzerInit, BeforeLoop, InLoop, Ended
<1>1. /\ g_stop_requested \in BOOLEAN /\ handlers \in BOOLEAN
      /\ armed \in BOOLEAN /\ read_failed \in BOOLEAN /\ overrun \in BOOLEAN
  BY Zenon
<1>2. AnalyzerTypeOK
  BY <1>1 DEF AnalyzerTypeOK
<1>3. LoopInv /\ BatchInv /\ PeriodInv /\ EndInv /\ StopInv
  BY SMTT(60) DEF LoopInv, BatchInv, PeriodInv, EndInv, StopInv
<1> QED
  BY <1>2, <1>3, Zenon DEF AInv

(* Every step of main, of the timer and every signal keeps AInv.           *)
LEMMA StepAInv == AInv /\ [AnalyzerNext]_analyzerVars => AInv'
<1> SUFFICES ASSUME AInv, [AnalyzerNext]_analyzerVars
             PROVE  AInv'
  BY Zenon
<1> USE CountAssumption, PendingAssumption
    DEF AInv, AnalyzerTypeOK, LoopInv, BatchInv, PeriodInv, EndInv, StopInv,
        BeforeLoop, InLoop, Ended, loopVars, Goto
<1>1. CASE StartUp
  BY <1>1, Zenon DEF StartUp
<1>2. CASE CallWorkerInit
  BY <1>2, Zenon DEF CallWorkerInit
<1>3. CASE StartTimer
  BY <1>3, ZenonT(60) DEF StartTimer, ArmedTimer
<1>4. CASE GiveUp
  BY <1>4, Zenon DEF GiveUp
<1>5. CASE RegisterHandlers
  BY <1>5, Zenon DEF RegisterHandlers
<1>6. CASE LoopHead
  BY <1>6 DEF LoopHead, LeaveLoop, CountLeft
<1>7. CASE ReadTimer
  <2> USE <1>7 DEF ReadTimer
  <2>1. overrun' \in BOOLEAN
    BY Zenon
  <2>2. AnalyzerTypeOK'
    BY <2>1
  <2>3. LoopInv' /\ PeriodInv' /\ EndInv'
    OBVIOUS
  <2>4. ~overrun' => ~overrun /\ ~(pending > 1)
    BY Zenon
  <2>6. BatchInv'
    BY <2>4
  <2>5. StopInv'
    OBVIOUS
  <2> QED
    BY <2>2, <2>3, <2>5, <2>6, Zenon
<1>8. CASE ReadFails
  BY <1>8, Zenon DEF ReadFails
<1>9. CASE Snapshot
  BY <1>9 DEF Snapshot, InnerLoop, CountLeft
<1>10. CASE EndBatch
  BY <1>10 DEF EndBatch, InnerLoop, CountLeft
<1>11. CASE WindDown
  BY <1>11, ZenonT(60) DEF WindDown
<1>12. CASE Tick
  BY <1>12 DEF Tick
<1>13. CASE Interrupt
  <2> USE <1>13 DEF Interrupt
  <2>1. CASE ~handlers
    BY <2>1, Zenon
  <2>2. CASE handlers
    <3>1. g_stop_requested' /\ pc \notin BeforeLoop
      BY <2>2, Zenon
    <3>2. AnalyzerTypeOK'
      BY <2>2, <3>1, Zenon
    <3>3. LoopInv' /\ BatchInv' /\ PeriodInv' /\ EndInv' /\ StopInv'
      BY <2>2, <3>1, Zenon
    <3> QED
      BY <3>2, <3>3, Zenon
  <2> QED
    BY <2>1, <2>2, Zenon
<1>14. CASE Over \/ UNCHANGED analyzerVars
  BY <1>14 DEF Over, analyzerVars
<1> QED
  BY <1>1, <1>2, <1>3, <1>4, <1>5, <1>6, <1>7, <1>8, <1>9, <1>10, <1>11,
     <1>12, <1>13, <1>14, ZenonT(60) DEF AnalyzerNext
-----------------------------------------------------------------------------
(* How far the calls of main into the worker have got, by main's position. *)
CallInv ==
  /\ pc \in {"config_init", "parse_args", "delete_old_files",
             "snapshot_init", "worker_init"} => main = "start"
  /\ pc \in {"timer", "failed_deinit", "register", "loop", "read", "close",
             "deinit"} => main = "run"
  /\ pc = "batch" => main \in {"run", "enqueue_lock", "enqueue_link",
                               "enqueue_unlock"}
  /\ pc \in {"shutdown", "failed_shutdown"} =>
       main \in {"run", "shutdown_stop", "shutdown_unlock", "join", "cleanup",
                "done"}
  /\ pc \in {"metrics", "free", "exit_0"} => main = "done"
  /\ pc = "exit_1" => main \in {"start", "done"}

MInv == AInv /\ IInv /\ CallInv

(* A step of the program is a step of the queue or leaves it alone.        *)
LEMMA QueueStep == [MNext]_allVars => [Next]_vars
BY Zenon DEF MNext, allVars, StartWorker, Enqueue, Shutdown, OwnStep, WorkerThread,
       Environment, Next, MainStep

(* A step of the program is a step of main, its timer or a signal, leaves  *)
(* main where it is, or is the crash of the shutdown.                      *)
LEMMA AnalyzerStep ==
  ASSUME [MNext]_allVars
  PROVE  \/ [AnalyzerNext]_analyzerVars
         \/ /\ pc \in {"shutdown", "failed_shutdown"} /\ pc' = "killed"
            /\ UNCHANGED <<g_stop_requested, handlers, loopVars>>
<1>1. CASE Shutdown
  BY <1>1, Zenon DEF Shutdown, analyzerVars, loopVars
<1>2. CASE StartWorker \/ OwnStep
  BY <1>2, Zenon DEF StartWorker, OwnStep, AnalyzerNext
<1>3. CASE Enqueue \/ WorkerThread
  BY <1>3, Zenon DEF Enqueue, WorkerThread
<1>4. CASE Environment
  BY <1>4, Zenon DEF Environment, AnalyzerNext
<1>5. CASE UNCHANGED allVars
  BY <1>5, Zenon DEF allVars
<1> QED
  BY <1>1, <1>2, <1>3, <1>4, <1>5, Zenon DEF MNext

(* The program starts in a state that satisfies MInv.                      *)
LEMMA InitMInv == MInit => MInv
BY InitAInv, InitIInv, Zenon DEF MInit, MInv, CallInv, AnalyzerInit, Init

(* Every step of the program keeps MInv.                                   *)
LEMMA StepMInv == MInv /\ [MNext]_allVars => MInv'
<1> SUFFICES ASSUME MInv, [MNext]_allVars
             PROVE  MInv'
  BY Zenon
<1>1. IInv'
  BY QueueStep, StepIInv, Zenon DEF MInv
<1>2. AInv'
  <2>1. CASE [AnalyzerNext]_analyzerVars
    BY <2>1, StepAInv, Zenon DEF MInv
  <2>2. CASE /\ pc \in {"shutdown", "failed_shutdown"} /\ pc' = "killed"
             /\ UNCHANGED <<g_stop_requested, handlers, loopVars>>
    BY <2>2, CountAssumption, PendingAssumption, Zenon
       DEF MInv, AInv, AnalyzerTypeOK, LoopInv, BatchInv, PeriodInv, EndInv,
           StopInv, BeforeLoop, InLoop, Ended, loopVars
  <2> QED
    BY <2>1, <2>2, AnalyzerStep, Zenon
<1>3. CallInv'
  <2> USE DEF MInv, CallInv
  <2>1. CASE StartWorker
    BY <2>1, Zenon DEF StartWorker, CallWorkerInit, WorkerInit, Goto
  <2>2. CASE Enqueue
    BY <2>2, Zenon DEF Enqueue, EnqueueAlloc, EnqueueLock, EnqueueLink,
                EnqueueUnlock, analyzerVars
  <2>3. CASE Shutdown
    BY <2>3, Zenon DEF Shutdown, ShutdownLock, ShutdownStop, ShutdownUnlock,
                ShutdownJoin, ShutdownCleanup
  <2>4. CASE OwnStep
    <3> USE <2>4 DEF OwnStep, BetweenCalls, vars
    <3>1. CASE StartUp \/ StartTimer \/ GiveUp \/ RegisterHandlers
      BY <3>1, ZenonT(60) DEF StartUp, StartTimer, GiveUp, RegisterHandlers, Goto
    <3>2. CASE LoopHead \/ ReadTimer \/ Snapshot \/ EndBatch
      BY <3>2, Zenon DEF LoopHead, ReadTimer, Snapshot, EndBatch, Goto
    <3>3. CASE WindDown
      BY <3>3, Zenon DEF WindDown, Goto
    <3> QED
      BY <3>1, <3>2, <3>3, Zenon
  <2>5. CASE WorkerThread
    BY <2>5, Zenon DEF WorkerThread, WorkerStep, WorkerLock, WorkerWait, WorkerExit,
                WorkerPop, WorkerUnlock, WorkerCompress, analyzerVars
  <2>6. CASE Environment
    BY <2>6, Zenon DEF Environment, ReadFails, Tick, Interrupt, Over, SpuriousWakeup,
                Goto, Ended, analyzerVars, vars
  <2>7. CASE UNCHANGED allVars
    BY <2>7, Zenon DEF allVars, analyzerVars, vars
  <2> QED
    BY <2>1, <2>2, <2>3, <2>4, <2>5, <2>6, <2>7, Zenon DEF MNext
<1> QED
  BY <1>1, <1>2, <1>3, Zenon DEF MInv

(* MInv is an invariant of the program.                                    *)
THEOREM ProgramInvariant == MSpec => []MInv
BY InitMInv, StepMInv, PTL DEF MSpec

(* No period of the timer is dropped while the loop runs, however many are *)
(* missed and whatever the worker does meanwhile.                          *)
THEOREM PeriodsSampled == MSpec => []EveryPeriodSampled
<1>1. MInv => EveryPeriodSampled
  BY Zenon DEF MInv, AInv, PeriodInv, InLoop, EveryPeriodSampled
<1> QED
  BY <1>1, ProgramInvariant, PTL

(* An execution that ends by itself has taken at least -n snapshots.       *)
THEOREM CountIsReached == MSpec => []CountReached
<1>1. MInv => CountReached
  BY CountAssumption
     DEF MInv, AInv, AnalyzerTypeOK, LoopInv, BatchInv, EndInv, CountReached
<1> QED
  BY <1>1, ProgramInvariant, PTL

(* It has never taken more, unless the timer ran over.                     *)
THEOREM CountIsRespected == MSpec => []CountRespected
<1>1. MInv => CountRespected
  BY CountAssumption
     DEF MInv, AInv, AnalyzerTypeOK, LoopInv, BatchInv, CountRespected
<1> QED
  BY <1>1, ProgramInvariant, PTL

(* At most one read of the timer succeeds after SIGINT or SIGTERM.         *)
THEOREM StopsSoon == MSpec => []StopWithinOneRead
<1>1. MInv => StopWithinOneRead
  BY Zenon DEF MInv, AInv, StopInv, StopWithinOneRead
<1> QED
  BY <1>1, ProgramInvariant, PTL

(* main drives the queue as its functions demand, so that whatever holds   *)
(* of the queue for any caller holds in the program.                       *)
THEOREM DrivesQueue == MSpec => Spec
<1>1. MInit => Init
  BY Zenon DEF MInit
<1> QED
  BY <1>1, QueueStep, PTL DEF MSpec, Spec

(* In the program no thread follows a pointer to a freed job, no wakeup is *)
(* lost and the join of the worker finds the list empty.                   *)
THEOREM QueueSafe == MSpec => [](NoUseAfterFree /\ NoLostWakeup /\ DrainedAtJoin)
BY DrivesQueue, MemorySafe, WakeupsNotLost, ShutdownDrains, PTL

(* In the program the list is a first-in first-out queue, too.             *)
THEOREM ProgramRefinesQueue == MSpec => ImplementsQueue
BY DrivesQueue, RefinesQueue, PTL

(* main returns only when every rotated file it handed over has been       *)
(* compressed, if there was a thread, and every job has been freed.        *)
THEOREM ReturnsDrained == MSpec => []ExitsDrained
<1>1. IInv => NoLeak /\ DrainedAtJoin
  BY FreedWhenDone, DrainedWhenJoined, Zenon
<1>2. MInv => ExitsDrained
  <2> SUFFICES ASSUME MInv, pc \in {"exit_0", "exit_1"}
               PROVE  /\ main \in {"start", "done"}
                      /\ freed = 1..allocated
                      /\ worker # "absent" => compressed = allocated
    BY Zenon DEF ExitsDrained
  <2>1. main \in {"start", "done"}
    BY Zenon DEF MInv, CallInv
  <2>2. CASE main = "done"
    BY <2>2, <1>1, Zenon DEF MInv, NoLeak, DrainedAtJoin
  <2>3. CASE main = "start"
    <3>1. allocated = 0 /\ worker = "absent" /\ Linked = 0
      BY <2>3, Zenon DEF MInv, IInv, PhaseInv, Linked
    <3>2. freed = {}
      BY <3>1 DEF MInv, IInv, ListInv, Node
    <3> QED
      BY <2>3, <3>1, <3>2
  <2> QED
    BY <2>1, <2>2, <2>3, Zenon
<1> QED
  BY <1>2, ProgramInvariant, PTL
=============================================================================
