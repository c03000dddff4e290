------------------------- MODULE CompressionWorker --------------------------
(***************************************************************************)
(* The job queue of code/compression/compression_worker.c: the thread that *)
(* takes the snapshots ("main") links jobs into a singly linked list, one  *)
(* worker thread unlinks them, both under job_mutex; the worker sleeps on  *)
(* job_cond while there is nothing to do, and shutdown asks it to drain    *)
(* the list and joins it.  What the worker does with one job is the step   *)
(* WorkerCompress here and is opened up in LogRotation.                    *)
(*                                                                         *)
(* A node of the list is the number of the malloc that returned it; NULL   *)
(* is 0.  Compression is enabled: with it disabled each of the four        *)
(* functions returns at once.  A failing malloc makes                      *)
(* compression_enqueue_file return before it touches the queue, which is a *)
(* stuttering step here (LogRotation models what it means for the file).   *)
(***************************************************************************)
EXTENDS Naturals

CONSTANT MaxJobs        \* bound on the jobs of one execution

ASSUME MaxJobsAssumption == MaxJobs \in Nat

VARIABLES
  worker_running,
  job_head, job_tail,   \* the list; a node or NULL
  next,                 \* next[n]: the field n->next
  allocated,            \* nodes 1..allocated have been returned by malloc
  freed,                \* the nodes given back by free
  job_mutex,            \* the thread that owns the mutex, or "free"
  main, job,            \* main's position and its local variable job
  worker, wjob,         \* the worker's position and its local variable job
  compressed            \* how many jobs the worker is done with

vars == <<worker_running, job_head, job_tail, next, allocated, freed,
          job_mutex, main, job, worker, wjob, compressed>>

listVars == <<job_head, job_tail, next, allocated, freed>>

NULL == 0
Node == 1..MaxJobs

MainPos == {"start", "run", "enqueue_lock", "enqueue_link", "enqueue_unlock",
            "shutdown_stop", "shutdown_unlock", "join",
            "cleanup", "done", "crashed"}
WorkerPos == {"absent", "lock", "test", "asleep", "woken", "unlock",
              "compress", "exited"}

Init ==
  /\ worker_running = FALSE
  /\ job_head = NULL /\ job_tail = NULL
  /\ next = [n \in Node |-> NULL]
  /\ allocated = 0 /\ freed = {}
  /\ job_mutex = "free"
  /\ main = "start" /\ job = NULL
  /\ worker = "absent" /\ wjob = NULL
  /\ compressed = 0
-----------------------------------------------------------------------------
(* The pthread primitives.  job_cond needs no state of its own: its only   *)
(* waiter is the worker at "asleep", and a signal with no waiter is lost.  *)

Lock(thread) == job_mutex = "free" /\ job_mutex' = thread
Unlock(thread) == job_mutex = thread /\ job_mutex' = "free"
Signal == worker' = IF worker = "asleep" THEN "woken" ELSE worker
NoSignal == worker' = worker
-----------------------------------------------------------------------------
(* compression_worker_init.  pthread_create may fail, and nobody looks at  *)
(* its result: worker is then "absent" for the rest of the execution.      *)
WorkerInit ==
  /\ main = "start"
  /\ main' = "run"
  /\ worker_running' = TRUE
  /\ worker' \in {"lock", "absent"}
  /\ UNCHANGED <<listVars, job_mutex, job, wjob, compressed>>

(* compression_enqueue_file, line by line around the mutex.                *)
FreshNext == [next EXCEPT ![allocated + 1] = NULL]

EnqueueAlloc ==
  /\ main = "run"
  /\ allocated < MaxJobs
  /\ allocated' = allocated + 1
  /\ job' = allocated + 1
  /\ next' = FreshNext
  /\ main' = "enqueue_lock"
  /\ UNCHANGED <<worker_running, job_head, job_tail, freed, job_mutex,
                 worker, wjob, compressed>>

EnqueueLock ==
  /\ main = "enqueue_lock"
  /\ Lock("main")
  /\ main' = "enqueue_link"
  /\ UNCHANGED <<worker_running, listVars, job, worker, wjob, compressed>>

(* Mutant: the new job is not hooked behind the old tail.                  *)
LinkTailOnly ==
  /\ job_head' = IF job_tail = NULL THEN job ELSE job_head
  /\ job_tail' = job
  /\ UNCHANGED next

Link ==
  /\ IF job_tail # NULL
       THEN next' = [next EXCEPT ![job_tail] = job] /\ UNCHANGED job_head
       ELSE job_head' = job /\ UNCHANGED next
  /\ job_tail' = job

EnqueueLink ==
  /\ main = "enqueue_link"
  /\ Link
  /\ Signal
  /\ main' = "enqueue_unlock"
  /\ UNCHANGED <<worker_running, allocated, freed, job_mutex, job, wjob,
                 compressed>>

EnqueueUnlock ==
  /\ main = "enqueue_unlock"
  /\ Unlock("main")
  /\ main' = "run"
  /\ job' = NULL
  /\ UNCHANGED <<worker_running, listVars, worker, wjob, compressed>>

(* compression_worker_shutdown.                                            *)
ShutdownLock ==
  /\ main = "run"
  /\ Lock("main")
  /\ main' = "shutdown_stop"
  /\ UNCHANGED <<worker_running, listVars, job, worker, wjob, compressed>>

(* Mutant: the flag is cleared and nobody is told.                         *)
ClearRunningSilently == worker_running' = FALSE /\ NoSignal

ClearRunning == worker_running' = FALSE /\ Signal

ShutdownStop ==
  /\ main = "shutdown_stop"
  /\ ClearRunning
  /\ main' = "shutdown_unlock"
  /\ UNCHANGED <<listVars, job_mutex, job, wjob, compressed>>

ShutdownUnlock ==
  /\ main = "shutdown_unlock"
  /\ Unlock("main")
  /\ main' = "join"
  /\ UNCHANGED <<worker_running, listVars, job, worker, wjob, compressed>>

(* Joining a thread that was never created is undefined: glibc either      *)
(* reports an error, which is ignored, or dereferences the zero handle.    *)
ShutdownJoin ==
  /\ main = "join"
  /\ \/ worker \in {"exited", "absent"} /\ main' = "cleanup"
     \/ worker = "absent" /\ main' = "crashed"
  /\ UNCHANGED <<worker_running, listVars, job_mutex, job, worker, wjob,
                 compressed>>

(* "cleanup remaining jobs if any", one iteration per step.                *)
ShutdownCleanup ==
  /\ main = "cleanup"
  /\ IF job_head # NULL
       THEN /\ freed' = freed \cup {job_head}
            /\ job_head' = next[job_head]
            /\ UNCHANGED <<job_tail, main>>
       ELSE /\ job_tail' = NULL
            /\ main' = "done"
            /\ UNCHANGED <<job_head, freed>>
  /\ UNCHANGED <<worker_running, next, allocated, job_mutex, job, worker,
                 wjob, compressed>>
-----------------------------------------------------------------------------
(* compression_thread_func.                                                *)
WorkerLock ==
  /\ worker \in {"lock", "woken"}
  /\ Lock("worker")
  /\ worker' = "test"
  /\ UNCHANGED <<worker_running, listVars, main, job, wjob, compressed>>

(* The condition of the while around pthread_cond_wait, which releases the *)
(* mutex and goes to sleep in one step.                                    *)
WorkerWait ==
  /\ worker = "test"
  /\ worker_running /\ job_head = NULL
  /\ Unlock("worker")
  /\ worker' = "asleep"
  /\ UNCHANGED <<worker_running, listVars, main, job, wjob, compressed>>

(* POSIX allows a wait to return without a signal.                         *)
SpuriousWakeup ==
  /\ worker = "asleep"
  /\ worker' = "woken"
  /\ UNCHANGED <<worker_running, listVars, job_mutex, main, job, wjob,
                 compressed>>

(* Mutant: the worker leaves as soon as it is told to, jobs or no jobs.    *)
MayExitAtOnce == ~worker_running

MayExit == ~worker_running /\ job_head = NULL

WorkerExit ==
  /\ worker = "test"
  /\ MayExit
  /\ Unlock("worker")
  /\ worker' = "exited"
  /\ UNCHANGED <<worker_running, listVars, main, job, wjob, compressed>>

(* Mutant: job_tail still points to the last job when the list runs empty. *)
PopKeepingTail ==
  /\ wjob' = job_head
  /\ job_head' = next[job_head]
  /\ UNCHANGED job_tail

Pop ==
  /\ wjob' = job_head
  /\ job_head' = next[job_head]
  /\ job_tail' = IF job_head' = NULL THEN NULL ELSE job_tail

WorkerPop ==
  /\ worker = "test"
  /\ job_head # NULL
  /\ Pop
  /\ worker' = "unlock"
  /\ UNCHANGED <<worker_running, next, allocated, freed, job_mutex, main,
                 job, compressed>>

WorkerUnlock ==
  /\ worker = "unlock"
  /\ Unlock("worker")
  /\ worker' = "compress"
  /\ UNCHANGED <<worker_running, listVars, main, job, wjob, compressed>>

FreeJob == freed' = freed \cup {wjob}

(* Everything from extract_base_path to free(job), error paths included.   *)
WorkerCompress ==
  /\ worker = "compress"
  /\ compressed' = wjob
  /\ FreeJob
  /\ wjob' = NULL
  /\ worker' = "lock"
  /\ UNCHANGED <<worker_running, job_head, job_tail, next, allocated,
                 job_mutex, main, job>>
-----------------------------------------------------------------------------
MainStep ==
  \/ WorkerInit
  \/ EnqueueAlloc \/ EnqueueLock \/ EnqueueLink \/ EnqueueUnlock
  \/ ShutdownLock \/ ShutdownStop \/ ShutdownUnlock \/ ShutdownJoin
  \/ ShutdownCleanup

WorkerStep ==
  \/ WorkerLock \/ WorkerWait \/ WorkerExit \/ WorkerPop \/ WorkerUnlock
  \/ WorkerCompress

(* Both calls of main have returned and the program is over: it stops.     *)
Terminated == main \in {"done", "crashed"} /\ UNCHANGED vars

Next == MainStep \/ WorkerStep \/ SpuriousWakeup \/ Terminated

Spec == Init /\ [][Next]_vars
-----------------------------------------------------------------------------
TypeOK ==
  /\ worker_running \in BOOLEAN
  /\ job_head \in 0..MaxJobs /\ job_tail \in 0..MaxJobs
  /\ next \in [Node -> 0..MaxJobs]
  /\ allocated \in 0..MaxJobs /\ freed \subseteq Node
  /\ job_mutex \in {"free", "main", "worker"}
  /\ main \in MainPos /\ job \in 0..MaxJobs
  /\ worker \in WorkerPos /\ wjob \in 0..MaxJobs
  /\ compressed \in 0..MaxJobs

(* No pointer either thread may still follow leads to memory given back by *)
(* free: not the ends of the list (enqueue writes job_tail->next, the      *)
(* worker reads job_head->next) and not the job a thread works on.  Only   *)
(* the cleanup loop of the shutdown leaves job_tail dangling, and it       *)
(* resets job_tail before it returns.                                      *)
NoUseAfterFree ==
  /\ {job_head, job, wjob} \cap freed = {}
  /\ main # "cleanup" => job_tail \notin freed

(* No lost wakeup: the worker is never asleep on job_cond while there is a *)
(* job in the list or after shutdown has cleared worker_running, whatever  *)
(* the order in which the two threads won the mutex.                       *)
NoLostWakeup == worker = "asleep" => worker_running /\ job_head = NULL

(* The worker leaves its loop only with the list drained: once the join    *)
(* has returned every job ever allocated has been compressed, so the loop  *)
(* that cleans up the remaining jobs finds none.  Only without a thread is *)
(* there something for that loop to do.                                    *)
DrainedAtJoin ==
  main \in {"cleanup", "done"} /\ worker # "absent" =>
    job_head = NULL /\ compressed = allocated

(* Every job is freed by the time shutdown returns, also when there was    *)
(* never a thread to compress it.                                          *)
NoLeak == main = "done" => freed = 1..allocated

(* The linked list implements the queue of CompressionQueue: jobs are      *)
(* compressed one at a time, in the order they were linked, each once, and *)
(* shutdown returns from the join of a worker only after the last one.     *)
Linked == IF main \in {"enqueue_lock", "enqueue_link"} THEN allocated - 1
                                                       ELSE allocated

Queue == INSTANCE CompressionQueue WITH
  submitted <- Linked,
  current   <- wjob,
  finished  <- compressed,
  closed    <- main # "start" /\ ~worker_running,
  stopped   <- main \in {"cleanup", "done"} /\ worker = "exited"

ImplementsQueue == Queue!ASpec
-----------------------------------------------------------------------------
(* The inductive invariant behind the safety properties.                   *)

(* Who is inside the critical sections.                                    *)
MutexInv ==
  /\ job_mutex = "main" <=> main \in {"enqueue_link", "enqueue_unlock",
                                      "shutdown_stop", "shutdown_unlock"}
  /\ job_mutex = "worker" <=> worker \in {"test", "unlock"}

(* worker_running is set exactly between init and shutdown_stop, and the   *)
(* shutdown gets past its join only when the worker is gone.               *)
PhaseInv ==
  /\ worker_running <=> main \in {"run", "enqueue_lock", "enqueue_link",
                                  "enqueue_unlock", "shutdown_stop"}
  /\ main \in {"cleanup", "done", "crashed"} => worker \in {"exited", "absent"}
  /\ worker = "exited" => ~worker_running /\ job_head = NULL
  /\ main = "start" => worker = "absent" /\ allocated = 0
  /\ main = "done" => job_head = NULL

(* The job main holds is the newest node: not yet in the list before the   *)
(* link, and still there until main gives up the mutex.                    *)
OwnJobInv ==
  /\ main \in {"enqueue_lock", "enqueue_link", "enqueue_unlock"} =>
       job = allocated /\ job # NULL
  /\ main \in {"enqueue_lock", "enqueue_link"} => next[job] = NULL
  /\ main = "enqueue_unlock" => job_head # NULL
  /\ main \notin {"enqueue_lock", "enqueue_link", "enqueue_unlock"} =>
       job = NULL

(* The list is the run of nodes job_head..Linked in order of allocation,   *)
(* and every node before it has been freed unless the worker holds it.     *)
ListInv ==
  /\ job_head = NULL /\ main # "cleanup" => job_tail = NULL
  /\ job_head # NULL =>
       /\ job_head <= Linked /\ job_tail = Linked
       /\ \A n \in Node : n >= job_head /\ n < Linked => next[n] = n + 1
       /\ next[Linked] = NULL
  /\ freed = {n \in Node : /\ n <= Linked /\ n # wjob
                           /\ job_head = NULL \/ n < job_head}

(* The worker takes the jobs in the order 1, 2, 3, ...: the list starts    *)
(* right behind the job it holds or has compressed last.                   *)
OrderInv ==
  LET taken == IF wjob # NULL THEN wjob ELSE compressed
  IN /\ wjob # NULL <=> worker \in {"unlock", "compress"}
     /\ wjob # NULL => wjob = compressed + 1
     /\ worker # "absent" =>
          IF job_head = NULL THEN taken = Linked ELSE job_head = taken + 1
     /\ worker = "absent" => wjob = NULL /\ compressed = 0

IInv == /\ TypeOK /\ MutexInv /\ PhaseInv /\ OwnJobInv /\ ListInv
        /\ OrderInv /\ NoLostWakeup
=============================================================================
