---------------------------- MODULE LogRotation -----------------------------
(***************************************************************************)
(* Size-triggered rotation of the snapshot files (rotate_logs,             *)
(* rotate_and_reopen and handle_rotations of                               *)
(* code/process_snapshot/process_snapshot.c) running against the thread    *)
(* that compresses what was rotated away (compression_thread_func and      *)
(* compress_file_gzip of code/compression/compression_worker.c), one       *)
(* system call per step, with the file system in between.                  *)
(*                                                                         *)
(* Contents.  A stream is ptime.log (1) or ptime.jsonl (2).  Every file    *)
(* that a stream's fopen(..., "a") creates is a new GENERATION of it, and  *)
(* generations are numbered 1, 2, 3, ...; 0 stands for "no such file".  A  *)
(* file's content is the generation it holds; an archive also is whole or  *)
(* truncated.  The size of the current file is the one bit the code asks   *)
(* for: has it reached max_file_size_bytes.                                *)
(*                                                                         *)
(* Names.  plain[s][i] is <stream>.i, gz[s][i] is <stream>.i.gz,           *)
(* tmp[s][n] is <stream>.1.<time>.<counter> and tmpgz[s][n] that name with *)
(* .gz.  The pair of time and counter is one number n that grows with      *)
(* every rotation; a program started again within the same second draws    *)
(* the same numbers again, as the counter restarts from 0.                 *)
(*                                                                         *)
(* The job queue is the one CompressionQueue specifies.                    *)
(***************************************************************************)
EXTENDS Integers, Sequences, FiniteSets

CONSTANTS
  NumStreams,         \* the raw outputs that are enabled
  MaxFiles,           \* config max_number_of_files
  Modes,              \* the values of compression_enabled a start may find
  Faults,             \* what may fail, see FaultKind
  SameSecondRestart,  \* a restart may come within the second of the last start
  Paced,              \* no file fills up before its predecessor is compressed
  MaxGen,             \* bound on the generations of a stream
  MaxRotations,       \* bound on the compressed rotations of a history
  MaxRuns             \* bound on the executions of the program

FaultKind == {"unlink", "rename", "fopen", "malloc", "gzopen", "gzwrite",
              "gzclose", "crash"}

ASSUME StreamsAssumption == NumStreams \in Nat \ {0}
ASSUME MaxFilesAssumption == MaxFiles \in Nat \ {0}
ASSUME ModesAssumption == Modes \subseteq BOOLEAN
ASSUME FaultsAssumption == Faults \subseteq FaultKind
ASSUME RestartAssumption == SameSecondRestart \in BOOLEAN /\ Paced \in BOOLEAN
ASSUME BoundsAssumption ==
  MaxGen \in Nat /\ MaxRotations \in Nat \ {0} /\ MaxRuns \in Nat

Stream == 1..NumStreams
Slot == 1..MaxFiles
Gen == 0..MaxGen
Stamp == 0..MaxRotations
Archive == [gen : Gen, whole : BOOLEAN]
None == [gen |-> 0, whole |-> FALSE]
Job == [stream : Stream, stamp : Stamp]

VARIABLES
  active, full,        \* the current file: its generation, size >= maximum
  plain, gz,           \* the rotated files
  tmp, tmpgz,          \* the files waiting for or under compression
  gen,                 \* the generations created so far
  pc, k, i,            \* the rotating thread: position, stream, loop index
  is_open,             \* the FILE pointers that are not NULL
  compression_enabled,
  stamp, first_stamp,  \* next name to draw, and the first of this execution
  queue,               \* the jobs of the worker
  worker, job, jobgen, \* its position, its job, the content it has read
  runs,                \* how often the program was started
  switched,            \* compression_enabled was changed between two starts
  kills                \* how often the program was killed

disk == <<active, full, plain, gz, tmp, tmpgz, gen>>
mainVars == <<pc, k, i, is_open, compression_enabled, stamp, first_stamp, runs,
              switched, kills>>
workerVars == <<worker, job, jobgen>>
vars == <<disk, mainVars, queue, workerVars>>

Init ==
  /\ active = [s \in Stream |-> 0]
  /\ full = [s \in Stream |-> FALSE]
  /\ plain = [s \in Stream |-> [n \in Slot |-> 0]]
  /\ gz = [s \in Stream |-> [n \in Slot |-> None]]
  /\ tmp = [s \in Stream |-> [n \in Stamp |-> 0]]
  /\ tmpgz = [s \in Stream |-> [n \in Stamp |-> None]]
  /\ gen = [s \in Stream |-> 0]
  /\ pc = "down" /\ k = 1 /\ i = 0
  /\ is_open = [s \in Stream |-> FALSE]
  /\ compression_enabled = FALSE
  /\ stamp = 1 /\ first_stamp = 1
  /\ queue = <<>>
  /\ worker = "idle" /\ job = [stream |-> 1, stamp |-> 0] /\ jobgen = 0
  /\ runs = 0 /\ switched = FALSE /\ kills = 0

MayFail(fault) == fault \in Faults

(* fopen(path, "a") on the streams of S: creates the files that are not    *)
(* there, appends to the others.                                           *)
OpenForAppend(S) ==
  /\ \A s \in S : active[s] = 0 => gen[s] < MaxGen
  /\ gen' = [s \in Stream |-> IF s \in S /\ active[s] = 0 THEN gen[s] + 1
                                                           ELSE gen[s]]
  /\ active' = [s \in Stream |-> IF s \in S THEN gen'[s] ELSE active[s]]
-----------------------------------------------------------------------------
(* main up to its loop: process_snapshot_initialize opens the streams and  *)
(* reports the result of the last one only; a failure of an earlier one    *)
(* leaves its FILE pointer NULL and the program running.  With compression *)
(* there is a worker thread: the pthread_create that fails unnoticed is in *)
(* CompressionWorker.                                                      *)
Start ==
  /\ pc \in {"down", "killed"} /\ runs < MaxRuns
  /\ runs' = runs + 1
  /\ compression_enabled' \in Modes
  /\ switched' = (switched \/ (runs > 0 /\ compression_enabled' # compression_enabled))
  /\ \/ first_stamp' = stamp
     \/ SameSecondRestart /\ first_stamp' = first_stamp
  /\ stamp' = first_stamp'
  /\ \E S \in SUBSET Stream :
       /\ S = Stream \/ MayFail("fopen")
       /\ OpenForAppend(S)
       /\ IF NumStreams \in S
            THEN pc' = "idle" /\ is_open' = [s \in Stream |-> s \in S]
            ELSE UNCHANGED <<pc, is_open>>
  /\ UNCHANGED <<full, plain, gz, tmp, tmpgz, k, i, queue, workerVars, kills>>

(* collect_snapshot begins with handle_rotations.                          *)
BeginSnapshot ==
  /\ pc = "idle"
  /\ pc' = "check" /\ k' = 1
  /\ UNCHANGED <<disk, i, is_open, compression_enabled, stamp, first_stamp,
                 queue, workerVars, runs, switched, kills>>

(* get_file_size(...) >= config_get_max_file_size_bytes(): a missing file  *)
(* has size -1.  rotate_and_reopen closes the stream before it rotates.    *)
CheckSize ==
  /\ pc = "check"
  /\ IF active[k] # 0 /\ full[k]
       THEN /\ compression_enabled => stamp < MaxRotations
            /\ pc' = "gz_oldest"
            /\ is_open' = [is_open EXCEPT ![k] = FALSE]
            /\ UNCHANGED k
       ELSE /\ IF k < NumStreams THEN k' = k + 1 /\ UNCHANGED pc
                                 ELSE pc' = "write" /\ UNCHANGED k
            /\ UNCHANGED is_open
  /\ UNCHANGED <<disk, i, compression_enabled, stamp, first_stamp, queue,
                 workerVars, runs, switched, kills>>

(* The rest of collect_snapshot: the records go to the streams that are    *)
(* open and are flushed.  A file may reach its maximum size by that, when  *)
(* Paced only if no earlier file of its stream still has to be compressed. *)
Outstanding(s) ==
  \/ \E n \in 1..Len(queue) : queue[n].stream = s
  \/ worker # "idle" /\ job.stream = s

WriteSnapshot ==
  /\ pc = "write"
  /\ \E S \in SUBSET {s \in Stream : is_open[s] /\ ~(Paced /\ Outstanding(s))} :
       full' = [s \in Stream |-> full[s] \/ s \in S]
  /\ pc' = "idle"
  /\ UNCHANGED <<active, plain, gz, tmp, tmpgz, gen, k, i, is_open,
                 compression_enabled, stamp, first_stamp, queue, workerVars,
                 runs, switched, kills>>
-----------------------------------------------------------------------------
(* rotate_logs(path of stream k), one system call per step.                *)

UnlinkOldestGz ==
  /\ pc = "gz_oldest"
  /\ \/ gz' = [gz EXCEPT ![k][MaxFiles] = None]
     \/ MayFail("unlink") /\ UNCHANGED gz
  /\ pc' = "plain_oldest"
  /\ UNCHANGED <<active, full, plain, tmp, tmpgz, gen, k, i, is_open,
                 compression_enabled, stamp, first_stamp, queue, workerVars,
                 runs, switched, kills>>

(* Where the loop over the files starts.                                   *)
(* Mutants: from max_rotations; from max_rotations - 2.                    *)
LoopStartTooHigh == MaxFiles

LoopStartTooLow == IF MaxFiles > 1 THEN MaxFiles - 2 ELSE 0

LoopStart == MaxFiles - 1

UnlinkOldestPlain ==
  /\ pc = "plain_oldest"
  /\ \/ plain' = [plain EXCEPT ![k][MaxFiles] = 0]
     \/ MayFail("unlink") /\ UNCHANGED plain
  /\ pc' = "shift" /\ i' = LoopStart
  /\ UNCHANGED <<active, full, gz, tmp, tmpgz, gen, k, is_open,
                 compression_enabled, stamp, first_stamp, queue, workerVars,
                 runs, switched, kills>>

(* One iteration of the loop.  With compression the .gz is tried first and *)
(* its success skips the plain file of the same number; the plain file is  *)
(* moved when there is no .gz or its rename failed.                        *)
ShiftGz ==
  /\ compression_enabled
  /\ gz[k][i] # None
  /\ gz' = [gz EXCEPT ![k][i + 1] = gz[k][i], ![k][i] = None]
  /\ UNCHANGED plain

ShiftPlain ==
  /\ compression_enabled /\ gz[k][i] # None => MayFail("rename")
  /\ \/ plain[k][i] # 0 /\ plain' = [plain EXCEPT ![k][i + 1] = plain[k][i],
                                                  ![k][i] = 0]
     \/ (plain[k][i] = 0 \/ MayFail("rename")) /\ UNCHANGED plain
  /\ UNCHANGED gz

Shift ==
  /\ pc = "shift" /\ i >= 1
  /\ ShiftGz \/ ShiftPlain
  /\ i' = i - 1
  /\ UNCHANGED <<active, full, tmp, tmpgz, gen, pc, k, is_open,
                 compression_enabled, stamp, first_stamp, queue, workerVars,
                 runs, switched, kills>>

(* current -> .1, or -> .1.<time>.<counter> for the worker to compress.    *)
MoveCurrent ==
  /\ active' = [active EXCEPT ![k] = 0]
  /\ full' = [full EXCEPT ![k] = FALSE]
  /\ IF compression_enabled
       THEN tmp' = [tmp EXCEPT ![k][stamp] = active[k]] /\ UNCHANGED plain
       ELSE plain' = [plain EXCEPT ![k][1] = active[k]] /\ UNCHANGED tmp

RotateCurrent ==
  /\ pc = "shift" /\ i = 0
  /\ \/ MoveCurrent
     \/ MayFail("rename") /\ UNCHANGED <<active, full, plain, tmp>>
  /\ IF compression_enabled THEN pc' = "enqueue" /\ stamp' = stamp + 1
                            ELSE pc' = "reopen" /\ UNCHANGED stamp
  /\ UNCHANGED <<gz, tmpgz, gen, k, i, is_open, compression_enabled,
                 first_stamp, queue, workerVars, runs, switched, kills>>

(* compression_enqueue_file(new_path), called whether or not the rename    *)
(* succeeded; without memory for the job the file stays where it is.       *)
Enqueue ==
  /\ pc = "enqueue"
  /\ \/ queue' = Append(queue, [stream |-> k, stamp |-> stamp - 1])
     \/ MayFail("malloc") /\ UNCHANGED queue
  /\ pc' = "reopen"
  /\ UNCHANGED <<disk, k, i, is_open, compression_enabled, stamp,
                 first_stamp, workerVars, runs, switched, kills>>

(* The fopen of rotate_and_reopen; handle_rotations goes on to the next    *)
(* stream.                                                                 *)
Reopen ==
  /\ pc = "reopen"
  /\ \/ OpenForAppend({k}) /\ is_open' = [is_open EXCEPT ![k] = TRUE]
     \/ MayFail("fopen") /\ UNCHANGED <<active, gen, is_open>>
  /\ IF k < NumStreams THEN pc' = "check" /\ k' = k + 1
                       ELSE pc' = "write" /\ UNCHANGED k
  /\ UNCHANGED <<full, plain, gz, tmp, tmpgz, i, compression_enabled, stamp,
                 first_stamp, queue, workerVars, runs, switched, kills>>
-----------------------------------------------------------------------------
(* The end of an execution: process_snapshot_deinit closes the streams,    *)
(* compression_worker_shutdown waits until the queue is drained.           *)
Stop ==
  /\ pc = "idle"
  /\ pc' = "drain"
  /\ is_open' = [s \in Stream |-> FALSE]
  /\ UNCHANGED <<disk, k, i, compression_enabled, stamp, first_stamp, queue,
                 workerVars, runs, switched, kills>>

Exit ==
  /\ pc = "drain" /\ queue = <<>> /\ worker = "idle"
  /\ pc' = "down"
  /\ UNCHANGED <<disk, k, i, is_open, compression_enabled, stamp,
                 first_stamp, queue, workerVars, runs, switched, kills>>

(* The process is killed: what is on disk stays, the queue is gone.        *)
Crash ==
  /\ MayFail("crash") /\ pc \notin {"down", "killed"}
  /\ pc' = "killed" /\ kills' = kills + 1
  /\ is_open' = [s \in Stream |-> FALSE]
  /\ queue' = <<>>
  /\ worker' = "idle"
  /\ UNCHANGED <<disk, k, i, compression_enabled, stamp, first_stamp, job,
                 jobgen, runs, switched>>
-----------------------------------------------------------------------------
(* compression_thread_func, the part between unlock and free(job).         *)

(* Mutant: the newest job first.                                           *)
PopNewestJob == job' = queue[Len(queue)] /\ queue' = SubSeq(queue, 1, Len(queue) - 1)

PopJob == job' = Head(queue) /\ queue' = Tail(queue)

Take ==
  /\ worker = "idle" /\ queue # <<>>
  /\ PopJob
  /\ worker' = "open"
  /\ UNCHANGED <<disk, mainVars, jobgen>>

(* compress_file_gzip: fopen of the source, gzopen of <path>.gz.           *)
(* Mutant: the archive gets its final name before the copy.                *)
RenameFirst == "publish"

AfterGzopen == "deflate"

CompressOpen ==
  /\ worker = "open"
  /\ LET src == tmp[job.stream][job.stamp]
     IN \/ /\ src # 0
           /\ jobgen' = src
           /\ tmpgz' = [tmpgz EXCEPT ![job.stream][job.stamp] =
                                       [gen |-> src, whole |-> FALSE]]
           /\ worker' = AfterGzopen
        \/ /\ src = 0 \/ MayFail("fopen") \/ MayFail("gzopen")
           /\ worker' = "idle"
           /\ UNCHANGED <<tmpgz, jobgen>>
  /\ UNCHANGED <<active, full, plain, gz, tmp, gen, mainVars, queue, job>>

(* The copy loop and gzclose.  A gzwrite that returns 0 ends the job; what *)
(* gzclose returns is not looked at, and neither is ferror of the source.  *)
Deflate ==
  /\ worker = "deflate"
  /\ \/ /\ tmpgz' = [tmpgz EXCEPT ![job.stream][job.stamp].whole = TRUE]
        /\ worker' = "publish"
     \/ MayFail("gzclose") /\ worker' = "publish" /\ UNCHANGED tmpgz
     \/ MayFail("gzwrite") /\ worker' = "idle" /\ UNCHANGED tmpgz
  /\ UNCHANGED <<active, full, plain, gz, tmp, gen, mainVars, queue, job,
                 jobgen>>

(* rename(gz_path, final_gz_path): always to slot 1, over what is there.   *)
Publish ==
  /\ worker = "publish"
  /\ \/ /\ gz' = [gz EXCEPT ![job.stream][1] = tmpgz[job.stream][job.stamp]]
        /\ tmpgz' = [tmpgz EXCEPT ![job.stream][job.stamp] = None]
        /\ worker' = "remove"
     \/ MayFail("rename") /\ worker' = "idle" /\ UNCHANGED <<gz, tmpgz>>
  /\ UNCHANGED <<active, full, plain, tmp, gen, mainVars, queue, job, jobgen>>

(* unlink(job->path).                                                      *)
(* Mutant: the original is left where it is.                               *)
KeepOriginal == tmp

WithoutOriginal == [tmp EXCEPT ![job.stream][job.stamp] = 0]

RemoveOriginal ==
  /\ worker = "remove"
  /\ \/ tmp' = WithoutOriginal
     \/ MayFail("unlink") /\ UNCHANGED tmp
  /\ worker' = "idle"
  /\ UNCHANGED <<active, full, plain, gz, tmpgz, gen, mainVars, queue, job,
                 jobgen>>
-----------------------------------------------------------------------------
Rotate == UnlinkOldestGz \/ UnlinkOldestPlain \/ Shift \/ RotateCurrent
          \/ Enqueue \/ Reopen

Compress == Take \/ CompressOpen \/ Deflate \/ Publish \/ RemoveOriginal

Next == \/ Start \/ BeginSnapshot \/ CheckSize \/ WriteSnapshot \/ Rotate
        \/ Stop \/ Exit \/ Crash \/ Compress

Spec == Init /\ [][Next]_vars

(* A rotation that has begun goes on, and the worker gets to run.          *)
FairSpec == Spec /\ WF_vars(Rotate) /\ WF_vars(Compress)
-----------------------------------------------------------------------------
TypeOK ==
  /\ active \in [Stream -> Gen] /\ full \in [Stream -> BOOLEAN]
  /\ plain \in [Stream -> [Slot -> Gen]]
  /\ gz \in [Stream -> [Slot -> Archive]]
  /\ tmp \in [Stream -> [Stamp -> Gen]]
  /\ tmpgz \in [Stream -> [Stamp -> Archive]]
  /\ gen \in [Stream -> Gen]
  /\ pc \in {"down", "killed", "idle", "check", "gz_oldest", "plain_oldest", "shift",
             "enqueue", "reopen", "write", "drain"}
  /\ k \in Stream /\ i \in 0..(MaxFiles - 1)
  /\ is_open \in [Stream -> BOOLEAN]
  /\ compression_enabled \in BOOLEAN
  /\ stamp \in Stamp /\ first_stamp \in Stamp
  /\ queue \in Seq(Job)
  /\ worker \in {"idle", "open", "deflate", "publish", "remove"}
  /\ job \in Job /\ jobgen \in Gen
  /\ runs \in 0..MaxRuns /\ switched \in BOOLEAN /\ kills \in Nat

(* A file with a smaller number is a newer one, among the plain and among  *)
(* the compressed rotated files of a stream, at every moment: while the    *)
(* loop of rotate_logs is half way, while the worker renames over slot 1,  *)
(* after failed system calls and after a crash.                            *)
NewestFirst ==
  \A s \in Stream : \A a, b \in Slot :
    a < b =>
      /\ plain[s][a] # 0 /\ plain[s][b] # 0 => plain[s][a] > plain[s][b]
      /\ gz[s][a] # None /\ gz[s][b] # None => gz[s][a].gen > gz[s][b].gen

(* Generation g of stream s can still be read from some file.              *)
Kept(s, g) ==
  \/ active[s] = g
  \/ \E n \in Slot : plain[s][n] = g \/ gz[s][n].gen = g
  \/ \E n \in Stamp : tmp[s][n] = g

(* Between two snapshots the newest MaxFiles generations that were rotated *)
(* away are all there, under whatever name: rotation discards nothing but  *)
(* what max_number_of_files tells it to discard.                           *)
Window(s) == {g \in 1..MaxGen : g < gen[s] /\ g + MaxFiles >= gen[s]}
RetainsNewest == pc = "idle" => \A s \in Stream : \A g \in Window(s) : Kept(s, g)

(* A kill, in the middle of a rotation or of a compression, costs at most  *)
(* one of the files that should have been retained; stops and restarts     *)
(* cost none, as long as compression_enabled stays what it is.  (A gap     *)
(* that a kill leaves among the archives makes the loop rename plain files *)
(* of another execution over each other.)                                  *)
LossPerCrash ==
  pc = "idle" /\ ~switched => \A s \in Stream :
    Cardinality({g \in Window(s) : ~Kept(s, g)}) <= kills

(* What carries the name of a rotated archive is a complete gzip file: a   *)
(* worker that fails or is killed half way leaves its output under the     *)
(* temporary name.  (Not so with a gzclose that fails, which is ignored.)  *)
ArchivesWhole ==
  \A s \in Stream : \A n \in Slot : gz[s][n] # None => gz[s][n].whole

(* With nothing left to compress, a stream has at most max_number_of_files *)
(* rotated files.  This is about the first execution: what a killed one or *)
(* one in the other mode has left behind is never collected.               *)
RotatedFiles(s) ==
  {<<"plain", n>> : n \in {m \in Slot : plain[s][m] # 0}}
    \cup {<<"gz", n>> : n \in {m \in Slot : gz[s][m] # None}}
    \cup {<<"tmp", n>> : n \in {m \in Stamp : tmp[s][m] # 0}}
FilesBounded ==
  runs = 1 /\ pc = "idle" /\ queue = <<>> /\ worker = "idle" =>
    \A s \in Stream : Cardinality(RotatedFiles(s)) <= MaxFiles

(* Temporary files disappear: a rotated file that waits for compression    *)
(* and the archive written next to it are both gone eventually, unless the *)
(* process is killed before.                                               *)
TempFilesVanish ==
  \A s \in Stream : \A n \in Stamp :
    runs = 1 /\ (tmp[s][n] # 0 \/ tmpgz[s][n] # None)
      ~> pc = "killed" \/ (tmp[s][n] = 0 /\ tmpgz[s][n] = None)
=============================================================================
