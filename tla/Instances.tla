----------------------------- MODULE Instances ------------------------------
(***************************************************************************)
(* Several executions of the program over one output directory: the lock   *)
(* file of acquire_lock, process_snapshot_delete_old_files (option -j),    *)
(* process_snapshot_initialize and process_snapshot_deinit of              *)
(* code/process_snapshot/process_snapshot.c in the order in which main     *)
(* calls them, and between them what an instance does to the files that    *)
(* all of them share.  A rotation, and the compression of one file, are    *)
(* one step each and do not fail: LogRotation has their single system      *)
(* calls.                                                                  *)
(*                                                                         *)
(* The directory holds one stream.  A name leads to an inode (0: no such   *)
(* file): `current' is ptime.log, plain[i] is ptime.log.i, gz[i] is        *)
(* ptime.log.i.gz (an archive counts as the inode it was made from), and   *)
(* tmp[n] is ptime.log.1.<time>.<counter>, with n the pair of the second   *)
(* and the counter.  An open FILE keeps its inode whatever happens to the  *)
(* name.                                                                   *)
(***************************************************************************)
EXTENDS Naturals, Sequences

CONSTANTS
  Proc,        \* the processes that may run the program
  NoProc,      \* nobody
  RawOutput,   \* the processes whose configuration enables raw output files
  MaxFiles,    \* config max_number_of_files
  MaxInodes,   \* bound on the files ever created
  MaxTime      \* bound on the clock

ASSUME ProcAssumption ==
  NoProc \notin Proc /\ RawOutput \subseteq Proc
ASSUME InstanceBounds ==
  MaxFiles \in Nat \ {0} /\ MaxInodes \in Nat /\ MaxTime \in Nat

VARIABLES
  phase,       \* what each process is doing
  lock,        \* who holds the flock on ptime.lock
  clock,       \* time(NULL), in seconds
  current, plain, gz, tmp,
  inodes,      \* inodes 1..inodes have been created
  compression_enabled,
  handle,      \* handle[p]: the inode p's FILE writes to, 0 for none
  rotation_counter,
  jobs,        \* jobs[p]: the names p's worker has yet to compress, each
               \* with the inode that was given the name
  swept,       \* the processes whose files another one has deleted with -j
  rushed       \* the processes of which one took the lock in the second in
               \* which the other drew a name that is still waiting

directory == <<current, plain, gz, tmp, inodes>>
memory == <<compression_enabled, handle, rotation_counter, jobs>>
vars == <<phase, lock, clock, directory, memory, swept, rushed>>

Phase == {"off", "delete", "lock", "open", "run", "close", "drain", "metrics"}
Slot == 1..MaxFiles
Inode == 1..MaxInodes
Name == [second : 0..MaxTime, count : 0..MaxInodes]

Init ==
  /\ phase = [p \in Proc |-> "off"]
  /\ lock = NoProc /\ clock = 0
  /\ current = 0 /\ inodes = 0
  /\ plain = [i \in Slot |-> 0] /\ gz = [i \in Slot |-> 0]
  /\ tmp = [n \in Name |-> 0]
  /\ compression_enabled = [p \in Proc |-> FALSE]
  /\ handle = [p \in Proc |-> 0]
  /\ rotation_counter = [p \in Proc |-> 0]
  /\ jobs = [p \in Proc |-> <<>>]
  /\ swept = {} /\ rushed = {}

Enter(p, to) == phase' = [phase EXCEPT ![p] = to]

(* A second passes.                                                        *)
Tick ==
  /\ clock < MaxTime
  /\ clock' = clock + 1
  /\ UNCHANGED <<phase, lock, directory, memory, swept, rushed>>

(* The end of a process, ordered or not: its memory is gone, and a lock    *)
(* goes with its descriptor.                                               *)
DropLock(p) == IF lock = p THEN NoProc ELSE lock

End(p) ==
  /\ Enter(p, "off")
  /\ lock' = DropLock(p)
  /\ compression_enabled' = [compression_enabled EXCEPT ![p] = FALSE]
  /\ handle' = [handle EXCEPT ![p] = 0]
  /\ rotation_counter' = [rotation_counter EXCEPT ![p] = 0]
  /\ jobs' = [jobs EXCEPT ![p] = <<>>]
  /\ rushed' = rushed \ {p}

(* main up to the deletion of the old files, with -j or without.           *)
Launch(p) ==
  /\ phase[p] = "off"
  /\ Enter(p, "delete") \/ Enter(p, "lock")
  /\ UNCHANGED <<lock, clock, directory, memory, swept, rushed>>

(* process_snapshot_delete_old_files removes every file of the directory   *)
(* whose name begins like a stream's.  A directory that cannot be read, or *)
(* the first remove that fails, makes main return; what was removed until  *)
(* then is gone.                                                           *)
Without(names, gone) ==
  [n \in DOMAIN names |-> IF names[n] \in gone THEN 0 ELSE names[n]]

DeleteOldFiles(p) ==
  /\ phase[p] = "delete"
  /\ \E gone \in SUBSET (1..inodes) :
       /\ \/ /\ gone = 1..inodes /\ Enter(p, "lock")
             /\ UNCHANGED <<lock, memory, rushed>>
          \/ End(p)
       /\ current' = IF current \in gone THEN 0 ELSE current
       /\ plain' = Without(plain, gone) /\ gz' = Without(gz, gone)
       /\ tmp' = Without(tmp, gone)
  /\ swept' = swept \cup {q \in Proc : phase[q] \in {"run", "close", "drain"}}
  /\ UNCHANGED <<clock, inodes>>

(* process_snapshot_initialize: without raw output there is nothing to     *)
(* lock; otherwise flock(LOCK_EX | LOCK_NB).  main returns when /proc or   *)
(* the lock file cannot be opened or the lock is taken.                    *)
(* Mutant: the result of flock is not looked at.                           *)
LockIgnored(p) == p \in RawOutput

LockGranted(p) == p \in RawOutput /\ lock = NoProc

DrewNow(q) == \E i \in DOMAIN jobs[q] : jobs[q][i].name.second = clock

AcquireLock(p) ==
  /\ phase[p] = "lock"
  /\ \/ /\ LockGranted(p)
        /\ lock' = p /\ Enter(p, "open")
        /\ rushed' = rushed \cup {q \in Proc : DrewNow(q)}
                            \cup {q \in {p} : \E r \in Proc : DrewNow(r)}
        /\ UNCHANGED memory
     \/ p \notin RawOutput /\ Enter(p, "run") /\ UNCHANGED <<lock, memory, rushed>>
     \/ End(p)
  /\ UNCHANGED <<clock, directory, swept>>

(* fopen(path, "a"): the inode under the name, or a new one.               *)
FopenAppend(p) ==
  IF current = 0
    THEN /\ inodes < MaxInodes
         /\ inodes' = inodes + 1 /\ current' = inodes + 1
         /\ handle' = [handle EXCEPT ![p] = inodes + 1]
    ELSE handle' = [handle EXCEPT ![p] = current] /\ UNCHANGED <<current, inodes>>

(* The rest of process_snapshot_initialize and compression_worker_init,    *)
(* the first to ask the configuration for compression_enabled.             *)
OpenStream(p) ==
  /\ phase[p] = "open"
  /\ \/ /\ FopenAppend(p) /\ Enter(p, "run")
        /\ \E c \in BOOLEAN :
             compression_enabled' = [compression_enabled EXCEPT ![p] = c]
        /\ UNCHANGED <<lock, rotation_counter, jobs, rushed>>
     \/ End(p) /\ UNCHANGED <<current, inodes>>
  /\ UNCHANGED <<clock, plain, gz, tmp, swept>>

(* rotate_logs.  The oldest archive and the oldest plain file are unlinked *)
(* and the others renamed to the next number, from the top.  With          *)
(* compression the archive of a number is renamed and a plain file beside  *)
(* it stays; without, the archives stay.                                   *)
Stays(p, i) == compression_enabled[p] /\ i \in 1..(MaxFiles - 1) /\ gz[i] # 0

ShiftedGz(p) ==
  [i \in Slot |-> IF compression_enabled[p]
                     THEN IF i = 1 THEN 0 ELSE gz[i - 1]
                     ELSE IF i = MaxFiles THEN 0 ELSE gz[i]]

ShiftedPlain(p) ==
  [i \in Slot |->
     IF i > 1 /\ ~Stays(p, i - 1) /\ plain[i - 1] # 0 THEN plain[i - 1]
     ELSE IF Stays(p, i) THEN plain[i] ELSE 0]

(* rotation_counter++.                                                     *)
(* Mutant: the counter stays what it is.                                   *)
SameCount(p) == rotation_counter[p]

NextCount(p) == rotation_counter[p] + 1

(* The current file becomes .1, or, for the worker to compress, a name of  *)
(* the second and the counter; a file of that name is replaced.            *)
MoveCurrent(p) ==
  IF compression_enabled[p]
    THEN LET n == [second |-> clock, count |-> rotation_counter[p]]
         IN /\ tmp' = [tmp EXCEPT ![n] = current]
            /\ rotation_counter' = [rotation_counter EXCEPT ![p] = NextCount(p)]
            /\ jobs' = [jobs EXCEPT ![p] =
                          Append(@, [name |-> n, inode |-> current])]
            /\ plain' = ShiftedPlain(p)
    ELSE /\ plain' = [ShiftedPlain(p) EXCEPT ![1] = current]
         /\ UNCHANGED <<tmp, rotation_counter, jobs>>

(* handle_rotations goes by the size of the file under the name, so that a *)
(* missing file is never rotated; rotate_and_reopen closes the FILE,       *)
(* rotates, and opens a new file.                                          *)
(* Mutant: the FILE is not opened again.                                   *)
KeepHandle(p) == handle

Reopened(p) == [handle EXCEPT ![p] = inodes + 1]

Rotate(p) ==
  /\ phase[p] = "run" /\ p \in RawOutput
  /\ current # 0 /\ inodes < MaxInodes
  /\ gz' = ShiftedGz(p)
  /\ MoveCurrent(p)
  /\ inodes' = inodes + 1 /\ current' = inodes + 1
  /\ handle' = Reopened(p)
  /\ UNCHANGED <<phase, lock, clock, compression_enabled, swept, rushed>>

(* The worker takes its next job, in the background or while               *)
(* compression_worker_shutdown waits for it.  What it finds under the name *)
(* is renamed over .1.gz and the original removed; if there is nothing the *)
(* job is dropped.                                                         *)
Compress(p) ==
  /\ phase[p] \in {"run", "close", "drain"} /\ jobs[p] # <<>>
  /\ LET n == Head(jobs[p]).name
     IN /\ gz' = IF tmp[n] = 0 THEN gz ELSE [gz EXCEPT ![1] = tmp[n]]
        /\ tmp' = [tmp EXCEPT ![n] = 0]
  /\ jobs' = [jobs EXCEPT ![p] = Tail(@)]
  /\ UNCHANGED <<phase, lock, clock, current, plain, inodes,
                 compression_enabled, handle, rotation_counter, swept, rushed>>

(* process_snapshot_deinit unlocks first and closes the streams next; then *)
(* come the shutdown of the worker and the metrics.                        *)
ReleaseLock(p) ==
  /\ phase[p] = "run"
  /\ lock' = DropLock(p)
  /\ Enter(p, "close")
  /\ UNCHANGED <<clock, directory, memory, swept, rushed>>

CloseStreams(p) ==
  /\ phase[p] = "close"
  /\ handle' = [handle EXCEPT ![p] = 0]
  /\ Enter(p, "drain")
  /\ UNCHANGED <<lock, clock, directory, compression_enabled,
                 rotation_counter, jobs, swept, rushed>>

Drained(p) ==
  /\ phase[p] = "drain" /\ jobs[p] = <<>>
  /\ Enter(p, "metrics")
  /\ UNCHANGED <<lock, clock, directory, memory, swept, rushed>>

PrintMetrics(p) ==
  /\ phase[p] = "metrics"
  /\ End(p) /\ swept' = swept \ {p}
  /\ UNCHANGED <<clock, directory>>

(* The process is killed.                                                  *)
Crash(p) ==
  /\ phase[p] # "off"
  /\ End(p) /\ swept' = swept \ {p}
  /\ UNCHANGED <<clock, directory>>
-----------------------------------------------------------------------------
Step(p) ==
  \/ Launch(p) \/ DeleteOldFiles(p) \/ AcquireLock(p) \/ OpenStream(p)
  \/ Rotate(p) \/ Compress(p) \/ ReleaseLock(p) \/ CloseStreams(p)
  \/ Drained(p) \/ PrintMetrics(p) \/ Crash(p)

Next == Tick \/ \E p \in Proc : Step(p)

Spec == Init /\ [][Next]_vars

TypeOK ==
  /\ phase \in [Proc -> Phase]
  /\ lock \in Proc \cup {NoProc}
  /\ clock \in 0..MaxTime
  /\ inodes \in 0..MaxInodes /\ current \in 0..inodes
  /\ plain \in [Slot -> 0..inodes] /\ gz \in [Slot -> 0..inodes]
  /\ tmp \in [Name -> 0..inodes]
  /\ compression_enabled \in [Proc -> BOOLEAN]
  /\ handle \in [Proc -> 0..inodes]
  /\ rotation_counter \in [Proc -> 0..inodes]
  /\ jobs \in [Proc -> Seq([name : Name, inode : Inode])]
  /\ swept \subseteq Proc /\ rushed \subseteq Proc

(* Two instances with raw output never sample at the same time, and a lock *)
(* is never left behind by a process that is gone.                         *)
SingleInstance ==
  \A p \in RawOutput :
    /\ phase[p] \in {"open", "run"} <=> lock = p
    /\ lock = p => \A q \in RawOutput \ {p} : phase[q] \notin {"open", "run"}

(* What a running instance writes can be read: its FILE is the file under  *)
(* the name ptime.log.                                                     *)
WritesToName(p) == phase[p] = "run" => handle[p] = current

(* Nobody but an instance with -j takes the current file of a running one  *)
(* away: until then what it writes can be read, through its own rotations  *)
(* and whatever earlier instances still do after they gave up the lock.    *)
OutputReachable == \A p \in RawOutput \ swept : WritesToName(p)

(* The files handed to p's worker are under the names they were given.     *)
PendingFiles(p) ==
  \A i \in DOMAIN jobs[p] : tmp[jobs[p][i].name] = jobs[p][i].inode

(* A rotated file waits for its worker, also after the instance gave up    *)
(* the lock and another one rotates and compresses beside it, and after    *)
(* several rotations within one second: nobody but an instance with -j     *)
(* removes or replaces it, unless one of the two instances took the lock   *)
(* in the second in which the other had drawn the name.                    *)
PendingIntact == \A p \in RawOutput \ (swept \cup rushed) : PendingFiles(p)

(* The lock protects the output of the instance that holds it.             *)
LockProtectsOutput == \A p \in RawOutput : WritesToName(p)
=============================================================================
