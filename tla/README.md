# Specifications of process_analyzer

TLA+ specifications of the Linux process analyzer in `code/` and of its records
dashboard: what its threads, its processes, its files and its browser tabs can
do to one another, checked with TLC on small instances, and proved with TLAPS
for all instances where the prover reaches. `PROJECT.json` lists the runs, the
source lines of every definition, the findings and the hazards; this file
explains them. Paths below are relative to `src/`.

## 1. The system

| Part | Source | State | Operations |
|---|---|---|---|
| Main loop | `code/process_analyzer.c` | `g_stop_requested`, the timer, `noOfIterations` | start-up, read of the timer, batch of snapshots, signals, wind-down |
| Snapshot | `code/process_snapshot/process_snapshot.c` | the `FILE`s, the lock, `/proc` | `collect_snapshot`, filters |
| Rotation | same file | the output directory | `handle_rotations`, `rotate_and_reopen`, `rotate_logs` |
| Compression worker | `code/compression/compression_worker.c` | job list, mutex, condition, thread | init, enqueue, thread loop, shutdown |
| Aggregation | `code/process_stats/process_stats.c` | `g_process_table` | `process_stats_update`, `process_stats_snapshot_end` |
| Report | same file | `metrics.json` | `process_stats_print_metrics` |
| Configuration, command line | `code/config`, `code/args_parser` | two structures, constant after start-up | parsing, validation |
| Records dashboard | `dashboard/records.html` | globals of the page, background tasks, a channel between tabs | load, share and index a file, build and draw a series |
| Metrics dashboard | `dashboard/index.html` | browser state | load and display a file |

How they interact. `main` calls `collect_snapshot` once per expired timer
period. `collect_snapshot` first rotates the files that have become too large,
then reads `/proc` and hands every record to `process_stats_update`. A rotation
with compression hands the renamed file to the worker thread, which shares a
linked list with the main thread and the output directory with everybody. A
second execution of the program meets the first only in the output directory
and its lock file. Before all that `main` reads the configuration and the
command line; after it, it prints the report. The records dashboard runs in a
browser on a finished `.jsonl` file; its tabs exchange the file among themselves.

What makes it hard:

- two threads on a hand-made linked list with a condition variable;
- two threads renaming files of the same family without a common lock;
- ten or more system calls per rotation, each of which may fail, none of which
  ends the rotation, and a kill between any two of them;
- signals that may or may not interrupt the read they race with, and periods
  of the timer that are missed and caught up with;
- a second instance, with or without `-j`, at any point of the first one's life;
- processes that exit or hand their number on between two accesses to `/proc`;
- counters that go backwards and samples that are partly invalid;
- filter lists that are enlarged while they are filled, with a clean-up behind
  every early return and another one behind that;
- background tasks of a page that are cancelled, fail or finish while the file
  they are about is being replaced, here or in another tab.

The hazards are listed one by one, with the line and the properties aimed at
each, under `hazards` in `PROJECT.json`.

## 2. Modules

| Module | Models | Lines of source |
|---|---|---|
| `Analyzer` | one execution of `main`, the timer and the signals | `process_analyzer.c` |
| `CompressionQueue` | what the worker promises: a FIFO queue that is drained before it stops | `compression_worker.c` as seen by its callers |
| `CompressionWorker` | the linked list, the mutex, the condition, the thread, statement by statement | `compression_worker.c` 15-28, 116-286 |
| `Main` | the two together: `main` starts, feeds and stops the worker | `process_analyzer.c` 79-161, `compression_worker.c` |
| `LogRotation` | rotation against compression, one system call per step | `process_snapshot.c` 95-224, 568-604, 716-832; `compression_worker.c` 45-109, 154-243 |
| `Instances` | several executions over one directory | `process_snapshot.c` 59-189, 568-653, 716-832; `compression_worker.c` 184-239, 260-286 |
| `ProcessStats` | the aggregation as pure operators | `process_stats.c` 198-240, 343-420, 1080-1152 |
| `StatsHistory` | one table entry against the definition of the metrics | the same |
| `Snapshot` | `collect_snapshot` against a running kernel, on top of `ProcessStats` | `process_snapshot.c` 302-508, 655-714 |
| `Settings` | the options, their conversions and limits, two accessors | `config.c` 12-65, 157-209, 501-509 |
| `Config` | `config_init`: the file, the output directory, validation | `config.c` 94-155, 212-408, 449-469 |
| `ArgsParser` | `ap_parse_args`, `ap_free_arguments` and the heap | `args_parser.c` 92-213, 261-387, 390-657 |
| `Startup` | `Config` and `ArgsParser` as `main` calls them | `process_analyzer.c` 79-83, 152-178 |
| `Metrics` | the report: rankings, console, `metrics.json` | `process_stats.c` 129-196, 243-341, 422-610, 649-697, 746-1058 |
| `RecordsPage` | the script of `records.html` in several tabs | `records.html` 361-452, 604-730, 743-968 |
| `Main_proofs` | theorems about `CompressionWorker`, `Analyzer` and `Main` | |
| `LogRotation_order`, `LogRotation_jobs`, `LogRotation_loss` | theorems about `LogRotation`; the second holds lemmas for the third | |
| `Startup_proofs` | theorems about `Startup` and `Instances` | |
| `Snapshot_proofs` | theorems about `Snapshot` and `ProcessStats` | |
| `Statistics_proofs` | theorems about `StatsHistory` and `Metrics` | |
| `RecordsPage_proofs` | theorems about `RecordsPage` | |
| `MC...` | instances for TLC | |

Each action is one handler, or one stretch of a handler between two points at
which another thread or process can be seen; a comment above it names the code.
A definition whose comment says *Mutant* is a plausible mistake in the
definition that follows it; it belongs to no specification and serves to show
that a property notices the mistake.

### CompressionWorker and CompressionQueue

A list node is the number of the `malloc` that made it, so order of allocation
is order of the numbers, and `freed` is the set of nodes given back. `main` and
`worker` are program counters. The mutex is a variable naming its owner; the
condition variable needs no state, as the worker is its only waiter. A wait may
return without a signal. `pthread_create` may fail, and its result is ignored as
in the code; the join of a thread that does not exist then either returns or
crashes. What needs a worker says so: `worker # "absent"`.

`CompressionQueue` forgets all of that: jobs are submitted, taken in order,
finished, and the queue stops when it is closed and empty. `ImplementsQueue` is
its specification under the mapping in `CompressionWorker`: a job counts as
submitted when it is linked (`Linked`), as current while the worker holds it.

### LogRotation

The content of a file is the *generation* of its stream that it holds: the n-th
file created under the name `ptime.log` is generation n. That is all the
properties need to tell contents apart: order is comparison of numbers and loss
is the absence of a number. Names are indices of functions: `plain[s][i]` is
`<stream>.i`, `gz[s][i]` is `<stream>.i.gz`, `tmp` and `tmpgz` are the temporary
names, whose pair of time and counter is one growing number. Every system call
of `rotate_logs` and of the worker is a step, so that the worker can publish an
archive in the middle of the loop of renames. Which calls may fail is the
constant `Faults`; `Crash` is a kill at any moment, after which `Start` begins a
new execution on the same directory, perhaps with the other value of
`compression_enabled`. `kills` and `switched` (whether that value has changed)
only observe. `SameSecondRestart` lets an execution draw the temporary
names of the one before it (same second, counter from 0 again). `Paced` is the
assumption that no file fills up before its predecessor is compressed; the runs
say which ones make it. With compression there is a worker thread: the
`pthread_create` that fails unnoticed is modelled in `CompressionWorker`.

### Analyzer and Main

`pc` is the call that `main` executes next. `pending` is the kernel's expiration
count, `expirations` the local variable. A signal before the handlers are
installed kills the process; afterwards it sets the flag, and interrupts the
read only if the main thread is blocked in it and is the thread that handles it;
a signal between the test of the flag and the read does not.
`ticks`, `snapshots`, `late_reads`, `read_failed` and `overrun` only observe.

`Main` extends `Analyzer` and `CompressionWorker`. The calls that `Analyzer` has
as single steps become the actions of `CompressionWorker`: `WorkerInit` is one
step of both; while `main` takes a snapshot it may enqueue; in the two branches
that shut the worker down `main` waits until the last of its steps has returned
(`BetweenCalls`). The worker thread runs alongside and ends with the process.

### Instances

A name leads to an inode, a number that grows with every file created: `current`
is the file under the stream's name, `plain`, `gz` and `tmp` are the rotated files
under their names, and `handle[p]` is the inode that p's `FILE` refers to,
whatever becomes of the name. Deletion, lock, open, rotation, compression,
release, close, drain and report happen in the order of `main`. The lock goes with
the process. Each start is with or without `-j` and with or without compression.
A temporary name is the second of `clock` and `rotation_counter[p]`, which begins
at 0 in every execution; a job remembers the inode that was given the name, so
that a property can ask whether it is still there. The wall clock is not set
back. `swept` observes whose files another process may have deleted, `rushed` who
took the lock in the second of a name that was still waiting, or had drawn that
name. One stream stands for both, and a rotation, the compression of a file and a
sweep are one step each, the first two without failures: what can happen inside
them is the subject of `LogRotation`.

### ProcessStats, StatsHistory, Snapshot

`ProcessStats` is the arithmetic of `process_stats_update`, with an entry as a
record. Processor usage is kept as an integer in units of 1/`Scale` (a multiple
of all time differences), so that no rounding hides a difference; division by
clock rate and processor count, which are constants, is left out. Written bytes
are treated exactly as read bytes and are left out as well.

`StatsHistory` feeds every sequence of records up to a length to one entry and
compares the entry with the definitions over the whole sequence (`Usage`,
`Increase`, added up by `SumOf`). Its definitions and constants have names of
their own (`HistorySpec`, `Unreadable`), as its theorems are proved next to those
of `Metrics`.

`Snapshot` reads `/proc` one access at a time while processes work, exit and
start. A file of `/proc` that was opened belongs to the process it was opened
for: when that process is gone, reading yields nothing even if the number is in
use again. The listing of `/proc` is the one at the start of the scan. The
program itself (`Excluded`) is listed and skipped. `trail` and `consumed` only
observe.

### Settings, Config, ArgsParser, Startup

A configuration is a function from options to values. A line of the file is the
sequence of pieces that `fgets` makes of it, and `ReadPiece` handles a piece as
the loop does, so that the tail of a line that is longer than the buffer becomes
a line. Sizes are multiplied in `SizeWord` values and then read as signed, as
`uint64_t` and `off_t` are. `mkdir_p` is one step per level; another instance may
create levels at any time. With a file, an option that it does not mention is
zero and not the default (`Zeroed`), as `configuration_t` is static and
`config_default` is only copied when there is no file.

`ArgsParser` takes the options in any order and number. The heap is the set of
live blocks, a buffer is named after its capacity, and `bad_free` observes a free
of anything else. `append_filter_pid` and `append_filter_comm` reallocate before
they copy; each allocation may fail. `ap_free_arguments` is called at the
beginning of the parser, on its error paths, and by `main` on every way out.

### Metrics

`metrics.json` is the sequence of what is written to it, in words (`"comma"`). A quotient is a pair and
is compared by cross multiplication. `qsort` is any arrangement that is sorted
by the comparison function of the metric, so that ties are left open. The loop
over the eleven blocks is one action with `next_block`.

### RecordsPage

A tab is a record with the globals of the script and the state of its page; the
functions of the script map such a record to the next one, and an action is one
task of the event loop. A background worker is an element of `workers` from its
creation until its last message has been handled or it has been terminated, and
it may fail. `channel[s][t]` is the queue of messages from one tab to another:
their order is kept between two tabs, and not between three. The content of a
file is which processes it has (`PidsOf`, `FirstPid`) and for which metrics there
is something to draw (`NoPoints`). `overtaken`, `raced`, `announced` only
observe.

## 3. Runs

Passing runs:

| Run | Instance | Shows |
|---|---|---|
| `main` | 3 iterations, up to 2 periods per read, 3 jobs, failing calls, signals, creation of the thread may fail | `EveryPeriodSampled`, `CountReached`, `CountRespected`, `StopWithinOneRead`; `NoUseAfterFree`, `NoLostWakeup`, `DrainedAtJoin`, `ExitsDrained`; refinement `ImplementsQueue`; under fairness `Terminates` |
| `rotation_faults` | 2 files, 2 executions, both modes, all faults, the worker may fall behind | `NewestFirst`: the numbers of the rotated files order them by age |
| `rotation_paced` | 3 files, 3 executions, both modes, kills, restarts that draw the same temporary names | `LossPerCrash`, `ArchivesWhole`, `FilesBounded`, and under fairness `TempFilesVanish` |
| `instances` | 3 processes, one without raw output, with and without `-j` and compression; 3 files created, 2 seconds | `SingleInstance`, `OutputReachable`, `PendingIntact` |
| `stats` | all histories of 3 records over 2 values each | `CountersMatchHistory`, `GaugesMatchHistory`, `AverageOverLifetime`, `IoTimeCovered` |
| `snapshot` | a number used by 2 processes in turn, the program itself, a filter by name, 3 snapshots | `ReadNotOverstated`, `CpuWithinRealTime` |
| `startup` | 159 files with missing, repeated, unknown, broken, long lines; a path of 2 levels; 3 tokens per filter | `SettingsFollowFile`, `DirectoryReady`, `MemorySafe`, `FilterComplete`, `TimerArmed` |
| `metrics` | 4 tables, requests for none, one, two and all metrics, both outputs on and off | `TopOfTable`, `DocumentComplete`, `CrashOnlyIfOpenFails` |
| `dashboard` | 2 tabs, 2 files, 2 processes, 2 metrics, 2 loads, 3 requests | `OneFile`, `ChartFollowsSelection`, `TabsAgree`, `ControlsReturn`, `NoStorm` |

`rotation_faults` and `snapshot` also check the `TypeOK` of their module. `LossPerCrash` contains the case without a kill: executions that are
stopped in order and keep pace lose nothing, in either mode. `Terminates` is about the whole
program, so that it contains that the shutdown returns and that the worker
takes every job.

Runs in which the code and a statement about it part (quoted under `findings`):

| Run | Statement refuted | What happens |
|---|---|---|
| `rotation_fast` | `RetainsNewest` | two jobs of one stream are pending; both archives are renamed to `.1.gz` and the first is lost |
| `instances_delete` | `LockProtectsOutput` | `-j` deletes before the lock is tried |
| `startup_defaults` | `DefaultsApply` | with a configuration file, an option that it leaves out is zero or false |

Conditions in the passing properties mark further limits of the code:

- `CountRespected` ends when a read finds missed periods. The batch that catches
  up with them counts as one iteration, so that a late `main` takes more
  snapshots than `-n` asks for.
- `ArchivesWhole` needs that no `gzclose` fails. With that among the faults a truncated
  archive is published and its original removed, although the comment at
  `compression_worker.c:229` promises "remove original only after success": the
  result of `gzclose` is ignored.
- `LossPerCrash` ends with a change of `compression_enabled`. A kill can leave a
  gap among the archives. The loop of `rotate_logs` tries `.i.gz` first and
  leaves `.i` where it is when there was one; at the gap it shifts the plain file,
  onto the next plain file, which was left. With plain files of an execution
  without compression in those places, 5 files and 3 executions, TLC finds two
  files lost after one kill; with 3 or 4 files it finds no such history. The
  condition (`~switched`) comes from the attempt to prove the invariant
  without it.
- `FilesBounded` and `TempFilesVanish` are about the first execution and (the
  latter) one that is not killed. A failed `gzwrite`, a kill, or a change
  of `compression_enabled` leaves files that nothing ever collects.
- `Terminates` and `ExitsDrained` count a crash in the join of a thread that was
  never created as an end; `ExitsDrained` is about returns of `main`.
- `OutputReachable` and `PendingIntact` end for an instance when another one
  sweeps the directory (`instances_delete`); `PendingIntact` also when one of two
  takes the lock in the second of a name the other is waiting for: the counter in
  the name begins at 0 again, and the rename replaces the waiting file.
  `PendingIntact` says nothing about what becomes of a file once it has been
  compressed. See `rotation_fast` for one instance; with two, the worker of the
  old one may rename its archive to `.1.gz` over or above a more recent one of
  the new. `SingleInstance` covers sampling only: the lock is given up
  before the files are closed and the queue is drained.
- `AverageOverLifetime` needs intervals of one length: the reported average
  gives every interval the same weight.
- `IoTimeCovered` needs that no record between two valid ones was invalid. An
  invalid one takes its interval out of the time of the rate, but not its bytes
  out of the total (`calculate_io_data` takes the time from `prev_timestamp`).
- `ReadNotOverstated` and `CpuWithinRealTime` are upper bounds. The entry of a
  reused number mixes its processes, and a process that exits between the open
  and the read of `/proc/<pid>/io` counts as having valid zeros. A record
  may also get past the filters that way: they see the name in `stat`, and the
  descriptors may be those of a process that was not asked for.
- `NewestFirst` excludes restarts within the second of a killed execution
  (`SameSecondRestart`): there a failing rename of the current file enqueues
  the dead execution's leftover under the same temporary name.
- `SettingsFollowFile` excludes lines longer than the buffer and sizes that
  wrap, and is about the options that the file sets; for the others see
  `startup_defaults`.
- `TimerArmed` excludes durations whose milliseconds do not fit in 64 bits: the
  product may wrap to 0, which disarms the timer.
- `DocumentComplete` is about reports that are written to `metrics.json`. Which
  ones are is decided by `metrics_on_console`: `config_get_metrics_json_enabled`
  returns that flag (`config.c:508`), and `metrics_on_json` has no effect.
- `CrashOnlyIfOpenFails`: when `metrics.json` cannot be opened the head is
  written through a null pointer.
- `ChartFollowsSelection` excludes that a cached series was drawn while another
  one was being built: the late one replaces the chart. `TabsAgree` excludes
  files that cross on the channel: the two tabs end up with each other's file.

### Bounds

All bounds are constants. Three jobs let the list be empty, a single node (head
and tail the same) and longer, with a further one in the worker's hands; two
periods per read are enough to be late, and three iterations to be late and catch
up again. Two or three rotated files are the smallest numbers for which the
shift loop has one or several iterations; four to six generations rotate every
slot at least once beyond its end. Two executions make one restart, three make
two kills in one history. Two instances contend; the third, without raw output,
passes the lock. Three inodes are the first file and two rotations, of one
instance or of two; two seconds tell a restart within a second from a later one.
Three records contain a first valid, an invalid and a later
valid sample in every order, and counters that fall and rise. Three units of
time let a process be read late in a snapshot and be replaced between any two of
three snapshots. Three tokens exceed the first buffer of a filter list
(`InitialCapacity`) by one, and each may be repeated; two levels of a path make
one that both instances want to create and one below it. The widths (`SizeWord`,
`Word`) are chosen so that some of the numbers wrap and some do not. Three
processes with ties, figures that go down and figures that were never valid
tell the eleven comparison functions apart. Two tabs with two loads let files
cross, and each file be replaced during indexing and during a series.
For theorems none of these bounds matters, except that `MaxGen`, `MaxRotations`,
`MaxRuns`, `MaxInodes`, `MaxPending`, `MaxJobs`, `MaxTime`, `MaxSnapshots`,
`MaxIncarnations`, `MaxLoads` and `MaxRequests` remain as arbitrary numbers.

`LogRotation`, `StatsHistory`, `Snapshot` and `RecordsPage` come to rest when a
bound is used up, and deadlock is not checked in them. The other modules end in
states with an explicit stuttering step or go on, and TLC checks that they do not
stop elsewhere.

### Fairness

- `Main`: both threads are scheduled (weak fairness) and the periodic timer keeps
  expiring; a thread that keeps asking for the mutex gets it (strong fairness,
  as the other one may release and retake it). A read of the timer may fail but
  need not, and nobody is forced to send a signal or to rotate.
- `LogRotation`: a rotation that has begun goes on and the worker runs; nothing
  forces the next snapshot, a stop or a restart.

## 4. Proofs

Proved by TLAPS, for all values of the constants that satisfy the named
assumptions in the modules.

**Main_proofs, the worker.** The invariant `IInv` (in `CompressionWorker`) says
who is inside the critical section (`MutexInv`), when `worker_running` is set
(`PhaseInv`), what the main thread's local job is (`OwnJobInv`), that the list is
the run of nodes from `job_head` to the last linked one and `freed` is exactly
what lies before it (`ListInv`), and that the worker takes them in order
(`OrderInv`). None of the safety properties is inductive alone: that enqueue does
not write through a freed `job_tail`, for instance, needs that an empty list has
a NULL tail and that freed nodes lie before the head. From `IInv` follow
`TypeCorrect`, `MemorySafe`, `WakeupsNotLost`, `ShutdownDrains`, `AllFreed`, and
the refinement `RefinesQueue` (each step maps to a step of the queue or to a
stutter).

**Main_proofs, the program.** `AInv` (in `Analyzer`) relates the position in `main` to the
counters: periods expired, in the batch, and pending; iterations, snapshots and
whether a period was missed. `CallInv` relates the position in `main` to the
position in the worker's functions. With them `DrivesQueue` shows that every
step of the program is a step of `CompressionWorker` or leaves its variables
alone, so that the theorems of the worker hold in the program (`QueueSafe`,
`ProgramRefinesQueue`); `PeriodsSampled`, `CountIsReached`, `CountIsRespected`,
`StopsSoon` follow from `AInv`, and `ReturnsDrained` from all three together.

**LogRotation_order, order and types.** `TypeCorrect`, and `OrderKept`: under
`~SameSecondRestart`, `NewestFirst` always holds, for every set of faults. The
invariant: everything on disk is older than the current file (`AgeInv`); plain
files and archives are ordered, also across the gap of a half-done shift
(`PlainInv`, `GzInv`); temporary names are ordered like their contents
(`TmpInv`); the queue holds ascending names above the worker's job (`QueueInv`);
whatever is still to be published is newer than every archive (`ArchiveInv`,
the heart of the argument, since the worker renames to slot 1 at any moment of
the loop); and the worker's output holds what its input holds (`JobInv`). The
assumption is needed: see the end of the section on runs.

**LogRotation_order, archives.** `ArchivesComplete`: without `"gzclose"` in
`Faults`, `ArchivesWhole` holds through all other faults, kills and restarts that
draw old temporary names; besides the property the invariant says that what the
worker is about to publish is complete.

**LogRotation_loss, number of files.** `FilesAreFew`: when the only faults are
kills and `gzclose`, `FilesBounded` holds for any number of files. In the first
execution all rotated files are of one kind and each temporary file is known to
the queue, the worker or the rotation under way (`FirstRunInv`); with nothing left
to compress the rotated files are then an image of the numbers `1..MaxFiles`.

**LogRotation_jobs, LogRotation_loss, kills.** `KillsAreCheap`: when the only faults are
kills and `gzclose`, and under `Paced`, `LossPerCrash` holds for any number of
streams, files and executions. A count of losses is not inductive, as a kill in
the middle of the shift loses nothing yet: it leaves a gap, the files above the
gap are one number too high, and the oldest of them falls off later. `LossInv`
therefore splits the number of kills into an offset e and a set T of files: every
generation outside T is on disk at a number that is at most e above its age, or
waits for the worker, unless that number is beyond `max_number_of_files`
(`Covered`). A kill inside the shift adds one to e, a kill that leaves a temporary
file behind adds its generation to T, every other step preserves `Covered`. That
no rename replaces a file comes from `FreeInv` (the slot that the next rename goes
to is free), which rests on there being at most one job of a stream at a time and
none while it is rotated (`JobsInv`).

**Startup_proofs, instances.** `LockExcludes`: for any set of processes, the holder
of the lock is exactly the process that samples. `OutputStaysReachable`: unless it
was swept, a running instance's `FILE` is the file under the name; besides the
lock this needs that only processes with raw output open streams (`FileInv`).
`PendingFilesStay`: `PendingIntact` for any number of files, instances and seconds.
A name is replaced only by a rotation, which draws names of the present second.
`PendingInv` says that the names of one instance have different counts, all below
its counter, and seconds that have begun (`OwnNames`, on which the mutant
`SameCount` turns); that an instance which still waits for a name of the present
second, and is not the holder of the lock, is in `rushed` together with the holder
(`HolderInv`), since the lock was taken after the name was drawn; and that two
instances with names of one second are in `rushed` (`PairInv`), so that the worker
of the one never takes the file of the other. The types are lemmas (`InitTypes`,
`StepTypes`).

**Startup_proofs, start-up.** `HeapIsSafe`, `FilterIsComplete` and `TimerIsArmed` follow from
an invariant of the parser: the live blocks are exactly those of the lists,
whose buffers belong to their capacities and whose names are distinct
(`HeapInv`); the lists hold what was asked for so far (`FilterInv`); an interval
that was provided is positive or has wrapped (`IntervalInv`). `DirectoryIsReady`
follows from how far `mkdir_p` has come (`PathInv`) and from what an error was
due to (`ReasonInv`). `SettingsAreTheFile` is about files of any length: what is
unread is the end of the file (`Suffix`), and every option has the value of the
last valid line about it among those that have been read (`LastWord`).

**Snapshot_proofs.** For any process numbers, reuse and clock. Lemmas say what
each function of `process_stats_update` does to the fields of an entry
(`CpuFields`, `FdsFields`, `RssFields`, `IoFields`, `UpdateFields`). The
invariant `SInv` has to look ahead: what is counted for a number, plus what the
record at hand will add, plus what the process that has the number *now* has read
beyond that, is within what was consumed (`ReadInv`); and since the last reading
of the ticks, for the table and for the record at hand, the process has used no
more ticks than time has passed (`CpuInv`). The kernel's steps preserve it
whenever they occur, as a process that takes over a number starts with counters
of 0. `ReadsAreReal` and `UsageIsReal` follow; the second
multiplies out the quotient of `compute_cpu_usage`. `OneRecordEach` proves the
types, whose last conjunct is that nobody has more records than there were
snapshots; for that, `RoundInv` says that only a process that is neither listed
any more nor the one at hand may have a record of the snapshot under way.

**Statistics_proofs, histories.** `CountersAreSums`, `GaugesAreCompared`,
`IoTimeAddsUp`, `AverageIsExact`: for histories of any length, what
`process_stats_update` keeps is what the definitions say of the whole history.
`HistoryInv` states the four for the entry as it is, together with what the next
record is compared with (the last record, the last and the first valid ones).
The definitions look at the whole history at each step, so that the lemmas are
about them: a record more adds its own term to a sum and leaves the others alone,
and a valid record more becomes the largest valid one and leaves the least one
alone. The sum is a recursive function over numbers; that it is well defined, and
that equal terms give equal sums, is proved by taking a least counterexample
(lemma `Least`), which replaces the induction rules that the provers cannot
instantiate.

**Statistics_proofs, report.** `HeadNeedsTheFile`, `DocumentIsWhole`,
`RankingsAreTops`: for any tables of records of type `process_state_t` and any
requests. `ReportInv` says of the loop over the metrics that the blocks printed so
far are rankings of exactly the requested metrics before `next_block` (`Ranked`),
and that the document is the head and those blocks with commas between them
(`Layout`). That such a ranking is the top of the table uses only that `qsort`
returns some sorted arrangement (`Arranged`), and that every comparison function
compares the figure that is printed, for the deltas its magnitude (`KeyIsFigure`).

**RecordsPage_proofs.** For any number of tabs, files, processes and metrics.
`NoLateResults`, `ControlsUnlock` and `ChartIsTheSelection` follow from `RInv`. It
says of a page that a worker is one of its two tasks and about its file, that
while the controls are locked the indexing task is one of the workers (`PageInv`,
`Locked`), and that the selected series is the one that is drawn or the one that
is being built (`Follows`); of the channel that messages are for tabs that are
open (`ChannelInv`). `TabsConverge`: unless files have raced, there is one file
that the tabs are about to agree on (`Agreed`): no other is under way, and each tab
has it, will get it, or has asked a tab that has it. `MessagesAreFew`: every request
on its way is an answer still to come, so that files announced and requests under
way together stay within the bound (`StormInv`); it takes the set of tabs to be
finite.

Assumptions on the constants are `ASSUME`s of the modules, and TLC evaluates them
on every run. Besides the ranges of the bounds they say: process numbers are
positive (`SnapshotAssumption`); ticks fit in a word (`HistoryAssumption`); a table
is finite and its entries are as `process_stats_update` leaves them
(`TablesAssumption`), a request names the eleven metrics (`RequestsAssumption`); a
file is a sequence of lines, a line a sequence of pieces that is not empty
(`FilesAssumption`). Assumptions that a theorem makes on faults or pace are in
its statement.

Every safety invariant of a passing run has its theorem, and so has the
refinement. Only model-checked are the liveness properties `Terminates` and
`TempFilesVanish`: fairness and `ENABLED` are beyond this prover.

## 5. Not modelled

- The metrics dashboard (`dashboard/index.html`): it renders one document. Its
  one asynchronous step is a `FileReader`, whose results can arrive in another
  order than the files were chosen. What `README.md` says of loading
  `dashboard/data/metrics.json` by itself (147) and of remembering the last file
  (628) has no code.
- The text and JSONL formats of records, the wording of the report, and the
  characters of names in them; `config_print`.
- Two instances inside one rotation, or files created in the middle of a sweep
  with `-j`: `Instances` has a rotation and a sweep as one step, and `LogRotation`
  has one process at a time. A wall clock that is set back.
- The order of `/proc` beyond "each listed process once"; threads per process;
  rounding of floating-point numbers.
- A `metrics.json` of an earlier execution, which stays when the table is empty:
  `Metrics` is about the file of one execution.
