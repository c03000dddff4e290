-------------------------- MODULE LogRotation_jobs --------------------------
(***************************************************************************)
(* How the jobs of LogRotation come and go, and what every step keeps of   *)
(* the rotated files, for any number of streams and files.                 *)
(***************************************************************************)
EXTENDS LogRotation_order

(* The file <stream>.1.<time>.<counter> is known to the program: it is in  *)
(* the queue, in the worker's hands, or about to be queued.                *)
Waiting(s, n) ==
  \/ \E m \in 1..Len(queue) : queue[m] = [stream |-> s, stamp |-> n]
  \/ worker # "idle" /\ job = [stream |-> s, stamp |-> n]
  \/ pc = "enqueue" /\ s = k /\ n = stamp - 1

(* Nothing runs before the first start or after a kill.                    *)
LEMMA PcStep ==
  ASSUME [Next]_vars, ~Start
  PROVE  /\ pc = "down" => pc' = "down"
         /\ pc = "killed" => pc' = "killed"
         /\ pc' = "killed" => Crash \/ pc = "killed"
         /\ pc' = "enqueue" => pc = "enqueue" \/ (RotateCurrent /\ compression_enabled)
         /\ pc = "enqueue" /\ pc' # "enqueue" => Enqueue \/ Crash
         /\ pc = "enqueue" /\ pc' = "enqueue" => UNCHANGED <<k, stamp>>
<1> USE DEF mainVars
<1>1. CASE BeginSnapshot BY <1>1, Zenon DEF BeginSnapshot
<1>2. CASE CheckSize BY <1>2, SMTT(30) DEF CheckSize
<1>3. CASE WriteSnapshot BY <1>3, Zenon DEF WriteSnapshot
<1>4. CASE UnlinkOldestGz BY <1>4, Zenon DEF UnlinkOldestGz
<1>5. CASE UnlinkOldestPlain BY <1>5, Zenon DEF UnlinkOldestPlain
<1>6. CASE Shift BY <1>6, Zenon DEF Shift
<1>7. CASE RotateCurrent BY <1>7, Zenon DEF RotateCurrent
<1>8. CASE Enqueue BY <1>8, Zenon DEF Enqueue
<1>9. CASE Reopen BY <1>9, Zenon DEF Reopen
<1>10. CASE Stop BY <1>10, Zenon DEF Stop
<1>11. CASE Exit BY <1>11, Zenon DEF Exit
<1>12. CASE Crash BY <1>12, Zenon DEF Crash
<1>13. CASE Compress
  BY <1>13, Zenon DEF Compress, Take, CompressOpen, Deflate, Publish, RemoveOriginal
<1>14. CASE UNCHANGED vars BY <1>14, Zenon DEF vars
<1> QED BY <1>1, <1>2, <1>3, <1>4, <1>5, <1>6, <1>7, <1>8, <1>9, <1>10, <1>11,
          <1>12, <1>13, <1>14, Zenon DEF Next, Rotate

(* A temporary file is known to the program until it is removed, unless    *)
(* the process is killed or a system call fails.                           *)
LEMMA WaitingStep ==
  ASSUME Faults \subseteq {"crash", "gzclose"},
         TypeInv, [Next]_vars, ~Start, ~Crash, NEW s \in Stream, NEW n \in Stamp,
         tmp[s][n] # 0 => Waiting(s, n), tmp'[s][n] # 0
  PROVE  Waiting(s, n)'
<1> DEFINE j == [stream |-> s, stamp |-> n]
<1>1. /\ queue \in Seq(Job) /\ Len(queue) \in Nat /\ stamp \in Nat /\ n \in Nat
      /\ job \in Job
  BY DEF TypeInv, TypeOK, Stamp
<1>2. CASE tmp'[s][n] # tmp[s][n]
  <2>1. RotateCurrent /\ compression_enabled /\ s = k /\ n = stamp
    BY <1>2, TmpStep, Zenon
  <2>2. pc' = "enqueue" /\ k' = k /\ stamp' = stamp + 1
    BY <2>1, ZenonT(60) DEF RotateCurrent
  <2>3. n = stamp' - 1
    BY <1>1, <2>1, <2>2
  <2> QED BY <2>1, <2>2, <2>3, Zenon DEF Waiting
<1>3. CASE tmp'[s][n] = tmp[s][n]
  <2>1. Waiting(s, n) /\ tmp[s][n] # 0
    BY <1>3, Zenon
  <2>2. CASE \E m \in 1..Len(queue) : queue[m] = j
    <3>1. PICK m \in 1..Len(queue) : queue[m] = j
      BY <2>2, Zenon
    <3> HIDE DEF j
    <3>2. CASE UNCHANGED queue
      BY <3>1, <3>2, SMTT(30) DEF Waiting, j
    <3>3. CASE Enqueue
      <4>1. UNCHANGED queue \/ \E x : queue' = Append(queue, x)
        BY <3>3, Zenon DEF Enqueue
      <4>2. ASSUME NEW x, queue' = Append(queue, x)
            PROVE  m \in 1..Len(queue') /\ queue'[m] = j
        BY <1>1, <3>1, <4>2
      <4> QED BY <3>2, <4>1, <4>2, SMTT(30) DEF Waiting, j
    <3>4. CASE Take
      <4>1. /\ queue # <<>> /\ job' = Head(queue) /\ queue' = Tail(queue)
            /\ worker' # "idle"
        BY <3>4, SMTT(30) DEF Take, PopJob
      <4>2. CASE m = 1
        <5>1. job' = j
          BY <1>1, <3>1, <4>1, <4>2, SMTT(30)
        <5> QED BY <4>1, <5>1, Zenon DEF Waiting, j
      <4>3. CASE m # 1
        <5>1. m - 1 \in 1..Len(queue') /\ queue'[m - 1] = j
          BY <1>1, <3>1, <4>1, <4>3
        <5> QED BY <5>1, Zenon DEF Waiting, j
      <4> QED BY <4>2, <4>3, Zenon
    <3> QED BY <3>2, <3>3, <3>4, Frame, ZenonT(60)
  <2>3. CASE worker # "idle" /\ job = j
    <3>1. job.stream = s /\ job.stamp = n
      BY <2>3, Zenon
    <3>2. job' = job /\ ~Take
      BY <2>3, Frame, Zenon DEF Take
    <3>3. worker' # "idle"
      <4>1. CASE UNCHANGED worker BY <2>3, <4>1, Zenon
      <4>2. CASE CompressOpen
        BY <2>1, <3>1, <4>2, Zenon DEF CompressOpen, AfterGzopen, MayFail
      <4>3. CASE Deflate BY <4>3, Zenon DEF Deflate, MayFail
      <4>4. CASE Publish BY <4>4, Zenon DEF Publish, MayFail
      <4>5. CASE RemoveOriginal
        <5>1. tmp' = [tmp EXCEPT ![s][n] = 0] /\ tmp \in [Stream -> [Stamp -> Gen]]
          BY <3>1, <4>5, Zenon DEF RemoveOriginal, WithoutOriginal, MayFail, TypeInv, TypeOK
        <5>2. tmp'[s][n] = 0
          BY <5>1, SMTT(30)
        <5> QED BY <5>2, Zenon
      <4> QED BY <3>2, <4>1, <4>2, <4>3, <4>4, <4>5, Frame, ZenonT(60) DEF Compress
    <3> QED BY <2>3, <3>2, <3>3, ZenonT(60) DEF Waiting
  <2>4. CASE pc = "enqueue" /\ s = k /\ n = stamp - 1
    <3>1. CASE pc' = "enqueue"
      BY <2>4, <3>1, PcStep, SMTT(30) DEF Waiting
    <3>2. CASE Enqueue
      <4>1. queue' = Append(queue, j)
        BY <2>4, <3>2, Zenon DEF Enqueue, MayFail
      <4> HIDE DEF j
      <4>2. Len(queue) + 1 \in 1..Len(queue') /\ queue'[Len(queue) + 1] = j
        BY <1>1, <4>1
      <4> QED BY <4>2, SMTT(30) DEF Waiting, j
    <3> QED BY <2>4, <3>1, <3>2, PcStep, SMTT(30)
  <2> QED BY <2>1, <2>2, <2>3, <2>4, Zenon DEF Waiting
<1> QED BY <1>2, <1>3, SMTT(30)

-----------------------------------------------------------------------------
(* How the jobs come and go when the files rotate slower than the worker   *)
(* works: every rename then finds its slot free.                           *)

(* The generation of the current file, or of the next one.                 *)
Newest(s) == IF active[s] # 0 THEN gen[s] ELSE gen[s] + 1

(* The temporary file is known and has no archive yet.                     *)
Pending(s, n) ==
  Waiting(s, n) /\ ~(worker = "remove" /\ job = [stream |-> s, stamp |-> n])

(* There is a current file, except between the rename and the fopen.       *)
CurrentInv ==
  /\ \A s \in Stream : active[s] \in {0, gen[s]}
  /\ pc \notin {"down", "killed"} =>
       \A s \in Stream : active[s] # 0 \/ (pc \in {"enqueue", "reopen"} /\ s = k)
  /\ runs = 0 => pc = "down" /\ \A s \in Stream : gen[s] = 0

(* With a worker that keeps up, a stream has one job at a time and none    *)
(* while it is rotated.                                                    *)
JobsInv ==
  /\ \A m, n \in 1..Len(queue) : queue[m].stream = queue[n].stream => m = n
  /\ worker # "idle" => \A n \in 1..Len(queue) : queue[n].stream # job.stream
  /\ \A s \in Stream : full[s] => ~Outstanding(s)
  /\ \A s \in Stream :
       Outstanding(s) => compression_enabled /\ pc \notin {"down", "killed"}
  /\ pc = "enqueue" => ~full[k] /\ ~Outstanding(k) /\ compression_enabled
  /\ Rotating => full[k] /\ active[k] # 0

(* At position n of the numbered files that compression_enabled selects is *)
(* generation Held(s, n).                                                  *)
Held(s, n) == IF compression_enabled THEN gz[s][n].gen ELSE plain[s][n]

(* The slot that the next rename goes to is free.                          *)
FreeInv ==
  /\ worker \in {"deflate", "publish"} =>
       tmpgz[job.stream][job.stamp].gen = tmp[job.stream][job.stamp]
  /\ \A s \in Stream, n \in Stamp : Pending(s, n) => gz[s][1].gen = 0
  /\ pc = "plain_oldest" /\ compression_enabled => gz[k][MaxFiles].gen = 0
  /\ pc = "shift" => Held(k, i + 1) = 0

(* The steps of a rotation follow each other.                              *)
LEMMA RotationStep ==
  ASSUME [Next]_vars, ~Start
  PROVE  /\ pc' = "down" => pc = "down" \/ Exit
         /\ Rotating' => /\ UNCHANGED <<k, active, full>>
                         /\ Rotating \/ (CheckSize /\ active[k] # 0 /\ full[k])
         /\ Rotating /\ ~Rotating' => RotateCurrent \/ Crash
         /\ pc' = "gz_oldest" => CheckSize \/ pc = "gz_oldest"
         /\ pc' = "plain_oldest" => UnlinkOldestGz \/ pc = "plain_oldest"
         /\ pc' = "shift" => \/ UnlinkOldestPlain \/ Shift
                             \/ pc = "shift" /\ UNCHANGED <<i, plain>>
         /\ pc' = "reopen" => RotateCurrent \/ Enqueue \/ (pc = "reopen" /\ UNCHANGED k)
         /\ pc = "reopen" /\ pc' # "reopen" => Reopen \/ Crash
<1> USE DEF mainVars, disk, Rotating
<1>1. CASE BeginSnapshot BY <1>1, Zenon DEF BeginSnapshot
<1>2. CASE CheckSize BY <1>2, Zenon DEF CheckSize
<1>3. CASE WriteSnapshot BY <1>3, Zenon DEF WriteSnapshot
<1>4. CASE UnlinkOldestGz BY <1>4, Zenon DEF UnlinkOldestGz
<1>5. CASE UnlinkOldestPlain BY <1>5, Zenon DEF UnlinkOldestPlain
<1>6. CASE Shift BY <1>6, Zenon DEF Shift
<1>7. CASE RotateCurrent BY <1>7, Zenon DEF RotateCurrent
<1>8. CASE Enqueue BY <1>8, Zenon DEF Enqueue
<1>9. CASE Reopen BY <1>9, Zenon DEF Reopen
<1>10. CASE Stop BY <1>10, Zenon DEF Stop
<1>11. CASE Exit BY <1>11, Zenon DEF Exit
<1>12. CASE Crash BY <1>12, Zenon DEF Crash
<1>13. CASE Compress
  BY <1>13, Zenon DEF Compress, Take, CompressOpen, Deflate, Publish, RemoveOriginal
<1>14. CASE UNCHANGED vars BY <1>14, Zenon DEF vars
<1> QED BY <1>1, <1>2, <1>3, <1>4, <1>5, <1>6, <1>7, <1>8, <1>9, <1>10, <1>11,
          <1>12, <1>13, <1>14, Zenon DEF Next, Rotate

(* Every start opens every stream.                                         *)
LEMMA StartStep ==
  ASSUME Faults \subseteq {"crash", "gzclose"}, TypeInv, CurrentInv, Start
  PROVE  /\ pc \in {"down", "killed"} /\ pc' = "idle" /\ runs' = runs + 1
         /\ UNCHANGED <<full, plain, gz, tmp, tmpgz, k, i, queue, worker, job>>
         /\ \A s \in Stream : active'[s] # 0 /\ gen'[s] = Newest(s)
         /\ ~switched' =>
              ~switched /\ (runs = 0 \/ compression_enabled' = compression_enabled)
<1>1. OpenForAppend(Stream) /\ pc' = "idle"
  BY StreamsAssumption DEF Start, MayFail, Stream
<1>2. ASSUME NEW s \in Stream PROVE active'[s] # 0 /\ gen'[s] = Newest(s)
  <2>1. active[s] \in Nat /\ gen[s] \in Nat /\ active[s] \in {0, gen[s]}
    BY Numbers, Zenon DEF CurrentInv
  <2>2. /\ gen'[s] = IF active[s] = 0 THEN gen[s] + 1 ELSE gen[s]
        /\ active'[s] = gen'[s]
    BY <1>1, Zenon DEF OpenForAppend
  <2> QED BY <2>1, <2>2 DEF Newest
<1>3. runs \in Nat
  BY BoundsAssumption DEF TypeInv, TypeOK
<1>4. ~switched' => ~switched /\ ~(runs > 0 /\ compression_enabled' # compression_enabled)
  BY Zenon DEF Start
<1>5. runs > 0 \/ runs = 0
  BY <1>3
<1>6. /\ pc \in {"down", "killed"} /\ runs' = runs + 1
      /\ UNCHANGED <<full, plain, gz, tmp, tmpgz, k, i, queue, worker, job>>
  BY Zenon DEF Start, workerVars
<1> QED BY <1>1, <1>2, <1>4, <1>5, <1>6, Zenon

(* The current files.                                                      *)
LEMMA StepCurrent ==
  ASSUME Faults \subseteq {"crash", "gzclose"}, TypeInv, CurrentInv, [Next]_vars
  PROVE  CurrentInv'
<1>1. ASSUME NEW s \in Stream PROVE active'[s] \in {0, gen'[s]}
  BY GenStep, Zenon DEF CurrentInv
<1>2. k \in Stream /\ active \in [Stream -> Nat] /\ gen \in [Stream -> Nat] /\ runs \in Nat
  <2>1. runs \in 0..MaxRuns
    BY Zenon DEF TypeInv, TypeOK
  <2>2. runs \in Nat
    BY <2>1
  <2> QED BY <2>2, Numbers, Zenon
<1>3. CASE Start
  BY <1>1, <1>2, <1>3, StartStep, SMTT(60) DEF CurrentInv
<1>4. CASE ~Start
  <2>1. UNCHANGED runs
    BY <1>4, Frame, Zenon
  <2>2. ASSUME runs' = 0 PROVE pc' = "down" /\ \A s \in Stream : gen'[s] = 0
    <3>1. pc = "down" /\ runs = 0
      BY <2>1, <2>2, Zenon DEF CurrentInv
    <3>2. ~Reopen /\ ~RotateCurrent
      BY <3>1, Zenon DEF Reopen, RotateCurrent
    <3> QED BY <1>4, <3>1, <3>2, Frame, PcStep, Zenon DEF CurrentInv
  <2>3. ASSUME pc' \notin {"down", "killed"}, NEW s \in Stream
        PROVE  active'[s] # 0 \/ (pc' \in {"enqueue", "reopen"} /\ s = k')
    <3>1. pc \notin {"down", "killed"}
      BY <1>4, <2>3, PcStep, Zenon
    <3>2. active[s] # 0 \/ (pc \in {"enqueue", "reopen"} /\ s = k)
      BY <3>1, Zenon DEF CurrentInv
    <3>3. CASE RotateCurrent
      BY <1>2, <3>2, <3>3, Zenon DEF RotateCurrent, MoveCurrent, MayFail
    <3>4. CASE Reopen
      <4>1. pc = "reopen" /\ OpenForAppend({k})
        BY <3>4, Zenon DEF Reopen, MayFail
      <4>2. active[s] \in {0, gen[s]}
        BY Zenon DEF CurrentInv
      <4>3. /\ gen'[s] = IF s = k /\ active[s] = 0 THEN gen[s] + 1 ELSE gen[s]
            /\ active'[s] = IF s = k THEN gen'[s] ELSE active[s]
        BY <4>1, Zenon DEF OpenForAppend
      <4> QED BY <1>2, <3>2, <4>2, <4>3, SMTT(60)
    <3>5. CASE Enqueue
      BY <3>2, <3>5, Zenon DEF Enqueue, disk
    <3>6. CASE ~RotateCurrent /\ ~Reopen /\ ~Enqueue
      <4>1. UNCHANGED active
        BY <1>4, <3>6, Frame, Zenon
      <4>2. pc = "enqueue" => pc' = "enqueue" /\ k' = k
        BY <1>4, <2>3, <3>6, PcStep, Zenon DEF Crash
      <4>3. pc = "reopen" => pc' = "reopen" /\ k' = k
        BY <1>4, <2>3, <3>6, RotationStep, Zenon DEF Crash
      <4> QED BY <3>2, <4>1, <4>2, <4>3, Zenon
    <3> QED BY <3>3, <3>4, <3>5, <3>6, Zenon
  <2> QED BY <1>1, <2>2, <2>3, Zenon DEF CurrentInv
<1> QED BY <1>3, <1>4, Zenon

(* Only rotations give the worker something to do.                         *)
LEMMA OutstandingStep ==
  ASSUME TypeInv, [Next]_vars, NEW s \in Stream, Outstanding(s)'
  PROVE  Outstanding(s) \/ (Enqueue /\ s = k)
<1>1. queue \in Seq(Job) /\ Len(queue) \in Nat
  BY DEF TypeInv, TypeOK
<1>2. CASE Enqueue
  <2>1. UNCHANGED <<worker, job>>
    BY <1>2, Zenon DEF Enqueue, workerVars
  <2>2. \/ queue' = queue
        \/ queue' = Append(queue, [stream |-> k, stamp |-> stamp - 1])
    BY <1>2, Zenon DEF Enqueue
  <2>3. CASE queue' = Append(queue, [stream |-> k, stamp |-> stamp - 1])
    <3> DEFINE j == [stream |-> k, stamp |-> stamp - 1]
    <3>1. j.stream = k
      BY Zenon
    <3>2. queue' = Append(queue, j)
      BY <2>3, Zenon
    <3> HIDE DEF j
    <3>3. \A n \in 1..Len(queue') : queue'[n] = j \/ (n \in 1..Len(queue) /\ queue'[n] = queue[n])
      BY <1>1, <3>2
    <3> QED BY <1>2, <2>1, <3>1, <3>3, Zenon DEF Outstanding
  <2> QED BY <2>1, <2>2, <2>3, Zenon DEF Outstanding
<1>3. CASE Take
  <2>1. /\ queue # <<>> /\ job' = Head(queue) /\ queue' = Tail(queue)
    BY <1>3, Zenon DEF Take, PopJob
  <2>2. /\ 1 \in 1..Len(queue) /\ job' = queue[1]
        /\ \A n \in 1..Len(queue') : n + 1 \in 1..Len(queue) /\ queue'[n] = queue[n + 1]
    BY <1>1, <2>1
  <2> QED BY <2>2, Zenon DEF Outstanding
<1>4. CASE Crash
  BY <1>4 DEF Crash, Outstanding
<1>5. CASE ~Enqueue /\ ~Take /\ ~Crash
  <2>1. UNCHANGED <<queue, job>>
    BY <1>5, Frame, Zenon
  <2>2. worker' # "idle" => worker # "idle"
    BY <1>5, Frame, Zenon DEF Compress, CompressOpen, Deflate, Publish, RemoveOriginal
  <2> QED BY <2>1, <2>2, Zenon DEF Outstanding
<1> QED BY <1>2, <1>3, <1>4, <1>5, Zenon

(* One job per stream, when the worker keeps up.                           *)
LEMMA StepJobs ==
  ASSUME Faults \subseteq {"crash", "gzclose"}, Paced,
         TypeInv, CurrentInv, JobsInv, [Next]_vars
  PROVE  JobsInv'
<1>1. queue \in Seq(Job) /\ Len(queue) \in Nat /\ k \in Stream /\ job.stream \in Stream
  BY Numbers DEF TypeInv, TypeOK
<1>2. /\ \A m, n \in 1..Len(queue') : queue'[m].stream = queue'[n].stream => m = n
      /\ worker' # "idle" => \A n \in 1..Len(queue') : queue'[n].stream # job'.stream
  <2>1. CASE Enqueue
    <3> DEFINE j == [stream |-> k, stamp |-> stamp - 1]
    <3>1. j.stream = k
      BY Zenon
    <3>2. queue' = Append(queue, j) /\ UNCHANGED <<worker, job>> /\ ~Outstanding(k)
      BY <2>1, Zenon DEF Enqueue, MayFail, workerVars, JobsInv
    <3> HIDE DEF j
    <3>3. /\ Len(queue') = Len(queue) + 1
          /\ \A n \in 1..Len(queue') : \/ n = Len(queue) + 1 /\ queue'[n] = j
                                       \/ n \in 1..Len(queue) /\ queue'[n] = queue[n]
      BY <1>1, <3>2
    <3>4. \A n \in 1..Len(queue) : queue[n].stream # k
      BY <3>2, Zenon DEF Outstanding
    <3>5. worker # "idle" => job.stream # k
      BY <3>2, Zenon DEF Outstanding
    <3>6. \A n \in 1..Len(queue') : n \in 1..Len(queue) => queue'[n] = queue[n]
      <4>1. Len(queue) + 1 \notin 1..Len(queue)
        BY <1>1
      <4> QED BY <3>3, <4>1, Zenon
    <3>7. \A n \in 1..Len(queue') : n \notin 1..Len(queue) =>
            n = Len(queue) + 1 /\ queue'[n].stream = k
      BY <3>1, <3>3, Zenon
    <3>8. \A m, n \in 1..Len(queue') : queue'[m].stream = queue'[n].stream => m = n
      <4> TAKE m, n \in 1..Len(queue')
      <4>1. CASE m \in 1..Len(queue) /\ n \in 1..Len(queue)
        BY <3>6, <4>1, Zenon DEF JobsInv
      <4>2. CASE m \notin 1..Len(queue) \/ n \notin 1..Len(queue)
        BY <3>4, <3>6, <3>7, <4>2, Zenon
      <4> QED BY <4>1, <4>2, Zenon
    <3>9. worker' # "idle" => \A n \in 1..Len(queue') : queue'[n].stream # job'.stream
      BY <3>2, <3>5, <3>6, <3>7, Zenon DEF JobsInv
    <3> QED BY <3>8, <3>9, Zenon
  <2>2. CASE Take
    <3>1. /\ queue # <<>> /\ job' = Head(queue) /\ queue' = Tail(queue)
      BY <2>2, Zenon DEF Take, PopJob
    <3>2. /\ 1 \in 1..Len(queue) /\ job' = queue[1]
          /\ \A n \in 1..Len(queue') :
               n \in Nat \ {0} /\ n + 1 \in 1..Len(queue) /\ queue'[n] = queue[n + 1]
      BY <1>1, <3>1
    <3>3. \A n \in 1..Len(queue') : n + 1 # 1
      BY <3>2
    <3>4. \A m, n \in 1..Len(queue') : m + 1 = n + 1 => m = n
      BY <3>2
    <3>5. \A m, n \in 1..Len(queue') : queue'[m].stream = queue'[n].stream => m = n
      <4> TAKE m, n \in 1..Len(queue')
      <4>1. /\ m + 1 \in 1..Len(queue) /\ queue'[m] = queue[m + 1]
            /\ n + 1 \in 1..Len(queue) /\ queue'[n] = queue[n + 1]
        BY <3>2, Zenon
      <4>2. queue'[m].stream = queue'[n].stream => m + 1 = n + 1
        BY <4>1, Zenon DEF JobsInv
      <4> QED BY <3>4, <4>2, Zenon
    <3>6. \A n \in 1..Len(queue') : queue'[n].stream # job'.stream
      <4> TAKE n \in 1..Len(queue')
      <4>1. n + 1 \in 1..Len(queue) /\ queue'[n] = queue[n + 1] /\ n + 1 # 1
        BY <3>2, <3>3, Zenon
      <4>2. queue[n + 1].stream # queue[1].stream
        BY <3>2, <4>1, Zenon DEF JobsInv
      <4> QED BY <3>2, <4>1, <4>2, Zenon
    <3> QED BY <3>5, <3>6, Zenon
  <2>3. CASE Crash
    BY <2>3 DEF Crash
  <2>4. CASE ~Enqueue /\ ~Take /\ ~Crash
    <3>1. UNCHANGED <<queue, job>>
      BY <2>4, Frame, Zenon
    <3>2. worker' # "idle" => worker # "idle"
      BY <2>4, Frame, Zenon DEF Compress, CompressOpen, Deflate, Publish, RemoveOriginal
    <3> QED BY <3>1, <3>2, Zenon DEF JobsInv
  <2> QED BY <2>1, <2>2, <2>3, <2>4, Zenon
<1>3. ASSUME NEW s \in Stream, full'[s] PROVE ~Outstanding(s)'
  <2>1. SUFFICES ASSUME Outstanding(s)' PROVE FALSE
    BY Zenon
  <2>2. CASE Outstanding(s)
    <3>1. ~full[s]
      BY <2>2, Zenon DEF JobsInv
    <3>2. WriteSnapshot \/ RotateCurrent
      BY <1>3, <3>1, Frame, Zenon
    <3>3. full \in [Stream -> BOOLEAN]
      BY Zenon DEF TypeInv, TypeOK
    <3>4. CASE WriteSnapshot
      <4>1. PICK S \in SUBSET {r \in Stream : is_open[r] /\ ~(Paced /\ Outstanding(r))} :
              full' = [r \in Stream |-> full[r] \/ r \in S]
        BY <3>4, Zenon DEF WriteSnapshot
      <4>2. s \in S
        BY <1>3, <3>1, <4>1, Zenon
      <4> QED BY <2>2, <4>1, <4>2, Zenon
    <3>5. CASE RotateCurrent
      <4>1. full' = [full EXCEPT ![k] = FALSE]
        BY <3>5, Zenon DEF RotateCurrent, MoveCurrent, MayFail
      <4> QED BY <1>1, <1>3, <3>1, <3>3, <4>1, Zenon
    <3> QED BY <3>2, <3>4, <3>5, Zenon
  <2>3. CASE Enqueue /\ s = k
    <3>1. ~full[k] /\ full' = full
      BY <2>3, Zenon DEF Enqueue, disk, JobsInv
    <3> QED BY <1>3, <2>3, <3>1, Zenon
  <2> QED BY <2>1, <2>2, <2>3, OutstandingStep, Zenon
<1>4. ASSUME NEW s \in Stream, Outstanding(s)'
      PROVE  compression_enabled' /\ pc' \notin {"down", "killed"}
  <2>1. CASE Outstanding(s)
    <3>1. compression_enabled /\ pc \notin {"down", "killed"}
      BY <2>1, Zenon DEF JobsInv
    <3>2. ~Start /\ ~Crash
      <4>1. ~Start
        BY <3>1, Zenon DEF Start
      <4>2. Crash => ~Outstanding(s)'
        BY DEF Crash, Outstanding
      <4> QED BY <1>4, <4>1, <4>2, Zenon
    <3>3. ~Exit
      BY <2>1 DEF Exit, Outstanding
    <3> QED BY <3>1, <3>2, <3>3, Frame, PcStep, RotationStep, Zenon
  <2>2. CASE Enqueue
    BY <2>2, Zenon DEF Enqueue, JobsInv
  <2> QED BY <1>4, <2>1, <2>2, OutstandingStep, Zenon
<1>5. ASSUME pc' = "enqueue"
      PROVE  (~full[k] /\ ~Outstanding(k) /\ compression_enabled)'
  <2>1. ~Start /\ ~Enqueue
    BY <1>5, StartStep, Zenon DEF Enqueue
  <2>2. CASE pc = "enqueue"
    <3>1. ~full[k] /\ ~Outstanding(k) /\ compression_enabled /\ k' = k
      BY <1>5, <2>1, <2>2, PcStep, Zenon DEF JobsInv
    <3>2. ~WriteSnapshot /\ ~RotateCurrent
      BY <2>2, Zenon DEF WriteSnapshot, RotateCurrent
    <3>3. full' = full /\ compression_enabled' = compression_enabled
      BY <2>1, <3>2, Frame, Zenon
    <3>4. PICK r \in Stream : r = k
      BY <1>1, Zenon
    <3>5. ~Outstanding(r)'
      BY <2>1, <3>1, <3>4, OutstandingStep, Zenon
    <3>6. ~Outstanding(k)'
      BY <3>1, <3>4, <3>5, Zenon
    <3> QED BY <3>1, <3>3, <3>6, Zenon
  <2>3. CASE RotateCurrent /\ compression_enabled
    <3>1. /\ UNCHANGED <<k, compression_enabled, queue, worker, job>>
          /\ full' = [full EXCEPT ![k] = FALSE] /\ Rotating
      BY <2>3, Zenon DEF RotateCurrent, MoveCurrent, MayFail, workerVars, Rotating
    <3>2. ~Outstanding(k)
      BY <1>1, <3>1, Zenon DEF JobsInv
    <3>3. full \in [Stream -> BOOLEAN]
      BY Zenon DEF TypeInv, TypeOK
    <3>4. full'[k] = FALSE
      BY <1>1, <3>1, <3>3, Zenon
    <3>5. ~Outstanding(k)'
      BY <3>1, <3>2, Zenon DEF Outstanding
    <3> QED BY <2>3, <3>1, <3>4, <3>5, Zenon
  <2> QED BY <1>5, <2>1, <2>2, <2>3, PcStep, Zenon
<1>6. ASSUME Rotating' PROVE full'[k'] /\ active'[k'] # 0
  <2>1. ~Start
    BY <1>6, StartStep, Zenon DEF Rotating
  <2> QED BY <1>6, <2>1, RotationStep, Zenon DEF JobsInv
<1> QED BY <1>2, <1>3, <1>4, <1>5, <1>6, ZenonT(60) DEF JobsInv

(* What waits for the worker is outstanding, or about to be.               *)
LEMMA WaitingIsOutstanding ==
  ASSUME NEW s \in Stream, NEW n \in Stamp, Waiting(s, n)
  PROVE  Outstanding(s) \/ (pc = "enqueue" /\ s = k)
<1> DEFINE j == [stream |-> s, stamp |-> n]
<1>1. j.stream = s
  BY Zenon
<1>2. \/ \E m \in 1..Len(queue) : queue[m] = j
      \/ worker # "idle" /\ job = j
      \/ pc = "enqueue" /\ s = k
  BY Zenon DEF Waiting
<1> HIDE DEF j
<1> QED BY <1>1, <1>2, Zenon DEF Outstanding

(* A stream has no job while it is rotated.                                *)
LEMMA RotatedAlone ==
  ASSUME TypeInv, JobsInv, Rotating
  PROVE  /\ k \in Stream /\ ~Outstanding(k)
         /\ worker # "idle" => job.stream # k
         /\ \A n \in Stamp : ~Waiting(k, n)
<1>1. k \in Stream /\ ~Outstanding(k) /\ pc # "enqueue"
  BY Numbers, Zenon DEF JobsInv, Rotating
<1> QED BY <1>1, WaitingIsOutstanding, Zenon DEF Outstanding

(* What is pending stays so until it is published.                         *)
LEMMA PendingStep ==
  ASSUME Faults \subseteq {"crash", "gzclose"}, TypeInv, JobsInv, FreeInv,
         [Next]_vars, ~Start, ~Crash,
         NEW s \in Stream, NEW n \in Stamp, Pending(s, n), tmp[s][n] # 0
  PROVE  \/ Pending(s, n)' /\ tmp'[s][n] = tmp[s][n]
         \/ /\ Publish /\ compression_enabled /\ job.stream = s
            /\ gz'[s][1].gen = tmp[s][n]
<1> DEFINE j == [stream |-> s, stamp |-> n]
<1>1. job \in [stream : Stream, stamp : Stamp]
  BY Zenon DEF TypeInv, TypeOK, Job
<1>2. job.stream = s /\ job.stamp = n <=> job = j
  BY <1>1
<1>3. tmp'[s][n] = tmp[s][n]
  <2>1. RotateCurrent => s # k
    <3>1. RotateCurrent => Rotating
      BY Zenon DEF RotateCurrent, Rotating
    <3> QED BY <3>1, RotatedAlone, Zenon DEF Pending
  <2>2. RemoveOriginal => ~(job.stream = s /\ job.stamp = n)
    BY <1>2, Zenon DEF RemoveOriginal, Pending
  <2> QED BY <2>1, <2>2, TmpStep, Zenon
<1>4. Waiting(s, n)'
  BY <1>3, WaitingStep, Zenon DEF Pending
<1>5. CASE worker' = "remove" /\ job' = j
  <2>1. ~Take
    BY <1>5, Zenon DEF Take
  <2>2. job = j
    BY <1>5, <2>1, Frame, Zenon
  <2>3. worker # "remove"
    BY <2>2, Zenon DEF Pending
  <2>4. Publish
    BY <1>5, <2>1, <2>3, Frame, Zenon DEF Compress, CompressOpen, AfterGzopen, Deflate,
                                   RemoveOriginal
  <2>5. worker = "publish" /\ compression_enabled
    <3>1. worker = "publish"
      BY <2>4, Zenon DEF Publish
    <3>2. Outstanding(s)
      BY <1>2, <2>2, <3>1, Zenon DEF Outstanding
    <3> QED BY <3>1, <3>2, Zenon DEF JobsInv
  <2>6. gz' = [gz EXCEPT ![s][1] = tmpgz[s][n]] /\ tmpgz[s][n].gen = tmp[s][n]
    BY <1>2, <2>2, <2>4, <2>5, Zenon DEF Publish, MayFail, FreeInv
  <2>7. gz'[s][1] = tmpgz[s][n]
    BY <2>6, Constants, Zenon DEF TypeInv, TypeOK
  <2> QED BY <1>2, <2>2, <2>4, <2>5, <2>6, <2>7, Zenon
<1>6. CASE ~(worker' = "remove" /\ job' = j)
  BY <1>3, <1>4, <1>6, Zenon DEF Pending
<1> QED BY <1>5, <1>6, Zenon

(* Only a rotation makes a file pending.                                   *)
LEMMA NewPending ==
  ASSUME Faults \subseteq {"crash", "gzclose"}, TypeInv, JobsInv, [Next]_vars,
         NEW s \in Stream, NEW n \in Stamp, Pending(s, n)'
  PROVE  \/ Pending(s, n)
         \/ RotateCurrent /\ compression_enabled /\ s = k
<1> DEFINE j == [stream |-> s, stamp |-> n]
<1>1. /\ queue \in Seq(Job) /\ Len(queue) \in Nat /\ k \in Stream /\ stamp \in Nat
      /\ job \in [stream : Stream, stamp : Stamp]
  BY Numbers DEF TypeInv, TypeOK, Job
<1>2. /\ \/ \E m \in 1..Len(queue') : queue'[m] = j
         \/ worker' # "idle" /\ job' = j
         \/ pc' = "enqueue" /\ s = k' /\ n = stamp' - 1
      /\ ~(worker' = "remove" /\ job' = j)
  BY Zenon DEF Pending, Waiting
<1>3. j.stream = s /\ j.stamp = n
  BY Zenon
<1> HIDE DEF j
<1>4. \/ \E m \in 1..Len(queue) : queue[m] = j
      \/ worker # "idle" /\ job = j
      \/ pc = "enqueue" /\ s = k /\ n = stamp - 1
      \/ RotateCurrent /\ compression_enabled /\ s = k
  <2>1. CASE Enqueue
    <3>1. /\ queue' = Append(queue, [stream |-> k, stamp |-> stamp - 1])
          /\ UNCHANGED <<worker, job>> /\ pc = "enqueue" /\ pc' = "reopen"
      BY <2>1, Zenon DEF Enqueue, MayFail, workerVars
    <3> DEFINE new == [stream |-> k, stamp |-> stamp - 1]
    <3>2. queue' = Append(queue, new) /\ new.stream = k /\ new.stamp = stamp - 1
      BY <3>1, Zenon
    <3> HIDE DEF new
    <3>3. \A m \in 1..Len(queue') :
            queue'[m] = new \/ (m \in 1..Len(queue) /\ queue'[m] = queue[m])
      BY <1>1, <3>2
    <3> QED BY <1>2, <1>3, <3>1, <3>2, <3>3, Zenon
  <2>2. CASE Take
    <3>1. /\ queue # <<>> /\ job' = Head(queue) /\ queue' = Tail(queue)
          /\ UNCHANGED <<pc, k, stamp>>
      BY <2>2, Zenon DEF Take, PopJob, mainVars
    <3>2. /\ 1 \in 1..Len(queue) /\ job' = queue[1]
          /\ \A m \in 1..Len(queue') : m + 1 \in 1..Len(queue) /\ queue'[m] = queue[m + 1]
      BY <1>1, <3>1
    <3> QED BY <1>2, <3>1, <3>2, Zenon
  <2>3. CASE Crash
    BY <1>2, <2>3 DEF Crash
  <2>4. CASE Start
    BY <1>2, <2>4, Zenon DEF Start, workerVars, OpenForAppend
  <2>5. CASE ~Enqueue /\ ~Take /\ ~Crash /\ ~Start
    <3>1. UNCHANGED <<queue, job>>
      BY <2>5, Frame, Zenon
    <3>2. worker' # "idle" => worker # "idle"
      BY <2>5, Frame, Zenon DEF Compress, CompressOpen, Deflate, Publish, RemoveOriginal
    <3>3. pc' = "enqueue" => \/ RotateCurrent /\ compression_enabled /\ k' = k
                             \/ pc = "enqueue" /\ UNCHANGED <<k, stamp>>
      BY <2>5, PcStep, Zenon DEF RotateCurrent
    <3> QED BY <1>2, <3>1, <3>2, <3>3, Zenon
  <2> QED BY <2>1, <2>2, <2>3, <2>4, <2>5, Zenon
<1>5. CASE worker = "remove" /\ job = j
  <2>1. job.stream = s /\ Outstanding(s)
    BY <1>3, <1>5, Zenon DEF Outstanding
  <2>2. \A m \in 1..Len(queue) : queue[m] # j
    BY <1>3, <1>5, Zenon DEF JobsInv
  <2>3. ~(pc = "enqueue" /\ s = k) /\ ~(Rotating /\ s = k)
    BY <2>1, RotatedAlone, Zenon DEF JobsInv
  <2>4. ~Take /\ ~Start /\ ~Crash
    <3>1. ~Start /\ ~Take
      BY <1>5, <2>1, Zenon DEF Start, Take, JobsInv
    <3>2. ~Crash
      BY <1>2 DEF Crash
    <3> QED BY <3>1, <3>2, Zenon
  <2>5. job' = job
    BY <2>4, Frame, Zenon
  <2>6. worker' = "idle" /\ RemoveOriginal
    BY <1>2, <1>5, <2>4, <2>5, Frame, Zenon DEF Compress, CompressOpen, Deflate, Publish,
                                         RemoveOriginal
  <2>7. UNCHANGED <<queue, pc, k>>
    BY <2>6, Zenon DEF RemoveOriginal, mainVars
  <2> QED BY <1>2, <2>2, <2>3, <2>6, <2>7, Zenon
<1> QED BY <1>4, <1>5, Zenon DEF Pending, Waiting, j

(* The invariants of the jobs hold before the first execution.             *)
LEMMA InitJobs ==
  ASSUME Init
  PROVE  CurrentInv /\ JobsInv /\ FreeInv
<1>1. CurrentInv
  BY Zenon DEF Init, CurrentInv
<1>2. JobsInv
  <2>1. Len(queue) = 0 /\ worker = "idle" /\ pc = "down" /\ \A s \in Stream : ~full[s]
    BY Zenon DEF Init
  <2>2. ~Rotating /\ \A s \in Stream : ~Outstanding(s)
    BY <2>1 DEF Rotating, Outstanding
  <2> QED BY <2>1, <2>2 DEF JobsInv
<1>3. FreeInv
  <2>1. Len(queue) = 0 /\ worker = "idle" /\ pc = "down"
    BY Zenon DEF Init
  <2>2. \A s, n : ~Pending(s, n)
    BY <2>1 DEF Pending, Waiting
  <2> QED BY <2>1, <2>2, Zenon DEF FreeInv
<1> QED BY <1>1, <1>2, <1>3, Zenon

(* What the steps do to the numbered files that compression_enabled        *)
(* selects.                                                                *)
LEMMA HeldStep ==
  ASSUME Faults \subseteq {"crash", "gzclose"}, TypeInv, JobsInv, FreeInv,
         [Next]_vars, ~Start
  PROVE  /\ UnlinkOldestGz \/ UnlinkOldestPlain =>
              \A s \in Stream, n \in Slot :
                s # k \/ n # MaxFiles => Held(s, n)' = Held(s, n)
         /\ Shift =>
              /\ i \in 1..(MaxFiles - 1)
              /\ \A s \in Stream, n \in Slot :
                   Held(s, n)' = IF s = k /\ n = i + 1 THEN Held(k, i)
                                 ELSE IF s = k /\ n = i THEN 0 ELSE Held(s, n)
         /\ RotateCurrent =>
              \A s \in Stream, n \in Slot :
                Held(s, n)' = IF s = k /\ n = 1 /\ ~compression_enabled THEN active[k]
                              ELSE Held(s, n)
         /\ Publish =>
              /\ compression_enabled
              /\ \A s \in Stream, n \in Slot :
                   s # job.stream \/ n # 1 => Held(s, n)' = Held(s, n)
         /\ \/ UnlinkOldestGz \/ UnlinkOldestPlain \/ Shift \/ RotateCurrent \/ Publish
            \/ \A s \in Stream, n \in Slot : Held(s, n)' = Held(s, n)
<1>1. /\ compression_enabled' = compression_enabled /\ k \in Stream
      /\ i \in 0..(MaxFiles - 1) /\ compression_enabled \in BOOLEAN
  BY Frame, Zenon DEF TypeInv, TypeOK
<1>2. /\ gz \in [Stream -> [Slot -> Archive]] /\ plain \in [Stream -> [Slot -> Gen]]
      /\ active \in [Stream -> Gen] /\ None.gen = 0
  BY Constants, Zenon DEF TypeInv, TypeOK
<1>3. ASSUME UnlinkOldestGz
      PROVE  \A s \in Stream, n \in Slot :
               s # k \/ n # MaxFiles => Held(s, n)' = Held(s, n)
  <2>1. gz' = [gz EXCEPT ![k][MaxFiles] = None] /\ plain' = plain
    BY <1>3, Zenon DEF UnlinkOldestGz, MayFail
  <2>2. \A s \in Stream, n \in Slot : s # k \/ n # MaxFiles => gz'[s][n] = gz[s][n]
    BY <1>1, <1>2, <2>1, Zenon
  <2> QED BY <1>1, <2>1, <2>2 DEF Held
<1>4. ASSUME UnlinkOldestPlain
      PROVE  \A s \in Stream, n \in Slot :
               s # k \/ n # MaxFiles => Held(s, n)' = Held(s, n)
  <2>1. plain' = [plain EXCEPT ![k][MaxFiles] = 0] /\ gz' = gz
    BY <1>4, Zenon DEF UnlinkOldestPlain, MayFail
  <2>2. \A s \in Stream, n \in Slot : s # k \/ n # MaxFiles => plain'[s][n] = plain[s][n]
    BY <1>1, <1>2, <2>1, Zenon
  <2> QED BY <1>1, <2>1, <2>2, Zenon DEF Held
<1>5. ASSUME Shift
      PROVE  /\ i \in 1..(MaxFiles - 1)
             /\ \A s \in Stream, n \in Slot :
                  Held(s, n)' = IF s = k /\ n = i + 1 THEN Held(k, i)
                                ELSE IF s = k /\ n = i THEN 0 ELSE Held(s, n)
  <2>1. i \in 1..(MaxFiles - 1) /\ i \in Slot /\ i + 1 \in Slot /\ i + 1 # i
    BY <1>1, <1>5, MaxFilesAssumption DEF Shift, Slot
  <2>2. Held(k, i + 1) = 0
    BY <1>5, Zenon DEF Shift, FreeInv
  <2>3. ASSUME compression_enabled, NEW s \in Stream, NEW n \in Slot
        PROVE  Held(s, n)' = IF s = k /\ n = i + 1 THEN Held(k, i)
                             ELSE IF s = k /\ n = i THEN 0 ELSE Held(s, n)
    <3>1. CASE gz' = [gz EXCEPT ![k][i + 1] = gz[k][i], ![k][i] = None]
      <4>1. gz'[s][n] = IF s = k /\ n = i + 1 THEN gz[k][i]
                        ELSE IF s = k /\ n = i THEN None ELSE gz[s][n]
        BY <1>1, <1>2, <2>1, <3>1, Zenon
      <4> QED BY <1>1, <1>2, <2>1, <2>3, <4>1, Zenon DEF Held
    <3>2. CASE gz' = gz /\ gz[k][i] = None
      BY <1>1, <1>2, <2>2, <2>3, <3>2, ZenonT(60) DEF Held
    <3> QED BY <1>5, <2>3, <3>1, <3>2, Zenon DEF Shift, ShiftGz, ShiftPlain, MayFail
  <2>4. ASSUME ~compression_enabled, NEW s \in Stream, NEW n \in Slot
        PROVE  Held(s, n)' = IF s = k /\ n = i + 1 THEN Held(k, i)
                             ELSE IF s = k /\ n = i THEN 0 ELSE Held(s, n)
    <3>1. CASE plain' = [plain EXCEPT ![k][i + 1] = plain[k][i], ![k][i] = 0]
      <4>1. plain'[s][n] = IF s = k /\ n = i + 1 THEN plain[k][i]
                           ELSE IF s = k /\ n = i THEN 0 ELSE plain[s][n]
        BY <1>1, <1>2, <2>1, <3>1, Zenon
      <4> QED BY <1>1, <1>2, <2>1, <2>4, <4>1, Zenon DEF Held
    <3>2. CASE plain' = plain /\ plain[k][i] = 0
      BY <1>1, <1>2, <2>2, <2>4, <3>2, Zenon DEF Held
    <3> QED BY <1>5, <2>4, <3>1, <3>2, Zenon DEF Shift, ShiftGz, ShiftPlain, MayFail
  <2> QED BY <1>5, <2>1, <2>3, <2>4, Zenon
<1>6. ASSUME RotateCurrent
      PROVE  \A s \in Stream, n \in Slot :
               Held(s, n)' = IF s = k /\ n = 1 /\ ~compression_enabled THEN active[k]
                             ELSE Held(s, n)
  <2>1. /\ gz' = gz
        /\ IF compression_enabled THEN plain' = plain
                                  ELSE plain' = [plain EXCEPT ![k][1] = active[k]]
    BY <1>6, Zenon DEF RotateCurrent, MoveCurrent, MayFail
  <2>2. CASE compression_enabled
    BY <1>1, <2>1, <2>2, Zenon DEF Held
  <2>3. CASE ~compression_enabled
    <3>1. \A s \in Stream, n \in Slot :
            plain'[s][n] = IF s = k /\ n = 1 THEN active[k] ELSE plain[s][n]
      BY <1>1, <1>2, <2>1, <2>3
    <3> QED BY <1>1, <1>6, <2>3, <3>1, Zenon DEF Held
  <2> QED BY <2>2, <2>3, Zenon
<1>7. ASSUME Publish
      PROVE  /\ compression_enabled
             /\ \A s \in Stream, n \in Slot :
                  s # job.stream \/ n # 1 => Held(s, n)' = Held(s, n)
  <2>1. /\ gz' = [gz EXCEPT ![job.stream][1] = tmpgz[job.stream][job.stamp]]
        /\ plain' = plain /\ worker # "idle"
    BY <1>7, Zenon DEF Publish, MayFail
  <2>2. \A s \in Stream, n \in Slot : s # job.stream \/ n # 1 => gz'[s][n] = gz[s][n]
    BY <1>2, <2>1, Zenon
  <2>3. compression_enabled
    <3>1. job.stream \in Stream /\ Outstanding(job.stream)
      BY <2>1, Numbers, Zenon DEF Outstanding
    <3> QED BY <3>1, Zenon DEF JobsInv
  <2> QED BY <1>1, <1>7, <2>2, <2>3, Zenon DEF Held
<1>8. ASSUME ~UnlinkOldestGz /\ ~UnlinkOldestPlain /\ ~Shift /\ ~RotateCurrent /\ ~Publish
      PROVE  \A s \in Stream, n \in Slot : Held(s, n)' = Held(s, n)
  BY <1>1, <1>8, Frame, Zenon DEF Held
<1> QED BY <1>3, <1>4, <1>5, <1>6, <1>7, <1>8, Zenon

(* The slots that the renames go to stay free.                             *)
LEMMA StepFree ==
  ASSUME Faults \subseteq {"crash", "gzclose"}, TypeInv, CurrentInv, JobsInv,
         FreeInv, [Next]_vars
  PROVE  FreeInv'
<1>1. /\ job.stream \in Stream /\ job.stamp \in Stamp /\ k \in Stream
      /\ i \in 0..(MaxFiles - 1) /\ compression_enabled \in BOOLEAN
  BY Numbers, Zenon DEF TypeInv, TypeOK
<1>2. worker # "idle" /\ Rotating => job.stream # k
  BY RotatedAlone, Zenon
<1>3. ASSUME worker' \in {"deflate", "publish"}
      PROVE  /\ job' = job
             /\ tmpgz'[job.stream][job.stamp].gen = tmp'[job.stream][job.stamp]
  <2>1. job' = job
    BY <1>3, Frame, SMTT(30) DEF Take
  <2>2. worker \in {"open", "deflate", "publish"}
    BY <1>3, Frame, Zenon DEF Compress, Take, CompressOpen, AfterGzopen, Deflate, Publish,
                       RemoveOriginal, Crash
  <2>3. tmp'[job.stream][job.stamp] = tmp[job.stream][job.stamp]
    BY <1>1, <1>2, <2>2, TmpStep, Zenon DEF RemoveOriginal, RotateCurrent, Rotating
  <2>4. CASE CompressOpen
    <3>1. worker' # "idle"
      BY <1>3, Zenon
    <3>2. tmpgz' = [tmpgz EXCEPT ![job.stream][job.stamp] =
                      [gen |-> tmp[job.stream][job.stamp], whole |-> FALSE]]
      BY <2>4, <3>1, Zenon DEF CompressOpen
    <3>3. tmpgz \in [Stream -> [Stamp -> Archive]]
      BY Zenon DEF TypeInv, TypeOK
    <3>4. tmpgz'[job.stream][job.stamp].gen = tmp[job.stream][job.stamp]
      BY <1>1, <3>2, <3>3, Zenon
    <3> QED BY <2>1, <2>3, <3>4, Zenon
  <2>5. CASE ~CompressOpen
    <3>1. worker \in {"deflate", "publish"} /\ ~Publish
      BY <1>3, <2>2, <2>5, Frame, Zenon DEF Compress, Take, Deflate, Publish, RemoveOriginal,
                                     Crash
    <3>2. tmpgz'[job.stream][job.stamp].gen = tmpgz[job.stream][job.stamp].gen
      BY <2>5, <3>1, TmpgzStep, Zenon
    <3>3. tmpgz[job.stream][job.stamp].gen = tmp[job.stream][job.stamp]
      BY <3>1, Zenon DEF FreeInv
    <3> QED BY <2>1, <2>3, <3>2, <3>3, Zenon
  <2> QED BY <2>4, <2>5, Zenon
<1>4. ASSUME NEW s \in Stream, NEW n \in Stamp, Pending(s, n)'
      PROVE  gz'[s][1].gen = 0
  <2>1. CASE RotateCurrent /\ compression_enabled /\ s = k
    <3>1. pc = "shift" /\ i = 0 /\ gz' = gz
      BY <2>1, Zenon DEF RotateCurrent
    <3>2. Held(k, 1) = 0
      BY <3>1 DEF FreeInv
    <3> QED BY <2>1, <3>1, <3>2, Zenon DEF Held
  <2>2. CASE Pending(s, n)
    <3>1. gz[s][1].gen = 0
      BY <2>2, Zenon DEF FreeInv
    <3>2. ~(Publish /\ s = job.stream)
      <4> SUFFICES ASSUME Publish, s = job.stream PROVE FALSE
        BY Zenon
      <4>1. worker' = "remove" /\ UNCHANGED <<job, queue, pc, k, stamp>> /\ worker # "idle"
        BY Zenon DEF Publish, MayFail, mainVars
      <4> DEFINE j == [stream |-> s, stamp |-> n]
      <4>2. j.stream = s
        BY Zenon
      <4>3. /\ \/ \E m \in 1..Len(queue) : queue[m] = j
               \/ pc = "enqueue" /\ s = k
        BY <1>4, <4>1, Zenon DEF Pending, Waiting
      <4> HIDE DEF j
      <4>4. Outstanding(s)
        BY <4>1, Zenon DEF Outstanding
      <4>5. ~(pc = "enqueue" /\ s = k)
        BY <4>4, Zenon DEF JobsInv
      <4>6. \A m \in 1..Len(queue) : queue[m].stream # s
        BY <4>1, Zenon DEF JobsInv
      <4> QED BY <4>2, <4>3, <4>5, <4>6, Zenon
    <3>3. (1 \in Slot /\ i + 1 # 1) \/ i \notin 1..(MaxFiles - 1)
      BY <1>1, Constants
    <3> QED BY <1>1, <3>1, <3>2, <3>3, GzStep, Constants
  <2> QED BY <1>4, <2>1, <2>2, NewPending, Zenon
<1>5. ASSUME pc' = "plain_oldest", compression_enabled'
      PROVE  gz'[k'][MaxFiles].gen = 0
  <2>1. ~Start
    BY <1>5, StartStep, Zenon
  <2>2. UNCHANGED <<k, compression_enabled>>
    BY <1>5, <2>1, RotationStep, Frame, Zenon DEF Rotating
  <2>3. CASE UnlinkOldestGz
    <3>1. gz' = [gz EXCEPT ![k][MaxFiles] = None]
      BY <2>3, Zenon DEF UnlinkOldestGz, MayFail
    <3>2. gz'[k][MaxFiles] = None
      BY <1>1, <3>1, Constants, Zenon DEF TypeInv, TypeOK
    <3> QED BY <2>2, <3>2, Constants, Zenon
  <2>4. CASE pc = "plain_oldest"
    <3>1. gz[k][MaxFiles].gen = 0
      BY <1>5, <2>2, <2>4, Zenon DEF FreeInv
    <3>2. ~Shift /\ ~UnlinkOldestGz
      BY <2>4, Zenon DEF Shift, UnlinkOldestGz
    <3>3. Publish => job.stream # k
      BY <1>2, <2>4, Zenon DEF Publish, Rotating
    <3>4. gz'[k][MaxFiles].gen = 0
      <4>1. CASE UNCHANGED gz
        BY <3>1, <4>1, Zenon
      <4>2. CASE Publish
        <5>1. gz' = [gz EXCEPT ![job.stream][1] = tmpgz[job.stream][job.stamp]]
          BY <4>2, Zenon DEF Publish, MayFail
        <5>2. gz'[k] = gz[k]
          BY <1>1, <3>3, <4>2, <5>1, Zenon DEF TypeInv, TypeOK
        <5> QED BY <3>1, <5>2, Zenon
      <4> QED BY <3>2, <4>1, <4>2, Frame, Zenon
    <3> QED BY <2>2, <3>4, Zenon
  <2> QED BY <1>5, <2>1, <2>3, <2>4, RotationStep, Zenon
<1>6. ASSUME pc' = "shift" PROVE (Held(k, i + 1) = 0)'
  <2>1. ~Start
    BY <1>6, StartStep, Zenon
  <2>2. UNCHANGED <<k, compression_enabled>>
    BY <1>6, <2>1, RotationStep, Frame, Zenon DEF Rotating
  <2>3. CASE UnlinkOldestPlain
    <3>1. /\ plain' = [plain EXCEPT ![k][MaxFiles] = 0] /\ gz' = gz
          /\ pc = "plain_oldest" /\ i' = MaxFiles - 1
      BY <2>3, Zenon DEF UnlinkOldestPlain, MayFail, LoopStart
    <3>2. i' + 1 = MaxFiles
      BY <3>1, MaxFilesAssumption
    <3>3. plain'[k][MaxFiles] = 0
      BY <1>1, <3>1, Constants, Zenon DEF TypeInv, TypeOK
    <3>4. compression_enabled => gz[k][MaxFiles].gen = 0
      BY <3>1, Zenon DEF FreeInv
    <3> QED BY <2>2, <3>1, <3>2, <3>3, <3>4, Zenon DEF Held
  <2>4. CASE Shift
    <3>1. i' = i - 1 /\ i >= 1
      BY <2>4, Zenon DEF Shift
    <3>2. i' + 1 = i /\ i \in Slot /\ i # i + 1
      BY <1>1, <3>1, MaxFilesAssumption DEF Slot
    <3>3. PICK r \in Stream, n \in Slot : r = k /\ n = i
      BY <1>1, <3>2, Zenon
    <3>4. Held(r, n)' = 0
      BY <2>1, <2>4, <3>2, <3>3, HeldStep, Zenon
    <3> QED BY <2>2, <3>2, <3>3, <3>4, Zenon DEF Held
  <2>5. CASE pc = "shift" /\ UNCHANGED <<i, plain>>
    <3>1. Held(k, i + 1) = 0 /\ i + 1 \in Slot
      BY <1>1, <2>5, MaxFilesAssumption DEF FreeInv, Slot
    <3>2. PICK r \in Stream, n \in Slot : r = k /\ n = i + 1
      BY <1>1, <3>1, Zenon
    <3>3. Held(r, n)' = Held(r, n)
      <4>1. ~UnlinkOldestGz /\ ~UnlinkOldestPlain
        BY <2>5, Zenon DEF UnlinkOldestGz, UnlinkOldestPlain
      <4>2. ~Shift
        BY <1>1, <2>5 DEF Shift
      <4>3. ~RotateCurrent
        BY <1>6, Zenon DEF RotateCurrent
      <4>4. Publish => job.stream # k
        BY <1>2, <2>5, Zenon DEF Publish, Rotating
      <4> QED BY <2>1, <3>2, <4>1, <4>2, <4>3, <4>4, HeldStep, Zenon
    <3> QED BY <2>2, <2>5, <3>1, <3>2, <3>3, Zenon DEF Held
  <2> QED BY <1>6, <2>1, <2>3, <2>4, <2>5, RotationStep, Zenon
<1> QED BY <1>3, <1>4, <1>5, <1>6, Zenon DEF FreeInv

(* The age of what was rotated away grows when the current file is.        *)
LEMMA NewestStep ==
  ASSUME Faults \subseteq {"crash", "gzclose"}, TypeInv, CurrentInv, JobsInv,
         [Next]_vars, NEW s \in Stream
  PROVE  /\ Newest(s) \in Nat
         /\ Newest(s)' = IF RotateCurrent /\ s = k THEN Newest(s) + 1 ELSE Newest(s)
         /\ RotateCurrent /\ s = k => Newest(s) = active[s]
<1>1. /\ active \in [Stream -> Nat] /\ gen \in [Stream -> Nat] /\ k \in Stream
      /\ active[s] \in {0, gen[s]}
  BY Numbers, Zenon DEF CurrentInv
<1>2. CASE RotateCurrent
  <2>1. /\ active' = [active EXCEPT ![k] = 0] /\ gen' = gen /\ Rotating
    BY <1>2, Zenon DEF RotateCurrent, MoveCurrent, MayFail, Rotating
  <2>2. active[k] # 0
    BY <2>1, Zenon DEF JobsInv
  <2> QED BY <1>1, <1>2, <2>1, <2>2 DEF Newest
<1>3. CASE ~RotateCurrent
  BY <1>1, <1>3, GenStep DEF Newest
<1> QED BY <1>2, <1>3, Zenon
=============================================================================
