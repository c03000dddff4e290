-------------------------- MODULE LogRotation_loss --------------------------
(***************************************************************************)
(* How many rotated files there are, and how many of them a kill of the    *)
(* program costs, for any number of streams and files.                     *)
(***************************************************************************)
EXTENDS LogRotation_jobs, FiniteSetTheorems

(* The first execution writes rotated files of one kind, and knows all of  *)
(* its temporary ones.                                                     *)
OneKind ==
  /\ runs = 0 => ~compression_enabled /\ \A s \in Stream, n \in Slot : plain[s][n] = 0
  /\ compression_enabled => \A s \in Stream, n \in Slot : plain[s][n] = 0
  /\ ~compression_enabled =>
       /\ pc # "enqueue" /\ queue = <<>> /\ worker = "idle"
       /\ \A s \in Stream, n \in Slot : gz[s][n] = None
       /\ \A s \in Stream, n \in Stamp : tmp[s][n] = 0
  /\ \A s \in Stream, n \in Stamp : tmp[s][n] # 0 => Waiting(s, n)

FirstRunInv ==
  /\ runs = 0 => pc = "down"
  /\ runs <= 1 /\ pc # "killed" => OneKind

(* Rotation and compression keep to one kind of rotated file.              *)
LEMMA StepFirstRun ==
  ASSUME Faults \subseteq {"crash", "gzclose"}
  PROVE  TypeInv /\ FirstRunInv /\ [Next]_vars => FirstRunInv'
<1> SUFFICES ASSUME TypeInv, FirstRunInv, [Next]_vars PROVE FirstRunInv'
  BY Zenon
<1>1. /\ runs \in Nat /\ job.stream \in Stream /\ compression_enabled \in BOOLEAN
      /\ k \in Stream
  BY BoundsAssumption DEF TypeInv, TypeOK, Job
<1>2. CASE Start
  <2>1. runs' = runs + 1 /\ pc \in {"down", "killed"}
    BY <1>2, Zenon DEF Start
  <2>2. /\ pc' = "idle" /\ UNCHANGED <<plain, gz, tmp, queue, worker, job>>
    BY <1>2, StreamsAssumption, SMTT(30) DEF Start, MayFail, Stream, workerVars
  <2>3. CASE runs = 0
    <3>1. OneKind /\ pc = "down"
      BY <1>1, <2>3, SMTT(30) DEF FirstRunInv
    <3>2. /\ \A s \in Stream, n \in Slot : plain'[s][n] = 0 /\ gz'[s][n] = None
          /\ \A s \in Stream, n \in Stamp : tmp'[s][n] = 0
          /\ queue' = <<>> /\ worker' = "idle"
      BY <2>2, <2>3, <3>1, Zenon DEF OneKind
    <3> QED BY <1>1, <2>1, <2>2, <3>2 DEF FirstRunInv, OneKind
  <2> QED BY <1>1, <2>1, <2>3 DEF FirstRunInv
<1>3. CASE ~Start
  <2>1. UNCHANGED <<runs, compression_enabled>>
    BY <1>3, Frame, Zenon
  <2>2. runs' = 0 => pc' = "down"
    BY <1>3, <2>1, PcStep, Zenon DEF FirstRunInv
  <2>3. ASSUME runs' <= 1, pc' # "killed" PROVE OneKind'
    <3>1. OneKind /\ ~Crash
      BY <1>3, <2>1, <2>3, PcStep, Zenon DEF FirstRunInv, Crash
    <3>2. ASSUME runs = 0 \/ compression_enabled, NEW s \in Stream, NEW n \in Slot
          PROVE  plain'[s][n] = 0
      <4>1. \A r \in Stream, m \in Slot : plain[r][m] = 0
        BY <3>1, <3>2, Zenon DEF OneKind
      <4>2. RotateCurrent => plain' = plain
        BY <3>1, <3>2, Zenon DEF RotateCurrent, MoveCurrent, MayFail, FirstRunInv
      <4> QED BY <1>1, <4>1, <4>2, PlainStep, Constants, SMTT(30)
    <3>3. ASSUME ~compression_enabled
          PROVE  /\ pc' # "enqueue" /\ queue' = <<>> /\ worker' = "idle"
                 /\ \A s \in Stream, n \in Slot : gz'[s][n] = None
                 /\ \A s \in Stream, n \in Stamp : tmp'[s][n] = 0
      <4>1. /\ pc # "enqueue" /\ queue = <<>> /\ worker = "idle"
            /\ \A s \in Stream, n \in Slot : gz[s][n] = None
            /\ \A s \in Stream, n \in Stamp : tmp[s][n] = 0
        BY <3>1, <3>3, Zenon DEF OneKind
      <4>2. ~Enqueue /\ ~Take /\ ~CompressOpen /\ ~Deflate /\ ~Publish /\ ~RemoveOriginal
        BY <4>1, SMTT(30) DEF Enqueue, Take, CompressOpen, Deflate, Publish, RemoveOriginal
      <4>3. UNCHANGED <<queue, worker, tmp>> /\ pc' # "enqueue"
        BY <1>3, <3>1, <3>3, <4>1, <4>2, Frame, PcStep, TmpStep, SMTT(30) DEF Compress
      <4>4. \A s \in Stream, n \in Slot : gz'[s][n] = None
        BY <1>1, <4>1, <4>2, GzStep, Constants, SMTT(30)
      <4> QED BY <4>1, <4>3, <4>4, SMTT(30)
    <3>4. ASSUME NEW s \in Stream, NEW n \in Stamp, tmp'[s][n] # 0
          PROVE  Waiting(s, n)'
      <4>1. tmp[s][n] # 0 => Waiting(s, n)
        BY <3>1, Zenon DEF OneKind
      <4> QED BY <1>3, <3>1, <3>4, <4>1, WaitingStep, Zenon
    <3>5. runs = 0 => ~compression_enabled
      BY <3>1, SMTT(30) DEF OneKind
    <3> QED BY <2>1, <3>2, <3>3, <3>4, <3>5, ZenonT(60) DEF OneKind
  <2> QED BY <2>2, <2>3, Zenon DEF FirstRunInv
<1> QED BY <1>2, <1>3, Zenon

(* The rotated files of a stream are no more than its numbers.             *)
LEMMA FewFiles ==
  ASSUME TypeInv, FirstRunInv
  PROVE  FilesBounded
<1> SUFFICES ASSUME runs = 1, pc = "idle", queue = <<>>, worker = "idle",
                    NEW s \in Stream
             PROVE  Cardinality(RotatedFiles(s)) <= MaxFiles
  BY Zenon DEF FilesBounded
<1>1. OneKind
  BY SMTT(30) DEF FirstRunInv
<1>2. \A n \in Stamp : tmp[s][n] = 0
  <2>1. \A n \in Stamp : ~Waiting(s, n)
    BY DEF Waiting
  <2> QED BY <1>1, <2>1, Zenon DEF OneKind
<1>3. IsFiniteSet(Slot) /\ Cardinality(Slot) = MaxFiles
  BY FS_Interval, MaxFilesAssumption, SMTT(30) DEF Slot
<1>4. PICK kind : RotatedFiles(s) \subseteq {<<kind, n>> : n \in Slot}
  <2>1. CASE compression_enabled
    <3>1. \A n \in Slot : plain[s][n] = 0
      BY <1>1, <2>1, Zenon DEF OneKind
    <3>2. RotatedFiles(s) \subseteq {<<"gz", n>> : n \in Slot}
      BY <1>2, <3>1, Zenon DEF RotatedFiles
    <3> QED BY <3>2, SMTT(30)
  <2>2. CASE ~compression_enabled
    <3>1. \A n \in Slot : gz[s][n] = None
      BY <1>1, <2>2, SMTT(30) DEF OneKind
    <3>2. RotatedFiles(s) \subseteq {<<"plain", n>> : n \in Slot}
      BY <1>2, <3>1, SMTT(30) DEF RotatedFiles
    <3> QED BY <3>2, SMTT(30)
  <2> QED BY <2>1, <2>2, ZenonT(60)
<1> DEFINE f == [n \in Slot |-> <<kind, n>>]
           I == {f[n] : n \in Slot}
<1>5. RotatedFiles(s) \subseteq I
  BY <1>4, Zenon
<1>6. f \in Surjection(Slot, I)
  BY SMTT(30) DEF Surjection
<1>7. IsFiniteSet(I) /\ Cardinality(I) <= Cardinality(Slot)
  BY <1>3, <1>6, FS_Surjection, SMTT(30)
<1>8. Cardinality(RotatedFiles(s)) <= Cardinality(I) /\ IsFiniteSet(RotatedFiles(s))
  BY <1>5, <1>7, FS_Subset, Zenon
<1> QED BY <1>3, <1>7, <1>8, FS_CardinalityType, MaxFilesAssumption

(* In the first execution a stream never has more than max_number_of_files *)
(* rotated files once the worker has caught up.                            *)
THEOREM FilesAreFew ==
  ASSUME Faults \subseteq {"crash", "gzclose"} PROVE Spec => []FilesBounded
<1>1. Init => TypeInv /\ FirstRunInv
  BY InitTypeInv DEF Init, FirstRunInv, OneKind
<1>2. (TypeInv /\ FirstRunInv) /\ [Next]_vars => (TypeInv /\ FirstRunInv)'
  BY StepTypeInv, StepFirstRun, Zenon
<1>3. TypeInv /\ FirstRunInv => FilesBounded
  BY FewFiles, Zenon
<1> QED BY <1>1, <1>2, <1>3, PTL DEF Spec
-----------------------------------------------------------------------------
(* Up to the generations of T and those that e interrupted rotations have  *)
(* pushed beyond max_number_of_files, what was rotated away is there, and  *)
(* at a number that is at most e above its age.                            *)
Late(s) == IF Rotating /\ s = k THEN 1 ELSE 0

Shifted(s, n) == IF pc = "shift" /\ s = k /\ n > i THEN 1 ELSE 0

Covered(s, e, T) ==
  \A g \in 1..MaxGen :
    g < Newest(s) /\ g \notin T /\ Newest(s) - g + e + Late(s) <= MaxFiles =>
      \/ \E n \in Slot : Held(s, n) = g /\ n <= Newest(s) - g + e + Shifted(s, n)
      \/ \E n \in Stamp : Pending(s, n) /\ tmp[s][n] = g

LossInv ==
  ~switched => \A s \in Stream : \E e \in Nat, T \in SUBSET (1..MaxGen) :
    e + Cardinality(T) <= kills /\ Covered(s, e, T)

KInv == CurrentInv /\ JobsInv /\ FreeInv /\ LossInv

(* Except for kills and starts, no step loses anything that was covered.   *)
LEMMA StepCovered ==
  ASSUME Faults \subseteq {"crash", "gzclose"}, TypeInv, CurrentInv, JobsInv,
         FreeInv, [Next]_vars, ~Start, ~Crash,
         NEW s \in Stream, NEW e \in Nat, NEW T, Covered(s, e, T)
  PROVE  Covered(s, e, T)'
<1> SUFFICES ASSUME NEW g \in 1..MaxGen, g < Newest(s)', g \notin T,
                    Newest(s)' - g + e + Late(s)' <= MaxFiles
             PROVE  \/ \E n \in Slot : /\ Held(s, n)' = g
                                       /\ n <= Newest(s)' - g + e + Shifted(s, n)'
                    \/ \E n \in Stamp : Pending(s, n)' /\ tmp'[s][n] = g
  BY Zenon DEF Covered
<1>1. /\ k \in Stream /\ i \in 0..(MaxFiles - 1) /\ MaxFiles \in Nat /\ g \in Nat \ {0}
      /\ stamp \in Stamp /\ stamp \in Nat
  BY Numbers, MaxFilesAssumption DEF TypeInv, TypeOK
<1>2. /\ Newest(s) \in Nat
      /\ Newest(s)' = IF RotateCurrent /\ s = k THEN Newest(s) + 1 ELSE Newest(s)
      /\ RotateCurrent /\ s = k => Newest(s) = active[s]
  BY NewestStep, Zenon
<1>3. /\ Late(s) \in {0, 1} /\ Late(s)' \in {0, 1}
      /\ ~(RotateCurrent /\ s = k) => Late(s) <= Late(s)'
  <2>1. Late(s) \in {0, 1} /\ Late(s)' \in {0, 1}
    BY Zenon DEF Late
  <2>2. ASSUME ~(RotateCurrent /\ s = k), Rotating, s = k PROVE Rotating' /\ s = k'
    BY <2>2, RotationStep, Zenon
  <2> QED BY <2>1, <2>2 DEF Late
<1>4. CASE g = Newest(s)
  <2>1. RotateCurrent /\ s = k /\ active[s] = g /\ Newest(s)' = g + 1
    BY <1>1, <1>2, <1>4
  <2>2. CASE compression_enabled
    <3>1. /\ tmp' = [tmp EXCEPT ![k][stamp] = active[k]]
          /\ pc' = "enqueue" /\ k' = k /\ stamp' = stamp + 1 /\ UNCHANGED <<worker, job>>
      BY <2>1, <2>2, Zenon DEF RotateCurrent, MoveCurrent, MayFail, workerVars
    <3>2. tmp'[s][stamp] = g
      BY <1>1, <2>1, <3>1, Zenon DEF TypeInv, TypeOK
    <3>3. PICK n \in Stamp : n = stamp
      BY <1>1, Zenon
    <3>4. Pending(s, n)'
      <4>1. n = stamp' - 1
        BY <1>1, <3>1, <3>3
      <4>2. worker # "idle" => job.stream # s
        BY <2>1, RotatedAlone, Zenon DEF RotateCurrent, Rotating
      <4>3. worker # "idle" => job # [stream |-> s, stamp |-> n]
        BY <4>2
      <4> QED BY <2>1, <3>1, <4>1, <4>3, Zenon DEF Pending, Waiting
    <3> QED BY <3>2, <3>3, <3>4, Zenon
  <2>3. CASE ~compression_enabled
    <3>1. Held(s, 1)' = g
      BY <2>1, <2>3, HeldStep, Constants, Zenon
    <3>2. Shifted(s, 1)' \in {0, 1}
      BY Zenon DEF Shifted
    <3>3. 1 <= Newest(s)' - g + e + Shifted(s, 1)'
      BY <1>1, <2>1, <3>2
    <3> QED BY <3>1, <3>3, Constants, Zenon
  <2> QED BY <2>2, <2>3, Zenon
<1>5. CASE g # Newest(s)
  <2>1. g < Newest(s) /\ Newest(s) - g + e + Late(s) <= MaxFiles
    BY <1>1, <1>2, <1>3, <1>5
  <2>2. CASE \E n \in Slot : Held(s, n) = g /\ n <= Newest(s) - g + e + Shifted(s, n)
    <3>1. PICK n \in Slot : Held(s, n) = g /\ n <= Newest(s) - g + e + Shifted(s, n)
      BY <2>2, Zenon
    <3>2. n \in Nat /\ Shifted(s, n) \in {0, 1} /\ Shifted(s, n)' \in {0, 1}
      BY DEF Slot, Shifted
    <3>3. CASE UnlinkOldestGz \/ UnlinkOldestPlain
      <4>1. pc # "shift" /\ Rotating /\ Rotating' /\ k' = k /\ ~RotateCurrent
        BY <3>3, Zenon DEF UnlinkOldestGz, UnlinkOldestPlain, Rotating, RotateCurrent
      <4>2. Shifted(s, n) = 0
        BY <4>1, Zenon DEF Shifted
      <4>3. s = k => n # MaxFiles
        <5>1. s = k => Late(s) = 1
          BY <4>1, Zenon DEF Late
        <5> QED BY <1>1, <1>2, <2>1, <3>1, <3>2, <4>2, <5>1
      <4>4. Held(s, n)' = g
        BY <3>1, <3>3, <4>3, HeldStep, Zenon
      <4>5. n <= Newest(s)' - g + e + Shifted(s, n)'
        BY <1>1, <1>2, <3>1, <3>2, <4>1, <4>2
      <4> QED BY <4>4, <4>5, Zenon
    <3>4. CASE Shift
      <4>1. /\ pc = "shift" /\ pc' = "shift" /\ k' = k /\ i' = i - 1 /\ ~RotateCurrent
            /\ Held(k, i + 1) = 0
        BY <1>1, <3>4, Zenon DEF Shift, RotateCurrent, FreeInv
      <4>2. /\ i \in 1..(MaxFiles - 1)
            /\ \A m \in Slot :
                 Held(s, m)' = IF s = k /\ m = i + 1 THEN Held(k, i)
                               ELSE IF s = k /\ m = i THEN 0 ELSE Held(s, m)
        BY <3>4, HeldStep, Zenon
      <4>3. CASE s = k /\ n = i
        <5>1. i + 1 \in Slot /\ Shifted(s, i) = 0
          BY <1>1, <4>2 DEF Slot, Shifted
        <5>2. PICK m \in Slot : m = i + 1
          BY <5>1, Zenon
        <5>3. Shifted(s, m)' = 1
          BY <1>1, <4>1, <4>3, <5>2 DEF Shifted
        <5>4. m <= Newest(s)' - g + e + Shifted(s, m)'
          BY <1>1, <1>2, <3>1, <4>1, <4>3, <5>1, <5>2, <5>3
        <5>5. Held(s, m)' = g
          BY <3>1, <4>2, <4>3, <5>2, Zenon
        <5> QED BY <5>4, <5>5, Zenon
      <4>4. CASE ~(s = k /\ n = i)
        <5>1. ~(s = k /\ n = i + 1)
          BY <1>1, <3>1, <4>1, Zenon
        <5>2. Held(s, n)' = g
          BY <3>1, <4>2, <4>4, <5>1, Zenon
        <5>3. Shifted(s, n) <= Shifted(s, n)'
          BY <1>1, <3>2, <4>1 DEF Shifted
        <5>4. n <= Newest(s)' - g + e + Shifted(s, n)'
          BY <1>1, <1>2, <3>1, <3>2, <4>1, <5>3
        <5> QED BY <5>2, <5>4, Zenon
      <4> QED BY <4>3, <4>4, Zenon
    <3>5. CASE ~UnlinkOldestGz /\ ~UnlinkOldestPlain /\ ~Shift
      <4>1. Held(s, n)' = g
        <5>1. CASE RotateCurrent
          <6>1. pc = "shift" /\ i + 1 = 1
            BY <5>1 DEF RotateCurrent
          <6>2. Held(k, 1) = 0
            BY <6>1, Zenon DEF FreeInv
          <6>3. ~(s = k /\ n = 1)
            BY <1>1, <3>1, <6>2, Zenon
          <6> QED BY <3>1, <5>1, <6>3, HeldStep, Zenon
        <5>2. CASE Publish
          <6>1. worker = "publish" /\ compression_enabled
            BY <5>2, HeldStep, Zenon DEF Publish
          <6>2. Pending(job.stream, job.stamp) /\ job.stream \in Stream /\ job.stamp \in Stamp
            BY <6>1, Numbers, Zenon DEF Pending, Waiting, TypeInv, TypeOK, Job
          <6>3. gz[job.stream][1].gen = 0
            BY <6>2, Zenon DEF FreeInv
          <6>4. ~(s = job.stream /\ n = 1)
            BY <1>1, <3>1, <6>1, <6>3, Zenon DEF Held
          <6> QED BY <3>1, <5>2, <6>4, HeldStep, Zenon
        <5> QED BY <3>1, <3>5, <5>1, <5>2, HeldStep, Zenon
      <4>2. Newest(s) + Shifted(s, n) <= Newest(s)' + Shifted(s, n)'
        <5>1. CASE RotateCurrent /\ s = k
          BY <1>2, <3>2, <5>1
        <5>2. CASE ~(RotateCurrent /\ s = k) /\ pc = "shift" /\ s = k
          <6>1. Rotating' /\ k' = k /\ pc' = "shift" /\ i' = i
            <7>1. Rotating' /\ k' = k
              BY <5>2, RotationStep, Zenon DEF Rotating
            <7>2. pc' = "shift"
              BY <3>5, <5>2, <7>1, RotationStep, Zenon DEF Rotating, CheckSize, UnlinkOldestGz
            <7> QED BY <3>5, <7>1, <7>2, RotationStep, Zenon
          <6> QED BY <1>2, <5>2, <6>1 DEF Shifted
        <5>3. CASE ~(pc = "shift" /\ s = k)
          <6>1. Shifted(s, n) = 0
            BY <5>3, Zenon DEF Shifted
          <6> QED BY <1>2, <3>2, <6>1
        <5> QED BY <5>1, <5>2, <5>3, Zenon
      <4>3. n <= Newest(s)' - g + e + Shifted(s, n)'
        BY <1>1, <1>2, <3>1, <3>2, <4>2
      <4> QED BY <4>1, <4>3, Zenon
    <3> QED BY <3>3, <3>4, <3>5, Zenon
  <2>3. CASE \E n \in Stamp : Pending(s, n) /\ tmp[s][n] = g
    <3>1. PICK n \in Stamp : Pending(s, n) /\ tmp[s][n] = g
      BY <2>3, Zenon
    <3>2. tmp[s][n] # 0
      BY <1>1, <3>1, Zenon
    <3>3. CASE Pending(s, n)' /\ tmp'[s][n] = tmp[s][n]
      BY <3>1, <3>3, Zenon
    <3>4. CASE Publish /\ compression_enabled /\ gz'[s][1].gen = tmp[s][n]
      <4>1. Held(s, 1)' = g
        BY <3>1, <3>4, Frame, Zenon DEF Held
      <4>2. Shifted(s, 1)' \in {0, 1}
        BY Zenon DEF Shifted
      <4>3. ~RotateCurrent
        BY <3>4, Zenon DEF Publish, RotateCurrent, workerVars, MayFail
      <4>4. 1 <= Newest(s)' - g + e + Shifted(s, 1)'
        BY <1>1, <1>2, <2>1, <4>2, <4>3
      <4> QED BY <4>1, <4>4, Constants, Zenon
    <3> QED BY <3>1, <3>2, <3>3, <3>4, PendingStep, Zenon
  <2> QED BY <2>1, <2>2, <2>3, Zenon DEF Covered
<1> QED BY <1>4, <1>5, Zenon

(* A stream has at most one pending file.                                  *)
LEMMA OnePending ==
  ASSUME TypeInv, JobsInv, NEW s \in Stream, NEW m \in Stamp, NEW n \in Stamp,
         Waiting(s, m), Waiting(s, n)
  PROVE  m = n
<1> DEFINE a == [stream |-> s, stamp |-> m]
           b == [stream |-> s, stamp |-> n]
<1>1. a.stream = s /\ b.stream = s /\ (a = b => m = n)
  BY Zenon
<1>2. /\ \/ \E x \in 1..Len(queue) : queue[x] = a
         \/ worker # "idle" /\ job = a
         \/ pc = "enqueue" /\ s = k /\ m = stamp - 1
      /\ \/ \E x \in 1..Len(queue) : queue[x] = b
         \/ worker # "idle" /\ job = b
         \/ pc = "enqueue" /\ s = k /\ n = stamp - 1
  BY Zenon DEF Waiting
<1> HIDE DEF a, b
<1>3. CASE Outstanding(s)
  <2>1. ~(pc = "enqueue" /\ s = k)
    BY <1>3, Zenon DEF JobsInv
  <2> QED BY <1>1, <1>2, <2>1, Zenon DEF JobsInv
<1>4. CASE ~Outstanding(s)
  BY <1>1, <1>2, <1>4, Zenon DEF Outstanding
<1> QED BY <1>3, <1>4, Zenon

(* Sets of generations are finite.                                         *)
LEMMA GenSets ==
  ASSUME NEW T \in SUBSET (1..MaxGen)
  PROVE  IsFiniteSet(T) /\ Cardinality(T) \in Nat
<1>1. IsFiniteSet(1..MaxGen)
  BY FS_Interval, BoundsAssumption
<1>2. IsFiniteSet(T)
  BY <1>1, FS_Subset, Zenon
<1> QED BY <1>2, FS_CardinalityType, Zenon

(* A kill costs a stream one file.                                         *)
LEMMA CrashCovered ==
  ASSUME TypeInv, CurrentInv, JobsInv, Crash, [Next]_vars,
         NEW s \in Stream, NEW e \in Nat, NEW T \in SUBSET (1..MaxGen), Covered(s, e, T)
  PROVE  \E f \in Nat, U \in SUBSET (1..MaxGen) :
           f + Cardinality(U) <= e + Cardinality(T) + 1 /\ Covered(s, f, U)'
<1>1. /\ UNCHANGED <<active, gen, gz, plain, tmp, compression_enabled, k, i>>
      /\ pc' = "killed" /\ queue' = <<>> /\ worker' = "idle"
  BY Zenon DEF Crash, disk
<1>2. /\ Newest(s)' = Newest(s) /\ Late(s)' = 0
      /\ \A n \in Slot : Held(s, n)' = Held(s, n) /\ Shifted(s, n)' = 0
  <2>1. Newest(s)' = Newest(s)
    BY <1>1, Zenon DEF Newest
  <2>2. pc' # "shift" /\ ~Rotating'
    BY <1>1, Zenon DEF Rotating
  <2>3. Late(s)' = 0
    BY <2>2, Zenon DEF Late
  <2>4. \A n \in Slot : Held(s, n)' = Held(s, n)
    BY <1>1, Zenon DEF Held
  <2>5. \A n \in Slot : Shifted(s, n)' = 0
    BY <2>2, Zenon DEF Shifted
  <2> QED BY <2>1, <2>3, <2>4, <2>5, Zenon
<1>3. /\ IsFiniteSet(T) /\ Cardinality(T) \in Nat /\ MaxFiles \in Nat
  BY GenSets, MaxFilesAssumption, Zenon
<1>4. Newest(s) \in Nat
  BY Numbers DEF Newest
<1>5. CASE Rotating /\ s = k
  <2>1. Late(s) = 1 /\ \A n \in Stamp : ~Waiting(s, n)
    <3>1. Late(s) = 1
      BY <1>5, Zenon DEF Late
    <3>2. \A n \in Stamp : ~Waiting(k, n)
      BY <1>5, RotatedAlone, Zenon
    <3> QED BY <1>5, <3>1, <3>2, Zenon
  <2>2. Covered(s, e + 1, T)'
    <3> SUFFICES ASSUME NEW g \in 1..MaxGen, g < Newest(s), g \notin T,
                        Newest(s) - g + (e + 1) <= MaxFiles
                 PROVE  \E n \in Slot : Held(s, n) = g /\ n <= Newest(s) - g + (e + 1)
      BY <1>2, <1>4 DEF Covered
    <3>1. Newest(s) - g + e + Late(s) <= MaxFiles
      BY <1>3, <1>4, <2>1
    <3>2. PICK n \in Slot : Held(s, n) = g /\ n <= Newest(s) - g + e + Shifted(s, n)
      BY <2>1, <3>1, Zenon DEF Covered, Pending
    <3>3. Shifted(s, n) \in {0, 1} /\ n \in Nat
      BY DEF Shifted, Slot
    <3>4. n <= Newest(s) - g + (e + 1)
      BY <1>4, <3>2, <3>3
    <3> QED BY <3>2, <3>4, Zenon
  <2>3. e + 1 \in Nat /\ (e + 1) + Cardinality(T) <= e + Cardinality(T) + 1
    BY <1>3
  <2> QED BY <2>2, <2>3, Zenon
<1>6. CASE ~(Rotating /\ s = k)
  <2>1. Late(s) = 0 /\ \A n \in Slot : Shifted(s, n) = 0
    BY <1>6, Zenon DEF Late, Shifted, Rotating
  <2>2. PICK U \in SUBSET (1..MaxGen) :
          /\ Cardinality(U) <= Cardinality(T) + 1 /\ Cardinality(U) \in Nat
          /\ T \subseteq U
          /\ \A n \in Stamp : Pending(s, n) /\ tmp[s][n] # 0 => tmp[s][n] \in U
    <3>1. CASE \E n \in Stamp : Pending(s, n) /\ tmp[s][n] # 0
      <4>1. PICK n \in Stamp : Pending(s, n) /\ tmp[s][n] # 0
        BY <3>1, Zenon
      <4>2. tmp[s][n] \in 1..MaxGen
        <5>1. tmp[s][n] \in Gen
          BY Zenon DEF TypeInv, TypeOK
        <5> QED BY <4>1, <5>1, BoundsAssumption DEF Gen
      <4>3. \A m \in Stamp : Pending(s, m) => m = n
        BY <4>1, OnePending, Zenon DEF Pending
      <4>4. /\ Cardinality(T \cup {tmp[s][n]}) <= Cardinality(T) + 1
            /\ Cardinality(T \cup {tmp[s][n]}) \in Nat
        <5>1. /\ IsFiniteSet(T \cup {tmp[s][n]})
              /\ Cardinality(T \cup {tmp[s][n]})
                   = IF tmp[s][n] \in T THEN Cardinality(T) ELSE Cardinality(T) + 1
          BY <1>3, FS_AddElement, Zenon
        <5> QED BY <1>3, <5>1
      <4>5. T \cup {tmp[s][n]} \in SUBSET (1..MaxGen)
        BY <4>2, Zenon
      <4> QED BY <4>3, <4>4, <4>5, Zenon
    <3>2. CASE ~\E n \in Stamp : Pending(s, n) /\ tmp[s][n] # 0
      <4>1. Cardinality(T) <= Cardinality(T) + 1
        BY <1>3
      <4>2. \A n \in Stamp : Pending(s, n) /\ tmp[s][n] # 0 => tmp[s][n] \in T
        BY <3>2, Zenon
      <4> QED BY <1>3, <4>1, <4>2, Zenon
    <3> QED BY <3>1, <3>2, Zenon
  <2>3. Covered(s, e, U)'
    <3> SUFFICES ASSUME NEW g \in 1..MaxGen, g < Newest(s), g \notin U,
                        Newest(s) - g + e + 0 <= MaxFiles
                 PROVE  \E n \in Slot : Held(s, n) = g /\ n <= Newest(s) - g + e + 0
      BY <1>2, <1>4, Zenon DEF Covered
    <3>1. /\ g # 0 /\ g \notin T
          /\ \A n \in Stamp : ~(Pending(s, n) /\ tmp[s][n] = g)
      <4>1. g # 0
        OBVIOUS
      <4> QED BY <2>2, <4>1, Zenon
    <3>2. PICK n \in Slot : Held(s, n) = g /\ n <= Newest(s) - g + e + Shifted(s, n)
      BY <2>1, <3>1, Zenon DEF Covered
    <3> QED BY <2>1, <3>2, Zenon
  <2>4. e + Cardinality(U) <= e + Cardinality(T) + 1
    BY <1>3, <2>2
  <2> QED BY <2>3, <2>4, Zenon
<1> QED BY <1>5, <1>6, Zenon

(* No step loses more than the kills account for.                          *)
LEMMA StepLoss ==
  ASSUME Faults \subseteq {"crash", "gzclose"}, TypeInv, KInv, [Next]_vars
  PROVE  LossInv'
<1> SUFFICES ASSUME ~switched', NEW s \in Stream
             PROVE  \E e \in Nat, T \in SUBSET (1..MaxGen) :
                      e + Cardinality(T) <= kills' /\ Covered(s, e, T)'
  BY Zenon DEF LossInv
<1>1. kills \in Nat
  BY Zenon DEF TypeInv, TypeOK
<1>2. \A T \in SUBSET (1..MaxGen) : Cardinality(T) \in Nat
  BY GenSets, Zenon
<1>3. CASE Start
  <2>1. /\ pc \in {"down", "killed"} /\ pc' = "idle" /\ runs' = runs + 1
        /\ UNCHANGED <<plain, gz, tmp, k, queue, worker, job>>
        /\ active'[s] # 0 /\ gen'[s] = Newest(s)
        /\ ~switched /\ (runs = 0 \/ compression_enabled' = compression_enabled)
    BY <1>3, StartStep, Zenon DEF KInv
  <2>2. UNCHANGED kills
    BY <1>3, Zenon DEF Start
  <2>3. Newest(s)' = Newest(s)
    BY <2>1, Zenon DEF Newest
  <2>4. CASE runs = 0
    <3>1. Newest(s) = 1
      <4>1. gen[s] = 0 /\ active[s] = 0
        BY <2>4, Zenon DEF KInv, CurrentInv
      <4> QED BY <4>1 DEF Newest
    <3>2. Covered(s, 0, {})'
      BY <2>3, <3>1 DEF Covered
    <3>3. Cardinality({}) = 0 /\ {} \in SUBSET (1..MaxGen)
      BY FS_EmptySet, Zenon
    <3> QED BY <1>1, <2>2, <3>2, <3>3
  <2>5. CASE runs # 0
    <3>1. PICK e \in Nat, T \in SUBSET (1..MaxGen) :
            e + Cardinality(T) <= kills /\ Covered(s, e, T)
      BY <2>1, Zenon DEF KInv, LossInv
    <3>2. compression_enabled' = compression_enabled
      BY <2>1, <2>5, Zenon
    <3>3. /\ Late(s)' = Late(s)
          /\ \A n \in Slot : Held(s, n)' = Held(s, n) /\ Shifted(s, n)' = Shifted(s, n)
      BY <2>1, <3>2, Zenon DEF Late, Held, Shifted, Rotating
    <3>4. \A n \in Stamp : Pending(s, n) => Pending(s, n)'
      <4>1. pc # "enqueue" /\ pc' # "enqueue"
        BY <2>1, Zenon
      <4> QED BY <2>1, <4>1, Zenon DEF Pending, Waiting
    <3>5. Covered(s, e, T)'
      BY <2>1, <2>3, <3>1, <3>3, <3>4, Zenon DEF Covered
    <3> QED BY <2>2, <3>1, <3>5, Zenon
  <2> QED BY <2>4, <2>5, Zenon
<1>4. CASE Crash
  <2>1. UNCHANGED switched /\ kills' = kills + 1
    BY <1>4, Zenon DEF Crash
  <2>2. PICK e \in Nat, T \in SUBSET (1..MaxGen) :
          e + Cardinality(T) <= kills /\ Covered(s, e, T)
    BY <2>1, Zenon DEF KInv, LossInv
  <2>3. PICK f \in Nat, U \in SUBSET (1..MaxGen) :
          f + Cardinality(U) <= e + Cardinality(T) + 1 /\ Covered(s, f, U)'
    BY <1>4, <2>2, CrashCovered, Zenon DEF KInv
  <2>4. f + Cardinality(U) <= kills'
    <3>1. Cardinality(T) \in Nat /\ Cardinality(U) \in Nat
      BY <1>2, Zenon
    <3> QED BY <1>1, <2>1, <2>2, <2>3, <3>1
  <2> QED BY <2>3, <2>4, Zenon
<1>5. CASE ~Start /\ ~Crash
  <2>1. UNCHANGED <<switched, kills>>
    BY <1>5, Frame, Zenon
  <2>2. PICK e \in Nat, T \in SUBSET (1..MaxGen) :
          e + Cardinality(T) <= kills /\ Covered(s, e, T)
    BY <2>1, Zenon DEF KInv, LossInv
  <2>3. Covered(s, e, T)'
    BY <1>5, <2>2, StepCovered, Zenon DEF KInv
  <2> QED BY <2>1, <2>2, <2>3, Zenon
<1> QED BY <1>3, <1>4, <1>5, Zenon

(* What is not covered and should have been retained is at most what the   *)
(* kills account for.                                                      *)
LEMMA FewLost ==
  ASSUME TypeInv, KInv
  PROVE  LossPerCrash
<1> SUFFICES ASSUME pc = "idle", ~switched, NEW s \in Stream
             PROVE  Cardinality({g \in Window(s) : ~Kept(s, g)}) <= kills
  BY Zenon DEF LossPerCrash
<1>1. PICK e \in Nat, T \in SUBSET (1..MaxGen) :
        e + Cardinality(T) <= kills /\ Covered(s, e, T)
  BY Zenon DEF KInv, LossInv
<1>2. Newest(s) = gen[s] /\ gen[s] \in Nat /\ MaxFiles \in Nat /\ kills \in Nat
  BY Numbers, MaxFilesAssumption, BoundsAssumption, Zenon
  DEF Newest, KInv, CurrentInv, TypeInv, TypeOK
<1>3. Late(s) = 0 /\ \A n \in Slot : Shifted(s, n) = 0
  BY Zenon DEF Late, Shifted, Rotating
<1> DEFINE low == gen[s] - MaxFiles
           L == {g \in Window(s) : ~Kept(s, g)}
           V == low..(low + e - 1)
<1>4. L \subseteq T \cup V
  <2> SUFFICES ASSUME NEW g \in 1..MaxGen, g < gen[s], g + MaxFiles >= gen[s],
                      ~Kept(s, g), g \notin T
               PROVE  g \in V
    BY Zenon DEF Window
  <2>1. ~(gen[s] - g + e <= MaxFiles)
    <3>1. \A n \in Slot : Held(s, n) # g
      BY Zenon DEF Kept, Held
    <3>2. \A n \in Stamp : tmp[s][n] # g
      BY Zenon DEF Kept
    <3>3. ~(Newest(s) - g + e + Late(s) <= MaxFiles)
      BY <1>1, <1>2, <3>1, <3>2, Zenon DEF Covered
    <3> QED BY <1>2, <1>3, <3>3
  <2> QED BY <1>2, <2>1
<1>5. IsFiniteSet(V) /\ Cardinality(V) = e
  <2>1. low \in Int /\ low + e - 1 \in Int
    BY <1>2
  <2>2. IsFiniteSet(V) /\ Cardinality(V) = IF low > low + e - 1 THEN 0 ELSE (low + e - 1) - low + 1
    BY <2>1, FS_Interval, Zenon
  <2> QED BY <2>1, <2>2
<1>6. IsFiniteSet(T) /\ Cardinality(T) \in Nat
  BY GenSets, Zenon
<1>7. /\ IsFiniteSet(T \cup V) /\ Cardinality(T \cup V) \in Nat
      /\ Cardinality(T \cup V) <= Cardinality(T) + e
  <2>1. /\ IsFiniteSet(T \cup V)
        /\ Cardinality(T \cup V) = Cardinality(T) + Cardinality(V) - Cardinality(T \cap V)
    BY <1>5, <1>6, FS_Union, Zenon
  <2>2. IsFiniteSet(T \cap V)
    BY <1>6, FS_Subset, Zenon
  <2>3. Cardinality(T \cap V) \in Nat /\ Cardinality(T \cup V) \in Nat
    BY <2>1, <2>2, FS_CardinalityType, Zenon
  <2> QED BY <1>5, <1>6, <2>1, <2>3
<1>8. Cardinality(L) <= Cardinality(T \cup V) /\ Cardinality(L) \in Nat
  BY <1>4, <1>7, FS_Subset, FS_CardinalityType, Zenon
<1> QED BY <1>1, <1>2, <1>6, <1>7, <1>8

(* Killed at any moment and restarted, with any number of streams and      *)
(* files, the program loses at most one of the files that it should retain *)
(* for every kill, as long as the worker keeps up with the rotations and   *)
(* compression_enabled is not changed.                                     *)
THEOREM KillsAreCheap ==
  ASSUME Faults \subseteq {"crash", "gzclose"}, Paced
  PROVE  Spec => []LossPerCrash
<1>1. Init => TypeInv /\ KInv
  <2> SUFFICES ASSUME Init PROVE TypeInv /\ KInv
    BY Zenon
  <2>1. TypeInv
    BY InitTypeInv, Zenon
  <2>2. CurrentInv /\ JobsInv /\ FreeInv
    BY InitJobs, Zenon
  <2>3. LossInv
    <3> SUFFICES ASSUME NEW s \in Stream
                 PROVE  \E e \in Nat, T \in SUBSET (1..MaxGen) :
                          e + Cardinality(T) <= kills /\ Covered(s, e, T)
      BY Zenon DEF LossInv
    <3>1. Newest(s) = 1 /\ kills = 0
      BY DEF Init, Newest
    <3>2. Covered(s, 0, {})
      BY <3>1 DEF Covered
    <3>3. Cardinality({}) = 0 /\ {} \in SUBSET (1..MaxGen)
      BY FS_EmptySet, Zenon
    <3> QED BY <3>1, <3>2, <3>3
  <2> QED BY <2>1, <2>2, <2>3, Zenon DEF KInv
<1>2. (TypeInv /\ KInv) /\ [Next]_vars => (TypeInv /\ KInv)'
  BY StepTypeInv, StepCurrent, StepJobs, StepFree, StepLoss, Zenon DEF KInv
<1>3. TypeInv /\ KInv => LossPerCrash
  BY FewLost, Zenon
<1> QED BY <1>1, <1>2, <1>3, PTL DEF Spec
=============================================================================
