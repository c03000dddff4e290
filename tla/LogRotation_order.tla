------------------------- MODULE LogRotation_order --------------------------
(***************************************************************************)
(* What the steps of LogRotation change, that its state keeps its types,   *)
(* that archives are complete and that the numbers of the rotated files    *)
(* order them by age, for any number of streams and files.                 *)
(***************************************************************************)
EXTENDS LogRotation, TLAPS

Rotating == pc \in {"gz_oldest", "plain_oldest", "shift"}

(* The bound on the names is respected: rotations that compress begin only *)
(* when there is a name left.                                              *)
TypeInv ==
  /\ TypeOK
  /\ Rotating /\ compression_enabled => stamp < MaxRotations
  /\ pc = "enqueue" => stamp >= 1

-----------------------------------------------------------------------------
(* Which steps change what.                                                *)
LEMMA Frame ==
  ASSUME [Next]_vars
  PROVE  /\ Start \/ Reopen \/ RotateCurrent \/ UNCHANGED <<active, gen>>
         /\ WriteSnapshot \/ RotateCurrent \/ UNCHANGED full
         /\ UnlinkOldestPlain \/ Shift \/ RotateCurrent \/ UNCHANGED plain
         /\ UnlinkOldestGz \/ Shift \/ Publish \/ UNCHANGED gz
         /\ RotateCurrent \/ RemoveOriginal \/ UNCHANGED tmp
         /\ CompressOpen \/ Deflate \/ Publish \/ UNCHANGED tmpgz
         /\ Start \/ UNCHANGED <<compression_enabled, first_stamp, runs, switched>>
         /\ Crash \/ UNCHANGED kills
         /\ Start \/ CheckSize \/ Reopen \/ Stop \/ Crash \/ UNCHANGED is_open
         /\ Start \/ RotateCurrent \/ UNCHANGED stamp
         /\ Enqueue \/ Crash \/ Take \/ UNCHANGED queue
         /\ Take \/ UNCHANGED job
         /\ CompressOpen \/ UNCHANGED jobgen
         /\ Compress \/ Crash \/ UNCHANGED worker
<1> USE DEF disk, mainVars, workerVars
<1>1. CASE Start BY <1>1, Zenon DEF Start
<1>2. CASE BeginSnapshot BY <1>2, Zenon DEF BeginSnapshot
<1>3. CASE CheckSize BY <1>3, Zenon DEF CheckSize
<1>4. CASE WriteSnapshot BY <1>4, Zenon DEF WriteSnapshot
<1>5. CASE UnlinkOldestGz BY <1>5, Zenon DEF UnlinkOldestGz
<1>6. CASE UnlinkOldestPlain BY <1>6, Zenon DEF UnlinkOldestPlain
<1>7. CASE Shift BY <1>7, Zenon DEF Shift
<1>8. CASE RotateCurrent BY <1>8, Zenon DEF RotateCurrent
<1>9. CASE Enqueue BY <1>9, Zenon DEF Enqueue
<1>10. CASE Reopen BY <1>10, Zenon DEF Reopen
<1>11. CASE Stop BY <1>11, Zenon DEF Stop
<1>12. CASE Exit BY <1>12, Zenon DEF Exit
<1>13. CASE Crash BY <1>13, Zenon DEF Crash
<1>14. CASE Take BY <1>14, ZenonT(60) DEF Take, Compress
<1>15. CASE CompressOpen BY <1>15, Zenon DEF CompressOpen, AfterGzopen, Compress
<1>16. CASE Deflate BY <1>16, Zenon DEF Deflate, Compress
<1>17. CASE Publish BY <1>17, Zenon DEF Publish, Compress
<1>18. CASE RemoveOriginal BY <1>18, Zenon DEF RemoveOriginal, Compress
<1>19. CASE UNCHANGED vars BY <1>19, Zenon DEF vars
<1> QED BY <1>1, <1>2, <1>3, <1>4, <1>5, <1>6, <1>7, <1>8, <1>9, <1>10,
          <1>11, <1>12, <1>13, <1>14, <1>15, <1>16, <1>17, <1>18, <1>19, Zenon
    DEF Next, Rotate, Compress
-----------------------------------------------------------------------------
(* Facts about the bounds.                                                 *)
LEMMA Constants ==
  /\ 0 \in Gen /\ None \in Archive /\ None.gen = 0
  /\ MaxFiles \in Slot /\ 1 \in Slot
  /\ \A n \in 1..(MaxFiles - 1) : n \in Slot /\ n + 1 \in Slot /\ n # n + 1
BY BoundsAssumption, MaxFilesAssumption, SMTT(60) DEF Gen, None, Archive, Slot

(* What the steps do to the files, name by name.                           *)
LEMMA PlainStep ==
  ASSUME TypeInv, [Next]_vars
  PROVE  /\ plain' \in [Stream -> [Slot -> Gen]]
         /\ \/ UNCHANGED plain
            \/ \A s \in Stream, n \in Slot :
                 plain'[s][n] = IF s = k /\ n = MaxFiles THEN 0 ELSE plain[s][n]
            \/ /\ i \in 1..(MaxFiles - 1)
               /\ \A s \in Stream, n \in Slot :
                    plain'[s][n] = IF s = k /\ n = i + 1 THEN plain[k][i]
                                   ELSE IF s = k /\ n = i THEN 0 ELSE plain[s][n]
            \/ /\ RotateCurrent /\ MoveCurrent
               /\ \A s \in Stream, n \in Slot :
                    plain'[s][n] = IF s = k /\ n = 1 THEN active[k] ELSE plain[s][n]
<1>1. /\ plain \in [Stream -> [Slot -> Gen]] /\ k \in Stream
      /\ i \in 0..(MaxFiles - 1) /\ active \in [Stream -> Gen]
  BY Zenon DEF TypeInv, TypeOK
<1>2. CASE UnlinkOldestPlain
  <2>1. UNCHANGED plain \/ plain' = [plain EXCEPT ![k][MaxFiles] = 0]
    BY <1>2, Zenon DEF UnlinkOldestPlain
  <2>2. CASE plain' = [plain EXCEPT ![k][MaxFiles] = 0]
    BY <1>1, <2>2, Constants, Zenon
  <2> QED BY <1>1, <2>1, <2>2, Zenon
<1>3. CASE Shift
  <2>1. i \in 1..(MaxFiles - 1) /\ i \in Slot /\ i + 1 \in Slot /\ i + 1 # i
    BY <1>1, <1>3, MaxFilesAssumption DEF Shift, Slot
  <2>2. UNCHANGED plain
        \/ plain' = [plain EXCEPT ![k][i + 1] = plain[k][i], ![k][i] = 0]
    BY <1>3, Zenon DEF Shift, ShiftGz, ShiftPlain
  <2>3. plain[k] \in [Slot -> Gen] /\ plain[k][i] \in Gen
    BY <1>1, <2>1, Zenon
  <2>4. CASE plain' = [plain EXCEPT ![k][i + 1] = plain[k][i], ![k][i] = 0]
    <3>1. [plain[k] EXCEPT ![i + 1] = plain[k][i], ![i] = 0] \in [Slot -> Gen]
      BY <2>1, <2>3, Constants, Zenon
    <3> QED BY <1>1, <2>1, <2>3, <2>4, <3>1, Zenon
  <2> QED BY <1>1, <2>2, <2>4, Zenon
<1>4. CASE RotateCurrent
  <2>1. UNCHANGED plain \/ (MoveCurrent /\ plain' = [plain EXCEPT ![k][1] = active[k]])
    BY <1>4, Zenon DEF RotateCurrent, MoveCurrent
  <2>2. active[k] \in Gen
    BY <1>1, Zenon
  <2>3. CASE plain' = [plain EXCEPT ![k][1] = active[k]] /\ MoveCurrent
    BY <1>1, <1>4, <2>2, <2>3, Constants, ZenonT(60)
  <2> QED BY <1>1, <2>1, <2>3, Zenon
<1> QED BY <1>1, <1>2, <1>3, <1>4, Frame, Zenon

(* The archives: untouched, the oldest removed, one shifted, or one        *)
(* published.                                                              *)
LEMMA GzStep ==
  ASSUME TypeInv, [Next]_vars
  PROVE  /\ gz' \in [Stream -> [Slot -> Archive]]
         /\ \/ UNCHANGED gz
            \/ \A s \in Stream, n \in Slot :
                 gz'[s][n] = IF s = k /\ n = MaxFiles THEN None ELSE gz[s][n]
            \/ /\ i \in 1..(MaxFiles - 1)
               /\ \A s \in Stream, n \in Slot :
                    gz'[s][n] = IF s = k /\ n = i + 1 THEN gz[k][i]
                                ELSE IF s = k /\ n = i THEN None ELSE gz[s][n]
            \/ /\ Publish /\ worker' = "remove"
               /\ \A s \in Stream, n \in Slot :
                    gz'[s][n] = IF s = job.stream /\ n = 1
                                THEN tmpgz[s][job.stamp] ELSE gz[s][n]
<1>1. /\ gz \in [Stream -> [Slot -> Archive]] /\ k \in Stream
      /\ i \in 0..(MaxFiles - 1) /\ tmpgz \in [Stream -> [Stamp -> Archive]]
      /\ job.stream \in Stream /\ job.stamp \in Stamp
  BY Zenon DEF TypeInv, TypeOK, Job
<1>2. CASE UnlinkOldestGz
  <2>1. UNCHANGED gz \/ gz' = [gz EXCEPT ![k][MaxFiles] = None]
    BY <1>2, Zenon DEF UnlinkOldestGz
  <2>2. CASE gz' = [gz EXCEPT ![k][MaxFiles] = None]
    BY <1>1, <2>2, Constants, Zenon
  <2> QED BY <1>1, <2>1, <2>2, Zenon
<1>3. CASE Shift
  <2>1. i \in 1..(MaxFiles - 1) /\ i \in Slot /\ i + 1 \in Slot /\ i + 1 # i
    BY <1>1, <1>3, MaxFilesAssumption DEF Shift, Slot
  <2>2. UNCHANGED gz \/ gz' = [gz EXCEPT ![k][i + 1] = gz[k][i], ![k][i] = None]
    BY <1>3, Zenon DEF Shift, ShiftGz, ShiftPlain
  <2>3. gz[k] \in [Slot -> Archive] /\ gz[k][i] \in Archive
    BY <1>1, <2>1, Zenon
  <2>4. CASE gz' = [gz EXCEPT ![k][i + 1] = gz[k][i], ![k][i] = None]
    <3>1. [gz[k] EXCEPT ![i + 1] = gz[k][i], ![i] = None] \in [Slot -> Archive]
      BY <2>1, <2>3, Constants, Zenon
    <3> QED BY <1>1, <2>1, <2>3, <2>4, <3>1, Zenon
  <2> QED BY <1>1, <2>2, <2>4, Zenon
<1>4. CASE Publish
  <2>1. \/ UNCHANGED gz
        \/ /\ worker' = "remove"
           /\ gz' = [gz EXCEPT ![job.stream][1] = tmpgz[job.stream][job.stamp]]
    BY <1>4, Zenon DEF Publish
  <2>2. tmpgz[job.stream][job.stamp] \in Archive
    BY <1>1, Zenon
  <2>3. CASE /\ gz' = [gz EXCEPT ![job.stream][1] = tmpgz[job.stream][job.stamp]]
             /\ worker' = "remove"
    BY <1>1, <1>4, <2>2, <2>3, Constants, Zenon
  <2> QED BY <1>1, <2>1, <2>3, Zenon
<1> QED BY <1>1, <1>2, <1>3, <1>4, Frame, Zenon

(* The temporary files: untouched, one made by a rotation, or one removed. *)
LEMMA TmpStep ==
  ASSUME TypeInv, [Next]_vars
  PROVE  /\ tmp' \in [Stream -> [Stamp -> Gen]]
         /\ \/ UNCHANGED tmp
            \/ /\ RotateCurrent /\ MoveCurrent /\ compression_enabled
               /\ \A s \in Stream, n \in Stamp :
                    tmp'[s][n] = IF s = k /\ n = stamp THEN active[k] ELSE tmp[s][n]
            \/ /\ RemoveOriginal
               /\ \A s \in Stream, n \in Stamp :
                    tmp'[s][n] = IF s = job.stream /\ n = job.stamp THEN 0
                                 ELSE tmp[s][n]
<1>1. /\ tmp \in [Stream -> [Stamp -> Gen]] /\ k \in Stream /\ stamp \in Stamp
      /\ active \in [Stream -> Gen]
      /\ job.stream \in Stream /\ job.stamp \in Stamp
  BY Zenon DEF TypeInv, TypeOK, Job
<1>2. CASE RotateCurrent
  <2>1. \/ UNCHANGED tmp
        \/ /\ MoveCurrent /\ compression_enabled
           /\ tmp' = [tmp EXCEPT ![k][stamp] = active[k]]
    BY <1>2, Zenon DEF RotateCurrent, MoveCurrent
  <2>2. active[k] \in Gen
    BY <1>1, Zenon
  <2>3. CASE /\ MoveCurrent /\ compression_enabled
             /\ tmp' = [tmp EXCEPT ![k][stamp] = active[k]]
    BY <1>1, <1>2, <2>2, <2>3, Zenon
  <2> QED BY <1>1, <2>1, <2>3, Zenon
<1>3. CASE RemoveOriginal
  <2>1. UNCHANGED tmp \/ tmp' = [tmp EXCEPT ![job.stream][job.stamp] = 0]
    BY <1>3, Zenon DEF RemoveOriginal, WithoutOriginal
  <2>2. CASE tmp' = [tmp EXCEPT ![job.stream][job.stamp] = 0]
    BY <1>1, <1>3, <2>2, Constants, ZenonT(60)
  <2> QED BY <1>1, <2>1, <2>2, Zenon
<1> QED BY <1>1, <1>2, <1>3, Frame, Zenon

(* The archives under temporary names: untouched, opened, written, or      *)
(* renamed away.                                                           *)
LEMMA TmpgzStep ==
  ASSUME TypeInv, [Next]_vars
  PROVE  /\ tmpgz' \in [Stream -> [Stamp -> Archive]]
         /\ \/ UNCHANGED tmpgz
            \/ /\ CompressOpen /\ tmp[job.stream][job.stamp] # 0
               /\ tmpgz'[job.stream][job.stamp].gen = tmp[job.stream][job.stamp]
            \/ /\ Deflate
               /\ tmpgz'[job.stream][job.stamp].gen = tmpgz[job.stream][job.stamp].gen
            \/ Publish /\ worker' = "remove"
<1>1. /\ tmp \in [Stream -> [Stamp -> Gen]]
      /\ tmpgz \in [Stream -> [Stamp -> Archive]]
      /\ job.stream \in Stream /\ job.stamp \in Stamp
  BY Zenon DEF TypeInv, TypeOK, Job
<1> DEFINE src == tmp[job.stream][job.stamp]
           new == tmpgz[job.stream][job.stamp]
<1>2. src \in Gen /\ new \in Archive
  BY <1>1, Zenon
<1> HIDE DEF src, new
<1>3. CASE CompressOpen
  <2>1. \/ UNCHANGED tmpgz
        \/ /\ src # 0
           /\ tmpgz' = [tmpgz EXCEPT ![job.stream][job.stamp] =
                                       [gen |-> src, whole |-> FALSE]]
    BY <1>3, Zenon DEF CompressOpen, AfterGzopen, src
  <2>2. [gen |-> src, whole |-> FALSE] \in Archive
    BY <1>2, ZenonT(60) DEF Archive
  <2>3. CASE /\ src # 0
             /\ tmpgz' = [tmpgz EXCEPT ![job.stream][job.stamp] =
                                         [gen |-> src, whole |-> FALSE]]
    <3>1. tmpgz' \in [Stream -> [Stamp -> Archive]]
      BY <1>1, <2>2, <2>3, Zenon
    <3>2. tmpgz'[job.stream][job.stamp] = [gen |-> src, whole |-> FALSE]
      BY <1>1, <2>3, Zenon
    <3> QED BY <1>3, <2>3, <3>1, <3>2 DEF src
  <2> QED BY <1>1, <2>1, <2>3, Zenon
<1>4. CASE Deflate
  <2>1. \/ UNCHANGED tmpgz
        \/ tmpgz' = [tmpgz EXCEPT ![job.stream][job.stamp].whole = TRUE]
    BY <1>4, Zenon DEF Deflate
  <2>2. [new EXCEPT !.whole = TRUE] \in Archive /\ [new EXCEPT !.whole = TRUE].gen = new.gen
    BY <1>2, Zenon DEF Archive
  <2>3. CASE tmpgz' = [tmpgz EXCEPT ![job.stream][job.stamp].whole = TRUE]
    <3>1. tmpgz' = [tmpgz EXCEPT ![job.stream][job.stamp] = [new EXCEPT !.whole = TRUE]]
      BY <1>1, <2>3, Zenon DEF new
    <3>2. tmpgz' \in [Stream -> [Stamp -> Archive]]
      BY <1>1, <2>2, <3>1, Zenon
    <3>3. tmpgz'[job.stream][job.stamp] = [new EXCEPT !.whole = TRUE]
      BY <1>1, <3>1, Zenon
    <3> QED BY <1>4, <2>2, <3>2, <3>3, Zenon DEF new
  <2> QED BY <1>1, <2>1, <2>3, Zenon
<1>5. CASE Publish
  <2>1. \/ UNCHANGED tmpgz
        \/ /\ tmpgz' = [tmpgz EXCEPT ![job.stream][job.stamp] = None]
           /\ worker' = "remove"
    BY <1>5, Zenon DEF Publish
  <2>2. CASE /\ tmpgz' = [tmpgz EXCEPT ![job.stream][job.stamp] = None]
             /\ worker' = "remove"
    BY <1>1, <1>5, <2>2, Constants, Zenon
  <2> QED BY <1>1, <2>1, <2>2, Zenon
<1> QED BY <1>1, <1>3, <1>4, <1>5, Frame, Zenon

(* fopen never makes a file younger than the newest one, and whatever is   *)
(* moved away is the newest one.                                           *)
LEMMA GenStep ==
  ASSUME TypeInv, [Next]_vars
  PROVE  /\ active' \in [Stream -> Gen] /\ gen' \in [Stream -> Gen]
         /\ \A s \in Stream :
              \/ active'[s] = active[s] /\ gen'[s] = gen[s]
              \/ active[s] = 0 /\ gen'[s] = gen[s] + 1 /\ active'[s] = gen'[s]
              \/ active[s] # 0 /\ gen'[s] = gen[s] /\ active'[s] = gen[s]
              \/ RotateCurrent /\ MoveCurrent /\ active'[s] = 0 /\ gen'[s] = gen[s]
<1>1. active \in [Stream -> Gen] /\ gen \in [Stream -> Gen] /\ k \in Stream
  BY Zenon DEF TypeInv, TypeOK
<1>2. ASSUME NEW S \in SUBSET Stream, OpenForAppend(S)
      PROVE  /\ active' \in [Stream -> Gen] /\ gen' \in [Stream -> Gen]
             /\ \A s \in Stream :
                  \/ active'[s] = active[s] /\ gen'[s] = gen[s]
                  \/ active[s] = 0 /\ gen'[s] = gen[s] + 1 /\ active'[s] = gen'[s]
                  \/ active[s] # 0 /\ gen'[s] = gen[s] /\ active'[s] = gen[s]
  <2>1. gen' \in [Stream -> Gen]
    BY <1>1, <1>2, BoundsAssumption DEF OpenForAppend, Gen
  <2>2. active' \in [Stream -> Gen]
    BY <1>1, <1>2, <2>1, Zenon DEF OpenForAppend
  <2> QED BY <1>1, <1>2, <2>1, <2>2, Zenon DEF OpenForAppend
<1>3. CASE Start
  BY <1>2, <1>3, Zenon DEF Start
<1>4. CASE Reopen
  <2>1. {k} \in SUBSET Stream
    BY <1>1, Zenon
  <2>2. OpenForAppend({k}) \/ UNCHANGED <<active, gen>>
    BY <1>4, Zenon DEF Reopen
  <2> QED BY <1>1, <1>2, <2>1, <2>2, Zenon
<1>5. CASE RotateCurrent
  <2>1. /\ UNCHANGED gen
        /\ UNCHANGED active \/ (MoveCurrent /\ active' = [active EXCEPT ![k] = 0])
    BY <1>5, Zenon DEF RotateCurrent, MoveCurrent
  <2> QED BY <1>1, <1>5, <2>1, Constants, Zenon
<1> QED BY <1>1, <1>3, <1>4, <1>5, Frame, Zenon

(* The Boolean state and the number of kills.                              *)
LEMMA FlagsType ==
  ASSUME TypeInv, [Next]_vars
  PROVE  /\ full' \in [Stream -> BOOLEAN] /\ is_open' \in [Stream -> BOOLEAN]
         /\ compression_enabled' \in BOOLEAN /\ switched' \in BOOLEAN /\ kills' \in Nat
<1>1. /\ full \in [Stream -> BOOLEAN] /\ is_open \in [Stream -> BOOLEAN]
      /\ compression_enabled \in BOOLEAN /\ switched \in BOOLEAN
  BY Zenon DEF TypeInv, TypeOK
<1>2. full' \in [Stream -> BOOLEAN]
  <2>1. CASE WriteSnapshot BY <1>1, <2>1, Zenon DEF WriteSnapshot
  <2>2. CASE RotateCurrent BY <1>1, <2>2, Zenon DEF RotateCurrent, MoveCurrent
  <2>3. CASE UNCHANGED full BY <1>1, <2>3, Zenon
  <2> QED BY <2>1, <2>2, <2>3, Frame, Zenon
<1>3. is_open' \in [Stream -> BOOLEAN]
  <2>1. CASE Start
    <3>1. UNCHANGED is_open \/ \E S : is_open' = [s \in Stream |-> s \in S]
      BY <2>1, Zenon DEF Start
    <3>2. ASSUME NEW S, is_open' = [s \in Stream |-> s \in S]
          PROVE  is_open' \in [Stream -> BOOLEAN]
      BY <3>2
    <3>3. CASE UNCHANGED is_open BY <1>1, <3>3, Zenon
    <3> QED BY <3>1, <3>2, <3>3, Zenon
  <2>2. CASE CheckSize
    <3>1. UNCHANGED is_open \/ is_open' = [is_open EXCEPT ![k] = FALSE]
      BY <2>2, Zenon DEF CheckSize
    <3> QED BY <1>1, <3>1, Zenon
  <2>3. CASE Reopen
    <3>1. UNCHANGED is_open \/ is_open' = [is_open EXCEPT ![k] = TRUE]
      BY <2>3, Zenon DEF Reopen
    <3> QED BY <1>1, <3>1, Zenon
  <2>4. CASE Stop BY <2>4, Zenon DEF Stop
  <2>5. CASE Crash BY <2>5, Zenon DEF Crash
  <2>6. CASE UNCHANGED is_open BY <1>1, <2>6, Zenon
  <2> QED BY <2>1, <2>2, <2>3, <2>4, <2>5, <2>6, Frame, Zenon
<1>4. compression_enabled' \in BOOLEAN
  <2>1. CASE Start BY <2>1, ModesAssumption, Zenon DEF Start
  <2>2. CASE UNCHANGED compression_enabled BY <1>1, <2>2, Zenon
  <2> QED BY <2>1, <2>2, Frame, Zenon
<1>5. switched' \in BOOLEAN
  BY <1>1, Frame, Zenon DEF Start
<1>6. kills' \in Nat
  <2>1. kills \in Nat
    BY Zenon DEF TypeInv, TypeOK
  <2>2. CASE Crash BY <2>1, <2>2 DEF Crash
  <2>3. CASE UNCHANGED kills BY <2>1, <2>3, Zenon
  <2> QED BY <2>2, <2>3, Frame, Zenon
<1> QED BY <1>2, <1>3, <1>4, <1>5, <1>6, Zenon

(* The queue and the worker thread.                                        *)
LEMMA WorkerType ==
  ASSUME TypeInv, [Next]_vars
  PROVE  /\ queue' \in Seq(Job) /\ job' \in Job /\ jobgen' \in Gen
         /\ worker' \in {"idle", "open", "deflate", "publish", "remove"}
<1>1. /\ queue \in Seq(Job) /\ job \in Job /\ jobgen \in Gen
      /\ worker \in {"idle", "open", "deflate", "publish", "remove"}
      /\ k \in Stream /\ stamp \in Stamp /\ (pc = "enqueue" => stamp >= 1)
      /\ tmp \in [Stream -> [Stamp -> Gen]]
  BY Zenon DEF TypeInv, TypeOK
<1>2. queue' \in Seq(Job)
  <2>1. CASE Enqueue
    <3>1. stamp - 1 \in Stamp
      BY <1>1, <2>1, BoundsAssumption DEF Enqueue, Stamp
    <3>2. [stream |-> k, stamp |-> stamp - 1] \in Job
      BY <1>1, <3>1, Zenon DEF Job
    <3> QED BY <1>1, <2>1, <3>2 DEF Enqueue
  <2>2. CASE Crash BY <2>2 DEF Crash
  <2>3. CASE Take BY <1>1, <2>3 DEF Take, PopJob
  <2> QED BY <1>1, <2>1, <2>2, <2>3, Frame, Zenon
<1>3. job' \in Job
  <2>1. CASE Take BY <1>1, <2>1 DEF Take, PopJob
  <2> QED BY <1>1, <2>1, Frame, Zenon
<1>4. jobgen' \in Gen
  <2>1. CASE CompressOpen
    <3>1. tmp[job.stream][job.stamp] \in Gen
      BY <1>1, Zenon DEF Job
    <3> QED BY <1>1, <2>1, <3>1, Zenon DEF CompressOpen
  <2> QED BY <1>1, <2>1, Frame, Zenon
<1>5. worker' \in {"idle", "open", "deflate", "publish", "remove"}
  <2>1. CASE Compress
    BY <2>1, Zenon DEF Compress, Take, CompressOpen, AfterGzopen, Deflate,
                Publish, RemoveOriginal
  <2>2. CASE Crash BY <2>2, ZenonT(60) DEF Crash
  <2> QED BY <1>1, <2>1, <2>2, Frame, Zenon
<1> QED BY <1>2, <1>3, <1>4, <1>5, Zenon

(* Position, stream and loop index of the rotating thread, and the names   *)
(* it draws.                                                               *)
LEMMA MainType ==
  ASSUME TypeInv, [Next]_vars
  PROVE  /\ pc' \in {"down", "killed", "idle", "check", "gz_oldest", "plain_oldest",
                     "shift", "enqueue", "reopen", "write", "drain"}
         /\ k' \in Stream /\ i' \in 0..(MaxFiles - 1)
         /\ stamp' \in Stamp /\ first_stamp' \in Stamp /\ runs' \in 0..MaxRuns
         /\ Rotating' /\ compression_enabled' => stamp' < MaxRotations
         /\ pc' = "enqueue" => stamp' >= 1
<1>1. /\ pc \in {"down", "killed", "idle", "check", "gz_oldest", "plain_oldest",
                 "shift", "enqueue", "reopen", "write", "drain"}
      /\ k \in Stream /\ i \in 0..(MaxFiles - 1)
      /\ stamp \in Stamp /\ first_stamp \in Stamp /\ runs \in 0..MaxRuns
      /\ Rotating /\ compression_enabled => stamp < MaxRotations
      /\ pc = "enqueue" => stamp >= 1
  BY Zenon DEF TypeInv, TypeOK
<1> USE <1>1, StreamsAssumption, MaxFilesAssumption, BoundsAssumption
    DEF Rotating, Stream, Stamp
<1>2. CASE Start BY <1>2 DEF Start
<1>3. CASE BeginSnapshot BY <1>3 DEF BeginSnapshot
<1>4. CASE CheckSize BY <1>4 DEF CheckSize
<1>5. CASE WriteSnapshot BY <1>5, Zenon DEF WriteSnapshot
<1>6. CASE UnlinkOldestGz BY <1>6, Zenon DEF UnlinkOldestGz
<1>7. CASE UnlinkOldestPlain BY <1>7 DEF UnlinkOldestPlain, LoopStart
<1>8. CASE Shift BY <1>8 DEF Shift
<1>9. CASE RotateCurrent BY <1>9 DEF RotateCurrent
<1>10. CASE Enqueue BY <1>10, Zenon DEF Enqueue
<1>11. CASE Reopen BY <1>11 DEF Reopen
<1>12. CASE Stop BY <1>12, Zenon DEF Stop
<1>13. CASE Exit BY <1>13, Zenon DEF Exit
<1>14. CASE Crash BY <1>14, Zenon DEF Crash
<1>15. CASE Compress
  <2>1. UNCHANGED mainVars
    BY <1>15, Zenon DEF Compress, Take, CompressOpen, AfterGzopen, Deflate, Publish,
                        RemoveOriginal
  <2> QED BY <2>1, Zenon DEF mainVars
<1>16. CASE UNCHANGED vars BY <1>16, Zenon DEF vars, mainVars
<1> QED BY <1>2, <1>3, <1>4, <1>5, <1>6, <1>7, <1>8, <1>9, <1>10, <1>11, <1>12,
          <1>13, <1>14, <1>15, <1>16, ZenonT(60) DEF Next, Rotate

(* The initial state has its types.                                        *)
LEMMA InitTypeInv == Init => TypeInv
<1> SUFFICES ASSUME Init PROVE TypeInv
  BY Zenon
<1>1. /\ active \in [Stream -> Gen] /\ gen \in [Stream -> Gen]
      /\ plain \in [Stream -> [Slot -> Gen]] /\ tmp \in [Stream -> [Stamp -> Gen]]
      /\ gz \in [Stream -> [Slot -> Archive]]
      /\ tmpgz \in [Stream -> [Stamp -> Archive]]
  BY Constants, Zenon DEF Init
<1>2. /\ full \in [Stream -> BOOLEAN] /\ is_open \in [Stream -> BOOLEAN]
      /\ compression_enabled \in BOOLEAN /\ switched \in BOOLEAN
  BY Zenon DEF Init
<1>3. job \in Job /\ jobgen \in Gen /\ stamp \in Stamp /\ queue \in Seq(Job)
  BY StreamsAssumption, BoundsAssumption DEF Init, Job, Stream, Stamp, Gen
<1>4. /\ pc = "down" /\ k \in Stream /\ i \in 0..(MaxFiles - 1) /\ worker = "idle"
      /\ first_stamp \in Stamp /\ runs \in 0..MaxRuns /\ kills \in Nat
  BY StreamsAssumption, MaxFilesAssumption, BoundsAssumption DEF Init, Stream,
                                                                 Stamp
<1> QED BY <1>1, <1>2, <1>3, <1>4, Zenon DEF TypeInv, TypeOK, Rotating

(* Every step keeps the types.                                             *)
LEMMA StepTypeInv == TypeInv /\ [Next]_vars => TypeInv'
BY PlainStep, GzStep, TmpStep, TmpgzStep, GenStep, FlagsType, WorkerType,
   MainType, Zenon
DEF TypeInv, TypeOK

(* The ranges that the steps below compare numbers in.                     *)
LEMMA Numbers ==
  ASSUME TypeInv
  PROVE  /\ active \in [Stream -> Nat] /\ gen \in [Stream -> Nat]
         /\ plain \in [Stream -> [Slot -> Nat]]
         /\ tmp \in [Stream -> [Stamp -> Nat]]
         /\ \A s \in Stream : \A n \in Slot : gz[s][n].gen \in Nat
         /\ stamp \in Nat /\ job.stamp \in Nat /\ k \in Stream
         /\ job.stamp \in Stamp /\ job.stream \in Stream /\ stamp \in Stamp
         /\ Stamp \subseteq Nat /\ Slot \subseteq Nat
<1>1. Gen \subseteq Nat /\ Stamp \subseteq Nat /\ Slot \subseteq Nat
  BY DEF Gen, Stamp, Slot
<1>2. /\ active \in [Stream -> Gen] /\ gen \in [Stream -> Gen]
      /\ plain \in [Stream -> [Slot -> Gen]] /\ tmp \in [Stream -> [Stamp -> Gen]]
      /\ gz \in [Stream -> [Slot -> Archive]] /\ job \in Job /\ stamp \in Stamp
      /\ k \in Stream
  BY Zenon DEF TypeInv, TypeOK
<1>3. \A s \in Stream : \A n \in Slot : gz[s][n].gen \in Nat
  <2>1. \A a \in Archive : a.gen \in Nat
    BY <1>1, Zenon DEF Archive
  <2>2. \A s \in Stream : \A n \in Slot : gz[s][n] \in Archive
    BY <1>2, Zenon
  <2> QED BY <2>1, <2>2, Zenon
<1>4. active \in [Stream -> Nat] /\ gen \in [Stream -> Nat]
  BY <1>1, <1>2, Zenon
<1>5. /\ plain \in [Stream -> [Slot -> Nat]]
      /\ tmp \in [Stream -> [Stamp -> Nat]]
  <2>1. [Slot -> Gen] \subseteq [Slot -> Nat]
    BY <1>1, Zenon
  <2>2. [Stamp -> Gen] \subseteq [Stamp -> Nat]
    BY <1>1, Zenon
  <2>3. plain \in [Stream -> [Slot -> Nat]]
    <3>1. plain \in [Stream -> [Slot -> Gen]]
      BY <1>2, Zenon
    <3> QED BY <2>1, <3>1, Zenon
  <2>4. tmp \in [Stream -> [Stamp -> Nat]]
    <3>1. tmp \in [Stream -> [Stamp -> Gen]]
      BY <1>2, Zenon
    <3> QED BY <2>2, <3>1, Zenon
  <2> QED BY <2>3, <2>4, Zenon
<1>6. job.stamp \in Stamp /\ job.stream \in Stream
  BY <1>2, Zenon DEF Job
<1> QED BY <1>1, <1>2, <1>3, <1>4, <1>5, <1>6, Zenon

(* Every file name, index and counter stays in its range: the loop of      *)
(* rotate_logs stays within 1..max_number_of_files - 1, and the worker     *)
(* only meets jobs with names that were drawn.                             *)
THEOREM TypeCorrect == Spec => []TypeOK
<1>1. TypeInv => TypeOK
  BY Zenon DEF TypeInv
<1> QED BY <1>1, InitTypeInv, StepTypeInv, PTL DEF Spec
-----------------------------------------------------------------------------
(* What is about to be renamed to the name of an archive is complete.      *)
WholeInv ==
  /\ ArchivesWhole
  /\ worker = "publish" => tmpgz[job.stream][job.stamp].whole

(* The worker publishes only what it has written to the end.               *)
LEMMA StepWholeInv ==
  ASSUME "gzclose" \notin Faults
  PROVE  TypeInv /\ WholeInv /\ [Next]_vars => WholeInv'
<1> SUFFICES ASSUME TypeInv, WholeInv, [Next]_vars PROVE WholeInv'
  BY Zenon
<1>1. /\ tmpgz \in [Stream -> [Stamp -> Archive]]
      /\ job.stream \in Stream /\ job.stamp \in Stamp
      /\ k \in Stream
  BY Zenon DEF TypeInv, TypeOK, Job
<1>2. ArchivesWhole'
  <2> SUFFICES ASSUME NEW s \in Stream, NEW n \in Slot, gz'[s][n] # None
               PROVE  gz'[s][n].whole
    BY Zenon DEF ArchivesWhole
  <2>1. \/ gz'[s][n] = None
        \/ \E r \in Stream, m \in Slot : gz'[s][n] = gz[r][m]
        \/ Publish /\ gz'[s][n] = tmpgz[job.stream][job.stamp]
    BY <1>1, GzStep, Constants
  <2> QED BY <2>1, Zenon DEF WholeInv, ArchivesWhole, Publish
<1>3. ASSUME worker' = "publish"
      PROVE  tmpgz'[job'.stream][job'.stamp].whole
  <2>1. CASE Deflate
    <3>1. /\ tmpgz' = [tmpgz EXCEPT ![job.stream][job.stamp].whole = TRUE]
          /\ job' = job
      BY <1>3, <2>1, Zenon DEF Deflate, MayFail
    <3>2. tmpgz[job.stream][job.stamp] \in [gen : Gen, whole : BOOLEAN]
      BY <1>1, Zenon DEF Archive
    <3>3. [tmpgz[job.stream][job.stamp] EXCEPT !.whole = TRUE].whole = TRUE
      BY <3>2, Zenon
    <3>4. tmpgz'[job.stream][job.stamp]
            = [tmpgz[job.stream][job.stamp] EXCEPT !.whole = TRUE]
      BY <1>1, <3>1, Zenon
    <3> QED BY <3>1, <3>3, <3>4, Zenon
  <2>2. CASE ~Deflate
    <3>1. UNCHANGED <<worker, job, tmpgz>>
      BY <1>3, <2>2, Frame, Zenon DEF Compress, Take, CompressOpen, AfterGzopen, Publish,
                               RemoveOriginal, Crash, Deflate
    <3> QED BY <1>3, <3>1, Zenon DEF WholeInv
  <2> QED BY <2>1, <2>2, Zenon
<1> QED BY <1>2, <1>3, Zenon DEF WholeInv

(* Whatever fails except gzclose itself, and whenever the process is       *)
(* killed, a file under the name of an archive is a complete gzip file.    *)
THEOREM ArchivesComplete ==
  ASSUME "gzclose" \notin Faults PROVE Spec => []ArchivesWhole
<1>1. Init => TypeInv /\ WholeInv
  <2>1. Init => ArchivesWhole
    BY DEF Init, ArchivesWhole
  <2>2. Init => worker # "publish"
    BY Zenon DEF Init
  <2> QED BY <2>1, <2>2, InitTypeInv, Zenon DEF WholeInv
<1>2. (TypeInv /\ WholeInv) /\ [Next]_vars => (TypeInv /\ WholeInv)'
  BY StepTypeInv, StepWholeInv, Zenon
<1>3. WholeInv => ArchivesWhole
  BY Zenon DEF WholeInv
<1> QED BY <1>1, <1>2, <1>3, PTL DEF Spec
-----------------------------------------------------------------------------
(* Everything that was rotated away is older than the current file and     *)
(* than every file still to be created.                                    *)
Older(s, g) == g <= gen[s] /\ (active[s] # 0 => g < gen[s])

OlderNext(s, g) == g <= gen'[s] /\ (active'[s] # 0 => g < gen'[s])

AgeInv ==
  \A s \in Stream :
    /\ active[s] \in {0, gen[s]}
    /\ \A n \in Slot : Older(s, plain[s][n]) /\ Older(s, gz[s][n].gen)
    /\ \A n \in Stamp : Older(s, tmp[s][n])

PlainInv ==
  \A s \in Stream : \A a, b \in Slot :
    a < b /\ plain[s][a] # 0 /\ plain[s][b] # 0 => plain[s][a] > plain[s][b]

GzInv ==
  \A s \in Stream :
    /\ \A a \in Slot : gz[s][a].gen = 0 => gz[s][a] = None
    /\ \A a, b \in Slot :
         a < b /\ gz[s][a].gen # 0 /\ gz[s][b].gen # 0 => gz[s][a].gen > gz[s][b].gen

(* Temporary names grow with the generations they hold.                    *)
TmpInv ==
  \A s \in Stream :
    /\ \A n \in Stamp : n >= stamp => tmp[s][n] = 0
    /\ \A m, n \in Stamp :
         m < n /\ tmp[s][m] # 0 /\ tmp[s][n] # 0 => tmp[s][m] < tmp[s][n]

(* The jobs are queued, and taken, in the order of their names.            *)
Bound == IF pc = "enqueue" THEN stamp - 1 ELSE stamp

QueueInv ==
  /\ job.stamp < Bound
  /\ \A n \in 1..Len(queue) : job.stamp < queue[n].stamp /\ queue[n].stamp < Bound
  /\ \A m, n \in 1..Len(queue) : m < n => queue[m].stamp < queue[n].stamp

(* What is still to be published is newer than every archive.              *)
Unpublished(n) ==
  job.stamp < n \/ (job.stamp = n /\ worker \in {"open", "deflate", "publish"})

ArchiveInv ==
  \A s \in Stream : \A n \in Stamp :
    Unpublished(n) /\ tmp[s][n] # 0 =>
      \A m \in Slot : gz[s][m].gen < tmp[s][n]

(* The worker's output holds what its input holds.                         *)
JobInv ==
  worker \in {"deflate", "publish"} =>
    LET s == job.stream
        n == job.stamp
    IN tmp[s][n] # 0 /\ tmpgz[s][n].gen = tmp[s][n]

IInv == /\ AgeInv /\ PlainInv /\ GzInv /\ TmpInv /\ QueueInv /\ ArchiveInv
        /\ JobInv
-----------------------------------------------------------------------------
(* An empty output directory is in order.                                  *)
LEMMA InitIInv == Init => IInv
<1> SUFFICES ASSUME Init PROVE IInv
  BY Zenon
<1>1. AgeInv /\ GzInv
  BY DEF Init, AgeInv, Older, GzInv, None
<1>2. PlainInv /\ TmpInv
  BY Zenon DEF Init, PlainInv, TmpInv
<1>3. ArchiveInv
  BY Zenon DEF Init, ArchiveInv
<1>4. QueueInv /\ JobInv
  BY DEF Init, QueueInv, Bound, JobInv
<1> QED BY <1>1, <1>2, <1>3, <1>4, Zenon DEF IInv

(* A generation older than the current file stays older.                   *)
LEMMA OlderStep ==
  ASSUME TypeInv, AgeInv, [Next]_vars, NEW s \in Stream, NEW g \in Nat, Older(s, g)
  PROVE  OlderNext(s, g)
<1>1. active[s] \in Nat /\ gen[s] \in Nat
  BY Numbers, Zenon
<1> QED BY <1>1, GenStep DEF Older, OlderNext, AgeInv

(* No rotated file or archive is newer than the current file.              *)
LEMMA StepAge ==
  ASSUME TypeInv, IInv, [Next]_vars
  PROVE  AgeInv'
<1> USE DEF IInv
<1> SUFFICES ASSUME NEW s \in Stream
             PROVE  /\ active'[s] \in {0, gen'[s]}
                    /\ \A n \in Slot : OlderNext(s, plain'[s][n]) /\ OlderNext(s, gz'[s][n].gen)
                    /\ \A n \in Stamp : OlderNext(s, tmp'[s][n])
  BY Zenon DEF AgeInv, Older, OlderNext
<1>1. active'[s] \in {0, gen'[s]}
  BY GenStep, Zenon DEF AgeInv
<1>2. OlderNext(s, 0)
  <2>1. active[s] \in Nat /\ gen[s] \in Nat
    BY Numbers, Zenon
  <2>2. active[s] \in {0, gen[s]}
    BY Zenon DEF AgeInv
  <2> QED BY <2>1, <2>2, GenStep DEF OlderNext
<1>3. ASSUME RotateCurrent, MoveCurrent PROVE OlderNext(k, active[k])
  <2>1. active' = [active EXCEPT ![k] = 0] /\ UNCHANGED gen
    BY <1>3, Zenon DEF RotateCurrent, MoveCurrent
  <2>2. active[k] \in {0, gen[k]}
    BY Numbers, SMTT(30) DEF AgeInv
  <2> QED BY <1>3, <2>1, <2>2, Numbers DEF OlderNext
<1>4. ASSUME NEW n \in Slot PROVE OlderNext(s, plain'[s][n])
  <2>1. \A m \in Slot : plain[s][m] \in Nat /\ Older(s, plain[s][m])
    BY Numbers DEF AgeInv
  <2>2. \A m \in Slot : \A g \in Nat : g = plain[s][m] => OlderNext(s, g)
    BY <2>1, OlderStep, Zenon
  <2>3. \/ plain'[s][n] = 0
        \/ \E m \in Slot : plain'[s][n] = plain[s][m]
        \/ RotateCurrent /\ MoveCurrent /\ s = k /\ plain'[s][n] = active[k]
    BY PlainStep, Constants
  <2> QED BY <1>2, <1>3, <2>1, <2>2, <2>3, Zenon
<1>5. ASSUME NEW n \in Slot PROVE OlderNext(s, gz'[s][n].gen)
  <2>1. \A m \in Slot : gz[s][m].gen \in Nat /\ Older(s, gz[s][m].gen)
    BY Numbers, Zenon DEF AgeInv
  <2>2. \A m \in Slot : \A g \in Nat : g = gz[s][m].gen => OlderNext(s, g)
    BY <2>1, OlderStep, Zenon
  <2>3. \/ gz'[s][n].gen = 0
        \/ \E m \in Slot : gz'[s][n].gen = gz[s][m].gen
        \/ Publish /\ s = job.stream /\ gz'[s][n] = tmpgz[s][job.stamp]
    BY GzStep, Constants
  <2>4. CASE Publish /\ s = job.stream /\ gz'[s][n] = tmpgz[s][job.stamp]
    <3>1. gz'[s][n].gen = tmp[s][job.stamp]
      BY <2>4, Zenon DEF Publish, JobInv
    <3>2. tmp[s][job.stamp] \in Nat /\ Older(s, tmp[s][job.stamp])
      BY Numbers DEF AgeInv
    <3>3. \A g \in Nat : g = tmp[s][job.stamp] => OlderNext(s, g)
      BY <3>2, OlderStep, Zenon
    <3> QED BY <3>1, <3>2, <3>3, Zenon
  <2> QED BY <1>2, <2>1, <2>2, <2>3, <2>4, ZenonT(60)
<1>6. ASSUME NEW n \in Stamp PROVE OlderNext(s, tmp'[s][n])
  <2>1. tmp[s][n] \in Nat /\ Older(s, tmp[s][n])
    BY Numbers, Zenon DEF AgeInv
  <2>2. \A g \in Nat : g = tmp[s][n] => OlderNext(s, g)
    BY <2>1, OlderStep, Zenon
  <2>3. \/ tmp'[s][n] = 0 \/ tmp'[s][n] = tmp[s][n]
        \/ RotateCurrent /\ MoveCurrent /\ s = k /\ tmp'[s][n] = active[k]
    BY TmpStep, Zenon
  <2> QED BY <1>2, <1>3, <2>1, <2>2, <2>3, Zenon
<1> QED BY <1>1, <1>4, <1>5, <1>6, Zenon

(* The renames of rotate_logs keep the uncompressed files in order.        *)
LEMMA StepPlain ==
  ASSUME TypeInv, IInv, [Next]_vars
  PROVE  PlainInv'
<1> SUFFICES ASSUME NEW s \in Stream, NEW a \in Slot, NEW b \in Slot, a < b,
                    plain'[s][a] # 0, plain'[s][b] # 0
             PROVE  plain'[s][a] > plain'[s][b]
  BY Zenon DEF PlainInv
<1>1. \A n \in Slot : plain[s][n] \in Nat /\ n \in Nat /\ Older(s, plain[s][n])
  BY Numbers DEF IInv, AgeInv
<1>2. \A m, n \in Slot : m < n /\ plain[s][m] # 0 /\ plain[s][n] # 0
                           => plain[s][m] > plain[s][n]
  BY Zenon DEF IInv, PlainInv
<1>3. active[s] \in {0, gen[s]} /\ gen[s] \in Nat
  BY Numbers, Zenon DEF IInv, AgeInv
<1>4. CASE UNCHANGED plain
  BY <1>2, <1>4, Zenon
<1>5. CASE \A n \in Slot :
             plain'[s][n] = IF s = k /\ n = MaxFiles THEN 0 ELSE plain[s][n]
  BY <1>2, <1>5, Zenon
<1>6. CASE /\ i \in 1..(MaxFiles - 1)
           /\ \A n \in Slot :
                plain'[s][n] = IF s = k /\ n = i + 1 THEN plain[k][i]
                               ELSE IF s = k /\ n = i THEN 0 ELSE plain[s][n]
  BY <1>1, <1>2, <1>6, Constants, SMTT(30)
<1>7. CASE \A n \in Slot :
             plain'[s][n] = IF s = k /\ n = 1 THEN active[k] ELSE plain[s][n]
  <2>1. b # 1
    BY <1>1, SMTT(30) DEF Slot
  <2> QED BY <1>1, <1>2, <1>3, <1>7, <2>1, Zenon DEF Older
<1> QED BY <1>4, <1>5, <1>6, <1>7, PlainStep, Zenon

(* The renames of rotate_logs and of the worker keep the archives in       *)
(* order.                                                                  *)
LEMMA StepGz ==
  ASSUME TypeInv, IInv, [Next]_vars
  PROVE  GzInv'
<1> SUFFICES ASSUME NEW s \in Stream
             PROVE  /\ \A a \in Slot : gz'[s][a].gen = 0 => gz'[s][a] = None
                    /\ \A a, b \in Slot :
                         a < b /\ gz'[s][a].gen # 0 /\ gz'[s][b].gen # 0
                           => gz'[s][a].gen > gz'[s][b].gen
  BY Zenon DEF GzInv
<1>1. \A n \in Slot : gz[s][n].gen \in Nat /\ n \in Nat
  BY Numbers, SMTT(30)
<1>2. /\ \A n \in Slot : gz[s][n].gen = 0 => gz[s][n] = None
      /\ \A m, n \in Slot : m < n /\ gz[s][m].gen # 0 /\ gz[s][n].gen # 0
                              => gz[s][m].gen > gz[s][n].gen
  BY Zenon DEF IInv, GzInv
<1>3. CASE UNCHANGED gz
  BY <1>2, <1>3, Zenon
<1>4. CASE \A n \in Slot :
             gz'[s][n] = IF s = k /\ n = MaxFiles THEN None ELSE gz[s][n]
  BY <1>1, <1>2, <1>4, Constants, Zenon
<1>5. CASE /\ i \in 1..(MaxFiles - 1)
           /\ \A n \in Slot :
                gz'[s][n] = IF s = k /\ n = i + 1 THEN gz[k][i]
                            ELSE IF s = k /\ n = i THEN None ELSE gz[s][n]
  BY <1>1, <1>2, <1>5, Constants, SMTT(60)
<1>6. CASE /\ Publish
           /\ \A n \in Slot : gz'[s][n] = IF s = job.stream /\ n = 1
                                THEN tmpgz[s][job.stamp] ELSE gz[s][n]
  <2>1. CASE s # job.stream
    BY <1>2, <1>6, <2>1, Zenon
  <2>2. CASE s = job.stream
    <3>1. /\ tmpgz[s][job.stamp].gen # 0
          /\ \A m \in Slot : gz[s][m].gen < tmpgz[s][job.stamp].gen
      <4>1. worker = "publish" /\ job.stamp \in Stamp
        BY <1>6, Numbers, Zenon DEF Publish
      <4>2. tmp[s][job.stamp] # 0 /\ tmpgz[s][job.stamp].gen = tmp[s][job.stamp]
        BY <2>2, <4>1, Zenon DEF IInv, JobInv
      <4>3. Unpublished(job.stamp)
        BY <4>1, Zenon DEF Unpublished
      <4> QED BY <4>1, <4>2, <4>3, Zenon DEF IInv, ArchiveInv
    <3>2. \A b \in Slot : b # 1 => 1 < b
      BY DEF Slot
    <3> DEFINE new == tmpgz[s][job.stamp]
    <3>3. /\ gz'[s][1] = new
          /\ \A n \in Slot : n # 1 => gz'[s][n] = gz[s][n]
      BY <1>6, <2>2, Constants, Zenon
    <3>4. ASSUME NEW a \in Slot, gz'[s][a].gen = 0 PROVE gz'[s][a] = None
      BY <1>2, <3>1, <3>3, <3>4, Zenon
    <3>5. ASSUME NEW a \in Slot, NEW b \in Slot, a < b,
                 gz'[s][a].gen # 0, gz'[s][b].gen # 0
          PROVE  gz'[s][a].gen > gz'[s][b].gen
      <4>1. b # 1
        BY <3>2, <3>5 DEF Slot
      <4>2. gz'[s][b] = gz[s][b]
        BY <3>3, <4>1, Zenon
      <4>3. CASE a = 1
        BY <3>1, <3>3, <4>2, <4>3, Zenon
      <4>4. CASE a # 1
        <5>1. gz'[s][a] = gz[s][a]
          BY <3>3, <4>4, Zenon
        <5> QED BY <1>2, <3>5, <4>2, <5>1, Zenon
      <4> QED BY <4>3, <4>4, Zenon
    <3> QED BY <3>4, <3>5, SMTT(30)
  <2> QED BY <2>1, <2>2, Zenon
<1> QED BY <1>3, <1>4, <1>5, <1>6, GzStep, SMTT(30)

(* Without a restart in the same second, stamps only grow.                 *)
LEMMA BoundStep ==
  ASSUME TypeInv, [Next]_vars, ~SameSecondRestart
  PROVE  /\ Bound \in Int /\ Bound' \in Int /\ Bound <= Bound' /\ stamp <= stamp'
         /\ Bound <= stamp
<1>1. stamp \in Nat
  BY Numbers, Zenon
<1> USE <1>1 DEF Bound
<1>2. CASE Start BY <1>2 DEF Start
<1>3. CASE BeginSnapshot BY <1>3 DEF BeginSnapshot
<1>4. CASE CheckSize BY <1>4 DEF CheckSize
<1>5. CASE WriteSnapshot BY <1>5 DEF WriteSnapshot
<1>6. CASE UnlinkOldestGz BY <1>6 DEF UnlinkOldestGz
<1>7. CASE UnlinkOldestPlain BY <1>7 DEF UnlinkOldestPlain
<1>8. CASE Shift BY <1>8 DEF Shift
<1>9. CASE RotateCurrent BY <1>9 DEF RotateCurrent
<1>10. CASE Enqueue BY <1>10 DEF Enqueue
<1>11. CASE Reopen BY <1>11 DEF Reopen
<1>12. CASE Stop BY <1>12 DEF Stop
<1>13. CASE Exit BY <1>13 DEF Exit
<1>14. CASE Crash BY <1>14 DEF Crash
<1>15. CASE Compress
  <2>1. UNCHANGED mainVars
    BY <1>15, Zenon DEF Compress, Take, CompressOpen, AfterGzopen, Deflate, Publish,
                        RemoveOriginal
  <2> QED BY <2>1 DEF mainVars
<1>16. CASE UNCHANGED vars BY <1>16 DEF vars, mainVars
<1> QED BY <1>2, <1>3, <1>4, <1>5, <1>6, <1>7, <1>8, <1>9, <1>10, <1>11, <1>12,
          <1>13, <1>14, <1>15, <1>16, ZenonT(60) DEF Next, Rotate

(* Temporary names are drawn in the order of the rotations.                *)
LEMMA StepTmp ==
  ASSUME TypeInv, IInv, [Next]_vars, ~SameSecondRestart
  PROVE  TmpInv'
<1> SUFFICES ASSUME NEW s \in Stream
             PROVE  /\ \A n \in Stamp : n >= stamp' => tmp'[s][n] = 0
                    /\ \A m, n \in Stamp :
                         m < n /\ tmp'[s][m] # 0 /\ tmp'[s][n] # 0
                           => tmp'[s][m] < tmp'[s][n]
  BY Zenon DEF TmpInv
<1>1. stamp \in Nat /\ stamp' \in Nat /\ stamp <= stamp'
  <2>1. TypeInv'
    BY StepTypeInv, Zenon
  <2>2. stamp' \in Stamp
    BY <2>1, Zenon DEF TypeInv, TypeOK
  <2> QED BY <2>2, Numbers, BoundStep, Zenon
<1>2. /\ \A n \in Stamp : n >= stamp => tmp[s][n] = 0
      /\ \A m, n \in Stamp : m < n /\ tmp[s][m] # 0 /\ tmp[s][n] # 0
                               => tmp[s][m] < tmp[s][n]
  BY Zenon DEF IInv, TmpInv
<1>3. ASSUME NEW n \in Stamp, n >= stamp' PROVE n >= stamp /\ tmp[s][n] = 0
  <2>1. n \in Nat
    BY Numbers, Zenon
  <2>2. n >= stamp
    BY <1>1, <1>3, <2>1
  <2> QED BY <1>2, <2>2, Zenon
<1>4. CASE UNCHANGED tmp
  BY <1>2, <1>3, <1>4, Zenon
<1>5. CASE /\ RotateCurrent /\ compression_enabled
           /\ \A n \in Stamp :
                tmp'[s][n] = IF s = k /\ n = stamp THEN active[k] ELSE tmp[s][n]
  <2>1. stamp' = stamp + 1
    BY <1>5, Zenon DEF RotateCurrent
  <2>2. active[s] \in {0, gen[s]} /\ gen[s] \in Nat
    BY Numbers, Zenon DEF IInv, AgeInv
  <2>3. ASSUME NEW n \in Stamp, n >= stamp' PROVE tmp'[s][n] = 0
    <3>1. n \in Nat
      BY Numbers, Zenon
    <3>2. n # stamp
      BY <1>1, <2>1, <2>3, <3>1, SMTT(30)
    <3> QED BY <1>3, <1>5, <2>3, <3>2, Zenon
  <2>4. ASSUME NEW m \in Stamp, NEW n \in Stamp, m < n,
               tmp'[s][m] # 0, tmp'[s][n] # 0
        PROVE  tmp'[s][m] < tmp'[s][n]
    <3>1. m # stamp
      <4>1. ~(n >= stamp')
        BY <2>3, <2>4, Zenon
      <4>2. m \in Nat /\ n \in Nat
        BY Numbers, Zenon
      <4> QED BY <1>1, <2>1, <2>4, <4>1, <4>2
    <3>2. tmp'[s][m] = tmp[s][m]
      BY <1>5, <3>1, Zenon
    <3>3. CASE tmp'[s][n] = tmp[s][n]
      BY <1>2, <2>4, <3>2, <3>3, Zenon
    <3>4. CASE s = k /\ tmp'[s][n] = active[k]
      <4>1. tmp'[s][n] = active[s] /\ active[s] = gen[s] /\ active[s] # 0
        BY <2>2, <2>4, <3>4, SMTT(30)
      <4>2. Older(s, tmp[s][m])
        BY Zenon DEF IInv, AgeInv
      <4>3. tmp[s][m] < gen[s]
        BY <4>1, <4>2, SMTT(30) DEF Older
      <4> QED BY <3>2, <4>1, <4>3, Zenon
    <3> QED BY <1>5, <3>3, <3>4, Zenon
  <2> QED BY <2>3, <2>4, SMTT(30)
<1>6. CASE \A n \in Stamp :
             tmp'[s][n] = IF s = job.stream /\ n = job.stamp THEN 0 ELSE tmp[s][n]
  <2>1. ASSUME NEW n \in Stamp, n >= stamp' PROVE tmp'[s][n] = 0
    BY <1>3, <1>6, <2>1, Zenon
  <2>2. \A n \in Stamp : tmp'[s][n] # 0 => tmp'[s][n] = tmp[s][n]
    BY <1>6, Zenon
  <2> QED BY <1>2, <2>1, <2>2, Zenon
<1> QED BY <1>4, <1>5, <1>6, TmpStep, Zenon

(* Jobs are queued in the order of their stamps.                           *)
LEMMA StepQueue ==
  ASSUME TypeInv, IInv, [Next]_vars, ~SameSecondRestart
  PROVE  QueueInv'
<1>1. /\ queue \in Seq(Job) /\ Len(queue) \in Nat /\ job.stamp \in Nat
      /\ \A n \in 1..Len(queue) : queue[n].stamp \in Nat
  <2>1. queue \in Seq(Job) /\ Stamp \subseteq Nat
    BY Numbers, Zenon DEF TypeInv, TypeOK
  <2>2. Len(queue) \in Nat /\ \A n \in 1..Len(queue) : queue[n] \in Job
    BY <2>1
  <2>3. \A j \in Job : j.stamp \in Stamp
    BY Zenon DEF Job
  <2> QED BY <2>1, <2>2, <2>3, Numbers, ZenonT(60)
<1>2. QueueInv
  BY Zenon DEF IInv
<1>3. Bound \in Int /\ Bound' \in Int /\ Bound <= Bound'
  BY BoundStep, Zenon
<1>4. \A j \in Nat : j < Bound => j < Bound'
  BY <1>3, SMTT(30)
<1>5. CASE UNCHANGED <<queue, job>>
  BY <1>1, <1>2, <1>5, <1>4, Zenon DEF QueueInv
<1>6. CASE Enqueue
  <2>1. CASE UNCHANGED queue
    BY <1>5, <1>6, <2>1, Zenon DEF Enqueue, workerVars
  <2>2. CASE queue' = Append(queue, [stream |-> k, stamp |-> stamp - 1])
    <3> DEFINE new == [stream |-> k, stamp |-> stamp - 1]
    <3>1. /\ Len(queue') = Len(queue) + 1
          /\ \A n \in 1..Len(queue) : queue'[n] = queue[n]
          /\ queue'[Len(queue) + 1] = new /\ new.stamp = stamp - 1
      <4>1. new.stamp = stamp - 1
        BY Zenon
      <4>2. queue' = Append(queue, new) /\ queue \in Seq(Job)
        BY <1>1, <2>2, Zenon
      <4> HIDE DEF new
      <4>3. Len(queue') = Len(queue) + 1
        BY <4>2
      <4>4. \A n \in 1..Len(queue) : queue'[n] = queue[n]
        BY <4>2
      <4>5. queue'[Len(queue) + 1] = new
        BY <4>2, SMTT(30)
      <4> QED
        BY <4>1, <4>3, <4>4, <4>5, Zenon
    <3>2. Bound = stamp - 1 /\ Bound' = stamp /\ job' = job /\ stamp \in Nat
      BY <1>6, Numbers, Zenon DEF Enqueue, Bound, workerVars
    <3>3. \A n \in 1..Len(queue') : n \in 1..Len(queue) \/ n = Len(queue) + 1
      <4>1. Len(queue') = Len(queue) + 1 /\ Len(queue) \in Nat
        BY <1>1, <3>1, Zenon
      <4> QED BY <4>1
    <3> HIDE DEF new
    <3>4. job'.stamp < Bound'
      BY <1>1, <1>2, <1>4, <3>2, Zenon DEF QueueInv
    <3>5. new.stamp = Bound /\ new.stamp < Bound'
      BY <3>1, <3>2
    <3>6. ASSUME NEW n \in 1..Len(queue')
          PROVE  job'.stamp < queue'[n].stamp /\ queue'[n].stamp < Bound'
      <4>1. CASE n \in 1..Len(queue)
        BY <1>1, <1>2, <1>4, <3>1, <3>2, <4>1, Zenon DEF QueueInv
      <4>2. CASE n = Len(queue) + 1
        BY <1>2, <3>1, <3>2, <3>5, <4>2, Zenon DEF QueueInv
      <4> QED BY <3>3, <4>1, <4>2, Zenon
    <3>7. ASSUME NEW m \in 1..Len(queue'), NEW n \in 1..Len(queue'), m < n
          PROVE  queue'[m].stamp < queue'[n].stamp
      <4>1. m \in 1..Len(queue)
        <5>1. Len(queue') = Len(queue) + 1 /\ Len(queue) \in Nat
          BY <1>1, <3>1, Zenon
        <5> QED BY <3>7, <5>1
      <4>2. CASE n \in 1..Len(queue)
        BY <1>2, <3>1, <3>7, <4>1, <4>2, Zenon DEF QueueInv
      <4>3. CASE n = Len(queue) + 1
        BY <1>2, <3>1, <3>5, <4>1, <4>3, SMTT(30) DEF QueueInv
      <4> QED BY <3>3, <4>2, <4>3, Zenon
    <3> QED BY <3>4, <3>6, <3>7, ZenonT(60) DEF QueueInv
  <2> QED BY <1>6, <2>1, <2>2, Zenon DEF Enqueue
<1>7. CASE Crash
  <2>1. queue' = <<>> /\ job' = job
    BY <1>7, Zenon DEF Crash
  <2> QED BY <1>1, <1>2, <1>4, <2>1 DEF QueueInv
<1>8. CASE Take
  <2>1. queue # <<>> /\ job' = Head(queue) /\ queue' = Tail(queue)
    BY <1>8, Zenon DEF Take, PopJob
  <2>2. /\ job' = queue[1] /\ Len(queue') = Len(queue) - 1 /\ 1 \in 1..Len(queue)
        /\ \A n \in 1..Len(queue') : queue'[n] = queue[n + 1]
    BY <1>1, <2>1
  <2>3. \A n \in 1..Len(queue') : n + 1 \in 1..Len(queue) /\ 1 < n + 1
    BY <1>1, <2>2
  <2>4. job'.stamp = queue[1].stamp /\ job'.stamp \in Nat /\ job'.stamp < Bound'
    BY <1>1, <1>2, <1>4, <2>2, Zenon DEF QueueInv
  <2>5. \A n \in 1..Len(queue') :
          job'.stamp < queue'[n].stamp /\ queue'[n].stamp < Bound'
    <3> TAKE n \in 1..Len(queue')
    <3>1. queue'[n] = queue[n + 1] /\ n + 1 \in 1..Len(queue) /\ 1 < n + 1
      BY <2>2, <2>3, Zenon
    <3>2. queue[1].stamp < queue[n + 1].stamp
      BY <1>2, <2>2, <3>1, Zenon DEF QueueInv
    <3>3. queue[n + 1].stamp < Bound'
      BY <1>1, <1>2, <1>4, <3>1, Zenon DEF QueueInv
    <3> QED BY <2>4, <3>1, <3>2, <3>3, Zenon
  <2>6. \A m, n \in 1..Len(queue') : m < n => queue'[m].stamp < queue'[n].stamp
    <3> TAKE m, n \in 1..Len(queue')
    <3>1. /\ queue'[n] = queue[n + 1] /\ n + 1 \in 1..Len(queue)
          /\ queue'[m] = queue[m + 1] /\ m + 1 \in 1..Len(queue)
      BY <2>2, <2>3, Zenon
    <3>2. m < n => m + 1 < n + 1
      OBVIOUS
    <3> QED BY <1>2, <3>1, <3>2, Zenon DEF QueueInv
  <2> QED BY <2>4, <2>5, <2>6, Zenon DEF QueueInv
<1> QED BY <1>5, <1>6, <1>7, <1>8, Frame, Zenon

(* A step of the worker never makes a job pending again.                   *)
LEMMA UnpublishedStep ==
  ASSUME TypeInv, IInv, [Next]_vars, NEW n \in Stamp, Unpublished(n)'
  PROVE  Unpublished(n)
<1>1. job.stamp \in Nat /\ n \in Nat
  BY Numbers, Zenon
<1>2. CASE Take
  <2>1. queue # <<>> /\ job' = Head(queue) /\ queue \in Seq(Job)
    BY <1>2, Zenon DEF Take, PopJob, TypeInv, TypeOK
  <2>2. 1 \in 1..Len(queue) /\ job' = queue[1] /\ queue[1] \in Job
    BY <2>1
  <2>3. job.stamp < job'.stamp /\ job'.stamp \in Nat
    BY <2>2, Numbers, ZenonT(60) DEF IInv, QueueInv, Job
  <2> QED BY <1>1, <2>3 DEF Unpublished
<1>3. CASE UNCHANGED job /\ (Crash \/ UNCHANGED worker)
  BY <1>3, Zenon DEF Unpublished, Crash
<1>4. CASE UNCHANGED job /\ (CompressOpen \/ Deflate \/ Publish \/ RemoveOriginal)
  BY <1>4, ZenonT(60) DEF Unpublished, CompressOpen, AfterGzopen, Deflate, Publish,
              RemoveOriginal
<1> QED BY <1>2, <1>3, <1>4, Frame, Zenon DEF Compress

(* What is not published yet is newer than every archive.                  *)
LEMMA StepArchive ==
  ASSUME TypeInv, IInv, [Next]_vars
  PROVE  ArchiveInv'
<1> SUFFICES ASSUME NEW s \in Stream, NEW n \in Stamp, Unpublished(n)',
                    tmp'[s][n] # 0, NEW m \in Slot
             PROVE  gz'[s][m].gen < tmp'[s][n]
  BY SMTT(30) DEF ArchiveInv
<1>1. /\ \A a \in Slot : gz[s][a].gen \in Nat /\ Older(s, gz[s][a].gen)
      /\ tmp[s][n] \in Nat /\ active[s] \in {0, gen[s]} /\ gen[s] \in Nat
      /\ \A a \in Stamp : tmp[s][a] \in Nat
  BY Numbers, ZenonT(60) DEF IInv, AgeInv
<1>2. tmp[s][n] # 0 => \A a \in Slot : gz[s][a].gen < tmp[s][n]
  BY UnpublishedStep, Zenon DEF IInv, ArchiveInv
<1>3. CASE /\ Publish /\ worker' = "remove"
           /\ \A a \in Slot : gz'[s][a] = IF s = job.stream /\ a = 1
                                THEN tmpgz[s][job.stamp] ELSE gz[s][a]
  <2>1. worker = "publish" /\ UNCHANGED <<tmp, job>>
    BY <1>3, Zenon DEF Publish
  <2>2. job.stamp < n
    BY <1>3, <2>1, Zenon DEF Unpublished
  <2>3. CASE s = job.stream
    <3>1. tmp[s][job.stamp] # 0 /\ tmpgz[s][job.stamp].gen = tmp[s][job.stamp]
      BY <2>1, <2>3, SMTT(30) DEF IInv, JobInv
    <3>2. tmp[s][job.stamp] < tmp[s][n]
      BY <2>1, <2>2, <3>1, Numbers, ZenonT(60) DEF IInv, TmpInv
    <3> QED BY <1>2, <1>3, <2>1, <2>3, <3>1, <3>2, ZenonT(60)
  <2> QED BY <1>2, <1>3, <2>1, <2>3, Zenon
<1>4. CASE \/ gz'[s][m] = None
           \/ \E a \in Slot : gz'[s][m] = gz[s][a]
  <2>1. PICK g \in Nat : /\ gz'[s][m].gen = g /\ Older(s, g)
                         /\ tmp[s][n] # 0 => g < tmp[s][n]
    <3>1. CASE gz'[s][m] = None
      <4>1. gz'[s][m].gen = 0
        BY <3>1, Constants, Zenon
      <4>2. tmp[s][n] # 0 => 0 < tmp[s][n]
        <5>1. tmp[s][n] \in Nat
          BY <1>1, Zenon
        <5> QED BY <5>1, SMTT(30)
      <4>3. Older(s, 0)
        <5>1. active[s] \in {0, gen[s]} /\ gen[s] \in Nat
          BY <1>1, SMTT(30)
        <5> QED BY <5>1 DEF Older
      <4> QED BY <4>1, <4>2, <4>3
    <3>2. CASE \E a \in Slot : gz'[s][m] = gz[s][a]
      <4>1. PICK a \in Slot : gz'[s][m] = gz[s][a]
        BY <3>2, Zenon
      <4>2. gz'[s][m].gen = gz[s][a].gen
        BY <4>1, SMTT(30)
      <4> QED BY <1>1, <1>2, <4>2, Zenon
    <3> QED BY <1>4, <3>1, <3>2, Zenon
  <2>2. CASE tmp'[s][n] = tmp[s][n]
    BY <2>1, <2>2, Zenon
  <2>3. CASE s = k /\ tmp'[s][n] = active[k]
    <3>1. active[s] # 0 /\ tmp'[s][n] = active[s]
      BY <2>3, SMTT(30)
    <3>2. active[s] = gen[s]
      BY <1>1, <3>1, Zenon
    <3>3. g < gen[s]
      BY <2>1, <3>1, Zenon DEF Older
    <3> QED BY <2>1, <3>1, <3>2, <3>3, Zenon
  <2> QED BY <2>2, <2>3, TmpStep, SMTT(30)
<1> QED BY <1>3, <1>4, GzStep, Constants, Zenon

(* The job at hand keeps to the generation it was taken with.              *)
LEMMA StepJob ==
  ASSUME TypeInv, IInv, [Next]_vars
  PROVE  JobInv'
<1> DEFINE s == job.stream
           n == job.stamp
<1>1. s \in Stream /\ n \in Stamp /\ n \in Nat /\ stamp \in Nat
  BY Numbers, Zenon
<1>2. n # stamp
  <2>1. n < Bound
    BY Zenon DEF IInv, QueueInv
  <2> QED BY <1>1, <2>1 DEF Bound
<1>3. SUFFICES ASSUME worker' \in {"deflate", "publish"}
      PROVE  /\ job' = job
             /\ tmp'[s][n] # 0 /\ tmpgz'[s][n].gen = tmp'[s][n]
  BY Zenon DEF JobInv
<1>4. job' = job
  BY <1>3, Frame, ZenonT(60) DEF Take
<1>5. worker \in {"open", "deflate", "publish"}
  BY <1>3, Frame, ZenonT(60) DEF Compress, Take, CompressOpen, AfterGzopen, Deflate,
                     Publish, RemoveOriginal, Crash
<1>6. tmp'[s][n] = tmp[s][n]
  BY <1>1, <1>2, <1>5, TmpStep, SMTT(30) DEF RemoveOriginal
<1>7. CASE CompressOpen
  <2>1. worker' = "deflate" /\ tmp[s][n] # 0
    BY <1>3, <1>7, Zenon DEF CompressOpen, AfterGzopen
  <2>2. tmpgz' = [tmpgz EXCEPT ![s][n] = [gen |-> tmp[s][n], whole |-> FALSE]]
    BY <1>3, <1>7, Zenon DEF CompressOpen
  <2>3. tmpgz \in [Stream -> [Stamp -> Archive]]
    BY Zenon DEF TypeInv, TypeOK
  <2>4. tmpgz'[s][n].gen = tmp[s][n]
    BY <1>1, <2>2, <2>3, Zenon
  <2> QED BY <1>4, <1>6, <2>1, <2>4, Zenon
<1>8. CASE Deflate
  BY <1>4, <1>6, <1>8, TmpgzStep, Zenon DEF Deflate, IInv, JobInv
<1>9. CASE UNCHANGED tmpgz /\ UNCHANGED worker
  BY <1>3, <1>4, <1>6, <1>9, ZenonT(60) DEF IInv, JobInv
<1>10. ~Take /\ ~Publish /\ ~RemoveOriginal /\ ~Crash
  BY <1>3, Zenon DEF Take, Publish, RemoveOriginal, Crash
<1> QED BY <1>7, <1>8, <1>9, <1>10, Frame, Zenon DEF Compress

(* Every step of the main thread, the worker and the faults preserves the  *)
(* invariant.                                                              *)
LEMMA StepIInv ==
  ASSUME ~SameSecondRestart
  PROVE  TypeInv /\ IInv /\ [Next]_vars => IInv'
BY StepAge, StepPlain, StepGz, StepTmp, StepQueue, StepArchive, StepJob, Zenon DEF IInv

(* Whatever system calls fail and whenever the process is killed, as long  *)
(* as no restart draws the temporary names of an earlier execution, the    *)
(* numbers of the rotated files order them by age.                         *)
THEOREM OrderKept ==
  ASSUME ~SameSecondRestart PROVE Spec => []NewestFirst
<1>1. TypeInv /\ IInv => NewestFirst
  BY Numbers, Constants, Zenon DEF IInv, PlainInv, GzInv, NewestFirst
<1>2. Init => TypeInv /\ IInv
  BY InitTypeInv, InitIInv, Zenon
<1>3. (TypeInv /\ IInv) /\ [Next]_vars => (TypeInv /\ IInv)'
  BY StepTypeInv, StepIInv, Zenon
<1> QED BY <1>1, <1>2, <1>3, PTL DEF Spec
=============================================================================
