-------------------------- MODULE Snapshot_proofs ---------------------------
(***************************************************************************)
(* Proofs about Snapshot, for any number of processes, reuses of a number, *)
(* snapshots and units of time, with and without filters: an invariant     *)
(* that is kept by the kernel, whenever a process works, exits or starts,  *)
(* by the steps of collect_snapshot that read /proc and by those that hand *)
(* a record to process_stats_update, and what it implies.                  *)
(***************************************************************************)
EXTENDS Snapshot, TLAPS

CurRead(p) == IF Alive(p) THEN proc[p].read ELSE 0
CurTicks(p) == IF Alive(p) THEN proc[p].ticks ELSE 0

Life == [inc : Nat \ {0}, comm : Comm, ticks : Nat, read : Nat]

Rec == [pid : Pid, comm : Comm, at : Nat, timestamp : Nat, ticks : Nat,
        rss_kb : Nat, io_inc : Nat, io_valid : BOOLEAN, read_kbytes : Nat,
        fd_inc : Nat, fd_valid : BOOLEAN, fds : Nat]

Entry == [prev_cpu_ticks : Nat, prev_timestamp : Nat, number_of_records : Nat,
          cpu_usage : Int, cpu_usage_sum : Int, cpu_usage_samples : Int,
          rss_initial_kb : Int, rss_kb : Int, rss_sum : Int, rss_variation : Int,
          rss_initialized : BOOLEAN, num_of_rss_records : Int,
          prev_read_kbytes : Nat, total_read_kbytes : Nat, io_time_acc : Int,
          io_initialized : BOOLEAN,
          initial_num_of_fds : Int, current_num_of_fds : Int, fd_delta : Int,
          fd_initialized : BOOLEAN]

Item == [timestamp : Nat, at : Nat]

InRecord == {"open_io", "read_io", "open_fd", "read_fd"}
-----------------------------------------------------------------------------
(* A natural number divided and multiplied again is not larger.            *)
LEMMA DivMul ==
  ASSUME NEW a \in Nat, NEW d \in Nat \ {0}
  PROVE  a \div d \in Nat /\ (a \div d) * d <= a
OBVIOUS

(* A remainder is not larger than the number.                              *)
LEMMA ModLe ==
  ASSUME NEW a \in Nat, NEW w \in Nat \ {0}
  PROVE  a % w \in Nat /\ a % w <= a
OBVIOUS

(* Multiplication by a natural number is monotonic.                        *)
LEMMA TimesMono ==
  ASSUME NEW k \in Nat, NEW a \in Nat, NEW b \in Nat, a <= b
  PROVE  k * a \in Nat /\ k * b \in Nat /\ k * a <= k * b
OBVIOUS

(* calculate_cpu_data and what it leaves alone.                            *)
LEMMA CpuFields ==
  ASSUME NEW input \in Rec, NEW ps \in Entry
  PROVE  LET z == calculate_cpu_data(input, ps)
         IN /\ z \in Entry /\ z.prev_cpu_ticks = input.ticks
            /\ z.cpu_usage = IF UsageCounts(input, ps)
                               THEN compute_cpu_usage(ps.prev_cpu_ticks, input.ticks,
                                      input.timestamp - ps.prev_timestamp)
                               ELSE 0
            /\ z.prev_timestamp = ps.prev_timestamp
            /\ z.number_of_records = ps.number_of_records
            /\ z.prev_read_kbytes = ps.prev_read_kbytes
            /\ z.total_read_kbytes = ps.total_read_kbytes
            /\ z.io_initialized = ps.io_initialized
<1> DEFINE usage == IF UsageCounts(input, ps)
                      THEN compute_cpu_usage(ps.prev_cpu_ticks, input.ticks,
                             input.timestamp - ps.prev_timestamp)
                      ELSE 0
           one == IF UsageCounts(input, ps) THEN 1 ELSE 0
           z == [ps EXCEPT !.cpu_usage = usage, !.cpu_usage_sum = @ + usage,
                           !.cpu_usage_samples = @ + one,
                           !.prev_cpu_ticks = input.ticks]
<1>1. /\ input.ticks \in Nat /\ input.timestamp \in Nat
      /\ ps.prev_cpu_ticks \in Nat /\ ps.prev_timestamp \in Nat
  BY Zenon DEF Rec, Entry
<1>2. usage \in Int
  <2>1. CASE UsageCounts(input, ps)
    <3>1. /\ input.ticks - ps.prev_cpu_ticks \in Nat
          /\ input.timestamp - ps.prev_timestamp \in Nat \ {0}
      BY <1>1, <2>1 DEF UsageCounts
    <3>2. (input.ticks - ps.prev_cpu_ticks) % Word \in Nat
      BY <3>1, ModLe, StatsAssumption, Zenon
    <3>3. Scale * ((input.ticks - ps.prev_cpu_ticks) % Word) \in Nat
      BY <3>2, StatsAssumption
    <3> QED
      BY <2>1, <3>1, <3>3, DivMul DEF compute_cpu_usage
  <2> QED
    BY <2>1
<1>3. one \in Int
  OBVIOUS
<1>4. calculate_cpu_data(input, ps) = z
  BY Zenon DEF calculate_cpu_data
<1>5. ps.cpu_usage_sum + usage \in Int /\ ps.cpu_usage_samples + one \in Int
  BY <1>2, <1>3 DEF Entry
<1> HIDE DEF usage, one
<1>6. /\ z \in Entry /\ z.prev_cpu_ticks = input.ticks /\ z.cpu_usage = usage
      /\ z.prev_timestamp = ps.prev_timestamp
      /\ z.number_of_records = ps.number_of_records
      /\ z.prev_read_kbytes = ps.prev_read_kbytes
      /\ z.total_read_kbytes = ps.total_read_kbytes
      /\ z.io_initialized = ps.io_initialized
  BY <1>1, <1>2, <1>5, Zenon DEF Entry
<1> QED
  BY <1>4, <1>6, Zenon DEF usage

Untouched(z, ps) ==
  /\ z \in Entry /\ z.prev_cpu_ticks = ps.prev_cpu_ticks
  /\ z.cpu_usage = ps.cpu_usage /\ z.prev_timestamp = ps.prev_timestamp
  /\ z.number_of_records = ps.number_of_records
  /\ z.prev_read_kbytes = ps.prev_read_kbytes
  /\ z.total_read_kbytes = ps.total_read_kbytes
  /\ z.io_initialized = ps.io_initialized

(* The gauges do not touch processor and input figures.                    *)
LEMMA FdsFields ==
  ASSUME NEW input \in Rec, NEW ps \in Entry
  PROVE  Untouched(calculate_fds_delta(input, ps), ps)
<1>1. input.fds \in Int /\ ps.initial_num_of_fds \in Int
  BY DEF Rec, Entry
<1>2. CASE ~input.fd_valid
  BY <1>2, Zenon DEF calculate_fds_delta, Untouched
<1>3. CASE input.fd_valid /\ ~ps.fd_initialized
  <2> DEFINE z == [ps EXCEPT !.current_num_of_fds = input.fds,
                             !.initial_num_of_fds = input.fds, !.fd_initialized = TRUE]
  <2>1. calculate_fds_delta(input, ps) = z
    BY <1>3, Zenon DEF calculate_fds_delta
  <2>2. Untouched(z, ps)
    <3>1. z \in Entry
      BY <1>1, Zenon DEF Entry
    <3>2. /\ z.prev_cpu_ticks = ps.prev_cpu_ticks
          /\ z.cpu_usage = ps.cpu_usage /\ z.prev_timestamp = ps.prev_timestamp
          /\ z.number_of_records = ps.number_of_records
          /\ z.prev_read_kbytes = ps.prev_read_kbytes
          /\ z.total_read_kbytes = ps.total_read_kbytes
          /\ z.io_initialized = ps.io_initialized
      BY Zenon DEF Entry
    <3> QED
      BY <3>1, <3>2, Zenon DEF Untouched
  <2> QED
    BY <2>1, <2>2, Zenon
<1>4. CASE input.fd_valid /\ ps.fd_initialized
  <2> DEFINE delta == input.fds - ps.initial_num_of_fds
             z == [ps EXCEPT !.current_num_of_fds = input.fds, !.fd_delta = delta]
  <2>1. calculate_fds_delta(input, ps) = z
    BY <1>4, Zenon DEF calculate_fds_delta
  <2>2. delta \in Int
    BY <1>1
  <2> HIDE DEF delta
  <2>3. Untouched(z, ps)
    <3>1. z \in Entry
      BY <1>1, <2>2, Zenon DEF Entry
    <3>2. /\ z.prev_cpu_ticks = ps.prev_cpu_ticks
          /\ z.cpu_usage = ps.cpu_usage /\ z.prev_timestamp = ps.prev_timestamp
          /\ z.number_of_records = ps.number_of_records
          /\ z.prev_read_kbytes = ps.prev_read_kbytes
          /\ z.total_read_kbytes = ps.total_read_kbytes
          /\ z.io_initialized = ps.io_initialized
      BY Zenon DEF Entry
    <3> QED
      BY <3>1, <3>2, Zenon DEF Untouched
  <2> QED
    BY <2>1, <2>3, Zenon
<1> QED
  BY <1>2, <1>3, <1>4, Zenon

(* calculate_rss_data is one of those gauges.                              *)
LEMMA RssFields ==
  ASSUME NEW input \in Rec, NEW ps \in Entry
  PROVE  Untouched(calculate_rss_data(input, ps), ps)
<1> DEFINE initial == IF ps.rss_initialized THEN ps.rss_initial_kb ELSE input.rss_kb
           sum == ps.rss_sum + input.rss_kb
           variation == input.rss_kb - initial
           n == ps.num_of_rss_records + 1
           z == [ps EXCEPT !.rss_initial_kb = initial, !.rss_initialized = TRUE,
                           !.rss_kb = input.rss_kb, !.rss_sum = sum,
                           !.rss_variation = variation, !.num_of_rss_records = n]
<1>1. input.rss_kb \in Int /\ input.rss_kb >= 0 /\ initial \in Int /\ sum \in Int /\ n \in Int
  BY DEF Rec, Entry
<1>2. variation \in Int
  BY <1>1
<1>3. calculate_rss_data(input, ps) = z
  BY <1>1 DEF calculate_rss_data, Entry
<1> HIDE DEF initial, sum, variation, n
<1>4. Untouched(z, ps)
  <2>1. z \in Entry
    BY <1>1, <1>2, ZenonT(60) DEF Entry
  <2>2. /\ z.prev_cpu_ticks = ps.prev_cpu_ticks
        /\ z.cpu_usage = ps.cpu_usage /\ z.prev_timestamp = ps.prev_timestamp
        /\ z.number_of_records = ps.number_of_records
        /\ z.prev_read_kbytes = ps.prev_read_kbytes
        /\ z.total_read_kbytes = ps.total_read_kbytes
        /\ z.io_initialized = ps.io_initialized
    BY Zenon DEF Entry
  <2> QED
    BY <2>1, <2>2, Zenon DEF Untouched
<1> QED
  BY <1>3, <1>4, Zenon

SameIo(z, ps) ==
  /\ z.prev_read_kbytes = ps.prev_read_kbytes
  /\ z.total_read_kbytes = ps.total_read_kbytes
  /\ z.io_initialized = ps.io_initialized

FirstIo(z, input, ps) ==
  /\ z.prev_read_kbytes = input.read_kbytes
  /\ z.total_read_kbytes = ps.total_read_kbytes
  /\ z.io_initialized = TRUE

MoreIo(z, input, ps) ==
  /\ z.prev_read_kbytes = input.read_kbytes
  /\ z.total_read_kbytes = ps.total_read_kbytes
                             + CounterDelta(ps.prev_read_kbytes, input.read_kbytes)
  /\ z.io_initialized = ps.io_initialized

(* calculate_io_data: nothing, the first valid count, or a difference.     *)
LEMMA IoFields ==
  ASSUME NEW input \in Rec, NEW ps \in Entry
  PROVE  LET z == calculate_io_data(input, ps)
         IN /\ z \in Entry /\ z.prev_cpu_ticks = ps.prev_cpu_ticks
            /\ z.cpu_usage = ps.cpu_usage
            /\ z.number_of_records = ps.number_of_records
            /\ \/ SameIo(z, ps)
               \/ input.io_valid /\ ~ps.io_initialized /\ FirstIo(z, input, ps)
               \/ input.io_valid /\ ps.io_initialized /\ MoreIo(z, input, ps)
<1> DEFINE dt == input.timestamp - ps.prev_timestamp
<1>1. /\ input.read_kbytes \in Nat /\ ps.prev_read_kbytes \in Nat
      /\ ps.total_read_kbytes \in Nat /\ ps.io_time_acc \in Int /\ dt \in Int
  BY DEF Rec, Entry
<1>2. CASE ~input.io_valid \/ (ps.io_initialized /\ dt <= 0)
  <2>1. calculate_io_data(input, ps) = ps
    BY <1>2, Zenon DEF calculate_io_data
  <2> QED
    BY <2>1, Zenon DEF SameIo
<1>3. CASE input.io_valid /\ ~ps.io_initialized
  <2> DEFINE z == [ps EXCEPT !.prev_read_kbytes = input.read_kbytes,
                             !.io_initialized = TRUE]
  <2>1. calculate_io_data(input, ps) = z
    BY <1>3, Zenon DEF calculate_io_data
  <2>2. z \in Entry
    BY <1>1, Zenon DEF Entry
  <2>3. /\ z.prev_cpu_ticks = ps.prev_cpu_ticks /\ z.cpu_usage = ps.cpu_usage
        /\ z.number_of_records = ps.number_of_records
        /\ z.prev_read_kbytes = input.read_kbytes
        /\ z.total_read_kbytes = ps.total_read_kbytes /\ z.io_initialized = TRUE
    BY Zenon DEF Entry
  <2> HIDE DEF z
  <2> QED
    BY <1>3, <2>1, <2>2, <2>3, Zenon DEF FirstIo
<1>4. CASE input.io_valid /\ ps.io_initialized /\ ~(dt <= 0)
  <2> DEFINE total == ps.total_read_kbytes
                        + CounterDelta(ps.prev_read_kbytes, input.read_kbytes)
             time == ps.io_time_acc + dt
             z == [ps EXCEPT !.total_read_kbytes = total, !.io_time_acc = time,
                             !.prev_read_kbytes = input.read_kbytes]
  <2>1. total \in Nat /\ time \in Int
    BY <1>1 DEF CounterDelta
  <2>2. calculate_io_data(input, ps) = z
    BY <1>4, Zenon DEF calculate_io_data, Accumulated
  <2> HIDE DEF total, time
  <2>3. z \in Entry
    BY <1>1, <2>1, Zenon DEF Entry
  <2>4. /\ z.prev_cpu_ticks = ps.prev_cpu_ticks /\ z.cpu_usage = ps.cpu_usage
        /\ z.number_of_records = ps.number_of_records
        /\ z.prev_read_kbytes = input.read_kbytes
        /\ z.total_read_kbytes = total /\ z.io_initialized = ps.io_initialized
    BY Zenon DEF Entry
  <2> HIDE DEF z
  <2> QED
    BY <1>4, <2>2, <2>3, <2>4, Zenon DEF MoreIo, total
<1> QED
  BY <1>2, <1>3, <1>4, Zenon

(* process_stats_update as a whole.                                        *)
LEMMA UpdateFields ==
  ASSUME NEW input \in Rec, NEW ps \in Entry
  PROVE  LET z == process_stats_update(input, ps)
         IN /\ z \in Entry /\ z.prev_cpu_ticks = input.ticks
            /\ z.prev_timestamp = input.timestamp
            /\ z.number_of_records = ps.number_of_records + 1
            /\ z.cpu_usage = IF UsageCounts(input, ps)
                               THEN compute_cpu_usage(ps.prev_cpu_ticks, input.ticks,
                                      input.timestamp - ps.prev_timestamp)
                               ELSE 0
            /\ \/ SameIo(z, ps)
               \/ input.io_valid /\ ~ps.io_initialized /\ FirstIo(z, input, ps)
               \/ input.io_valid /\ ps.io_initialized /\ MoreIo(z, input, ps)
<1> DEFINE cpu == calculate_cpu_data(input, ps)
           fds == calculate_fds_delta(input, cpu)
           rss == calculate_rss_data(input, fds)
           io == calculate_io_data(input, rss)
           z == [io EXCEPT !.prev_timestamp = input.timestamp,
                           !.number_of_records = @ + 1]
           usage == IF UsageCounts(input, ps)
                      THEN compute_cpu_usage(ps.prev_cpu_ticks, input.ticks,
                             input.timestamp - ps.prev_timestamp)
                      ELSE 0
<1>1. /\ cpu \in Entry /\ cpu.prev_cpu_ticks = input.ticks /\ cpu.cpu_usage = usage
      /\ cpu.number_of_records = ps.number_of_records /\ SameIo(cpu, ps)
  BY CpuFields, Zenon DEF SameIo
<1>2. process_stats_update(input, ps) = z
  BY Zenon DEF process_stats_update
<1> HIDE DEF cpu, usage
<1>3. /\ fds \in Entry /\ fds.prev_cpu_ticks = input.ticks /\ fds.cpu_usage = usage
      /\ fds.number_of_records = ps.number_of_records /\ SameIo(fds, ps)
  BY <1>1, FdsFields, Zenon DEF Untouched, SameIo
<1> HIDE DEF fds
<1>4. /\ rss \in Entry /\ rss.prev_cpu_ticks = input.ticks /\ rss.cpu_usage = usage
      /\ rss.number_of_records = ps.number_of_records /\ SameIo(rss, ps)
  BY <1>3, RssFields, Zenon DEF Untouched, SameIo
<1> HIDE DEF rss
<1>5. /\ io \in Entry /\ io.prev_cpu_ticks = input.ticks /\ io.cpu_usage = usage
      /\ io.number_of_records = ps.number_of_records
      /\ \/ SameIo(io, rss)
         \/ input.io_valid /\ ~rss.io_initialized /\ FirstIo(io, input, rss)
         \/ input.io_valid /\ rss.io_initialized /\ MoreIo(io, input, rss)
  BY <1>4, IoFields, Zenon
<1> HIDE DEF io
<1>6. \/ SameIo(io, ps)
      \/ input.io_valid /\ ~ps.io_initialized /\ FirstIo(io, input, ps)
      \/ input.io_valid /\ ps.io_initialized /\ MoreIo(io, input, ps)
  BY <1>4, <1>5, Zenon DEF SameIo, FirstIo, MoreIo
<1>7. input.timestamp \in Nat /\ io.number_of_records \in Nat
      /\ io.number_of_records + 1 \in Nat
  BY <1>5 DEF Rec, Entry
<1>8. z \in Entry
  BY <1>5, <1>7, ZenonT(60) DEF Entry
<1>9. /\ z.prev_cpu_ticks = io.prev_cpu_ticks /\ z.cpu_usage = io.cpu_usage
      /\ z.prev_timestamp = input.timestamp
      /\ z.number_of_records = io.number_of_records + 1 /\ SameIo(z, io)
  BY <1>5, Zenon DEF Entry, SameIo
<1> HIDE DEF z
<1>10. \/ SameIo(z, ps)
       \/ input.io_valid /\ ~ps.io_initialized /\ FirstIo(z, input, ps)
       \/ input.io_valid /\ ps.io_initialized /\ MoreIo(z, input, ps)
  BY <1>6, <1>9, Zenon DEF SameIo, FirstIo, MoreIo
<1> QED
  BY <1>2, <1>5, <1>8, <1>9, <1>10, Zenon DEF usage

(* get_or_create_process starts with nothing counted.                      *)
LEMMA NewProcessFields ==
  ASSUME NEW input \in Rec
  PROVE  LET z == NewProcess(input)
         IN /\ z \in Entry /\ z.number_of_records = 0 /\ z.io_initialized = FALSE
            /\ z.total_read_kbytes = 0
<1>1. input.ticks \in Nat /\ input.rss_kb \in Int
  BY DEF Rec
<1> QED
  BY <1>1 DEF NewProcess, Entry

-----------------------------------------------------------------------------
KernelInv ==
  /\ now \in Nat /\ started \in [Pid -> Nat]
  /\ proc \in [Pid -> Life \cup {NoProcess}]
  /\ consumed \in [Pid -> Nat]

RecordInv ==
  /\ timestamp \in Nat /\ listed \subseteq Pid
  /\ phase = "stat" => record.pid \in Pid
  /\ phase \in InRecord => record \in Rec
  /\ phase = "open_io" => ~record.io_valid
  /\ phase = "read_io" => record.io_inc # 0

TableInv ==
  /\ table \in [Pid -> Entry \cup {NoEntry}]
  /\ trail \in [Pid -> Seq(Item)]

(* What is counted for p, what the record at hand would add, and what the  *)
(* process may have read beyond that: never more than was consumed.        *)
Total(p) == IF IoStarted(p) THEN table[p].total_read_kbytes ELSE 0
Due(p) == IF IoStarted(p) THEN CounterDelta(table[p].prev_read_kbytes, record.read_kbytes)
                          ELSE 0

ReadInv(p) ==
  /\ table[p] # NoEntry /\ ~IoStarted(p) => table[p].total_read_kbytes = 0
  /\ IoStarted(p) =>
       Total(p) + CounterDelta(table[p].prev_read_kbytes, CurRead(p)) <= consumed[p]
  /\ phase = "read_io" /\ record.pid = p /\ proc[p].inc # record.io_inc =>
       Total(p) + CurRead(p) <= consumed[p]
  /\ phase \in {"open_fd", "read_fd"} /\ record.pid = p /\ record.io_valid =>
       Total(p) + Due(p) + CounterDelta(record.read_kbytes, CurRead(p)) <= consumed[p]

(* Since a reading of the ticks, the process of the number has used no     *)
(* more ticks than time has passed.                                        *)
LastAt(p) == trail[p][Len(trail[p])].at

CpuInv(p) ==
  /\ table[p] = NoEntry => trail[p] = <<>>
  /\ table[p] # NoEntry =>
       /\ Len(trail[p]) \in {1, 2}
       /\ trail[p][Len(trail[p])].timestamp = table[p].prev_timestamp
       /\ LastAt(p) <= now
       /\ CurTicks(p) <= table[p].prev_cpu_ticks + (now - LastAt(p))
  /\ phase \in InRecord /\ record.pid = p =>
       /\ record.at <= now /\ CurTicks(p) <= record.ticks + (now - record.at)
       /\ table[p] # NoEntry =>
            /\ LastAt(p) <= record.at
            /\ record.ticks <= table[p].prev_cpu_ticks + (record.at - LastAt(p))

Proportionate(p) ==
  LET h == trail[p]
  IN Len(h) = 2 => table[p].cpu_usage * (h[2].timestamp - h[1].timestamp)
                     <= Scale * (h[2].at - h[1].at)

SInv ==
  /\ KernelInv /\ RecordInv /\ TableInv
  /\ \A p \in Pid : ReadInv(p) /\ CpuInv(p) /\ Proportionate(p)
-----------------------------------------------------------------------------
KernelStep == Work \/ \E p \in Pid : ProcessStarts(p) \/ ProcessExits(p)

(* What the kernel's steps look like to the program.                       *)
LEMMA KernelView ==
  ASSUME KernelInv, KernelStep
  PROVE  /\ KernelInv' /\ now <= now'
         /\ \A p \in Pid :
              /\ CurTicks(p)' <= CurTicks(p) + (now' - now)
              /\ proc'[p].inc # proc[p].inc => CurRead(p)' = 0
              /\ \E d \in Nat : /\ CurRead(p)' <= CurRead(p) + d
                                /\ consumed'[p] = consumed[p] + d
<1>1. ASSUME NEW p \in Pid PROVE /\ proc[p] \in Life \/ proc[p] = NoProcess
                                 /\ proc[p] \in Life => Alive(p)
                                 /\ consumed[p] \in Nat /\ started[p] \in Nat
                                 /\ CurRead(p) \in Nat /\ CurTicks(p) \in Nat
  BY DEF KernelInv, Life, NoProcess, Alive, CurRead, CurTicks
<1>2. CASE Work
  <2>1. PICK busy, reading \in SUBSET {p \in Pid \ Excluded : Alive(p)} :
          /\ proc' = [p \in Pid |->
               IF Alive(p)
                 THEN [proc[p] EXCEPT !.ticks = @ + (IF p \in busy THEN 1 ELSE 0),
                                      !.read = @ + (IF p \in reading THEN 1 ELSE 0)]
                 ELSE proc[p]]
          /\ consumed' = [p \in Pid |-> consumed[p] + (IF p \in reading THEN 1 ELSE 0)]
    BY <1>2, Zenon DEF Work
  <2>2. now' = now + 1 /\ started' = started /\ now \in Nat
    BY <1>2, Zenon DEF Work, KernelInv
  <2>3. ASSUME NEW p \in Pid, Alive(p)
        PROVE  /\ proc'[p] \in Life /\ proc'[p].inc = proc[p].inc
               /\ proc'[p].ticks = proc[p].ticks + (IF p \in busy THEN 1 ELSE 0)
               /\ proc'[p].read = proc[p].read + (IF p \in reading THEN 1 ELSE 0)
    <3>1. proc[p] \in Life
      BY <1>1, <2>3, Zenon DEF Alive
    <3> DEFINE a == proc[p].ticks + (IF p \in busy THEN 1 ELSE 0)
               b == proc[p].read + (IF p \in reading THEN 1 ELSE 0)
    <3>2. a \in Nat /\ b \in Nat
      BY <3>1, SMTT(60) DEF Life
    <3>3. proc'[p] = [proc[p] EXCEPT !.ticks = a, !.read = b]
      BY <2>1, <2>3, Zenon
    <3> HIDE DEF a, b
    <3>4. proc'[p] \in Life /\ proc'[p].inc = proc[p].inc
          /\ proc'[p].ticks = a /\ proc'[p].read = b
      BY <3>1, <3>2, <3>3, ZenonT(60) DEF Life
    <3> QED
      BY <3>4, Zenon DEF a, b
  <2>4. \A p \in Pid : ~Alive(p) => proc'[p] = proc[p]
    BY <2>1, Zenon
  <2>5. \A p \in Pid : consumed'[p] = consumed[p] + (IF p \in reading THEN 1 ELSE 0)
    BY <2>1, Zenon
  <2>6. KernelInv'
    <3>1. \A p \in Pid : proc'[p] \in Life \cup {NoProcess}
      BY <1>1, <2>3, <2>4, ZenonT(60)
    <3>2. proc' \in [Pid -> Life \cup {NoProcess}]
      BY <2>1, <3>1, Zenon
    <3>3. consumed' \in [Pid -> Nat]
      <4>1. consumed' = [p \in Pid |-> consumed[p] + (IF p \in reading THEN 1 ELSE 0)]
        BY <2>1, Zenon
      <4>2. \A p \in Pid : consumed[p] + (IF p \in reading THEN 1 ELSE 0) \in Nat
        BY <1>1
      <4> QED
        BY <4>1, <4>2, ZenonT(60)
    <3> QED
      BY <2>2, <3>2, <3>3 DEF KernelInv
  <2>7. ASSUME NEW p \in Pid
        PROVE  /\ CurTicks(p)' <= CurTicks(p) + (now' - now)
               /\ proc'[p].inc # proc[p].inc => CurRead(p)' = 0
               /\ \E d \in Nat : /\ CurRead(p)' <= CurRead(p) + d
                                 /\ consumed'[p] = consumed[p] + d
    <3>1. CASE Alive(p)
      <4>1. proc[p] \in Life /\ Alive(p)'
        BY <1>1, <2>3, <3>1 DEF Alive, Life, NoProcess
      <4>2. CurTicks(p)' = proc'[p].ticks /\ CurRead(p)' = proc'[p].read
            /\ CurTicks(p) = proc[p].ticks /\ CurRead(p) = proc[p].read
        BY <3>1, <4>1, Zenon DEF CurTicks, CurRead
      <4> DEFINE d == IF p \in reading THEN 1 ELSE 0
      <4>3. d \in Nat /\ CurRead(p)' = CurRead(p) + d /\ consumed'[p] = consumed[p] + d
        BY <2>3, <2>5, <3>1, <4>2, Zenon
      <4>4. CurTicks(p)' <= CurTicks(p) + (now' - now)
        BY <1>1, <2>2, <2>3, <3>1, <4>2
      <4>5. CurRead(p)' <= CurRead(p) + d
        BY <1>1, <4>3
      <4> HIDE DEF d
      <4> QED
        BY <2>3, <3>1, <4>3, <4>4, <4>5, ZenonT(60)
    <3>2. CASE ~Alive(p)
      <4>1. proc'[p] = proc[p] /\ ~Alive(p)' /\ p \notin reading
        BY <2>4, <3>2, Zenon DEF Alive
      <4>2. CurTicks(p)' = 0 /\ CurRead(p)' = 0 /\ CurTicks(p) = 0 /\ CurRead(p) = 0
        BY <3>2, <4>1, Zenon DEF CurTicks, CurRead
      <4>3. consumed'[p] = consumed[p] + 0
        BY <2>5, <4>1, Zenon
      <4> QED
        BY <2>2, <4>1, <4>2, <4>3
    <3> QED
      BY <3>1, <3>2, Zenon
  <2> QED
    BY <2>2, <2>6, <2>7
<1>3. ASSUME NEW q \in Pid, ProcessStarts(q) \/ ProcessExits(q)
      PROVE  /\ KernelInv' /\ now <= now'
             /\ \A p \in Pid :
                  /\ CurTicks(p)' <= CurTicks(p) + (now' - now)
                  /\ proc'[p].inc # proc[p].inc => CurRead(p)' = 0
                  /\ \E d \in Nat : /\ CurRead(p)' <= CurRead(p) + d
                                    /\ consumed'[p] = consumed[p] + d
  <2>1. /\ now' = now /\ consumed' = consumed /\ now \in Nat
        /\ consumed \in [Pid -> Nat] /\ proc \in [Pid -> Life \cup {NoProcess}]
    BY <1>3, Zenon DEF ProcessStarts, ProcessExits, KernelInv
  <2>2. PICK x \in Life \cup {NoProcess} :
          proc' = [proc EXCEPT ![q] = x] /\ (x = NoProcess \/ (x.ticks = 0 /\ x.read = 0))
    <3>1. CASE ProcessExits(q)
      BY <3>1, Zenon DEF ProcessExits
    <3>2. CASE ProcessStarts(q)
      <4>1. PICK c \in Comm : proc' = [proc EXCEPT ![q] = Newborn(started[q] + 1, c)]
        BY <3>2, ZenonT(60) DEF ProcessStarts
      <4>2. started[q] + 1 \in Nat \ {0}
        BY <1>1
      <4>3. Newborn(started[q] + 1, c) \in Life
            /\ Newborn(started[q] + 1, c).ticks = 0 /\ Newborn(started[q] + 1, c).read = 0
        BY <4>2, Zenon DEF Newborn, Life
      <4> QED
        BY <4>1, <4>3, Zenon
    <3> QED
      BY <1>3, <3>1, <3>2, Zenon
  <2>3. proc' \in [Pid -> Life \cup {NoProcess}] /\ proc'[q] = x
        /\ \A p \in Pid \ {q} : proc'[p] = proc[p]
    BY <2>1, <2>2, Zenon
  <2>4. started' \in [Pid -> Nat]
    BY <1>1, <1>3 DEF ProcessStarts, ProcessExits, KernelInv
  <2>5. KernelInv'
    BY <2>1, <2>3, <2>4, Zenon DEF KernelInv
  <2>6. CurTicks(q)' = 0 /\ CurRead(q)' = 0
    BY <2>2, <2>3, Zenon DEF CurTicks, CurRead, Alive
  <2>7. \A p \in Pid \ {q} : CurTicks(p)' = CurTicks(p) /\ CurRead(p)' = CurRead(p)
    BY <2>3, Zenon DEF CurTicks, CurRead, Alive
  <2>8. \A p \in Pid : consumed'[p] = consumed[p] + 0
    BY <1>1, <2>1
  <2>9. ASSUME NEW p \in Pid
        PROVE  /\ CurTicks(p)' <= CurTicks(p) + (now' - now)
               /\ proc'[p].inc # proc[p].inc => CurRead(p)' = 0
               /\ CurRead(p)' <= CurRead(p) + 0
    BY <1>1, <2>1, <2>3, <2>6, <2>7
  <2> QED
    BY <2>1, <2>5, <2>8, <2>9
<1> QED
  BY <1>2, <1>3, Zenon DEF KernelStep

(* The types of what the invariants of a number are about.                 *)
LEMMA Typed ==
  ASSUME SInv, NEW p \in Pid
  PROVE  /\ now \in Nat /\ timestamp \in Nat /\ consumed[p] \in Nat
         /\ CurRead(p) \in Nat /\ CurTicks(p) \in Nat /\ Total(p) \in Nat
         /\ IoStarted(p) => table[p].prev_read_kbytes \in Nat
         /\ table[p] # NoEntry =>
              /\ table[p] \in Entry /\ trail[p] \in Seq(Item)
              /\ LastAt(p) \in Nat /\ table[p].prev_cpu_ticks \in Nat
         /\ phase \in InRecord =>
              /\ record \in Rec /\ record.at \in Nat /\ record.ticks \in Nat
              /\ record.read_kbytes \in Nat
              /\ Due(p) \in Nat
<1>1. proc[p] \in Life \/ proc[p] = NoProcess
  BY Zenon DEF SInv, KernelInv
<1>2. CurRead(p) \in Nat /\ CurTicks(p) \in Nat
  BY <1>1, Zenon DEF CurRead, CurTicks, Alive, Life
<1>3. table[p] # NoEntry => table[p] \in Entry
  BY Zenon DEF SInv, TableInv
<1>4. IoStarted(p) => /\ table[p].total_read_kbytes \in Nat
                      /\ table[p].prev_read_kbytes \in Nat
  BY <1>3, Zenon DEF IoStarted, Entry
<1>5. Total(p) \in Nat
  BY <1>4, Zenon DEF Total
<1>6. table[p] # NoEntry => trail[p][Len(trail[p])] \in Item
  <2>1. trail[p] \in Seq(Item)
    BY Zenon DEF SInv, TableInv
  <2>2. table[p] # NoEntry => Len(trail[p]) \in {1, 2}
    BY Zenon DEF SInv, CpuInv
  <2> QED
    BY <2>1, <2>2
<1>7. table[p] # NoEntry => LastAt(p) \in Nat
  BY <1>6, Zenon DEF LastAt, Item
<1>8. table[p] # NoEntry => table[p].prev_cpu_ticks \in Nat
  BY <1>3, Zenon DEF Entry
<1>9. phase \in InRecord => record \in Rec
  BY Zenon DEF SInv, RecordInv
<1>10. record \in Rec => /\ record.at \in Nat /\ record.ticks \in Nat
                         /\ record.read_kbytes \in Nat
  BY Zenon DEF Rec
<1>11. record.read_kbytes \in Nat => Due(p) \in Nat
  BY <1>4 DEF Due, CounterDelta
<1> QED
  BY <1>2, <1>3, <1>4, <1>5, <1>7, <1>8, <1>9, <1>10, <1>11, Zenon
     DEF SInv, KernelInv, RecordInv, TableInv

(* What is counted and due stays within what was read, if all that is new  *)
(* of the counter was read.                                                *)
LEMMA DeltaMono ==
  ASSUME NEW t \in Nat, NEW k \in Nat, NEW c \in Nat, NEW e \in Nat,
         NEW r \in Nat, NEW d \in Nat, NEW s, s = r + d,
         t + CounterDelta(k, c) <= r, e <= c + d
  PROVE  t + CounterDelta(k, e) <= s
BY DEF CounterDelta

(* Ticks against time, as time passes.                                     *)
LEMMA TickMono ==
  ASSUME NEW a \in Nat, NEW k \in Nat, NEW n \in Nat, NEW m \in Nat,
         NEW c \in Nat, NEW e \in Nat,
         a <= n, n <= m, c <= k + (n - a), e <= c + (m - n)
  PROVE  a <= m /\ e <= k + (m - a)
OBVIOUS

(* The kernel preserves the invariant.                                     *)
LEMMA KernelStepOk ==
  ASSUME SInv, KernelStep
  PROVE  SInv'
<1>1. /\ KernelInv' /\ now <= now'
      /\ UNCHANGED <<phase, timestamp, listed, record, table, trail>>
  BY KernelView, Zenon DEF SInv, KernelStep, Work, ProcessStarts, ProcessExits
<1>2. RecordInv' /\ TableInv'
  BY <1>1, Zenon DEF SInv, RecordInv, TableInv
<1>3. ASSUME NEW p \in Pid
      PROVE  ReadInv(p)' /\ CpuInv(p)' /\ Proportionate(p)'
  <2>1. ReadInv(p) /\ CpuInv(p) /\ Proportionate(p)
    BY Zenon DEF SInv
  <2>2. PICK d \in Nat : CurRead(p)' <= CurRead(p) + d /\ consumed'[p] = consumed[p] + d
    BY KernelView, Zenon DEF SInv
  <2>3. CurTicks(p)' <= CurTicks(p) + (now' - now)
    BY KernelView, Zenon DEF SInv
  <2>4. proc'[p].inc # proc[p].inc => CurRead(p)' = 0
    BY KernelView, Zenon DEF SInv
  <2>5. CurRead(p)' \in Nat /\ CurTicks(p)' \in Nat /\ now' \in Nat
    BY <1>1, Zenon DEF KernelInv, CurRead, CurTicks, Alive, Life
  <2>6. now \in Nat /\ CurTicks(p) \in Nat
    BY Typed, Zenon
  <2>7. CurRead(p) \in Nat /\ consumed[p] \in Nat /\ Total(p) \in Nat
    BY Typed, Zenon
  <2>8. /\ IoStarted(p)' = IoStarted(p) /\ Total(p)' = Total(p) /\ Due(p)' = Due(p)
        /\ LastAt(p)' = LastAt(p)
    BY <1>1, ZenonT(60) DEF IoStarted, Total, Due, LastAt
  <2>9. ReadInv(p)'
    <3>1. ASSUME IoStarted(p)
          PROVE  Total(p) + CounterDelta(table[p].prev_read_kbytes, CurRead(p)') <= consumed'[p]
      <4>1. Total(p) + CounterDelta(table[p].prev_read_kbytes, CurRead(p)) <= consumed[p]
        BY <2>1, <3>1, Zenon DEF ReadInv
      <4>2. table[p].prev_read_kbytes \in Nat
        BY <3>1, Typed, Zenon
      <4> QED
        BY <2>2, <2>5, <2>7, <4>1, <4>2 DEF CounterDelta
    <3>2. Total(p) <= consumed[p]
      <4>1. CASE IoStarted(p)
        <5>1. Total(p) + CounterDelta(table[p].prev_read_kbytes, CurRead(p)) <= consumed[p]
          BY <2>1, <4>1, Zenon DEF ReadInv
        <5>2. table[p].prev_read_kbytes \in Nat
          BY <4>1, Typed, Zenon
        <5>3. CounterDelta(table[p].prev_read_kbytes, CurRead(p)) \in Nat
          BY <2>7, <5>2 DEF CounterDelta
        <5> QED
          BY <2>7, <5>1, <5>3
      <4>2. CASE ~IoStarted(p)
        <5>1. Total(p) = 0
          BY <4>2, Zenon DEF Total
        <5> QED
          BY <2>7, <5>1
      <4> QED
        BY <4>1, <4>2, Zenon
    <3>3. ASSUME phase = "read_io", record.pid = p, proc'[p].inc # record.io_inc
          PROVE  Total(p) + CurRead(p)' <= consumed'[p]
      <4>1. CASE proc'[p].inc # proc[p].inc
        BY <2>2, <2>4, <2>7, <3>2, <4>1
      <4>2. CASE proc'[p].inc = proc[p].inc
        <5>1. Total(p) + CurRead(p) <= consumed[p]
          BY <2>1, <3>3, <4>2, Zenon DEF ReadInv
        <5> QED
          BY <2>2, <2>5, <2>7, <5>1, SMTT(60)
      <4> QED
        BY <4>1, <4>2, Zenon
    <3>4. ASSUME phase \in {"open_fd", "read_fd"}, record.pid = p, record.io_valid
          PROVE  Total(p) + Due(p) + CounterDelta(record.read_kbytes, CurRead(p)') <= consumed'[p]
      <4>1. Total(p) + Due(p) + CounterDelta(record.read_kbytes, CurRead(p)) <= consumed[p]
        BY <2>1, <3>4, Zenon DEF ReadInv
      <4>2. record.read_kbytes \in Nat /\ Due(p) \in Nat
        BY <3>4, Typed, Zenon DEF InRecord
      <4>3. Total(p) + Due(p) \in Nat
        BY <2>7, <4>2, SMTT(60)
      <4> QED
        BY <2>2, <2>5, <2>7, <4>1, <4>2, <4>3, DeltaMono, ZenonT(60)
    <3> QED
      <4>1. UNCHANGED <<phase, record, table>>
        BY <1>1, Zenon
      <4>2. table[p] # NoEntry /\ ~IoStarted(p) => table[p].total_read_kbytes = 0
        BY <2>1, Zenon DEF ReadInv
      <4> QED
        BY <2>8, <3>1, <3>3, <3>4, <4>1, <4>2, Zenon DEF ReadInv
  <2>10. CpuInv(p)'
    <3>1. ASSUME table[p] # NoEntry
          PROVE  LastAt(p) <= now' /\ CurTicks(p)' <= table[p].prev_cpu_ticks + (now' - LastAt(p))
      <4>1. LastAt(p) <= now /\ CurTicks(p) <= table[p].prev_cpu_ticks + (now - LastAt(p))
        BY <2>1, <3>1, Zenon DEF CpuInv
      <4>2. LastAt(p) \in Nat /\ table[p].prev_cpu_ticks \in Nat
        BY <3>1, Typed, Zenon
      <4>3. now <= now'
        BY <1>1, Zenon
      <4> QED
        BY <2>3, <2>5, <2>6, <4>1, <4>2, <4>3, TickMono, Zenon
    <3>2. ASSUME phase \in InRecord, record.pid = p
          PROVE  record.at <= now' /\ CurTicks(p)' <= record.ticks + (now' - record.at)
      <4>1. record.at <= now /\ CurTicks(p) <= record.ticks + (now - record.at)
        BY <2>1, <3>2, Zenon DEF CpuInv
      <4>2. record.at \in Nat /\ record.ticks \in Nat
        BY <3>2, Typed, ZenonT(60)
      <4>3. now <= now'
        BY <1>1, Zenon
      <4> QED
        BY <2>3, <2>5, <2>6, <4>1, <4>2, <4>3, TickMono, ZenonT(60)
    <3> QED
      <4>1. UNCHANGED <<phase, record, table, trail>>
        BY <1>1, Zenon
      <4> QED
        BY <2>1, <2>8, <3>1, <3>2, <4>1, Zenon DEF CpuInv
  <2>11. Proportionate(p)'
    BY <1>1, <2>1, Zenon DEF Proportionate
  <2> QED
    BY <2>9, <2>10, <2>11, Zenon
<1> QED
  BY <1>1, <1>2, <1>3, ZenonT(60) DEF SInv
-----------------------------------------------------------------------------
(* Steps that end a record or leave it unstarted preserve the invariant.   *)
LEMMA Steady ==
  ASSUME SInv, RecordInv', phase' \notin InRecord,
         UNCHANGED <<kernel, table, trail, consumed>>
  PROVE  SInv'
<1>1. KernelInv' /\ TableInv'
  BY Zenon DEF SInv, KernelInv, TableInv, kernel
<1>2. ASSUME NEW p \in Pid
      PROVE  ReadInv(p)' /\ CpuInv(p)' /\ Proportionate(p)'
  <2>1. ReadInv(p) /\ CpuInv(p) /\ Proportionate(p)
    BY Zenon DEF SInv
  <2>2. /\ IoStarted(p)' = IoStarted(p) /\ Total(p)' = Total(p)
        /\ LastAt(p)' = LastAt(p) /\ CurRead(p)' = CurRead(p)
        /\ CurTicks(p)' = CurTicks(p) /\ now' = now
    BY ZenonT(60) DEF IoStarted, Total, LastAt, CurRead, CurTicks, Alive, kernel
  <2>3. ReadInv(p)'
    BY <2>1, <2>2, ZenonT(60) DEF ReadInv, InRecord
  <2>4. CpuInv(p)'
    BY <2>1, <2>2, Zenon DEF CpuInv
  <2> QED
    BY <2>1, <2>3, <2>4, Zenon DEF Proportionate
<1> QED
  BY <1>1, <1>2, Zenon DEF SInv

(* The steps around a record.                                              *)
LEMMA AroundOk ==
  ASSUME SInv, BeginSnapshot \/ NextProcess \/ EndSnapshot
  PROVE  SInv'
<1>0. RecordInv /\ KernelInv
  BY Zenon DEF SInv
<1>1. CASE BeginSnapshot
  <2>1. RecordInv' /\ phase' \notin InRecord
    BY <1>0, <1>1, Zenon DEF BeginSnapshot, RecordInv, KernelInv, InRecord
  <2> QED
    BY <1>1, <2>1, Steady, Zenon DEF BeginSnapshot
<1>2. CASE NextProcess
  <2>1. PICK p \in listed :
          /\ listed' = WithoutFirst(p)
          /\ IF p \in Excluded THEN UNCHANGED <<phase, record>>
             ELSE phase' = "stat" /\ record' = [pid |-> p]
    BY <1>2, Zenon DEF NextProcess
  <2>2. p \in Pid
    BY <1>0, Zenon DEF RecordInv
  <2>3. RecordInv' /\ phase' \notin InRecord
    BY <1>0, <1>2, <2>1, <2>2 DEF NextProcess, WithoutFirst, RecordInv, InRecord
  <2> QED
    BY <1>2, <2>3, Steady, Zenon DEF NextProcess
<1>3. CASE EndSnapshot
  <2>1. RecordInv' /\ phase' \notin InRecord
    BY <1>0, <1>3, Zenon DEF EndSnapshot, RecordInv, InRecord
  <2> QED
    BY <1>3, <2>1, Steady, Zenon DEF EndSnapshot
<1> QED
  BY <1>1, <1>2, <1>3, Zenon

(* What a step that changes neither kernel nor table leaves as it was.     *)
LEMMA Same ==
  ASSUME UNCHANGED <<kernel, table, trail>>, NEW p \in Pid
  PROVE  /\ IoStarted(p)' = IoStarted(p) /\ Total(p)' = Total(p)
         /\ LastAt(p)' = LastAt(p) /\ CurRead(p)' = CurRead(p)
         /\ CurTicks(p)' = CurTicks(p) /\ now' = now
BY Zenon DEF IoStarted, Total, LastAt, CurRead, CurTicks, Alive, kernel

(* A record that goes on keeps when and with how many ticks it began.      *)
LEMMA CpuKept ==
  ASSUME SInv, UNCHANGED <<kernel, table, trail>>, phase \in InRecord,
         record'.pid = record.pid, record'.at = record.at,
         record'.ticks = record.ticks, NEW p \in Pid
  PROVE  CpuInv(p)' /\ Proportionate(p)'
<1>1. CpuInv(p) /\ Proportionate(p)
  BY ZenonT(60) DEF SInv
<1>2. CpuInv(p)'
  BY <1>1, Same, Zenon DEF CpuInv
<1> QED
  BY <1>1, <1>2, Zenon DEF Proportionate

(* Reading /proc/<pid>/stat.                                               *)
LEMMA ReadStatOk ==
  ASSUME SInv, ReadStat
  PROVE  SInv'
<1> DEFINE q == record.pid
<1>0. RecordInv /\ KernelInv /\ TableInv /\ phase = "stat" /\ q \in Pid
  BY ZenonT(60) DEF SInv, ReadStat, RecordInv
<1>1. UNCHANGED <<kernel, timestamp, listed, table, trail, consumed>>
  BY Zenon DEF ReadStat
<1>2. CASE ~Alive(q) /\ Continue
  <2>1. RecordInv' /\ phase' \notin InRecord
    BY <1>0, <1>1, <1>2, Zenon DEF Continue, RecordInv, InRecord
  <2> QED
    BY <1>1, <2>1, Steady, Zenon
<1>3. CASE Alive(q) /\ phase' = "open_io"
  <2>1. PICK rss \in Gauge :
          record' = [pid |-> q, comm |-> proc[q].comm,
                     at |-> now, timestamp |-> timestamp,
                     ticks |-> proc[q].ticks, rss_kb |-> rss,
                     io_inc |-> 0, io_valid |-> FALSE, read_kbytes |-> 0,
                     fd_inc |-> 0, fd_valid |-> FALSE, fds |-> 0]
    BY <1>0, <1>3, Zenon DEF ReadStat, Continue
  <2>2. proc[q] \in Life
    BY <1>0, <1>3, Zenon DEF KernelInv, Alive
  <2>3. proc[q].comm \in Comm /\ proc[q].ticks \in Nat /\ rss \in Nat
        /\ now \in Nat /\ timestamp \in Nat
    BY <1>0, <2>2, SnapshotAssumption, Zenon DEF Life, KernelInv, RecordInv
  <2>4. /\ record' \in Rec
    BY <1>0, <2>1, <2>3, ZenonT(60) DEF Rec
  <2>5. /\ record'.pid = q /\ record'.at = now /\ record'.ticks = proc[q].ticks
        /\ record'.io_valid = FALSE
    BY <2>1, ZenonT(60)
  <2>6. KernelInv' /\ RecordInv' /\ TableInv'
    BY <1>0, <1>1, <1>3, <2>4, <2>5, Zenon DEF KernelInv, RecordInv, TableInv, kernel
  <2>7. ASSUME NEW p \in Pid
        PROVE  ReadInv(p)' /\ CpuInv(p)' /\ Proportionate(p)'
    <3>1. ReadInv(p) /\ CpuInv(p) /\ Proportionate(p)
      BY ZenonT(60) DEF SInv
    <3>2. ReadInv(p)'
      BY <1>1, <1>3, <3>1, Same, ZenonT(60) DEF ReadInv
    <3>3. /\ LastAt(p)' = LastAt(p) /\ CurTicks(p)' = CurTicks(p) /\ now' = now
      BY <1>1, Same, Zenon
    <3>4. q = p => CurTicks(p) = record'.ticks
      BY <1>3, <2>5, Zenon DEF CurTicks
    <3>5. q = p => record'.at <= now /\ CurTicks(p) <= record'.ticks + (now - record'.at)
      BY <2>3, <2>5, <3>4, SMTT(60)
    <3>6. CpuInv(p)'
      BY <1>1, <2>5, <3>1, <3>3, <3>4, <3>5, Zenon DEF CpuInv
    <3> QED
      BY <1>1, <3>1, <3>2, <3>6, Zenon DEF Proportionate
  <2> QED
    BY <2>6, <2>7, ZenonT(60) DEF SInv
<1> QED
  BY <1>2, <1>3, ZenonT(60) DEF ReadStat

(* Opening /proc/<pid>/io.                                                 *)
LEMMA OpenIoOk ==
  ASSUME SInv, OpenIo
  PROVE  SInv'
<1> DEFINE q == record.pid
<1>0. /\ RecordInv /\ KernelInv /\ TableInv /\ phase = "open_io"
      /\ record \in Rec /\ q \in Pid /\ ~record.io_valid /\ phase \in InRecord
  BY Zenon DEF SInv, OpenIo, RecordInv, InRecord, Rec
<1>1. UNCHANGED <<kernel, timestamp, listed, table, trail>>
  BY ZenonT(60) DEF OpenIo
<1>2. CASE Alive(q) /\ phase' = "read_io"
  <2>1. /\ record' = [record EXCEPT !.io_inc = proc[q].inc]
        /\ consumed' = IF IoStarted(q) THEN consumed ELSE [consumed EXCEPT ![q] = 0]
    BY <1>0, <1>2, Zenon DEF OpenIo
  <2>2. proc[q].inc \in Nat /\ proc[q].inc # 0
    BY <1>0, <1>2, Zenon DEF KernelInv, Alive, Life
  <2>3. record' \in Rec
    BY <1>0, <2>1, <2>2, Zenon DEF Rec
  <2>4. /\ record'.pid = q /\ record'.at = record.at /\ record'.ticks = record.ticks
        /\ record'.io_inc = proc[q].inc
    BY <1>0, <2>1, Zenon DEF Rec
  <2>5. consumed' \in [Pid -> Nat]
    BY <1>0, <2>1, Zenon DEF KernelInv
  <2>6. KernelInv' /\ RecordInv' /\ TableInv'
    BY <1>0, <1>1, <1>2, <2>2, <2>3, <2>4, <2>5, ZenonT(60)
       DEF KernelInv, RecordInv, TableInv, kernel
  <2>7. ASSUME NEW p \in Pid PROVE ReadInv(p)'
    <3>1. ReadInv(p)
      BY Zenon DEF SInv
    <3>2. IoStarted(p) => consumed'[p] = consumed[p]
      BY <1>0, <2>1, Zenon DEF KernelInv
    <3>3. proc' = proc
      BY <1>1, Zenon DEF kernel
    <3> QED
      BY <1>1, <1>2, <2>4, <3>1, <3>2, <3>3, Same, ZenonT(60) DEF ReadInv
  <2> QED
    BY <1>0, <1>1, <2>4, <2>6, <2>7, CpuKept, Zenon DEF SInv
<1>3. CASE phase' = "open_fd" /\ UNCHANGED <<record, consumed>>
  <2>1. KernelInv' /\ RecordInv' /\ TableInv'
    BY <1>0, <1>1, <1>3, ZenonT(60) DEF KernelInv, RecordInv, TableInv, kernel
  <2>2. ASSUME NEW p \in Pid PROVE ReadInv(p)'
    <3>1. ReadInv(p)
      BY Zenon DEF SInv
    <3> QED
      BY <1>0, <1>1, <1>3, <3>1, Same, ZenonT(60) DEF ReadInv
  <2> QED
    BY <1>0, <1>1, <1>3, <2>1, <2>2, CpuKept, Zenon DEF SInv
<1> QED
  BY <1>2, <1>3, Zenon DEF OpenIo

(* Reading /proc/<pid>/io: of the process it was opened for, or nothing.   *)
LEMMA ReadIoOk ==
  ASSUME SInv, ReadIo
  PROVE  SInv'
<1> DEFINE q == record.pid
           k == IF proc[q].inc = record.io_inc THEN proc[q].read ELSE 0
<1>0. /\ RecordInv /\ KernelInv /\ TableInv /\ phase = "read_io"
      /\ record \in Rec /\ q \in Pid /\ phase \in InRecord
  BY Zenon DEF SInv, ReadIo, RecordInv, InRecord, Rec
<1>1. UNCHANGED <<kernel, timestamp, listed, table, trail, consumed>> /\ phase' = "open_fd"
  BY Zenon DEF ReadIo
<1>2. record' = [record EXCEPT !.io_valid = TRUE, !.read_kbytes = k]
  BY Zenon DEF ReadIo
<1>3. proc[q] \in Life \/ proc[q] = NoProcess
  BY <1>0, Zenon DEF KernelInv
<1>4. k \in Nat /\ (proc[q].inc = record.io_inc => k = CurRead(q))
      /\ (proc[q].inc # record.io_inc => k = 0)
  <2>1. record.io_inc # 0
    BY <1>0, Zenon DEF RecordInv
  <2>2. proc[q].inc = record.io_inc => Alive(q) /\ proc[q] \in Life
    BY <1>3, <2>1 DEF Alive, NoProcess
  <2> QED
    BY <2>2, Zenon DEF CurRead, Life
<1> HIDE DEF k
<1>5. record' \in Rec
  BY <1>0, <1>2, <1>4, ZenonT(60) DEF Rec
<1>6. /\ record'.pid = q /\ record'.at = record.at /\ record'.ticks = record.ticks
      /\ record'.read_kbytes = k
  BY <1>0, <1>2, Zenon DEF Rec
<1>7. KernelInv' /\ RecordInv' /\ TableInv'
  BY <1>0, <1>1, <1>5, Zenon DEF KernelInv, RecordInv, TableInv, kernel
<1>8. ASSUME NEW p \in Pid PROVE ReadInv(p)'
  <2>1. ReadInv(p)
    BY Zenon DEF SInv
  <2>2. /\ CurRead(p) \in Nat /\ consumed[p] \in Nat /\ Total(p) \in Nat
        /\ IoStarted(p) => table[p].prev_read_kbytes \in Nat
    BY Typed, ZenonT(60)
  <2>3. ASSUME q = p
        PROVE  Total(p) + Due(p)' + CounterDelta(k, CurRead(p)) <= consumed[p]
    <3>1. IoStarted(p) => Due(p)' = CounterDelta(table[p].prev_read_kbytes, k)
      BY <1>1, <1>6, Same, ZenonT(60) DEF Due
    <3>2. ~IoStarted(p) => Due(p)' = 0 /\ Total(p) = 0
      BY <1>1, Same, Zenon DEF Due, Total
    <3>3. CASE proc[q].inc = record.io_inc
      <4>1. k = CurRead(p) /\ CounterDelta(k, CurRead(p)) = 0
        BY <1>4, <2>2, <2>3, <3>3 DEF CounterDelta
      <4>2. CASE IoStarted(p)
        <5>1. Total(p) + CounterDelta(table[p].prev_read_kbytes, CurRead(p)) <= consumed[p]
          BY <2>1, <4>2, Zenon DEF ReadInv
        <5>2. CounterDelta(table[p].prev_read_kbytes, CurRead(p)) \in Nat
          BY <2>2, <4>2 DEF CounterDelta
        <5> QED
          BY <2>2, <3>1, <4>1, <4>2, <5>1, <5>2
      <4>3. CASE ~IoStarted(p)
        BY <2>2, <3>2, <4>1, <4>3
      <4> QED
        BY <4>2, <4>3, Zenon
    <3>4. CASE proc[q].inc # record.io_inc
      <4>1. k = 0
        BY <1>4, <3>4, Zenon
      <4>2. Total(p) + CurRead(p) <= consumed[p]
        BY <1>0, <2>1, <2>3, <3>4, Zenon DEF ReadInv
      <4>3. Due(p)' = 0
        BY <2>2, <3>1, <3>2, <4>1 DEF CounterDelta
      <4>4. CounterDelta(k, CurRead(p)) = CurRead(p)
        BY <2>2, <4>1 DEF CounterDelta
      <4> QED
        BY <2>2, <4>2, <4>3, <4>4
    <3> QED
      BY <3>3, <3>4, ZenonT(60)
  <2> QED
    BY <1>1, <1>6, <2>1, <2>3, Same, Zenon DEF ReadInv
<1> QED
  BY <1>0, <1>1, <1>6, <1>7, <1>8, CpuKept, Zenon DEF SInv

(* The filters turn the record down, or the directory of the descriptors   *)
(* is opened.                                                              *)
LEMMA OpenFdOk ==
  ASSUME SInv, phase = "open_fd",
         UNCHANGED <<kernel, timestamp, listed, table, trail, consumed>>,
         \/ Continue
         \/ /\ Alive(record.pid) /\ phase' = "read_fd"
            /\ record' = [record EXCEPT !.fd_inc = proc[record.pid].inc]
  PROVE  SInv'
<1> DEFINE q == record.pid
<1>0. /\ RecordInv /\ KernelInv /\ TableInv
      /\ record \in Rec /\ q \in Pid /\ phase \in InRecord
  BY Zenon DEF SInv, RecordInv, InRecord, Rec
<1>1. CASE Continue
  <2>1. RecordInv' /\ phase' \notin InRecord
    BY <1>0, <1>1, Zenon DEF Continue, RecordInv, InRecord
  <2> QED
    BY <2>1, Steady, Zenon
<1>2. CASE /\ Alive(q) /\ phase' = "read_fd"
           /\ record' = [record EXCEPT !.fd_inc = proc[q].inc]
  <2>1. proc[q].inc \in Nat
    BY <1>0, <1>2, Zenon DEF KernelInv, Alive, Life
  <2>2. record' \in Rec
    BY <1>0, <1>2, <2>1, Zenon DEF Rec
  <2>3. /\ record'.pid = q /\ record'.at = record.at
        /\ record'.ticks = record.ticks /\ record'.io_valid = record.io_valid
        /\ record'.read_kbytes = record.read_kbytes
    BY <1>0, <1>2, Zenon DEF Rec
  <2>4. KernelInv' /\ RecordInv' /\ TableInv'
    BY <1>0, <1>2, <2>2, Zenon DEF KernelInv, RecordInv, TableInv, kernel
  <2>5. ASSUME NEW p \in Pid PROVE ReadInv(p)'
    <3>1. ReadInv(p)
      BY Zenon DEF SInv
    <3>2. Due(p)' = Due(p)
      BY <2>3, Same, Zenon DEF Due
    <3> QED
      BY <1>2, <2>3, <3>1, <3>2, Same, Zenon DEF ReadInv
  <2> QED
    BY <1>0, <2>3, <2>4, <2>5, CpuKept, Zenon DEF SInv
<1> QED
  BY <1>1, <1>2, Zenon
-----------------------------------------------------------------------------
(* What process_stats_update makes of an entry and of its history.         *)
Aggregate(input) ==
  LET p == input.pid
      entry == IF table[p] = NoEntry THEN NewProcess(input) ELSE table[p]
  IN /\ table' = [table EXCEPT ![p] = process_stats_update(input, entry)]
     /\ trail' = [trail EXCEPT ![p] =
          Append(IF Len(@) = 2 THEN Tail(@) ELSE @,
                 [timestamp |-> input.timestamp, at |-> input.at])]

(* The last two records after one more.                                    *)
LEMMA TrailFields ==
  ASSUME NEW h \in Seq(Item), NEW x \in Item, Len(h) \in {0, 1, 2}
  PROVE  LET t == Append(IF Len(h) = 2 THEN Tail(h) ELSE h, x)
         IN /\ t \in Seq(Item) /\ Len(t) \in {1, 2} /\ t[Len(t)] = x
            /\ Len(h) = 0 => Len(t) = 1
            /\ Len(t) = 2 => t[1] = h[Len(h)] /\ t[2] = x
<1> DEFINE s == IF Len(h) = 2 THEN Tail(h) ELSE h
           t == Append(s, x)
<1>1. s \in Seq(Item) /\ Len(s) \in {0, 1} /\ (Len(s) = 0 <=> Len(h) = 0)
      /\ (Len(s) = 1 => s[1] = h[Len(h)])
  <2>1. CASE Len(h) = 2
    <3>1. h # <<>>
      <4>1. Len(<<>>) = 0
        BY Zenon
      <4>2. h = <<>> => Len(h) = 0
        BY <4>1, Zenon
      <4> QED
        BY <2>1, <4>2
    <3>2. /\ Tail(h) \in Seq(Item) /\ Len(Tail(h)) = Len(h) - 1
          /\ \A i \in 1..Len(Tail(h)) : Tail(h)[i] = h[i + 1]
      BY <3>1
    <3>3. Len(Tail(h)) = 1 /\ Tail(h)[1] = h[2]
      <4>1. Len(Tail(h)) = 1
        BY <2>1, <3>2
      <4>2. 1 \in 1..Len(Tail(h)) /\ 1 + 1 = 2
        BY <4>1
      <4> QED
        BY <3>2, <4>1, <4>2, Zenon
    <3>4. s = Tail(h)
      BY <2>1, Zenon
    <3> HIDE DEF s
    <3>5. s \in Seq(Item) /\ Len(s) = 1 /\ s[1] = h[2]
      BY <3>2, <3>3, <3>4, Zenon
    <3>6. h[2] = h[Len(h)] /\ Len(h) # 0
      BY <2>1
    <3> QED
      BY <3>5, <3>6, Zenon
  <2>2. CASE Len(h) # 2
    <3>1. s = h /\ Len(h) \in {0, 1}
      BY <2>2, Zenon
    <3> HIDE DEF s
    <3> QED
      BY <3>1, Zenon
  <2> QED
    BY <2>1, <2>2, Zenon
<1> HIDE DEF s
<1>2. /\ t \in Seq(Item) /\ Len(t) = Len(s) + 1 /\ t[Len(s) + 1] = x
      /\ \A i \in 1..Len(s) : t[i] = s[i]
  BY <1>1
<1> HIDE DEF t
<1>3. /\ Len(t) \in {1, 2} /\ t[Len(t)] = x /\ (Len(h) = 0 => Len(t) = 1)
      /\ (Len(t) = 2 => t[1] = h[Len(h)] /\ t[2] = x)
  BY <1>1, <1>2
<1> QED
  BY <1>2, <1>3, Zenon DEF s, t

(* The usage of an interval against the time between its readings.         *)
LEMMA UsageBound ==
  ASSUME NEW input \in Rec, NEW ps \in Entry, NEW at \in Nat, at <= input.at,
         input.ticks <= ps.prev_cpu_ticks + (input.at - at),
         NEW usage, usage = IF UsageCounts(input, ps)
                              THEN compute_cpu_usage(ps.prev_cpu_ticks, input.ticks,
                                     input.timestamp - ps.prev_timestamp)
                              ELSE 0
  PROVE  usage * (input.timestamp - ps.prev_timestamp) <= Scale * (input.at - at)
<1> DEFINE dt == input.timestamp - ps.prev_timestamp
           ticks == input.ticks - ps.prev_cpu_ticks
           time == input.at - at
<1>1. /\ input.ticks \in Nat /\ input.timestamp \in Nat /\ input.at \in Nat
      /\ ps.prev_cpu_ticks \in Nat /\ ps.prev_timestamp \in Nat
  BY Zenon DEF Rec, Entry
<1>2. time \in Nat /\ dt \in Int /\ ticks <= time /\ ticks \in Int
  BY <1>1
<1>3. Scale * time \in Nat
  BY <1>2, TimesMono, StatsAssumption
<1>4. CASE UsageCounts(input, ps)
  <2>1. ticks \in Nat /\ dt \in Nat \ {0}
    BY <1>1, <1>4 DEF UsageCounts
  <2>2. usage = (Scale * (ticks % Word)) \div dt
    BY <1>4, Zenon DEF compute_cpu_usage
  <2> HIDE DEF dt, ticks, time
  <2>3. ticks % Word \in Nat /\ ticks % Word <= ticks
    BY <2>1, ModLe, StatsAssumption, Zenon
  <2> DEFINE k == ticks % Word
  <2>4. k \in Nat /\ k <= time
    BY <1>2, <2>1, <2>3
  <2> HIDE DEF k
  <2>5. Scale * k \in Nat /\ Scale * k <= Scale * time
    BY <1>2, <2>4, TimesMono, StatsAssumption, Zenon
  <2> DEFINE w == Scale * k
  <2>6. usage = w \div dt
    BY <2>2, Zenon DEF k
  <2>7. w \in Nat /\ w <= Scale * time
    BY <2>5, Zenon
  <2> HIDE DEF w
  <2>8. w \div dt \in Nat /\ (w \div dt) * dt <= w
    BY <2>1, <2>7, DivMul, Zenon
  <2> DEFINE v == usage * dt
  <2>9. v \in Int /\ v <= w
    BY <2>1, <2>6, <2>8
  <2> HIDE DEF v
  <2>10. v <= Scale * time
    BY <1>3, <2>7, <2>9
  <2> QED
    BY <2>10, Zenon DEF v, dt, time
<1>5. CASE ~UsageCounts(input, ps)
  <2>1. usage = 0
    BY <1>5, Zenon
  <2> HIDE DEF dt, time
  <2>2. usage * dt = 0
    BY <1>2, <2>1
  <2>3. usage * dt <= Scale * time
    BY <1>3, <2>2
  <2> QED
    BY <2>3, Zenon DEF dt, time
<1> QED
  BY <1>4, <1>5, Zenon

(* A finished record is aggregated.                                        *)
LEMMA AggregateOk ==
  ASSUME SInv, phase \in {"open_fd", "read_fd"},
         NEW input \in Rec, Aggregate(input), Continue,
         input.pid = record.pid, input.at = record.at,
         input.ticks = record.ticks, input.io_valid = record.io_valid,
         input.read_kbytes = record.read_kbytes,
         UNCHANGED <<kernel, timestamp, listed, consumed>>
  PROVE  SInv'
<1> DEFINE q == input.pid
           ps == IF table[q] = NoEntry THEN NewProcess(input) ELSE table[q]
           z == process_stats_update(input, ps)
           x == [timestamp |-> input.timestamp, at |-> input.at]
           t == Append(IF Len(trail[q]) = 2 THEN Tail(trail[q]) ELSE trail[q], x)
<1>0. RecordInv /\ KernelInv /\ TableInv /\ q \in Pid /\ phase \in InRecord
  BY Zenon DEF SInv, InRecord, Rec
<1>1. ReadInv(q) /\ CpuInv(q)
  BY <1>0, Zenon DEF SInv
<1>2. ps \in Entry /\ (table[q] = NoEntry => ps.io_initialized = FALSE
                                             /\ ps.total_read_kbytes = 0)
  BY <1>0, NewProcessFields, ZenonT(60) DEF TableInv
<1>3. /\ table' = [table EXCEPT ![q] = z] /\ trail' = [trail EXCEPT ![q] = t]
  BY Zenon DEF Aggregate
<1>4. table[q] # NoEntry => ps = table[q]
  BY Zenon
<1> HIDE DEF ps
<1>5. /\ z \in Entry /\ z.prev_cpu_ticks = input.ticks
      /\ z.prev_timestamp = input.timestamp
      /\ z.number_of_records = ps.number_of_records + 1
      /\ z.cpu_usage = IF UsageCounts(input, ps)
                         THEN compute_cpu_usage(ps.prev_cpu_ticks, input.ticks,
                                input.timestamp - ps.prev_timestamp)
                         ELSE 0
      /\ \/ SameIo(z, ps)
         \/ input.io_valid /\ ~ps.io_initialized /\ FirstIo(z, input, ps)
         \/ input.io_valid /\ ps.io_initialized /\ MoreIo(z, input, ps)
  BY <1>2, UpdateFields, Zenon
<1> HIDE DEF z
<1>6. z # NoEntry
  <2>1. ps.number_of_records \in Nat
    BY <1>2, SMTT(30) DEF Entry
  <2>2. z.number_of_records # 0
    BY <1>5, <2>1
  <2> QED
    BY <2>2 DEF NoEntry
<1>7. x \in Item /\ x.timestamp = input.timestamp /\ x.at = input.at
  BY Zenon DEF Rec, Item
<1>8. trail[q] \in Seq(Item) /\ Len(trail[q]) \in {0, 1, 2}
      /\ (table[q] = NoEntry => Len(trail[q]) = 0)
  BY <1>0, <1>1, Zenon DEF TableInv, CpuInv
<1> HIDE DEF x
<1>9. /\ t \in Seq(Item) /\ Len(t) \in {1, 2} /\ t[Len(t)] = x
      /\ Len(trail[q]) = 0 => Len(t) = 1
      /\ Len(t) = 2 => t[1] = trail[q][Len(trail[q])] /\ t[2] = x
  BY <1>7, <1>8, TrailFields, ZenonT(60)
<1> HIDE DEF t
<1>10. table'[q] = z /\ trail'[q] = t
       /\ \A p \in Pid \ {q} : table'[p] = table[p] /\ trail'[p] = trail[p]
  BY <1>0, <1>3, ZenonT(60) DEF TableInv
<1>11. TableInv'
  BY <1>0, <1>3, <1>5, <1>9, Zenon DEF TableInv
<1>12. KernelInv' /\ RecordInv' /\ phase' \notin InRecord
  BY <1>0, ZenonT(60) DEF KernelInv, kernel, RecordInv, Continue, InRecord
<1>13. ASSUME NEW p \in Pid \ {q}
       PROVE  ReadInv(p)' /\ CpuInv(p)' /\ Proportionate(p)'
  <2>1. ReadInv(p) /\ CpuInv(p) /\ Proportionate(p)
    BY Zenon DEF SInv
  <2>2. table'[p] = table[p] /\ trail'[p] = trail[p]
    BY <1>10, Zenon
  <2>3. /\ IoStarted(p)' = IoStarted(p) /\ Total(p)' = Total(p)
        /\ LastAt(p)' = LastAt(p) /\ CurRead(p)' = CurRead(p)
        /\ CurTicks(p)' = CurTicks(p) /\ now' = now
    BY <2>2, ZenonT(60) DEF IoStarted, Total, LastAt, CurRead, CurTicks, Alive, kernel
  <2>4. ReadInv(p)'
    BY <1>12, <2>1, <2>2, <2>3, ZenonT(60) DEF ReadInv, InRecord
  <2>5. CpuInv(p)'
    BY <1>12, <2>1, <2>2, <2>3, Zenon DEF CpuInv
  <2> QED
    BY <2>1, <2>2, <2>4, <2>5, ZenonT(60) DEF Proportionate
<1>14. /\ CurRead(q)' = CurRead(q) /\ CurTicks(q)' = CurTicks(q) /\ now' = now
       /\ consumed' = consumed
  BY Zenon DEF CurRead, CurTicks, Alive, kernel
<1>15. IoStarted(q)' <=> z.io_initialized
  BY <1>6, <1>10, Zenon DEF IoStarted
<1>16. IoStarted(q) <=> ps.io_initialized
  BY <1>2, <1>4, SMTT(30) DEF IoStarted
<1>17. /\ IoStarted(q)' => Total(q)' = z.total_read_kbytes
       /\ IoStarted(q) => /\ Total(q) = ps.total_read_kbytes
                          /\ Due(q) = CounterDelta(ps.prev_read_kbytes, input.read_kbytes)
                          /\ table[q].prev_read_kbytes = ps.prev_read_kbytes
       /\ ~IoStarted(q) => Total(q) = 0 /\ Due(q) = 0 /\ ps.total_read_kbytes = 0
  <2>1. IoStarted(q) => ps = table[q]
    BY <1>4, Zenon DEF IoStarted
  <2>2. ~IoStarted(q) => ps.total_read_kbytes = 0
    BY <1>1, <1>2, <1>4, Zenon DEF ReadInv
  <2> QED
    BY <1>10, <2>1, <2>2, Zenon DEF Total, Due
<1>18. /\ consumed[q] \in Nat /\ Total(q) \in Nat /\ Due(q) \in Nat
       /\ CurRead(q) \in Nat /\ input.read_kbytes \in Nat
  BY <1>0, Typed, ZenonT(60)
<1>19. input.io_valid =>
         Total(q) + Due(q) + CounterDelta(input.read_kbytes, CurRead(q)) <= consumed[q]
  BY <1>1, Zenon DEF ReadInv
<1>20. ReadInv(q)'
  <2>1. CASE SameIo(z, ps)
    <3>1. /\ z.io_initialized = ps.io_initialized
          /\ z.total_read_kbytes = ps.total_read_kbytes
          /\ z.prev_read_kbytes = ps.prev_read_kbytes
      BY <2>1, Zenon DEF SameIo
    <3>2. IoStarted(q) =>
            Total(q) + CounterDelta(table[q].prev_read_kbytes, CurRead(q)) <= consumed[q]
      BY <1>1, ZenonT(60) DEF ReadInv
    <3> QED
      BY <1>10, <1>12, <1>14, <1>15, <1>16, <1>17, <3>1, <3>2, ZenonT(60)
        DEF ReadInv, InRecord
  <2>2. CASE input.io_valid /\ ~ps.io_initialized /\ FirstIo(z, input, ps)
    <3>1. /\ z.io_initialized /\ z.total_read_kbytes = 0
          /\ z.prev_read_kbytes = input.read_kbytes /\ Total(q) = 0 /\ Due(q) = 0
      BY <1>16, <1>17, <2>2, Zenon DEF FirstIo
    <3> DEFINE new == CounterDelta(input.read_kbytes, CurRead(q))
    <3>2. new \in Nat
      BY <1>18 DEF CounterDelta
    <3>3. 0 + new <= consumed[q]
      <4>1. Total(q) + Due(q) + new <= consumed[q]
        BY <1>19, <2>2, ZenonT(60)
      <4> HIDE DEF new
      <4> QED
        BY <3>1, <3>2, <4>1, SMTT(60)
    <3> QED
      BY <1>10, <1>12, <1>14, <1>15, <1>17, <3>1, <3>3, ZenonT(60) DEF ReadInv, InRecord
  <2>3. CASE input.io_valid /\ ps.io_initialized /\ MoreIo(z, input, ps)
    <3>1. /\ z.io_initialized /\ z.total_read_kbytes = Total(q) + Due(q)
          /\ z.prev_read_kbytes = input.read_kbytes
      BY <1>16, <1>17, <2>3, Zenon DEF MoreIo
    <3>2. Total(q) + Due(q) + CounterDelta(input.read_kbytes, CurRead(q)) <= consumed[q]
      BY <1>19, <2>3, ZenonT(60)
    <3> QED
      BY <1>10, <1>12, <1>14, <1>15, <1>17, <3>1, <3>2, ZenonT(60)
        DEF ReadInv, InRecord
  <2> QED
    BY <1>5, <2>1, <2>2, <2>3, ZenonT(60)
<1>21. CpuInv(q)'
  <2>1. LastAt(q)' = input.at
    BY <1>7, <1>9, <1>10, ZenonT(60) DEF LastAt
  <2>2. record.at <= now /\ CurTicks(q) <= record.ticks + (now - record.at)
    BY <1>0, <1>1, ZenonT(60) DEF CpuInv
  <2>3. /\ table'[q] # NoEntry /\ table'[q].prev_cpu_ticks = record.ticks
        /\ table'[q].prev_timestamp = input.timestamp
    BY <1>5, <1>6, <1>10, ZenonT(60)
  <2>4. /\ Len(trail'[q]) \in {1, 2}
        /\ trail'[q][Len(trail'[q])].timestamp = input.timestamp
    BY <1>7, <1>9, <1>10, ZenonT(60)
  <2> QED
    BY <1>12, <1>14, <2>1, <2>2, <2>3, <2>4, Zenon DEF CpuInv
<1>22. Proportionate(q)'
  <2> SUFFICES ASSUME Len(t) = 2
               PROVE  z.cpu_usage * (t[2].timestamp - t[1].timestamp)
                        <= Scale * (t[2].at - t[1].at)
    BY <1>10, Zenon DEF Proportionate
  <2>1. table[q] # NoEntry
    BY <1>8, <1>9, SMTT(60)
  <2>2. /\ t[2].timestamp = input.timestamp /\ t[2].at = input.at
        /\ t[1].at = LastAt(q) /\ t[1].timestamp = ps.prev_timestamp
    BY <1>1, <1>4, <1>7, <1>9, <2>1, ZenonT(60) DEF CpuInv, LastAt
  <2>3. /\ LastAt(q) <= record.at
        /\ record.ticks <= ps.prev_cpu_ticks + (record.at - LastAt(q))
    BY <1>0, <1>1, <1>4, <2>1, SMTT(30) DEF CpuInv
  <2>4. LastAt(q) \in Nat
    BY <1>0, <2>1, Typed, SMTT(30)
  <2>5. z.cpu_usage = IF UsageCounts(input, ps)
                        THEN compute_cpu_usage(ps.prev_cpu_ticks, input.ticks,
                               input.timestamp - ps.prev_timestamp)
                        ELSE 0
    BY <1>5, Zenon
  <2>6. LastAt(q) <= input.at /\ input.ticks <= ps.prev_cpu_ticks + (input.at - LastAt(q))
    BY <2>3, Zenon
  <2>7. z.cpu_usage * (input.timestamp - ps.prev_timestamp) <= Scale * (input.at - LastAt(q))
    BY <1>2, <2>4, <2>5, <2>6, UsageBound, Zenon
  <2> QED
    BY <2>2, <2>7, ZenonT(60)
<1> QED
  BY <1>11, <1>12, <1>13, <1>20, <1>21, <1>22, Zenon DEF SInv

(* A step of the program or of the kernel preserves the invariant.         *)
LEMMA StepSInv ==
  ASSUME SInv, [Next]_vars
  PROVE  SInv'
<1>1. CASE KernelStep
  BY <1>1, KernelStepOk, Zenon
<1>2. CASE BeginSnapshot \/ NextProcess \/ EndSnapshot
  BY <1>2, AroundOk, Zenon
<1>3. CASE ReadStat
  BY <1>3, ReadStatOk, Zenon
<1>4. CASE OpenIo
  BY <1>4, OpenIoOk, Zenon
<1>5. CASE ReadIo
  BY <1>5, ReadIoOk, Zenon
<1>6. CASE OpenFd
  <2>1. /\ phase = "open_fd" /\ record \in Rec
        /\ UNCHANGED <<kernel, timestamp, listed, consumed>>
    BY <1>6, ZenonT(60) DEF OpenFd, SInv, RecordInv, InRecord
  <2>2. \/ UNCHANGED <<table, trail>> /\ Continue
        \/ /\ UNCHANGED <<table, trail>> /\ Alive(record.pid)
           /\ phase' = "read_fd"
           /\ record' = [record EXCEPT !.fd_inc = proc[record.pid].inc]
        \/ Aggregate(record) /\ Continue
    BY <1>6, Zenon DEF OpenFd, UpdateStats, Aggregate
  <2> QED
    BY <2>1, <2>2, OpenFdOk, AggregateOk, Zenon
<1>7. CASE ReadFd
  <2>1. /\ phase = "read_fd" /\ record \in Rec /\ Continue
        /\ UNCHANGED <<kernel, timestamp, listed, consumed>>
    BY <1>7, ZenonT(60) DEF ReadFd, SInv, RecordInv, InRecord
  <2>2. PICK n \in Nat : UpdateStats([record EXCEPT !.fd_valid = TRUE, !.fds = n])
    BY <1>7, SnapshotAssumption, Zenon DEF ReadFd
  <2> DEFINE input == [record EXCEPT !.fd_valid = TRUE, !.fds = n]
  <2>3. input \in Rec
    BY <2>1, ZenonT(60) DEF Rec
  <2>4. /\ input.pid = record.pid /\ input.at = record.at
        /\ input.ticks = record.ticks /\ input.io_valid = record.io_valid
        /\ input.read_kbytes = record.read_kbytes
    BY <2>1, Zenon DEF Rec
  <2>5. UNCHANGED <<table, trail>> \/ Aggregate(input)
    BY <2>2, Zenon DEF UpdateStats, Aggregate
  <2> HIDE DEF input
  <2>6. CASE UNCHANGED <<table, trail>>
    <3>1. RecordInv' /\ phase' \notin InRecord
      BY <2>1, Zenon DEF Continue, SInv, RecordInv, InRecord
    <3> QED
      BY <2>1, <2>6, <3>1, Steady, Zenon
  <2>7. CASE Aggregate(input)
    BY <2>1, <2>3, <2>4, <2>7, AggregateOk, Zenon
  <2> QED
    BY <2>5, <2>6, <2>7, Zenon
<1>8. CASE UNCHANGED vars
  <2>1. UNCHANGED <<now, proc, started, phase, timestamp, listed, record, table, trail, consumed>>
    BY <1>8, Zenon DEF vars, kernel
  <2>2. KernelInv' /\ RecordInv' /\ TableInv'
    BY <2>1, ZenonT(60) DEF SInv, KernelInv, RecordInv, TableInv
  <2>3. ASSUME NEW p \in Pid
        PROVE  ReadInv(p)' /\ CpuInv(p)' /\ Proportionate(p)'
    BY <2>1, ZenonT(60) DEF SInv, ReadInv, CpuInv, Proportionate,
                            IoStarted, Total, Due,
                LastAt, CurRead, CurTicks, Alive
  <2> QED
    BY <2>2, <2>3, Zenon DEF SInv
<1> QED
  BY <1>1, <1>2, <1>3, <1>4, <1>5, <1>6, <1>7, <1>8, Zenon DEF Next, KernelStep

(* The program starts with an empty table.                                 *)
LEMMA InitSInv == Init => SInv
<1> SUFFICES ASSUME Init PROVE SInv
  BY Zenon
<1> DEFINE c0 == CHOOSE c \in Comm : TRUE
<1>1. c0 \in Comm
  BY SnapshotAssumption, Zenon
<1> HIDE DEF c0
<1>2. Newborn(1, c0) \in Life
  BY <1>1 DEF Newborn, Life
<1>3. KernelInv
  BY <1>2, Zenon DEF Init, KernelInv, c0
<1>4. RecordInv /\ TableInv
  BY DEF Init, RecordInv, TableInv, InRecord
<1>5. ASSUME NEW p \in Pid
      PROVE  ReadInv(p) /\ CpuInv(p) /\ Proportionate(p)
  <2>1. /\ table[p] = NoEntry /\ trail[p] = <<>> /\ phase = "idle" /\ Len(trail[p]) = 0
    BY Zenon DEF Init
  <2>2. ~IoStarted(p)
    BY <2>1, Zenon DEF IoStarted
  <2>3. ReadInv(p) /\ CpuInv(p)
    BY <2>1, <2>2, Zenon DEF ReadInv, CpuInv, InRecord
  <2>4. Proportionate(p)
    BY <2>1 DEF Proportionate
  <2> QED
    BY <2>3, <2>4, Zenon
<1> QED
  BY <1>3, <1>4, <1>5, Zenon DEF SInv

(* The invariant of collect_snapshot and process_stats_update against a    *)
(* kernel that works, ends processes and reuses numbers at any moment.     *)
THEOREM CollectionInvariant == Spec => []SInv
<1>1. SInv /\ [Next]_vars => SInv'
  BY StepSInv, Zenon
<1> QED
  BY InitSInv, <1>1, PTL DEF Spec

(* For any set of numbers, any reuse of them and any unreadable files:     *)
(* calculate_io_data never counts more bytes for a number than were read   *)
(* under it since its first valid record.                                  *)
THEOREM ReadsAreReal == Spec => []ReadNotOverstated
<1>1. SInv => ReadNotOverstated
  <2> SUFFICES ASSUME SInv, NEW p \in Pid, table[p] # NoEntry, table[p].io_initialized
               PROVE  table[p].total_read_kbytes <= consumed[p]
    BY Zenon DEF ReadNotOverstated, Known
  <2>1. IoStarted(p) /\ Total(p) = table[p].total_read_kbytes
    BY ZenonT(60) DEF IoStarted, Total
  <2>2. Total(p) + CounterDelta(table[p].prev_read_kbytes, CurRead(p)) <= consumed[p]
    BY <2>1, ZenonT(60) DEF SInv, ReadInv
  <2>3. /\ Total(p) \in Nat /\ consumed[p] \in Nat /\ CurRead(p) \in Nat
        /\ table[p].prev_read_kbytes \in Nat
    BY <2>1, Typed, Zenon
  <2>4. CounterDelta(table[p].prev_read_kbytes, CurRead(p)) \in Nat
    BY <2>3, SMTT(60) DEF CounterDelta
  <2> QED
    BY <2>1, <2>2, <2>3, <2>4
<1> QED
  BY CollectionInvariant, <1>1, PTL

(* For any set of numbers, any reuse of them and any delay between the     *)
(* accesses of a snapshot: the usage that calculate_cpu_data stores is     *)
(* within the real time between the two readings of the ticks.             *)
THEOREM UsageIsReal == Spec => []CpuWithinRealTime
<1>1. SInv => CpuWithinRealTime
  BY Zenon DEF SInv, Proportionate, CpuWithinRealTime, Known
<1> QED
  BY CollectionInvariant, <1>1, PTL
-----------------------------------------------------------------------------
(* How far the loop over /proc has come: the process whose record is being *)
(* put together is no longer listed, and only those that are past their    *)
(* turn have a record of this snapshot.                                    *)
InHand(p) == phase \notin {"idle", "readdir"} /\ record.pid = p

Past(p) == IF phase = "idle" \/ p \in listed \/ InHand(p) THEN 0 ELSE 1

Counted(p) == table[p].number_of_records <= g_number_of_snapshots + Past(p)

RoundInv ==
  /\ now \in 1..MaxTime /\ timestamp \in 0..now
  /\ \A p \in Pid : /\ started[p] \in 0..MaxIncarnations
                    /\ Alive(p) => proc[p].inc \in 1..MaxIncarnations
  /\ phase \in {"idle", "readdir", "stat", "open_io", "read_io", "open_fd", "read_fd"}
  /\ IF phase \in {"idle", "readdir"} THEN record = NoRecord
                                      ELSE record.pid \in Pid \ listed
  /\ g_number_of_snapshots \in 0..MaxSnapshots
  /\ phase # "idle" => g_number_of_snapshots < MaxSnapshots
  /\ \A p \in Pid : Counted(p)

(* The number of records of an entry is a natural number.                  *)
LEMMA Counts ==
  ASSUME SInv, NEW p \in Pid
  PROVE  table[p].number_of_records \in Nat
<1>1. table[p] \in Entry \/ table[p] = NoEntry
  BY Zenon DEF SInv, TableInv
<1> QED
  BY <1>1 DEF Entry, NoEntry

LEMMA InitRound == Init => RoundInv
<1> SUFFICES ASSUME Init PROVE RoundInv
  BY Zenon
<1>1. now \in 1..MaxTime /\ timestamp \in 0..now /\ g_number_of_snapshots \in 0..MaxSnapshots
  BY SnapshotAssumption DEF Init
<1>2. ASSUME NEW p \in Pid
      PROVE  /\ started[p] \in 0..MaxIncarnations
             /\ Alive(p) => proc[p].inc \in 1..MaxIncarnations
             /\ Counted(p)
  <2>1. started[p] \in {0, 1} /\ (Alive(p) => proc[p].inc = 1)
    BY Zenon DEF Init, Alive, Newborn
  <2>2. Counted(p)
    BY DEF Init, Counted, Past, NoEntry
  <2> QED
    BY <2>1, <2>2, SnapshotAssumption
<1>3. phase = "idle" /\ record = NoRecord
  BY Zenon DEF Init
<1> QED
  BY <1>1, <1>2, <1>3, Zenon DEF RoundInv

(* The kernel takes no part in the loop.                                   *)
LEMMA KernelRound ==
  ASSUME SInv, RoundInv, KernelStep
  PROVE  RoundInv'
<1>1. UNCHANGED <<phase, timestamp, listed, record, table, g_number_of_snapshots>>
  BY Zenon DEF KernelStep, Work, ProcessStarts, ProcessExits
<1>2. /\ now \in Nat /\ now \in 1..MaxTime /\ timestamp \in 0..now
      /\ proc \in [Pid -> Life \cup {NoProcess}] /\ started \in [Pid -> Nat]
      /\ MaxIncarnations \in Nat \ {0} /\ MaxTime \in Nat
  BY SnapshotAssumption, Zenon DEF SInv, KernelInv, RoundInv
<1>3. now' \in 1..MaxTime /\ timestamp' \in 0..now'
  <2>1. now' = now \/ (now < MaxTime /\ now' = now + 1)
    BY Zenon DEF KernelStep, Work, ProcessStarts, ProcessExits
  <2> QED
    BY <1>1, <1>2, <2>1
<1>4. ASSUME NEW q \in Pid
      PROVE  /\ started'[q] \in 0..MaxIncarnations
             /\ Alive(q)' => proc'[q].inc \in 1..MaxIncarnations
  <2>1. /\ started[q] \in 0..MaxIncarnations
        /\ Alive(q) => proc[q].inc \in 1..MaxIncarnations
    BY Zenon DEF RoundInv
  <2>2. CASE Work
    <3>1. started' = started
      BY <2>2, Zenon DEF Work
    <3>2. CASE Alive(q)
      <4>1. proc[q] \in Life
        BY <1>2, <3>2, Zenon DEF Alive
      <4>2. PICK busy, reading \in SUBSET {p \in Pid \ Excluded : Alive(p)} :
              proc' = [p \in Pid |->
                IF Alive(p)
                  THEN [proc[p] EXCEPT !.ticks = @ + (IF p \in busy THEN 1 ELSE 0),
                                       !.read = @ + (IF p \in reading THEN 1 ELSE 0)]
                  ELSE proc[p]]
        BY <2>2, Zenon DEF Work
      <4>3. proc'[q].inc = proc[q].inc
        BY <3>2, <4>1, <4>2, Zenon DEF Life
      <4> QED
        BY <2>1, <3>1, <3>2, <4>3, Zenon
    <3>3. CASE ~Alive(q)
      <4>1. proc'[q] = proc[q]
        BY <2>2, <3>3, Zenon DEF Work
      <4> QED
        BY <2>1, <3>1, <3>3, <4>1, Zenon DEF Alive
    <3> QED
      BY <3>2, <3>3, Zenon
  <2>3. ASSUME NEW p \in Pid, ProcessStarts(p)
        PROVE  /\ started'[q] \in 0..MaxIncarnations
               /\ Alive(q)' => proc'[q].inc \in 1..MaxIncarnations
    <3>1. CASE q = p
      <4>1. started[p] \in Nat /\ started[p] < MaxIncarnations /\ started'[p] = started[p] + 1
        BY <1>2, <2>3, Zenon DEF ProcessStarts
      <4>2. proc'[p].inc = started[p] + 1
        BY <1>2, <2>3 DEF ProcessStarts, Newborn
      <4> QED
        BY <1>2, <3>1, <4>1, <4>2
    <3>2. CASE q # p
      <4>1. started'[q] = started[q] /\ proc'[q] = proc[q]
        BY <1>2, <2>3, <3>2, Zenon DEF ProcessStarts
      <4> QED
        BY <2>1, <4>1, Zenon DEF Alive
    <3> QED
      BY <3>1, <3>2, Zenon
  <2>4. ASSUME NEW p \in Pid, ProcessExits(p)
        PROVE  /\ started'[q] \in 0..MaxIncarnations
               /\ Alive(q)' => proc'[q].inc \in 1..MaxIncarnations
    <3>1. started'[q] = started[q] /\ (proc'[q] = proc[q] \/ proc'[q] = NoProcess)
      BY <1>2, <2>4, Zenon DEF ProcessExits
    <3> QED
      BY <2>1, <3>1, Zenon DEF Alive
  <2> QED
    BY <2>2, <2>3, <2>4, Zenon DEF KernelStep
<1>5. ASSUME NEW p \in Pid PROVE Counted(p)'
  BY <1>1, Zenon DEF RoundInv, Counted, Past, InHand
<1> QED
  BY <1>1, <1>3, <1>4, <1>5, Zenon DEF RoundInv

(* One record more at most for the process in hand, which is past then.    *)
LEMMA RecordRound ==
  ASSUME SInv, RoundInv, UNCHANGED <<kernel, timestamp, listed, g_number_of_snapshots>>,
         phase \in {"stat", "open_io", "read_io", "open_fd", "read_fd"},
         \/ Continue
         \/ /\ phase' \in {"open_io", "read_io", "open_fd", "read_fd"}
            /\ record'.pid = record.pid /\ table' = table,
         \A p \in Pid : \/ table'[p] = table[p]
                        \/ /\ p = record.pid
                           /\ table'[p].number_of_records = table[p].number_of_records + 1
  PROVE  RoundInv'
<1>1. /\ record.pid \in Pid \ listed /\ g_number_of_snapshots \in Nat
      /\ g_number_of_snapshots < MaxSnapshots
  BY SnapshotAssumption DEF RoundInv
<1>2. ASSUME NEW p \in Pid PROVE Counted(p)'
  <2>1. /\ table[p].number_of_records \in Nat
        /\ table[p].number_of_records <= g_number_of_snapshots + Past(p)
    BY Counts, Zenon DEF RoundInv, Counted
  <2>2. CASE Continue
    <3>1. phase' = "readdir"
      BY <2>2, Zenon DEF Continue
    <3>2. CASE p = record.pid
      <4>1. Past(p) = 0 /\ Past(p)' = 1
        BY <1>1, <3>1, <3>2, Zenon DEF Past, InHand
      <4>2. table'[p].number_of_records \in {table[p].number_of_records,
                                             table[p].number_of_records + 1}
        BY Zenon
      <4> QED
        BY <1>1, <2>1, <4>1, <4>2 DEF Counted
    <3>3. CASE p # record.pid
      <4>1. Past(p)' = Past(p) /\ table'[p] = table[p]
        BY <3>1, <3>3, Zenon DEF Past, InHand
      <4> QED
        BY <2>1, <4>1, Zenon DEF Counted
    <3> QED
      BY <3>2, <3>3, Zenon
  <2>3. CASE /\ phase' \in {"open_io", "read_io", "open_fd", "read_fd"}
             /\ record'.pid = record.pid /\ table' = table
    <3>1. Past(p)' = Past(p)
      BY <2>3, Zenon DEF Past, InHand
    <3> QED
      BY <2>1, <2>3, <3>1, Zenon DEF Counted
  <2> QED
    BY <2>2, <2>3, Zenon
<1>3. /\ phase' \in {"readdir", "open_io", "read_io", "open_fd", "read_fd"}
      /\ IF phase' \in {"idle", "readdir"} THEN record' = NoRecord
                                           ELSE record'.pid \in Pid \ listed'
  BY <1>1, Zenon DEF Continue
<1>4. /\ now' \in 1..MaxTime /\ timestamp' \in 0..now'
      /\ \A p \in Pid : /\ started'[p] \in 0..MaxIncarnations
                        /\ Alive(p)' => proc'[p].inc \in 1..MaxIncarnations
      /\ g_number_of_snapshots' \in 0..MaxSnapshots
      /\ g_number_of_snapshots' < MaxSnapshots
  BY <1>1, Zenon DEF RoundInv, kernel, Alive
<1> QED
  BY <1>2, <1>3, <1>4, Zenon DEF RoundInv

(* What process_stats_update does to the numbers of records.               *)
LEMMA UpdateCounts ==
  ASSUME SInv, NEW input \in Rec, UpdateStats(input)
  PROVE  \A p \in Pid : \/ table'[p] = table[p]
                        \/ /\ p = input.pid
                           /\ table'[p].number_of_records = table[p].number_of_records + 1
<1> DEFINE q == input.pid
           entry == IF table[q] = NoEntry THEN NewProcess(input) ELSE table[q]
<1>1. table \in [Pid -> Entry \cup {NoEntry}] /\ q \in Pid
  BY Zenon DEF SInv, TableInv, Rec
<1>2. CASE UNCHANGED table
  BY <1>2, Zenon
<1>3. CASE table' = [table EXCEPT ![q] = process_stats_update(input, entry)]
  <2>1. entry \in Entry /\ entry.number_of_records = table[q].number_of_records
    <3>1. NewProcess(input) \in Entry /\ NewProcess(input).number_of_records = 0
      BY NewProcessFields, Zenon
    <3>2. CASE table[q] = NoEntry
      BY <3>1, <3>2 DEF NoEntry
    <3>3. CASE table[q] # NoEntry
      BY <1>1, <3>3, Zenon
    <3> QED
      BY <3>2, <3>3, Zenon
  <2> HIDE DEF entry
  <2>2. process_stats_update(input, entry).number_of_records = entry.number_of_records + 1
    BY <2>1, UpdateFields, Zenon
  <2> QED
    BY <1>1, <1>3, <2>1, <2>2, Zenon
<1> QED
  BY <1>2, <1>3, Zenon DEF UpdateStats

LEMMA StepRound ==
  ASSUME SInv, RoundInv, [Next]_vars
  PROVE  RoundInv'
<1>1. CASE KernelStep
  BY <1>1, KernelRound, Zenon
<1>2. CASE BeginSnapshot
  <2>1. /\ phase = "idle" /\ phase' = "readdir" /\ timestamp' = now
        /\ g_number_of_snapshots < MaxSnapshots
        /\ UNCHANGED <<now, proc, started, record, table, g_number_of_snapshots>>
    BY <1>2, Zenon DEF BeginSnapshot, kernel
  <2>2. ASSUME NEW p \in Pid PROVE Counted(p)'
    <3>1. /\ table[p].number_of_records \in Nat /\ g_number_of_snapshots \in Nat
          /\ Past(p) = 0 /\ Past(p)' \in {0, 1} /\ Counted(p)
      BY <2>1, Counts, SnapshotAssumption DEF RoundInv, Past
    <3> QED
      BY <2>1, <3>1 DEF Counted
  <2>3. now \in Nat /\ now \in 0..now
    BY DEF SInv, KernelInv
  <2> QED
    BY <2>1, <2>2, <2>3, Zenon DEF RoundInv, Alive
<1>3. CASE NextProcess
  <2>1. /\ phase = "readdir"
        /\ UNCHANGED <<now, proc, started, timestamp, table, g_number_of_snapshots>>
    BY <1>3, Zenon DEF NextProcess, kernel
  <2>2. PICK q \in listed : /\ listed' = listed \ {q}
                            /\ \/ UNCHANGED <<phase, record>>
                               \/ phase' = "stat" /\ record' = [pid |-> q]
    BY <1>3, Zenon DEF NextProcess, WithoutFirst
  <2>3. q \in Pid /\ record = NoRecord /\ g_number_of_snapshots < MaxSnapshots
    BY <2>1, Zenon DEF RoundInv, SInv, RecordInv
  <2>4. ASSUME NEW p \in Pid PROVE Counted(p)'
    <3>1. /\ table[p].number_of_records \in Nat /\ g_number_of_snapshots \in Nat
          /\ Counted(p) /\ Past(p) \in {0, 1} /\ Past(p)' \in {0, 1}
      BY Counts, SnapshotAssumption DEF RoundInv, Past
    <3>2. p # q => Past(p)' = Past(p)
      BY <2>1, <2>2 DEF Past, InHand
    <3>3. p = q => Past(p) = 0
      BY Zenon DEF Past
    <3> QED
      BY <2>1, <3>1, <3>2, <3>3 DEF Counted
  <2>5. /\ phase' \in {"readdir", "stat"}
        /\ IF phase' \in {"idle", "readdir"} THEN record' = NoRecord
                                             ELSE record'.pid \in Pid \ listed'
    BY <2>1, <2>2, <2>3
  <2> QED
    BY <2>1, <2>3, <2>4, <2>5, Zenon DEF RoundInv, Alive
<1>4. CASE ReadStat
  <2>1. /\ phase = "stat" /\ table' = table
        /\ UNCHANGED <<kernel, timestamp, listed, g_number_of_snapshots>>
    BY <1>4, Zenon DEF ReadStat
  <2>2. Continue \/ (phase' = "open_io" /\ record'.pid = record.pid)
    BY <1>4 DEF ReadStat
  <2> QED
    BY <2>1, <2>2, RecordRound, Zenon
<1>5. CASE OpenIo \/ ReadIo
  <2>1. /\ phase \in {"open_io", "read_io"} /\ table' = table
        /\ UNCHANGED <<kernel, timestamp, listed, g_number_of_snapshots>>
        /\ phase' \in {"read_io", "open_fd"}
    BY <1>5, Zenon DEF OpenIo, ReadIo
  <2>2. record \in Rec
    BY <2>1, Zenon DEF SInv, RecordInv, InRecord
  <2>3. record'.pid = record.pid
    BY <1>5, <2>2, Zenon DEF OpenIo, ReadIo, Rec
  <2> QED
    BY <2>1, <2>3, RecordRound, Zenon
<1>6. CASE OpenFd
  <2>1. /\ phase = "open_fd" /\ record \in Rec
        /\ UNCHANGED <<kernel, timestamp, listed, g_number_of_snapshots>>
    BY <1>6, Zenon DEF OpenFd, SInv, RecordInv, InRecord
  <2>2. CASE UNCHANGED table
    <3>1. \/ Continue
          \/ /\ phase' = "read_fd"
             /\ record' = [record EXCEPT !.fd_inc = proc[record.pid].inc]
      BY <1>6, Zenon DEF OpenFd
    <3>2. [record EXCEPT !.fd_inc = proc[record.pid].inc].pid = record.pid
      BY <2>1, Zenon DEF Rec
    <3> QED
      BY <2>1, <2>2, <3>1, <3>2, RecordRound, Zenon
  <2>3. CASE UpdateStats(record) /\ Continue
    <3>1. \A p \in Pid : \/ table'[p] = table[p]
                         \/ /\ p = record.pid
                            /\ table'[p].number_of_records = table[p].number_of_records + 1
      BY <2>1, <2>3, UpdateCounts, Zenon
    <3> QED
      BY <2>1, <2>3, <3>1, RecordRound, Zenon
  <2> QED
    BY <1>6, <2>2, <2>3, Zenon DEF OpenFd
<1>7. CASE ReadFd
  <2>1. /\ phase = "read_fd" /\ record \in Rec /\ Continue
        /\ UNCHANGED <<kernel, timestamp, listed, g_number_of_snapshots>>
    BY <1>7, Zenon DEF ReadFd, SInv, RecordInv, InRecord
  <2>2. PICK n \in Nat : UpdateStats([record EXCEPT !.fd_valid = TRUE, !.fds = n])
    BY <1>7, SnapshotAssumption, Zenon DEF ReadFd
  <2> DEFINE input == [record EXCEPT !.fd_valid = TRUE, !.fds = n]
  <2>3. input \in Rec /\ input.pid = record.pid
    BY <2>1, Zenon DEF Rec
  <2> HIDE DEF input
  <2>4. \A p \in Pid : \/ table'[p] = table[p]
                       \/ /\ p = record.pid
                          /\ table'[p].number_of_records = table[p].number_of_records + 1
    BY <2>2, <2>3, UpdateCounts, Zenon DEF input
  <2> QED
    BY <2>1, <2>4, RecordRound, Zenon
<1>8. CASE EndSnapshot
  <2>1. /\ phase = "readdir" /\ phase' = "idle"
        /\ g_number_of_snapshots' = g_number_of_snapshots + 1
        /\ UNCHANGED <<now, proc, started, timestamp, listed, record, table>>
    BY <1>8, Zenon DEF EndSnapshot, kernel
  <2>2. g_number_of_snapshots \in Nat /\ MaxSnapshots \in Nat
        /\ g_number_of_snapshots < MaxSnapshots
    BY <2>1, SnapshotAssumption DEF RoundInv
  <2>3. ASSUME NEW p \in Pid PROVE Counted(p)'
    <3>1. /\ table[p].number_of_records \in Nat /\ Counted(p)
          /\ Past(p) \in {0, 1} /\ Past(p)' = 0
      BY <2>1, Counts, Zenon DEF RoundInv, Past
    <3> QED
      BY <2>1, <2>2, <3>1 DEF Counted
  <2> QED
    BY <2>1, <2>2, <2>3, SMTT(30) DEF RoundInv, Alive
<1>9. CASE UNCHANGED vars
  BY <1>9, Zenon DEF vars, kernel, RoundInv, Alive, Counted, Past, InHand
<1> QED
  BY <1>1, <1>2, <1>3, <1>4, <1>5, <1>6, <1>7, <1>8, <1>9, Zenon DEF Next, KernelStep

(* The states of collect_snapshot: in particular no process gets two       *)
(* records in one snapshot, whatever starts and ends during the loop over  *)
(* /proc.                                                                  *)
THEOREM OneRecordEach == Spec => []TypeOK
<1>1. SInv /\ RoundInv => TypeOK
  <2> SUFFICES ASSUME SInv, RoundInv PROVE TypeOK
    BY Zenon
  <2>1. listed \subseteq Pid
    BY Zenon DEF SInv, RecordInv
  <2>2. phase \notin {"idle", "readdir"} <=> record # NoRecord
    <3>1. CASE phase \in {"idle", "readdir"}
      BY <3>1, Zenon DEF RoundInv
    <3>2. CASE phase \notin {"idle", "readdir"}
      <4>1. record.pid # 0
        BY <3>2, SnapshotAssumption, Zenon DEF RoundInv
      <4> QED
        BY <3>2, <4>1 DEF NoRecord
    <3> QED
      BY <3>1, <3>2, Zenon
  <2>3. ASSUME NEW p \in Pid
        PROVE  table[p].number_of_records
                 <= g_number_of_snapshots + (IF phase = "idle" THEN 0 ELSE 1)
    <3>1. /\ table[p].number_of_records \in Nat /\ g_number_of_snapshots \in Nat
          /\ Past(p) \in {0, 1} /\ (phase = "idle" => Past(p) = 0)
          /\ table[p].number_of_records <= g_number_of_snapshots + Past(p)
      BY Counts, SnapshotAssumption DEF RoundInv, Counted, Past
    <3> QED
      BY <3>1
  <2> QED
    BY <2>1, <2>2, <2>3, Zenon DEF RoundInv, TypeOK
<1>2. SInv /\ RoundInv /\ [Next]_vars => RoundInv'
  BY StepRound, Zenon
<1> QED
  BY <1>1, <1>2, InitRound, CollectionInvariant, PTL DEF Spec
=============================================================================
