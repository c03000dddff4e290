------------------------- MODULE Statistics_proofs --------------------------
(***************************************************************************)
(* Proofs about the statistics of code/process_stats/process_stats.c.      *)
(*                                                                         *)
(* StatsHistory: what process_stats_update keeps record by record is what  *)
(* the metrics are defined to be over all records, for histories of any    *)
(* length.                                                                 *)
(*                                                                         *)
(* Metrics, whose specification is Spec: process_stats_print_metrics shows *)
(* the processes it should, in order, and writes a complete document, for  *)
(* any table and any requests.                                             *)
(***************************************************************************)
EXTENDS StatsHistory, Metrics, WellFoundedInduction, TLAPS

(* A set of natural numbers that is not empty has a least element.         *)
LEMMA Least ==
  ASSUME NEW T, T \subseteq Nat, T # {}
  PROVE  \E x \in T : \A y \in T : x <= y
<1>1. PICK x \in T : \A y \in T : ~(<<y, x>> \in OpToRel(<, Nat))
  BY NatLessThanWellFounded, WFMin, Zenon
<1>2. ASSUME NEW y \in T PROVE x <= y
  <2>1. OpToRel(<, Nat) = {ss \in Nat \X Nat : ss[1] < ss[2]}
    BY Zenon DEF OpToRel
  <2>2. <<y, x>> \in Nat \X Nat /\ <<y, x>>[1] = y /\ <<y, x>>[2] = x
    BY Zenon
  <2>3. ~(y < x)
    BY <1>1, <2>1, <2>2, Zenon
  <2> QED
    BY <2>3
<1> QED
  BY <1>2, Zenon
-----------------------------------------------------------------------------
(* The sums of the prefixes of s, up to the n-th and all of them.          *)
Partial(s, g, n) ==
  g = [k \in 0..n |-> IF k = 0 THEN 0 ELSE g[k - 1] + s[k]]

IsSum(s, f) ==
  f = [n \in Nat |-> IF n = 0 THEN 0 ELSE f[n - 1] + s[n]]

Sums(s) == CHOOSE f : IsSum(s, f)

(* The recursion of SumOf can be carried to every prefix ...               *)
LEMMA PartialExists ==
  ASSUME NEW s
  PROVE  \A n \in Nat : \E g : Partial(s, g, n)
<1> DEFINE T == {n \in Nat : ~\E g : Partial(s, g, n)}
<1> SUFFICES ASSUME T # {} PROVE FALSE
  BY Zenon
<1>1. PICK x \in T : \A y \in T : x <= y
  BY Least, Zenon
<1>2. x \in Nat
  BY Zenon
<1>3. CASE x = 0
  <2> DEFINE g == [k \in 0..0 |-> 0]
  <2>1. Partial(s, g, 0)
    BY DEF Partial
  <2> QED
    BY <1>3, <2>1, Zenon
<1>4. CASE x # 0
  <2>1. x - 1 \in Nat /\ ~(x <= x - 1)
    BY <1>2, <1>4
  <2>2. PICK g : Partial(s, g, x - 1)
    BY <1>1, <2>1, Zenon
  <2> DEFINE h == [k \in 0..x |-> IF k = x THEN g[x - 1] + s[x] ELSE g[k]]
  <2>3. ASSUME NEW k \in 0..x
        PROVE  h[k] = IF k = 0 THEN 0 ELSE h[k - 1] + s[k]
    <3>1. CASE k = x
      BY <1>2, <1>4, <3>1
    <3>2. CASE k # x
      <4>1. k \in 0..(x - 1) /\ (k # 0 => k - 1 \in 0..(x - 1) /\ k - 1 \in 0..x /\ k - 1 # x)
        BY <1>2, <3>2
      <4>2. g[k] = IF k = 0 THEN 0 ELSE g[k - 1] + s[k]
        BY <2>2, <4>1, Zenon DEF Partial
      <4> QED
        BY <3>2, <4>1, <4>2, Zenon
    <3> QED
      BY <3>1, <3>2, Zenon
  <2>4. Partial(s, h, x)
    BY <2>3, Zenon DEF Partial
  <2> QED
    BY <2>4, Zenon
<1> QED
  BY <1>3, <1>4, Zenon

(* ... in only one way ...                                                 *)
LEMMA PartialUnique ==
  ASSUME NEW s, NEW n \in Nat, NEW m \in Nat, NEW g, NEW h,
         Partial(s, g, n), Partial(s, h, m)
  PROVE  \A k \in Nat : k <= n /\ k <= m => g[k] = h[k]
<1> DEFINE T == {k \in Nat : k <= n /\ k <= m /\ g[k] # h[k]}
<1> SUFFICES ASSUME T # {} PROVE FALSE
  BY Zenon
<1>1. PICK x \in T : \A y \in T : x <= y
  BY Least, Zenon
<1>2. x \in Nat /\ x \in 0..n /\ x \in 0..m /\ g[x] # h[x]
  OBVIOUS
<1>3. /\ g[x] = IF x = 0 THEN 0 ELSE g[x - 1] + s[x]
      /\ h[x] = IF x = 0 THEN 0 ELSE h[x - 1] + s[x]
  BY <1>2, Zenon DEF Partial
<1>4. x # 0 /\ g[x - 1] # h[x - 1]
  BY <1>2, <1>3, Zenon
<1>5. x - 1 \in T /\ ~(x <= x - 1)
  BY <1>2, <1>4
<1> QED
  BY <1>1, <1>5, Zenon

(* ... so that there is a function of all of them.                         *)
LEMMA SumsExist ==
  ASSUME NEW s
  PROVE  IsSum(s, Sums(s))
<1> DEFINE G(n) == CHOOSE g : Partial(s, g, n)
           f == [n \in Nat |-> G(n)[n]]
<1>1. \A n \in Nat : Partial(s, G(n), n)
  BY PartialExists, Zenon
<1>2. ASSUME NEW n \in Nat
      PROVE  f[n] = IF n = 0 THEN 0 ELSE f[n - 1] + s[n]
  <2>1. Partial(s, G(n), n) /\ n \in 0..n
    BY <1>1
  <2>2. G(n)[n] = IF n = 0 THEN 0 ELSE G(n)[n - 1] + s[n]
    BY <2>1, Zenon DEF Partial
  <2>3. CASE n # 0
    <3>1. n - 1 \in Nat /\ n - 1 <= n /\ n - 1 <= n - 1
      BY <2>3
    <3>2. Partial(s, G(n - 1), n - 1)
      BY <1>1, <3>1, Zenon
    <3>3. G(n)[n - 1] = G(n - 1)[n - 1]
      BY <2>1, <3>1, <3>2, PartialUnique
    <3> QED
      BY <2>2, <2>3, <3>1, <3>3
  <2>4. CASE n = 0
    BY <2>2, <2>4, Zenon
  <2> QED
    BY <2>3, <2>4, Zenon
<1>3. IsSum(s, f)
  <2>1. f = [n \in Nat |-> f[n]]
    OBVIOUS
  <2> HIDE DEF f
  <2>2. [n \in Nat |-> f[n]] = [n \in Nat |-> IF n = 0 THEN 0 ELSE f[n - 1] + s[n]]
    BY <1>2, Zenon
  <2> QED
    BY <2>1, <2>2, Zenon DEF IsSum
<1> QED
  BY <1>3, Zenon DEF Sums

(* What one more number adds to the sum.                                   *)
LEMMA SumExtends ==
  ASSUME NEW s, NEW t, Len(s) \in Nat, Len(t) = Len(s) + 1,
         \A n \in 1..Len(s) : t[n] = s[n]
  PROVE  SumOf(t) = SumOf(s) + t[Len(t)]
<1> DEFINE f == Sums(s)
           g == Sums(t)
           T == {k \in Nat : k <= Len(s) /\ f[k] # g[k]}
<1>1. SumOf(s) = f[Len(s)] /\ SumOf(t) = g[Len(t)]
  BY Zenon DEF SumOf, Sums, IsSum
<1>2. /\ \A n \in Nat : f[n] = IF n = 0 THEN 0 ELSE f[n - 1] + s[n]
      /\ \A n \in Nat : g[n] = IF n = 0 THEN 0 ELSE g[n - 1] + t[n]
  <2>1. IsSum(s, f) /\ IsSum(t, g)
    BY SumsExist, Zenon
  <2> HIDE DEF f, g
  <2> QED
    BY <2>1, Zenon DEF IsSum
<1> HIDE DEF f, g
<1>3. T = {}
  <2> SUFFICES ASSUME T # {} PROVE FALSE
    BY Zenon
  <2>1. PICK x \in T : \A y \in T : x <= y
    BY Least, Zenon
  <2>2. x \in Nat /\ x <= Len(s) /\ f[x] # g[x]
    BY Zenon
  <2>3. x # 0 /\ x \in 1..Len(s)
    BY <1>2, <2>2
  <2>4. f[x - 1] # g[x - 1]
    BY <1>2, <2>2, <2>3
  <2>5. x - 1 \in T /\ ~(x <= x - 1)
    BY <2>2, <2>3, <2>4
  <2> QED
    BY <2>1, <2>5, Zenon
<1>4. f[Len(s)] = g[Len(s)]
  BY <1>3
<1>5. g[Len(t)] = g[Len(s)] + t[Len(t)]
  BY <1>2
<1> QED
  BY <1>1, <1>4, <1>5, Zenon

(* The sum of nothing.                                                     *)
LEMMA SumOfNone ==
  ASSUME NEW s, Len(s) = 0
  PROVE  SumOf(s) = 0
<1>1. SumOf(s) = Sums(s)[0]
  BY Zenon DEF SumOf, Sums, IsSum
<1>2. IsSum(s, Sums(s))
  BY SumsExist, Zenon
<1>3. 0 \in Nat
  BY Zenon
<1>4. Sums(s)[0] = 0
  BY <1>2, <1>3, Zenon DEF IsSum
<1> QED
  BY <1>1, <1>4, Zenon

(* A function on 1..n is a sequence of n elements.                         *)
LEMMA Tuple ==
  ASSUME NEW n \in Nat, NEW f, f = [k \in 1..n |-> f[k]]
  PROVE  Len(f) = n
<1> DEFINE S == {f[k] : k \in 1..n}
<1>1. f \in [1..n -> S]
  BY Zenon
<1>2. f \in Seq(S)
  BY <1>1
<1>3. DOMAIN f = 1..Len(f) /\ Len(f) \in Nat /\ DOMAIN f = 1..n
  BY <1>1, <1>2
<1> QED
  BY <1>3
-----------------------------------------------------------------------------
Record == [timestamp : Nat, ticks : 0..(Word - 1), rss_kb : Nat,
           io_valid : BOOLEAN, read_kbytes : Nat, fd_valid : BOOLEAN, fds : Nat]

StatsEntry ==
  [prev_cpu_ticks : Nat, prev_timestamp : Nat, number_of_records : Nat,
   cpu_usage : Int, cpu_usage_sum : Int, cpu_usage_samples : Int,
   rss_initial_kb : Int, rss_kb : Int, rss_sum : Int, rss_variation : Int,
   rss_initialized : BOOLEAN, num_of_rss_records : Int,
   prev_read_kbytes : Nat, total_read_kbytes : Nat, io_time_acc : Int,
   io_initialized : BOOLEAN,
   initial_num_of_fds : Int, current_num_of_fds : Int, fd_delta : Int,
   fd_initialized : BOOLEAN]

SameTime(z, ps) ==
  z.prev_timestamp = ps.prev_timestamp /\ z.number_of_records = ps.number_of_records

SameCpu(z, ps) ==
  /\ z.prev_cpu_ticks = ps.prev_cpu_ticks /\ z.cpu_usage_sum = ps.cpu_usage_sum
  /\ z.cpu_usage_samples = ps.cpu_usage_samples

SameFds(z, ps) ==
  /\ z.initial_num_of_fds = ps.initial_num_of_fds
  /\ z.current_num_of_fds = ps.current_num_of_fds
  /\ z.fd_delta = ps.fd_delta /\ z.fd_initialized = ps.fd_initialized

SameRss(z, ps) ==
  /\ z.rss_initial_kb = ps.rss_initial_kb /\ z.rss_initialized = ps.rss_initialized
  /\ z.rss_sum = ps.rss_sum /\ z.rss_variation = ps.rss_variation
  /\ z.num_of_rss_records = ps.num_of_rss_records

SameIo(z, ps) ==
  /\ z.prev_read_kbytes = ps.prev_read_kbytes
  /\ z.total_read_kbytes = ps.total_read_kbytes
  /\ z.io_time_acc = ps.io_time_acc /\ z.io_initialized = ps.io_initialized

(* What the four parts of process_stats_update do to their fields.         *)
UsageOf(input, ps) ==
  IF UsageCounts(input, ps)
    THEN compute_cpu_usage(ps.prev_cpu_ticks, input.ticks,
                           input.timestamp - ps.prev_timestamp)
    ELSE 0

CpuDone(z, input, ps) ==
  /\ z.prev_cpu_ticks = input.ticks
  /\ z.cpu_usage_sum = ps.cpu_usage_sum + UsageOf(input, ps)
  /\ z.cpu_usage_samples =
       ps.cpu_usage_samples + (IF UsageCounts(input, ps) THEN 1 ELSE 0)

FdsDone(z, input, ps) ==
  /\ ~input.fd_valid => SameFds(z, ps)
  /\ input.fd_valid /\ ~ps.fd_initialized =>
       /\ z.initial_num_of_fds = input.fds /\ z.current_num_of_fds = input.fds
       /\ z.fd_delta = ps.fd_delta /\ z.fd_initialized = TRUE
  /\ input.fd_valid /\ ps.fd_initialized =>
       /\ z.initial_num_of_fds = ps.initial_num_of_fds
       /\ z.current_num_of_fds = input.fds
       /\ z.fd_delta = input.fds - ps.initial_num_of_fds /\ z.fd_initialized = TRUE

RssDone(z, input, ps) ==
  /\ z.rss_initial_kb = IF ps.rss_initialized THEN ps.rss_initial_kb ELSE input.rss_kb
  /\ z.rss_initialized = TRUE
  /\ z.rss_sum = ps.rss_sum + input.rss_kb
  /\ z.rss_variation = input.rss_kb - z.rss_initial_kb
  /\ z.num_of_rss_records = ps.num_of_rss_records + 1

IoDone(z, input, ps) ==
  LET dt == input.timestamp - ps.prev_timestamp
  IN /\ ~input.io_valid => SameIo(z, ps)
     /\ input.io_valid /\ ~ps.io_initialized =>
          /\ z.prev_read_kbytes = input.read_kbytes /\ z.io_initialized = TRUE
          /\ z.total_read_kbytes = ps.total_read_kbytes /\ z.io_time_acc = ps.io_time_acc
     /\ input.io_valid /\ ps.io_initialized /\ dt > 0 =>
          /\ z.prev_read_kbytes = input.read_kbytes /\ z.io_initialized = TRUE
          /\ z.total_read_kbytes = ps.total_read_kbytes
                                     + CounterDelta(ps.prev_read_kbytes, input.read_kbytes)
          /\ z.io_time_acc = ps.io_time_acc + dt

(* The usage of an interval is a number.                                   *)
LEMMA UsageType ==
  ASSUME NEW input \in Record, NEW ps \in StatsEntry
  PROVE  UsageOf(input, ps) \in Int
<1>1. CASE UsageCounts(input, ps)
  <2>1. /\ input.ticks - ps.prev_cpu_ticks \in Nat
        /\ input.timestamp - ps.prev_timestamp \in Nat \ {0}
    BY <1>1, StatsAssumption DEF UsageCounts, Record, StatsEntry
  <2>2. (input.ticks - ps.prev_cpu_ticks) % Word \in Nat
    BY <2>1, StatsAssumption
  <2>3. Scale * ((input.ticks - ps.prev_cpu_ticks) % Word) \in Nat
    BY <2>2, StatsAssumption
  <2> QED
    BY <1>1, <2>1, <2>3 DEF UsageOf, compute_cpu_usage
<1> QED
  BY <1>1 DEF UsageOf

(* calculate_cpu_data.                                                     *)
LEMMA CpuFields ==
  ASSUME NEW input \in Record, NEW ps \in StatsEntry
  PROVE  LET z == calculate_cpu_data(input, ps)
         IN /\ z \in StatsEntry /\ CpuDone(z, input, ps)
            /\ SameTime(z, ps) /\ SameFds(z, ps) /\ SameRss(z, ps) /\ SameIo(z, ps)
<1> DEFINE usage == UsageOf(input, ps)
           sum == ps.cpu_usage_sum + usage
           samples == ps.cpu_usage_samples + (IF UsageCounts(input, ps) THEN 1 ELSE 0)
           z == [ps EXCEPT !.cpu_usage = usage, !.cpu_usage_sum = sum,
                           !.cpu_usage_samples = samples, !.prev_cpu_ticks = input.ticks]
<1>1. usage \in Int /\ sum \in Int /\ samples \in Int /\ input.ticks \in Nat
  BY UsageType, StatsAssumption DEF Record, StatsEntry
<1>2. calculate_cpu_data(input, ps) = z
  BY Zenon DEF calculate_cpu_data, UsageOf
<1> HIDE DEF usage, sum, samples
<1>3. z \in StatsEntry
  BY <1>1, ZenonT(60) DEF StatsEntry
<1>4. /\ z.prev_cpu_ticks = input.ticks /\ z.cpu_usage_sum = sum
      /\ z.cpu_usage_samples = samples
  BY Zenon DEF StatsEntry
<1>5. SameTime(z, ps) /\ SameFds(z, ps) /\ SameRss(z, ps) /\ SameIo(z, ps)
  BY Zenon DEF StatsEntry, SameTime, SameFds, SameRss, SameIo
<1> QED
  BY <1>2, <1>3, <1>4, <1>5, Zenon DEF CpuDone, usage, sum, samples

(* calculate_fds_delta.                                                    *)
LEMMA FdsFields ==
  ASSUME NEW input \in Record, NEW ps \in StatsEntry
  PROVE  LET z == calculate_fds_delta(input, ps)
         IN /\ z \in StatsEntry /\ FdsDone(z, input, ps)
            /\ SameTime(z, ps) /\ SameCpu(z, ps) /\ SameRss(z, ps) /\ SameIo(z, ps)
<1>1. input.fds \in Int /\ ps.initial_num_of_fds \in Int
  BY DEF Record, StatsEntry
<1>2. CASE ~input.fd_valid
  BY <1>2, Zenon DEF calculate_fds_delta, FdsDone, SameTime, SameCpu, SameRss, SameIo, SameFds
<1>3. CASE input.fd_valid /\ ~ps.fd_initialized
  <2> DEFINE z == [ps EXCEPT !.current_num_of_fds = input.fds,
                             !.initial_num_of_fds = input.fds, !.fd_initialized = TRUE]
  <2>1. calculate_fds_delta(input, ps) = z
    BY <1>3, Zenon DEF calculate_fds_delta
  <2>2. z \in StatsEntry
    BY <1>1, ZenonT(60) DEF StatsEntry
  <2>3. /\ z.initial_num_of_fds = input.fds /\ z.current_num_of_fds = input.fds
        /\ z.fd_delta = ps.fd_delta /\ z.fd_initialized = TRUE
    BY Zenon DEF StatsEntry
  <2>4. SameTime(z, ps) /\ SameCpu(z, ps) /\ SameRss(z, ps) /\ SameIo(z, ps)
    BY Zenon DEF StatsEntry, SameTime, SameCpu, SameRss, SameIo
  <2> HIDE DEF z
  <2> QED
    BY <1>3, <2>1, <2>2, <2>3, <2>4, Zenon DEF FdsDone
<1>4. CASE input.fd_valid /\ ps.fd_initialized
  <2> DEFINE delta == input.fds - ps.initial_num_of_fds
             z == [ps EXCEPT !.current_num_of_fds = input.fds, !.fd_delta = delta]
  <2>1. calculate_fds_delta(input, ps) = z
    BY <1>4, Zenon DEF calculate_fds_delta
  <2>2. delta \in Int
    BY <1>1
  <2> HIDE DEF delta
  <2>3. z \in StatsEntry
    BY <1>1, <2>2, ZenonT(60) DEF StatsEntry
  <2>4. /\ z.initial_num_of_fds = ps.initial_num_of_fds
        /\ z.current_num_of_fds = input.fds
        /\ z.fd_delta = delta /\ z.fd_initialized = ps.fd_initialized
    BY Zenon DEF StatsEntry
  <2>5. SameTime(z, ps) /\ SameCpu(z, ps) /\ SameRss(z, ps) /\ SameIo(z, ps)
    BY Zenon DEF StatsEntry, SameTime, SameCpu, SameRss, SameIo
  <2> HIDE DEF z
  <2>6. ps.fd_initialized = TRUE
    BY <1>4, Zenon DEF StatsEntry
  <2> QED
    BY <1>4, <2>1, <2>3, <2>4, <2>5, <2>6, Zenon DEF FdsDone, delta
<1> QED
  BY <1>2, <1>3, <1>4, Zenon

(* calculate_rss_data.                                                     *)
LEMMA RssFields ==
  ASSUME NEW input \in Record, NEW ps \in StatsEntry
  PROVE  LET z == calculate_rss_data(input, ps)
         IN /\ z \in StatsEntry /\ RssDone(z, input, ps)
            /\ SameTime(z, ps) /\ SameCpu(z, ps) /\ SameFds(z, ps) /\ SameIo(z, ps)
<1> DEFINE initial == IF ps.rss_initialized THEN ps.rss_initial_kb ELSE input.rss_kb
           sum == ps.rss_sum + input.rss_kb
           variation == input.rss_kb - initial
           n == ps.num_of_rss_records + 1
           z == [ps EXCEPT !.rss_initial_kb = initial, !.rss_initialized = TRUE,
                           !.rss_kb = input.rss_kb, !.rss_sum = sum,
                           !.rss_variation = variation, !.num_of_rss_records = n]
<1>1. input.rss_kb \in Int /\ input.rss_kb >= 0 /\ initial \in Int /\ sum \in Int /\ n \in Int
  BY DEF Record, StatsEntry
<1>2. variation \in Int
  BY <1>1
<1>3. calculate_rss_data(input, ps) = z
  BY <1>1 DEF calculate_rss_data
<1> HIDE DEF initial, sum, variation, n
<1>4. z \in StatsEntry
  BY <1>1, <1>2, ZenonT(60) DEF StatsEntry
<1>5. /\ z.rss_initial_kb = initial /\ z.rss_initialized = TRUE /\ z.rss_sum = sum
      /\ z.rss_variation = variation /\ z.num_of_rss_records = n
  BY Zenon DEF StatsEntry
<1>6. SameTime(z, ps) /\ SameCpu(z, ps) /\ SameFds(z, ps) /\ SameIo(z, ps)
  BY Zenon DEF StatsEntry, SameTime, SameCpu, SameFds, SameIo
<1> HIDE DEF z
<1> QED
  BY <1>3, <1>4, <1>5, <1>6, Zenon DEF RssDone, initial, sum, variation, n

(* calculate_io_data.                                                      *)
LEMMA IoFields ==
  ASSUME NEW input \in Record, NEW ps \in StatsEntry
  PROVE  LET z == calculate_io_data(input, ps)
         IN /\ z \in StatsEntry /\ IoDone(z, input, ps)
            /\ SameTime(z, ps) /\ SameCpu(z, ps) /\ SameFds(z, ps) /\ SameRss(z, ps)
<1> DEFINE dt == input.timestamp - ps.prev_timestamp
<1>1. /\ input.read_kbytes \in Nat /\ ps.prev_read_kbytes \in Nat
      /\ ps.total_read_kbytes \in Nat /\ ps.io_time_acc \in Int /\ dt \in Int
  BY DEF Record, StatsEntry
<1>2. CASE ~input.io_valid \/ (ps.io_initialized /\ dt <= 0)
  <2>1. calculate_io_data(input, ps) = ps
    BY <1>2, Zenon DEF calculate_io_data
  <2>2. IoDone(ps, input, ps)
    BY <1>1, <1>2 DEF IoDone, SameIo
  <2> QED
    BY <2>1, <2>2, Zenon DEF SameTime, SameCpu, SameFds, SameRss
<1>3. CASE input.io_valid /\ ~ps.io_initialized
  <2> DEFINE z == [ps EXCEPT !.prev_read_kbytes = input.read_kbytes,
                             !.io_initialized = TRUE]
  <2>1. calculate_io_data(input, ps) = z
    BY <1>3, Zenon DEF calculate_io_data
  <2>2. z \in StatsEntry
    BY <1>1, ZenonT(60) DEF StatsEntry
  <2>3. /\ z.prev_read_kbytes = input.read_kbytes /\ z.io_initialized = TRUE
        /\ z.total_read_kbytes = ps.total_read_kbytes /\ z.io_time_acc = ps.io_time_acc
    BY Zenon DEF StatsEntry
  <2>4. SameTime(z, ps) /\ SameCpu(z, ps) /\ SameFds(z, ps) /\ SameRss(z, ps)
    BY Zenon DEF StatsEntry, SameTime, SameCpu, SameFds, SameRss
  <2> HIDE DEF z
  <2> QED
    BY <1>3, <2>1, <2>2, <2>3, <2>4, Zenon DEF IoDone
<1>4. CASE input.io_valid /\ ps.io_initialized /\ ~(dt <= 0)
  <2> DEFINE total == ps.total_read_kbytes
                        + CounterDelta(ps.prev_read_kbytes, input.read_kbytes)
             time == ps.io_time_acc + dt
             z == [ps EXCEPT !.total_read_kbytes = total, !.io_time_acc = time,
                             !.prev_read_kbytes = input.read_kbytes]
  <2>1. total \in Nat /\ time \in Int
    BY <1>1 DEF CounterDelta
  <2>2. calculate_io_data(input, ps) = z
    BY <1>4, Zenon DEF calculate_io_data, Accumulated
  <2>3. ps.io_initialized = TRUE
    BY <1>4, Zenon DEF StatsEntry
  <2> HIDE DEF total, time
  <2>4. z \in StatsEntry
    BY <1>1, <2>1, ZenonT(60) DEF StatsEntry
  <2>5. /\ z.prev_read_kbytes = input.read_kbytes /\ z.io_initialized = ps.io_initialized
        /\ z.total_read_kbytes = total /\ z.io_time_acc = time
    BY Zenon DEF StatsEntry
  <2>6. SameTime(z, ps) /\ SameCpu(z, ps) /\ SameFds(z, ps) /\ SameRss(z, ps)
    BY Zenon DEF StatsEntry, SameTime, SameCpu, SameFds, SameRss
  <2> HIDE DEF z
  <2> QED
    BY <1>4, <2>2, <2>3, <2>4, <2>5, <2>6, Zenon DEF IoDone, total, time
<1> QED
  BY <1>2, <1>3, <1>4, Zenon

(* process_stats_update as a whole.                                        *)
LEMMA UpdateFields ==
  ASSUME NEW input \in Record, NEW ps \in StatsEntry
  PROVE  LET z == process_stats_update(input, ps)
         IN /\ z \in StatsEntry /\ CpuDone(z, input, ps) /\ FdsDone(z, input, ps)
            /\ RssDone(z, input, ps) /\ IoDone(z, input, ps)
            /\ z.prev_timestamp = input.timestamp
            /\ z.number_of_records = ps.number_of_records + 1
<1> DEFINE cpu == calculate_cpu_data(input, ps)
           fds == calculate_fds_delta(input, cpu)
           rss == calculate_rss_data(input, fds)
           io == calculate_io_data(input, rss)
           z == [io EXCEPT !.prev_timestamp = input.timestamp,
                           !.number_of_records = @ + 1]
<1>1. process_stats_update(input, ps) = z
  BY Zenon DEF process_stats_update
<1>2. /\ cpu \in StatsEntry /\ CpuDone(cpu, input, ps)
      /\ SameTime(cpu, ps) /\ SameFds(cpu, ps) /\ SameRss(cpu, ps) /\ SameIo(cpu, ps)
  BY CpuFields, Zenon
<1> HIDE DEF cpu
<1>3. /\ fds \in StatsEntry /\ FdsDone(fds, input, cpu)
      /\ SameTime(fds, cpu) /\ SameCpu(fds, cpu) /\ SameRss(fds, cpu) /\ SameIo(fds, cpu)
  BY <1>2, FdsFields, Zenon
<1> HIDE DEF fds
<1>4. /\ rss \in StatsEntry /\ RssDone(rss, input, fds)
      /\ SameTime(rss, fds) /\ SameCpu(rss, fds) /\ SameFds(rss, fds) /\ SameIo(rss, fds)
  BY <1>3, RssFields, Zenon
<1> HIDE DEF rss
<1>5. /\ io \in StatsEntry /\ IoDone(io, input, rss)
      /\ SameTime(io, rss) /\ SameCpu(io, rss) /\ SameFds(io, rss) /\ SameRss(io, rss)
  BY <1>4, IoFields, Zenon
<1> HIDE DEF io
<1>6. input.timestamp \in Nat /\ io.number_of_records + 1 \in Nat
  BY <1>5 DEF Record, StatsEntry
<1>7. z \in StatsEntry
  BY <1>5, <1>6, ZenonT(60) DEF StatsEntry
<1>8. /\ z.prev_timestamp = input.timestamp
      /\ z.number_of_records = io.number_of_records + 1
      /\ SameCpu(z, io) /\ SameFds(z, io) /\ SameRss(z, io) /\ SameIo(z, io)
  BY <1>5, Zenon DEF StatsEntry, SameCpu, SameFds, SameRss, SameIo
<1> HIDE DEF z
<1>9. CpuDone(z, input, ps)
  BY <1>2, <1>3, <1>4, <1>5, <1>8, SMTT(30) DEF CpuDone, SameCpu
<1>10. FdsDone(z, input, ps)
  BY <1>2, <1>3, <1>4, <1>5, <1>8 DEF FdsDone, SameFds
<1>11. RssDone(z, input, ps)
  BY <1>2, <1>3, <1>4, <1>5, <1>8 DEF RssDone, SameRss
<1>12. IoDone(z, input, ps)
  <2>1. SameIo(rss, ps) /\ SameTime(rss, ps) /\ SameIo(z, io)
    BY <1>2, <1>3, <1>4, <1>8, Zenon DEF SameIo, SameTime
  <2> QED
    BY <1>5, <2>1, Zenon DEF IoDone, SameIo, SameTime
<1>13. z.number_of_records = ps.number_of_records + 1
  BY <1>2, <1>3, <1>4, <1>5, <1>8, Zenon DEF SameTime
<1> QED
  BY <1>1, <1>7, <1>8, <1>9, <1>10, <1>11, <1>12, <1>13, Zenon

(* get_or_create_process starts with nothing counted.                      *)
LEMMA NewProcessFields ==
  ASSUME NEW input \in Record
  PROVE  LET z == NewProcess(input)
         IN /\ z \in StatsEntry /\ z.number_of_records = 0
            /\ z.cpu_usage_sum = 0 /\ z.cpu_usage_samples = 0
            /\ z.rss_initialized = FALSE /\ z.rss_sum = 0 /\ z.num_of_rss_records = 0
            /\ z.io_initialized = FALSE /\ z.total_read_kbytes = 0 /\ z.io_time_acc = 0
            /\ z.fd_initialized = FALSE /\ z.fd_delta = 0
<1>1. input.ticks \in Nat /\ input.rss_kb \in Int
  BY StatsAssumption DEF Record
<1> QED
  BY <1>1 DEF NewProcess, StatsEntry
-----------------------------------------------------------------------------
(* What an entry holds of the records, part by part.                       *)
CpuOf(ps) ==
  /\ ps.number_of_records = Len(history)
  /\ ps.cpu_usage_sum = SumOf([n \in Records |-> Usage(n)])
  /\ Len(history) > 0 =>
       ps.prev_cpu_ticks = Last.ticks /\ ps.prev_timestamp = Last.timestamp

RssOf(ps) ==
  /\ ps.rss_sum = SumOf([n \in Records |-> history[n].rss_kb])
  /\ ps.num_of_rss_records = Len(history)
  /\ ps.rss_initialized <=> Len(history) > 0
  /\ Len(history) > 0 => /\ ps.rss_initial_kb = history[1].rss_kb
                         /\ ps.rss_variation = Last.rss_kb - history[1].rss_kb

FdsOf(ps) ==
  /\ ps.fd_initialized <=> ValidFd # {}
  /\ ValidFd = {} => ps.fd_delta = 0
  /\ ValidFd # {} =>
       /\ ps.initial_num_of_fds = history[Min(ValidFd)].fds
       /\ ps.current_num_of_fds = history[Max(ValidFd)].fds
       /\ ps.fd_delta = history[Max(ValidFd)].fds - history[Min(ValidFd)].fds

IoOf(ps) ==
  /\ ps.io_initialized <=> ValidIo # {}
  /\ ps.total_read_kbytes = SumOf([n \in Records |-> Increase(n)])
  /\ ValidIo = {} => ps.io_time_acc = 0
  /\ ValidIo # {} => ps.prev_read_kbytes = history[Max(ValidIo)].read_kbytes
  /\ ValidIo # {} /\ Min(ValidIo)..Max(ValidIo) \subseteq ValidIo =>
       ps.io_time_acc = history[Max(ValidIo)].timestamp - history[Min(ValidIo)].timestamp

(* While the intervals have one length and the ticks do not go down, every *)
(* interval is a sample and the sum of the usages is that of the ticks.    *)
Length(n) == history[n].timestamp - history[n - 1].timestamp

Even == \A n \in 2..Len(history) :
          history[n].ticks >= history[n - 1].ticks /\ Length(n) = Length(2)

EvenOf(ps) ==
  /\ Len(history) \in {0, 1} => ps.cpu_usage_samples = 0 /\ ps.cpu_usage_sum = 0
  /\ Len(history) > 1 /\ Even =>
       /\ ps.cpu_usage_samples = Len(history) - 1
       /\ Length(2) * ps.cpu_usage_sum = Scale * (Last.ticks - history[1].ticks)
       /\ Last.timestamp - history[1].timestamp = (Len(history) - 1) * Length(2)

Described(ps) ==
  ps \in StatsEntry /\ CpuOf(ps) /\ RssOf(ps) /\ FdsOf(ps) /\ IoOf(ps) /\ EvenOf(ps)

HistoryInv ==
  /\ history \in Seq(Record)
  /\ \A n \in 2..Len(history) : Length(n) \in Steps
  /\ Len(history) = 0 => entry = NoEntry
  /\ Len(history) > 0 => Described(entry)

-----------------------------------------------------------------------------
(* The least and the largest element of a finite set of records.           *)
LEMMA Extremes ==
  ASSUME NEW l \in Nat, NEW S, S \subseteq 1..l, S # {}
  PROVE  /\ Min(S) \in S /\ \A y \in S : Min(S) <= y
         /\ Max(S) \in S /\ \A y \in S : Max(S) >= y
<1>1. \E x \in S : \A y \in S : x =< y
  <2>1. S \subseteq Nat
    OBVIOUS
  <2>2. \E x \in S : \A y \in S : x <= y
    BY <2>1, Least, Zenon
  <2> QED
    BY <2>2, Zenon
<1>2. \E x \in S : \A y \in S : x >= y
  <2> DEFINE T == {l - y : y \in S}
  <2>1. T \subseteq Nat /\ T # {}
    <3>1. \A y \in S : l - y \in Nat
      OBVIOUS
    <3> QED
      BY <3>1, Zenon
  <2>2. PICK t \in T : \A u \in T : t <= u
    BY <2>1, Least, Zenon
  <2>3. PICK x \in S : t = l - x
    BY <2>2, Zenon
  <2>4. ASSUME NEW y \in S PROVE x >= y
    <3>1. l - x <= l - y
      BY <2>2, <2>3, Zenon
    <3>2. x \in Nat /\ y \in Nat
      OBVIOUS
    <3> QED
      BY <3>1, <3>2, SMTT(30)
  <2> QED
    BY <2>4, Zenon
<1>3. Min(S) \in S /\ \A y \in S : Min(S) <= y
  BY <1>1, Zenon DEF Min
<1>4. Max(S) \in S /\ \A y \in S : Max(S) >= y
  BY <1>2, Zenon DEF Max
<1> QED
  BY <1>3, <1>4, Zenon

(* One more record is the last one, and the first one if it is the only.   *)
LEMMA ExtremesGrow ==
  ASSUME NEW l \in Nat, NEW S, S \subseteq 1..l
  PROVE  /\ Max(S \cup {l + 1}) = l + 1
         /\ S = {} => Min(S \cup {l + 1}) = l + 1
         /\ S # {} => Min(S \cup {l + 1}) = Min(S)
<1> DEFINE R == S \cup {l + 1}
<1>1. R \subseteq 1..(l + 1) /\ R # {} /\ l + 1 \in Nat
  OBVIOUS
<1>2. /\ Min(R) \in R /\ \A y \in R : Min(R) <= y
      /\ Max(R) \in R /\ \A y \in R : Max(R) >= y
  BY <1>1, Extremes, Zenon
<1>3. /\ l + 1 \in R /\ \A y \in R : y \in Nat /\ y <= l + 1 /\ (y \in S \/ y = l + 1)
      /\ S \subseteq R /\ \A y \in S : y \in Nat /\ y <= l
  OBVIOUS
<1> HIDE DEF R
<1>4. Max(R) = l + 1
  <2>1. Max(R) \in Nat /\ Max(R) <= l + 1 /\ Max(R) >= l + 1
    BY <1>2, <1>3, Zenon
  <2> QED
    BY <2>1
<1>5. S = {} => Min(R) = l + 1
  BY <1>2, <1>3, Zenon
<1>6. ASSUME S # {} PROVE Min(R) = Min(S)
  <2>1. Min(S) \in S /\ \A y \in S : Min(S) <= y
    BY <1>6, Extremes, Zenon
  <2>2. Min(S) \in Nat /\ Min(S) <= l /\ Min(R) \in Nat
    BY <1>2, <1>3, <2>1, Zenon
  <2>3. Min(R) <= Min(S)
    BY <1>2, <1>3, <2>1, Zenon
  <2>4. Min(R) \in S
    <3>1. Min(R) # l + 1
      BY <2>2, <2>3
    <3> QED
      BY <1>2, <1>3, <3>1, Zenon
  <2>5. Min(S) <= Min(R)
    BY <2>1, <2>4, Zenon
  <2> QED
    BY <2>2, <2>3, <2>5
<1> QED
  BY <1>4, <1>5, <1>6, Zenon DEF R

(* One more record: what it is, and what process_stats_update makes of it. *)
OneMore(input, ps) ==
  /\ input \in Record /\ ps \in StatsEntry /\ Len(history) \in Nat
  /\ \A n \in Records : history[n] \in Record
  /\ Len(history') = Len(history) + 1 /\ history'[Len(history) + 1] = input
  /\ \A n \in Records : history'[n] = history[n]
  /\ entry' \in StatsEntry
  /\ CpuDone(entry', input, ps) /\ FdsDone(entry', input, ps)
  /\ RssDone(entry', input, ps) /\ IoDone(entry', input, ps)
  /\ entry'.prev_timestamp = input.timestamp
  /\ entry'.number_of_records = ps.number_of_records + 1
  /\ \A n \in 2..Len(history) : Length(n) \in Steps
  /\ Len(history) > 0 => input.timestamp - Last.timestamp \in Steps

(* The records and the valid ones among them.                              *)
LEMMA GrownSets ==
  ASSUME NEW input, NEW ps, OneMore(input, ps)
  PROVE  /\ Records' = Records \cup {Len(history) + 1} /\ Last' = input
         /\ Records \subseteq 1..Len(history)
         /\ ValidIo \subseteq 1..Len(history) /\ ValidFd \subseteq 1..Len(history)
         /\ ValidIo' = IF input.io_valid THEN ValidIo \cup {Len(history) + 1} ELSE ValidIo
         /\ ValidFd' = IF input.fd_valid THEN ValidFd \cup {Len(history) + 1} ELSE ValidFd
<1>1. Records' = Records \cup {Len(history) + 1} /\ Len(history) + 1 \notin Records
  BY DEF OneMore, Records
<1>2. Last' = input
  BY Zenon DEF OneMore, Last
<1>3. ValidIo' = IF input.io_valid THEN ValidIo \cup {Len(history) + 1} ELSE ValidIo
  BY <1>1, Zenon DEF OneMore, ValidIo
<1>4. ValidFd' = IF input.fd_valid THEN ValidFd \cup {Len(history) + 1} ELSE ValidFd
  BY <1>1, Zenon DEF OneMore, ValidFd
<1> QED
  BY <1>1, <1>2, <1>3, <1>4, Zenon DEF Records, ValidIo, ValidFd

(* A figure that is summed over the records grows by that of the last one. *)
LEMMA GrownSum ==
  ASSUME NEW l \in Nat, NEW s, NEW t,
         s = [n \in 1..l |-> s[n]], t = [n \in 1..(l + 1) |-> t[n]],
         \A n \in 1..l : t[n] = s[n]
  PROVE  SumOf(t) = SumOf(s) + t[l + 1]
<1>1. l + 1 \in Nat
  OBVIOUS
<1>2. Len(s) = l /\ Len(t) = l + 1
  BY <1>1, Tuple, Zenon
<1>3. \A n \in 1..Len(s) : t[n] = s[n]
  BY <1>2, Zenon
<1>4. SumOf(t) = SumOf(s) + t[Len(t)]
  BY <1>1, <1>2, <1>3, SumExtends, Zenon
<1> QED
  BY <1>2, <1>4, Zenon

(* All records but the first are later ones.                               *)
LEMMA LaterInterval ==
  ASSUME NEW l \in Nat
  PROVE  Later(1..l) = 2..l
<1>1. ASSUME NEW n \in 2..l PROVE n \in Later(1..l)
  <2>1. n \in 1..l /\ 1 \in 1..l /\ 1 < n
    OBVIOUS
  <2> QED
    BY <2>1, Zenon DEF Later
<1>2. ASSUME NEW n \in Later(1..l) PROVE n \in 2..l
  <2>1. PICK m \in 1..l : m < n /\ n \in 1..l
    BY <1>2, ZenonT(60) DEF Later
  <2> QED
    BY <2>1
<1> QED
  BY <1>1, <1>2, Zenon

(* The usage of an interval as process_stats_update computes it.           *)
LEMMA SameUsage ==
  ASSUME NEW input, NEW ps, OneMore(input, ps), CpuOf(ps)
  PROVE  /\ \A n : n = Len(history) + 1 => Usage(n)' = UsageOf(input, ps)
         /\ \A n \in Records : Usage(n)' = Usage(n)
         /\ UsageCounts(input, ps) <=> Len(history) > 0 /\ input.ticks >= Last.ticks
         /\ Len(history) > 0 =>
              UsageOf(input, ps) =
                IF input.ticks >= Last.ticks
                  THEN (Scale * (input.ticks - Last.ticks))
                         \div (input.timestamp - Last.timestamp)
                  ELSE 0
<1>1. PICK l \in Nat : l = Len(history) /\ Records' = 1..(l + 1) /\ Records = 1..l
  BY Zenon DEF OneMore, Records
<1>2. Later(Records)' = 2..(l + 1) /\ Later(Records) = 2..l
  <2>1. Later(1..(l + 1)) = 2..(l + 1) /\ Later(1..l) = 2..l
    BY <1>1, LaterInterval
  <2> QED
    BY <1>1, <2>1, Zenon
<1>3. /\ history'[l + 1] = input /\ \A n \in 1..l : history'[n] = history[n]
  BY <1>1, Zenon DEF OneMore
<1>4. ASSUME NEW n \in Records PROVE Usage(n)' = Usage(n)
  <2>1. n \in 1..l /\ (n \in 2..(l + 1) <=> n \in 2..l) /\ (n \in 2..l => n - 1 \in 1..l)
    BY <1>1
  <2>2. history'[n] = history[n] /\ (n \in 2..l => history'[n - 1] = history[n - 1])
    BY <1>3, <2>1, Zenon
  <2> QED
    BY <1>2, <2>1, <2>2, Zenon DEF Usage
<1>5. UsageCounts(input, ps) <=> l > 0 /\ input.ticks >= Last.ticks
  <2>1. l > 0 => input.timestamp - Last.timestamp \in Nat \ {0}
    BY <1>1, HistoryAssumption, Zenon DEF OneMore
  <2>2. l > 0 => Last.timestamp \in Nat
    BY <1>1 DEF OneMore, Last, Record
  <2>3. input.timestamp \in Nat
    BY Zenon DEF OneMore, Record
  <2> QED
    BY <1>1, <2>1, <2>2, <2>3 DEF CpuOf, UsageCounts
<1>6. ASSUME l > 0
      PROVE  UsageOf(input, ps) =
               IF input.ticks >= Last.ticks
                 THEN (Scale * (input.ticks - Last.ticks)) \div (input.timestamp - Last.timestamp)
                 ELSE 0
  <2>1. /\ Last.ticks \in 0..(Word - 1) /\ input.ticks \in 0..(Word - 1)
    <3>1. l \in Records
      BY <1>1, <1>6
    <3>2. Last \in Record /\ input \in Record
      BY <1>1, <3>1, Zenon DEF OneMore, Last
    <3> QED
      BY <3>2, Zenon DEF Record
  <2>2. ps.prev_cpu_ticks = Last.ticks /\ ps.prev_timestamp = Last.timestamp
    BY <1>1, <1>6, Zenon DEF CpuOf
  <2>3. input.ticks >= Last.ticks =>
          (input.ticks - Last.ticks) % Word = input.ticks - Last.ticks
    BY <2>1, StatsAssumption
  <2>4. UsageCounts(input, ps) <=> input.ticks >= Last.ticks
    BY <1>1, <1>5, <1>6, Zenon
  <2> QED
    BY <2>2, <2>3, <2>4, Zenon DEF UsageOf, compute_cpu_usage
<1>7. ASSUME NEW n, n = l + 1 PROVE Usage(n)' = UsageOf(input, ps)
  <2>1. CASE l = 0
    <3>1. n \notin 2..(l + 1) /\ ~UsageCounts(input, ps)
      BY <1>1, <1>5, <1>7, <2>1
    <3> QED
      BY <1>2, <3>1, Zenon DEF Usage, UsageOf
  <2>2. CASE l > 0
    <3>1. /\ n \in 2..(l + 1) /\ n - 1 = l /\ l \in 1..l /\ history'[n] = input
          /\ history'[n - 1] = Last
      BY <1>1, <1>3, <1>7, <2>2 DEF Last
    <3> QED
      BY <1>2, <1>6, <2>2, <3>1, Zenon DEF Usage
  <2> QED
    BY <1>1, <2>1, <2>2
<1> QED
  BY <1>1, <1>4, <1>5, <1>6, <1>7, SMTT(30)

(* The sum of the usages.                                                  *)
LEMMA StepCpu ==
  ASSUME NEW input, NEW ps, OneMore(input, ps), CpuOf(ps)
  PROVE  CpuOf(entry)'
<1> DEFINE s == [n \in Records |-> Usage(n)]
           t == [n \in Records' |-> Usage(n)']
<1>1. PICK l \in Nat : /\ l = Len(history) /\ Records' = 1..(l + 1)
                       /\ Records = 1..l /\ l + 1 \in Records'
  BY DEF OneMore, Records
<1>2. SumOf(t) = SumOf(s) + t[l + 1]
  <2>1. /\ s = [n \in 1..l |-> s[n]] /\ t = [n \in 1..(l + 1) |-> t[n]]
        /\ \A n \in 1..l : t[n] = s[n]
    <3>1. \A n \in 1..l : n \in 1..(l + 1)
      BY <1>1
    <3>2. \A n \in 1..l : Usage(n)' = Usage(n)
      BY <1>1, SameUsage, Zenon
    <3> QED
      BY <1>1, <3>1, <3>2, Zenon
  <2> HIDE DEF s, t
  <2> QED
    BY <1>1, <2>1, GrownSum, Zenon
<1>3. t[l + 1] = UsageOf(input, ps)
  <2>1. Usage(l + 1)' = UsageOf(input, ps)
    BY <1>1, SameUsage, Zenon
  <2> QED
    BY <1>1, <2>1, Zenon
<1>4. entry'.cpu_usage_sum = SumOf(t)
  <2> HIDE DEF s, t
  <2>1. ps.cpu_usage_sum = SumOf(s)
    BY Zenon DEF CpuOf, s
  <2> QED
    BY <1>2, <1>3, <2>1, Zenon DEF OneMore, CpuDone
<1>5. Last' = input
  BY GrownSets, Zenon
<1>6. /\ entry'.number_of_records = Len(history')
      /\ entry'.prev_cpu_ticks = Last'.ticks /\ entry'.prev_timestamp = Last'.timestamp
  BY <1>5, Zenon DEF OneMore, CpuDone, CpuOf
<1> QED
  BY <1>4, <1>6, Zenon DEF CpuOf

(* The resident set.                                                       *)
LEMMA StepRss ==
  ASSUME NEW input, NEW ps, OneMore(input, ps), RssOf(ps)
  PROVE  RssOf(entry)'
<1> DEFINE l == Len(history)
           s == [n \in Records |-> history[n].rss_kb]
           t == [n \in Records' |-> history'[n].rss_kb]
<1>1. l \in Nat /\ Records' = 1..(l + 1) /\ Records = 1..l /\ l + 1 \in Records'
  BY DEF OneMore, Records
<1>2. /\ history'[l + 1] = input /\ \A n \in 1..l : history'[n] = history[n]
  BY <1>1, Zenon DEF OneMore
<1>3. SumOf(t) = SumOf(s) + t[l + 1]
  <2>1. /\ s = [n \in 1..l |-> s[n]] /\ t = [n \in 1..(l + 1) |-> t[n]]
        /\ \A n \in 1..l : t[n] = s[n]
    <3>1. \A n \in 1..l : n \in 1..(l + 1)
      BY <1>1
    <3> QED
      BY <1>1, <1>2, <3>1, Zenon
  <2> HIDE DEF s, t
  <2> QED
    BY <1>1, <2>1, GrownSum, Zenon
<1>4. t[l + 1] = input.rss_kb
  BY <1>1, <1>2, ZenonT(60)
<1>5. entry'.rss_sum = SumOf(t)
  <2> HIDE DEF s, t
  <2>1. ps.rss_sum = SumOf(s)
    BY Zenon DEF RssOf, s
  <2> QED
    BY <1>3, <1>4, <2>1, Zenon DEF OneMore, RssDone
<1>6. Last' = input
  BY GrownSets, Zenon
<1>7. Len(history') = l + 1 /\ l + 1 > 0
  BY <1>1 DEF OneMore
<1>8. RssDone(entry', input, ps)
  BY Zenon DEF OneMore
<1>9. entry'.rss_initial_kb = history'[1].rss_kb
  <2>1. CASE l = 0
    BY <1>2, <1>8, <2>1 DEF RssOf, RssDone
  <2>2. CASE l > 0
    <3>1. 1 \in 1..l
      BY <1>1, <2>2
    <3> QED
      BY <1>2, <1>8, <2>2, <3>1, Zenon DEF RssOf, RssDone
  <2> QED
    BY <1>1, <2>1, <2>2
<1>10. /\ entry'.num_of_rss_records = Len(history') /\ entry'.rss_initialized
       /\ entry'.rss_variation = Last'.rss_kb - history'[1].rss_kb
  BY <1>6, <1>7, <1>8, <1>9, Zenon DEF RssDone, RssOf
<1> QED
  BY <1>5, <1>7, <1>9, <1>10, SMTT(30) DEF RssOf

(* The descriptors.                                                        *)
LEMMA StepFds ==
  ASSUME NEW input, NEW ps, OneMore(input, ps), FdsOf(ps)
  PROVE  FdsOf(entry)'
<1>1. PICK l \in Nat : /\ l = Len(history) /\ history'[l + 1] = input
                       /\ \A n \in 1..l : history'[n] = history[n]
  BY Zenon DEF OneMore, Records
<1>2. PICK V : V = ValidFd
  BY Zenon
<1>3. V \subseteq 1..l /\ ValidFd' = IF input.fd_valid THEN V \cup {l + 1} ELSE V
  BY <1>1, <1>2, GrownSets, Zenon
<1>4. FdsDone(entry', input, ps) /\ input.fds \in Int
  BY DEF OneMore, Record
<1>5. V # {} => /\ Min(V) \in 1..l /\ history'[Min(V)] = history[Min(V)]
                /\ Max(V) \in 1..l /\ history'[Max(V)] = history[Max(V)]
  BY <1>1, <1>3, Extremes, Zenon
<1>6. CASE ~input.fd_valid
  BY <1>2, <1>3, <1>4, <1>5, <1>6, Zenon DEF FdsOf, FdsDone, SameFds
<1>7. CASE input.fd_valid /\ V = {}
  <2>1. ValidFd' # {} /\ Min(ValidFd') = l + 1 /\ Max(ValidFd') = l + 1
    BY <1>3, <1>7, ExtremesGrow, Zenon
  <2>2. ~ps.fd_initialized /\ ps.fd_delta = 0
    BY <1>2, <1>7, Zenon DEF FdsOf
  <2>3. /\ entry'.initial_num_of_fds = input.fds /\ entry'.current_num_of_fds = input.fds
        /\ entry'.fd_delta = input.fds - input.fds /\ entry'.fd_initialized
    BY <1>4, <1>7, <2>2 DEF FdsDone
  <2> QED
    BY <1>1, <2>1, <2>3, Zenon DEF FdsOf
<1>8. CASE input.fd_valid /\ V # {}
  <2>1. ValidFd' # {} /\ Min(ValidFd') = Min(V) /\ Max(ValidFd') = l + 1
    BY <1>3, <1>8, ExtremesGrow, Zenon
  <2>2. ps.fd_initialized /\ ps.initial_num_of_fds = history[Min(V)].fds
    BY <1>2, <1>8, Zenon DEF FdsOf
  <2>3. /\ entry'.initial_num_of_fds = history[Min(V)].fds
        /\ entry'.current_num_of_fds = input.fds
        /\ entry'.fd_delta = input.fds - history[Min(V)].fds /\ entry'.fd_initialized
    BY <1>4, <1>8, <2>2, Zenon DEF FdsDone
  <2> QED
    BY <1>1, <1>5, <1>8, <2>1, <2>3, Zenon DEF FdsOf
<1> QED
  BY <1>6, <1>7, <1>8, Zenon

(* The bytes of an interval as process_stats_update counts them.           *)
LEMMA SameIncrease ==
  ASSUME NEW input, NEW ps, OneMore(input, ps)
  PROVE  /\ \A n \in Records : Increase(n)' = Increase(n)
         /\ \A n : n = Len(history) + 1 =>
              Increase(n)' = IF input.io_valid /\ ValidIo # {}
                               THEN CounterDelta(history[Max(ValidIo)].read_kbytes,
                                                 input.read_kbytes)
                               ELSE 0
<1>1. PICK l \in Nat : /\ l = Len(history) /\ history'[l + 1] = input /\ Records = 1..l
                       /\ \A n \in 1..l : history'[n] = history[n]
                       /\ \A n \in 1..l : history[n].read_kbytes \in Nat
  BY Zenon DEF OneMore, Records, Record
<1>2. PICK V : V = ValidIo
  BY Zenon
<1>3. PICK W : W = ValidIo'
  BY Zenon
<1>4. V \subseteq 1..l /\ W = IF input.io_valid THEN V \cup {l + 1} ELSE V
  BY <1>1, <1>2, <1>3, GrownSets, Zenon
<1>5. V # {} => Max(V) \in V
  BY <1>4, Extremes, Zenon
<1>6. ASSUME NEW n \in Records PROVE Increase(n)' = Increase(n)
  <2>1. n \in Nat /\ n <= l /\ n # l + 1 /\ history'[n] = history[n]
    BY <1>1
  <2>2. {m \in W : m < n} = {m \in V : m < n}
    BY <1>4, <2>1
  <2>3. n \in Later(W) <=> n \in Later(V)
    BY <1>4, <2>1 DEF Later
  <2>4. Before(W, n) = Before(V, n)
    BY <2>2, Zenon DEF Before
  <2>5. n \in Later(V) => Before(V, n) \in 1..l
    <3> DEFINE P == {m \in V : m < n}
    <3>1. n \in Later(V) => P # {} /\ P \subseteq 1..l
      BY <1>4, Zenon DEF Later
    <3>2. n \in Later(V) => Max(P) \in P
      <4> HIDE DEF P
      <4> QED
        BY <1>1, <3>1, Extremes, Zenon
    <3> QED
      BY <3>1, <3>2, Zenon DEF Before
  <2>6. n \in Later(V) => history'[Before(V, n)] = history[Before(V, n)]
    BY <1>1, <2>5, Zenon
  <2> QED
    BY <1>2, <1>3, <2>1, <2>3, <2>4, <2>6, Zenon DEF Increase
<1>7. ASSUME NEW n, n = l + 1
      PROVE  Increase(n)' = IF input.io_valid /\ V # {}
                              THEN CounterDelta(history[Max(V)].read_kbytes, input.read_kbytes)
                              ELSE 0
  <2>1. n \in Later(W) <=> input.io_valid /\ V # {}
    <3>1. /\ n \notin V /\ (\A m \in V : m < n) /\ ~(n < n)
          /\ W = IF input.io_valid THEN V \cup {n} ELSE V
      BY <1>4, <1>7
    <3> QED
      BY <3>1, Zenon DEF Later
  <2>2. CASE ~(input.io_valid /\ V # {})
    BY <1>3, <2>1, <2>2, ZenonT(60) DEF Increase
  <2>3. CASE input.io_valid /\ V # {}
    <3>1. {m \in W : m < n} = V
      <4>1. (\A m \in V : m < n) /\ ~(n < n) /\ W = V \cup {n}
        BY <1>4, <1>7, <2>3
      <4> QED
        BY <4>1, Zenon
    <3>2. Before(W, n) = Max(V)
      BY <3>1, Zenon DEF Before
    <3>3. Max(V) \in 1..l /\ history'[Max(V)] = history[Max(V)]
      BY <1>1, <1>4, <1>5, <2>3, Zenon
    <3>4. history[Max(V)].read_kbytes \in Nat /\ input.read_kbytes \in Nat
      BY <1>1, <3>3, Zenon DEF OneMore, Record
    <3>5. history'[n] = input
      BY <1>1, <1>7, Zenon
    <3>6. Increase(n)' = IF input.read_kbytes > history[Max(V)].read_kbytes
                           THEN input.read_kbytes - history[Max(V)].read_kbytes ELSE 0
      BY <1>3, <2>1, <2>3, <3>2, <3>3, <3>5, Zenon DEF Increase
    <3> QED
      BY <2>3, <3>4, <3>6 DEF CounterDelta
  <2> QED
    BY <2>2, <2>3, Zenon
<1> QED
  BY <1>1, <1>2, <1>6, <1>7, ZenonT(60)

(* What was read, and the time it took.                                    *)
LEMMA StepIo ==
  ASSUME NEW input, NEW ps, OneMore(input, ps), CpuOf(ps), IoOf(ps)
  PROVE  IoOf(entry)'
<1> DEFINE s == [n \in Records |-> Increase(n)]
           t == [n \in Records' |-> Increase(n)']
<1>1. PICK l \in Nat : /\ l = Len(history) /\ history'[l + 1] = input /\ Records = 1..l
                       /\ Records' = 1..(l + 1) /\ l + 1 \in Records'
                       /\ \A n \in 1..l : history'[n] = history[n]
                       /\ \A n \in 1..l : history[n].timestamp \in Nat
  <2>1. /\ Len(history) \in Nat /\ Len(history') = Len(history) + 1
        /\ history'[Len(history) + 1] = input
        /\ \A n \in Records : history'[n] = history[n] /\ history[n] \in Record
    BY Zenon DEF OneMore
  <2>2. \A r \in Record : r.timestamp \in Nat
    BY DEF Record
  <2> QED
    BY <2>1, <2>2 DEF Records
<1>2. PICK V : V = ValidIo
  BY Zenon
<1>3. V \subseteq 1..l /\ ValidIo' = IF input.io_valid THEN V \cup {l + 1} ELSE V
  BY <1>1, <1>2, GrownSets, Zenon
<1>4. /\ IoDone(entry', input, ps) /\ input.read_kbytes \in Nat /\ input.timestamp \in Nat
      /\ ps.total_read_kbytes \in Nat /\ ps.io_time_acc \in Int
  BY Zenon DEF OneMore, Record, StatsEntry
<1>5. SumOf(t) = SumOf(s) + Increase(l + 1)'
  <2>1. /\ s = [n \in 1..l |-> s[n]] /\ t = [n \in 1..(l + 1) |-> t[n]]
        /\ \A n \in 1..l : t[n] = s[n]
    <3>1. \A n \in 1..l : n \in 1..(l + 1)
      BY <1>1
    <3>2. \A n \in 1..l : Increase(n)' = Increase(n)
      BY <1>1, SameIncrease, Zenon
    <3> QED
      BY <1>1, <3>1, <3>2, Zenon
  <2>2. t[l + 1] = Increase(l + 1)'
    BY <1>1, Zenon
  <2> HIDE DEF s, t
  <2>3. SumOf(t) = SumOf(s) + t[l + 1]
    BY <1>1, <2>1, GrownSum, Zenon
  <2> QED
    BY <2>2, <2>3, Zenon
<1>6. Increase(l + 1)' = IF input.io_valid /\ V # {}
                           THEN CounterDelta(history[Max(V)].read_kbytes, input.read_kbytes)
                           ELSE 0
  BY <1>1, <1>2, SameIncrease, Zenon
<1>7. ps.total_read_kbytes = SumOf(s)
  BY Zenon DEF IoOf
<1> HIDE DEF s, t
<1>8. V # {} => /\ Min(V) \in V /\ Max(V) \in V /\ \A y \in V : Max(V) >= y
                /\ Min(V) \in 1..l /\ history'[Min(V)] = history[Min(V)]
                /\ Max(V) \in 1..l /\ history'[Max(V)] = history[Max(V)]
  BY <1>1, <1>3, Extremes, ZenonT(60)
<1>9. CASE ~input.io_valid
  <2>1. SameIo(entry', ps) /\ ValidIo' = V /\ SumOf(t) = SumOf(s)
    BY <1>3, <1>4, <1>5, <1>6, <1>7, <1>9 DEF IoDone
  <2> QED
    BY <1>2, <1>7, <1>8, <2>1, Zenon DEF IoOf, SameIo, t
<1>10. CASE input.io_valid /\ V = {}
  <2>1. ValidIo' # {} /\ Min(ValidIo') = l + 1 /\ Max(ValidIo') = l + 1
    BY <1>3, <1>10, ExtremesGrow, Zenon
  <2>2. ~ps.io_initialized /\ ps.io_time_acc = 0 /\ SumOf(t) = SumOf(s)
    <3>1. ~ps.io_initialized /\ ps.io_time_acc = 0
      BY <1>2, <1>10, Zenon DEF IoOf
    <3>2. Increase(l + 1)' = 0 /\ SumOf(s) \in Nat
      BY <1>4, <1>6, <1>7, <1>10, Zenon
    <3>3. SumOf(t) = SumOf(s)
      BY <1>5, <3>2, SMTT(60)
    <3> QED
      BY <3>1, <3>3, Zenon
  <2>3. /\ entry'.prev_read_kbytes = input.read_kbytes /\ entry'.io_initialized
        /\ entry'.total_read_kbytes = SumOf(t)
        /\ entry'.io_time_acc = input.timestamp - input.timestamp
    BY <1>4, <1>7, <1>10, <2>2 DEF IoDone
  <2> QED
    BY <1>1, <2>1, <2>3, Zenon DEF IoOf, t
<1>11. CASE input.io_valid /\ V # {}
  <2>1. ValidIo' # {} /\ Min(ValidIo') = Min(V) /\ Max(ValidIo') = l + 1
    BY <1>3, <1>11, ExtremesGrow, Zenon
  <2>2. ps.io_initialized /\ ps.prev_read_kbytes = history[Max(V)].read_kbytes
    BY <1>2, <1>11, Zenon DEF IoOf
  <2>3. l > 0 /\ l \in 1..l
    BY <1>8, <1>11
  <2>4. ps.prev_timestamp = history[l].timestamp /\ input.timestamp - history[l].timestamp > 0
    <3>1. Last = history[l] /\ Len(history) > 0
      BY <1>1, <2>3, Zenon DEF Last
    <3>2. input.timestamp - Last.timestamp \in Steps /\ ps.prev_timestamp = Last.timestamp
      BY <3>1, Zenon DEF CpuOf, OneMore
    <3>3. input.timestamp - Last.timestamp \in Nat \ {0}
      BY <3>2, HistoryAssumption, ZenonT(60)
    <3> QED
      BY <3>1, <3>2, <3>3
  <2>5. /\ entry'.prev_read_kbytes = input.read_kbytes /\ entry'.io_initialized
        /\ entry'.total_read_kbytes = SumOf(t)
        /\ entry'.io_time_acc = ps.io_time_acc + (input.timestamp - history[l].timestamp)
    BY <1>4, <1>5, <1>6, <1>7, <1>11, <2>2, <2>4, Zenon DEF IoDone
  <2>6. ASSUME Min(V)..(l + 1) \subseteq V \cup {l + 1}
        PROVE  entry'.io_time_acc = history'[l + 1].timestamp - history'[Min(V)].timestamp
    <3>1. l \in V /\ Max(V) = l
      BY <1>3, <1>8, <1>11, <2>3, <2>6, SMTT(30)
    <3>2. Min(V)..Max(V) \subseteq V
      BY <1>3, <1>8, <1>11, <2>6, <3>1, SMTT(30)
    <3>3. ps.io_time_acc = history[l].timestamp - history[Min(V)].timestamp
      BY <1>2, <1>11, <3>1, <3>2, Zenon DEF IoOf
    <3>4. history[l].timestamp \in Nat /\ history[Min(V)].timestamp \in Nat
      BY <1>1, <1>8, <1>11, <2>3, ZenonT(60)
    <3>5. entry'.io_time_acc = input.timestamp - history[Min(V)].timestamp
      BY <1>4, <2>5, <3>3, <3>4, SMTT(30)
    <3> QED
      BY <1>1, <1>8, <1>11, <3>5, ZenonT(60)
  <2>7. entry'.prev_read_kbytes = history'[l + 1].read_kbytes
    BY <1>1, <2>5, Zenon
  <2>8. ValidIo' = V \cup {l + 1}
    BY <1>3, <1>11, Zenon
  <2> QED
    BY <2>1, <2>5, <2>6, <2>7, <2>8, ZenonT(60) DEF IoOf, t
<1> QED
  BY <1>9, <1>10, <1>11, Zenon

(* A quotient that comes out even.                                         *)
LEMMA EvenQuotient ==
  ASSUME NEW d \in Nat \ {0}, NEW s \in Nat, s % d = 0, NEW a \in Nat
  PROVE  (s * a) \div d \in Nat /\ d * ((s * a) \div d) = s * a
<1>1. PICK q \in Nat : s = d * q
  <2>1. s \div d \in Nat /\ s = d * (s \div d) + (s % d)
    OBVIOUS
  <2> QED
    BY <2>1
<1>2. PICK m \in Nat : m = q * a
  OBVIOUS
<1>3. s * a = d * m
  BY <1>1, <1>2
<1>4. (d * m) \div d = m
  OBVIOUS
<1> QED
  BY <1>3, <1>4, Zenon

(* Equal intervals, each of them a sample.                                 *)
LEMMA StepEven ==
  ASSUME NEW input, NEW ps, OneMore(input, ps), CpuOf(ps), EvenOf(ps)
  PROVE  EvenOf(entry)'
<1>1. PICK l \in Nat : /\ l = Len(history) /\ history'[l + 1] = input
                       /\ Len(history') = l + 1 /\ Last' = input
                       /\ \A n \in 1..l : history'[n] = history[n]
                       /\ \A n \in 1..l : history[n] \in Record
  BY GrownSets, Zenon DEF OneMore, Records
<1>2. /\ entry'.cpu_usage_sum = ps.cpu_usage_sum + UsageOf(input, ps)
      /\ entry'.cpu_usage_samples =
           ps.cpu_usage_samples + (IF UsageCounts(input, ps) THEN 1 ELSE 0)
      /\ ps.cpu_usage_sum \in Int /\ ps.cpu_usage_samples \in Int
      /\ input.ticks \in Nat /\ input.timestamp \in Nat
  BY StatsAssumption, Zenon DEF OneMore, CpuDone, StatsEntry, Record
<1>3. CASE l = 0
  <2>1. ~UsageCounts(input, ps) /\ UsageOf(input, ps) = 0
    BY <1>1, <1>3, SameUsage, SMTT(30) DEF UsageOf
  <2>2. ps.cpu_usage_samples = 0 /\ ps.cpu_usage_sum = 0
    BY <1>1, <1>3, Zenon DEF EvenOf
  <2>3. entry'.cpu_usage_samples = 0 /\ entry'.cpu_usage_sum = 0
    BY <1>2, <2>1, <2>2
  <2> QED
    BY <1>1, <1>3, <2>3, SMTT(30) DEF EvenOf
<1>4. CASE l > 0
  <2>1. l \in 1..l /\ 1 \in 1..l /\ Last = history[l] /\ l + 1 > 1
    BY <1>1, <1>4 DEF Last
  <2>2. PICK d \in Steps : d = input.timestamp - Last.timestamp
    BY <1>1, <1>4, Zenon DEF OneMore
  <2>3. d \in Nat \ {0} /\ Scale \in Nat /\ Scale % d = 0
    BY <2>2, HistoryAssumption, StatsAssumption, Zenon
  <2>4. /\ Last.ticks \in Nat /\ Last.timestamp \in Nat
        /\ history[1].ticks \in Nat /\ history[1].timestamp \in Nat
    <3>1. \A r \in Record : r.ticks \in Nat /\ r.timestamp \in Nat
      BY StatsAssumption, SMTT(60) DEF Record
    <3> QED
      BY <1>1, <2>1, <3>1, Zenon
  <2>5. PICK u : u = UsageOf(input, ps)
    BY Zenon
  <2>6. ASSUME input.ticks >= Last.ticks
        PROVE  /\ UsageCounts(input, ps) /\ u \in Nat
               /\ d * u = Scale * (input.ticks - Last.ticks)
    <3>1. UsageCounts(input, ps) /\ u = (Scale * (input.ticks - Last.ticks)) \div d
      BY <1>1, <1>4, <2>2, <2>5, <2>6, SameUsage, Zenon
    <3>2. input.ticks - Last.ticks \in Nat
      BY <1>2, <2>4, <2>6
    <3> QED
      BY <2>3, <3>1, <3>2, EvenQuotient, ZenonT(60)
  <2>7. history'[1] = history[1] /\ history'[l] = Last
    BY <1>1, <2>1, Zenon
  <2>8. CASE l = 1
    <3>1. Length(2)' = d /\ (Even' => input.ticks >= Last.ticks)
      <4>1. history'[2] = input /\ history'[1] = Last /\ 2 \in 2..Len(history')
        BY <1>1, <2>1, <2>7, <2>8
      <4> QED
        BY <2>2, <4>1 DEF Length, Even
    <3>2. ps.cpu_usage_samples = 0 /\ ps.cpu_usage_sum = 0
      BY <1>1, <2>8, Zenon DEF EvenOf
    <3>3. ASSUME Even'
          PROVE  /\ entry'.cpu_usage_samples = Len(history') - 1
                 /\ Length(2)' * entry'.cpu_usage_sum
                      = Scale * (Last'.ticks - history'[1].ticks)
                 /\ Last'.timestamp - history'[1].timestamp
                      = (Len(history') - 1) * Length(2)'
      <4>1. UsageCounts(input, ps) /\ u \in Nat /\ d * u = Scale * (input.ticks - Last.ticks)
        BY <2>6, <3>1, <3>3, Zenon
      <4>2. entry'.cpu_usage_samples = 1 /\ entry'.cpu_usage_sum = u
        BY <1>2, <2>5, <3>2, <4>1
      <4>3. Len(history') - 1 = 1 /\ history'[1] = Last /\ d = 1 * d
        BY <1>1, <2>3, <2>7, <2>8, SMTT(30)
      <4> QED
        BY <1>1, <2>2, <3>1, <4>1, <4>2, <4>3, Zenon
    <3> QED
      BY <1>1, <2>8, <3>3 DEF EvenOf
  <2>9. CASE l > 1
    <3> DEFINE L == Length(2)
    <3>1. 2 \in 1..l /\ Length(2)' = L
      BY <1>1, <2>7, <2>9, SMTT(30) DEF Length
    <3>2. ASSUME NEW m, m = l + 1 PROVE Length(m)' = d
      BY <1>1, <2>1, <2>2, <2>7, <3>2 DEF Length
    <3>3. ASSUME Even' PROVE Even /\ input.ticks >= Last.ticks /\ d = L
      <4>1. ASSUME NEW n \in 2..l
            PROVE  history[n].ticks >= history[n - 1].ticks /\ Length(n) = L
        <5>1. n \in 2..Len(history') /\ n \in 1..l /\ n - 1 \in 1..l
          BY <1>1
        <5>2. history'[n] = history[n] /\ history'[n - 1] = history[n - 1]
          BY <1>1, <5>1, Zenon
        <5>3. history'[n].ticks >= history'[n - 1].ticks /\ Length(n)' = Length(2)'
          BY <3>3, <5>1, ZenonT(60) DEF Even
        <5> QED
          BY <3>1, <5>2, <5>3, Zenon DEF Length
      <4>2. PICK m : m = l + 1 /\ m - 1 = l /\ m \in 2..Len(history')
        BY <1>1, <2>9
      <4>3. history'[m].ticks >= history'[m - 1].ticks /\ Length(m)' = Length(2)'
        BY <3>3, <4>2, ZenonT(60) DEF Even
      <4>4. input.ticks >= Last.ticks
        BY <1>1, <2>7, <4>2, <4>3, SMTT(30)
      <4>5. d = L
        BY <3>1, <3>2, <4>2, <4>3, SMTT(30)
      <4> QED
        BY <1>1, <4>1, <4>4, <4>5, ZenonT(60) DEF Even
    <3>4. ASSUME Even'
          PROVE  /\ entry'.cpu_usage_samples = Len(history') - 1
                 /\ Length(2)' * entry'.cpu_usage_sum
                      = Scale * (Last'.ticks - history'[1].ticks)
                 /\ Last'.timestamp - history'[1].timestamp
                      = (Len(history') - 1) * Length(2)'
      <4>1. /\ UsageCounts(input, ps) /\ u \in Nat /\ d = L
            /\ d * u = Scale * (input.ticks - Last.ticks)
        BY <2>6, <3>3, <3>4, Zenon
      <4>2. /\ ps.cpu_usage_samples = l - 1
            /\ L * ps.cpu_usage_sum = Scale * (Last.ticks - history[1].ticks)
            /\ Last.timestamp - history[1].timestamp = (l - 1) * L
        BY <1>1, <2>9, <3>3, <3>4, SMTT(30) DEF EvenOf
      <4> HIDE DEF L
      <4>3. entry'.cpu_usage_samples = l /\ entry'.cpu_usage_sum = ps.cpu_usage_sum + u
        BY <1>2, <2>5, <4>1, <4>2, SMTT(60)
      <4>4. d * (ps.cpu_usage_sum + u) = d * ps.cpu_usage_sum + d * u
        BY <1>2, <2>3, <4>1
      <4>5. Scale * (Last.ticks - history[1].ticks) + Scale * (input.ticks - Last.ticks)
              = Scale * (input.ticks - history[1].ticks)
        BY <1>2, <2>3, <2>4, SMTT(30)
      <4>6. d * (ps.cpu_usage_sum + u) = Scale * (input.ticks - history[1].ticks)
        BY <4>1, <4>2, <4>4, <4>5, Zenon
      <4>7. (l - 1) * d + d = l * d
        BY <1>1, <2>3, SMTT(30)
      <4>8. input.timestamp - history[1].timestamp = l * d
        <5>1. PICK x \in Int : x = (l - 1) * d
          BY <1>1, <2>3, SMTT(60)
        <5>2. PICK y : y = l * d
          BY Zenon
        <5>3. x + d = y /\ Last.timestamp - history[1].timestamp = x
          BY <4>1, <4>2, <4>7, <5>1, <5>2, Zenon
        <5>4. input.timestamp - history[1].timestamp = y
          BY <1>2, <2>2, <2>3, <2>4, <5>3, SMTT(60)
        <5> QED
          BY <5>2, <5>4, Zenon
      <4> QED
        BY <1>1, <2>7, <3>1, <4>1, <4>3, <4>6, <4>8
    <3> QED
      BY <1>1, <2>9, <3>4, SMTT(30) DEF EvenOf
  <2> QED
    BY <1>1, <1>4, <2>8, <2>9
<1> QED
  BY <1>1, <1>3, <1>4, SMTT(30)

-----------------------------------------------------------------------------
(* Before the first record the new entry describes the history.            *)
LEMMA NewDescribed ==
  ASSUME Len(history) = 0, NEW input \in Record
  PROVE  Described(NewProcess(input))
<1> DEFINE z == NewProcess(input)
<1>1. /\ z \in StatsEntry /\ z.number_of_records = 0
      /\ z.cpu_usage_sum = 0 /\ z.cpu_usage_samples = 0
      /\ z.rss_initialized = FALSE /\ z.rss_sum = 0 /\ z.num_of_rss_records = 0
      /\ z.io_initialized = FALSE /\ z.total_read_kbytes = 0 /\ z.io_time_acc = 0
      /\ z.fd_initialized = FALSE /\ z.fd_delta = 0
  BY NewProcessFields, Zenon
<1> HIDE DEF z
<1>2. Records = 1..0 /\ ValidIo = {} /\ ValidFd = {}
  BY DEF Records, ValidIo, ValidFd
<1>3. ASSUME NEW s, s = [n \in 1..0 |-> s[n]] PROVE SumOf(s) = 0
  <2>1. 0 \in Nat
    BY Zenon
  <2>2. Len(s) = 0
    BY <1>3, <2>1, Tuple, Zenon
  <2> QED
    BY <2>2, SumOfNone, Zenon
<1>4. SumOf([n \in Records |-> Usage(n)]) = 0
  <2> DEFINE s == [n \in Records |-> Usage(n)]
  <2>1. s = [n \in 1..0 |-> s[n]]
    BY <1>2, Zenon
  <2> HIDE DEF s
  <2>2. SumOf(s) = 0
    BY <1>3, <2>1, Zenon
  <2> QED
    BY <2>2, Zenon DEF s
<1>5. SumOf([n \in Records |-> Increase(n)]) = 0
  <2> DEFINE s == [n \in Records |-> Increase(n)]
  <2>1. s = [n \in 1..0 |-> s[n]]
    BY <1>2, Zenon
  <2> HIDE DEF s
  <2>2. SumOf(s) = 0
    BY <1>3, <2>1, Zenon
  <2> QED
    BY <2>2, Zenon DEF s
<1>6. SumOf([n \in Records |-> history[n].rss_kb]) = 0
  <2> DEFINE s == [n \in Records |-> history[n].rss_kb]
  <2>1. s = [n \in 1..0 |-> s[n]]
    BY <1>2, Zenon
  <2> HIDE DEF s
  <2>2. SumOf(s) = 0
    BY <1>3, <2>1, Zenon
  <2> QED
    BY <2>2, Zenon DEF s
<1>7. CpuOf(z)
  BY <1>1, <1>4 DEF CpuOf
<1>8. RssOf(z)
  BY <1>1, <1>6 DEF RssOf
<1>9. FdsOf(z)
  BY <1>1, <1>2, Zenon DEF FdsOf
<1>10. IoOf(z)
  BY <1>1, <1>2, <1>5, Zenon DEF IoOf
<1>11. EvenOf(z)
  BY <1>1 DEF EvenOf
<1> QED
  BY <1>1, <1>7, <1>8, <1>9, <1>10, <1>11, Zenon DEF Described, z

(* A record that is read is a record, some time after the one before.      *)
LEMMA InputFields ==
  ASSUME history \in Seq(Record), NEW input \in Inputs
  PROVE  /\ input \in Record
         /\ Len(history) > 0 => input.timestamp - Last.timestamp \in Steps
<1>1. PICK d \in Steps, t \in Ticks, r \in Gauge, io \in Validity("io"),
           b \in Bytes, fd \in Validity("fd"), f \in Gauge :
        input = [timestamp |-> (IF history = <<>> THEN 1 ELSE Last.timestamp) + d,
                 ticks |-> t, rss_kb |-> r, io_valid |-> io,
                 read_kbytes |-> IF io THEN b ELSE 0, fd_valid |-> fd,
                 fds |-> IF fd THEN f ELSE 0]
  BY DEF Inputs
<1>2. /\ d \in Nat /\ t \in 0..(Word - 1) /\ r \in Nat /\ b \in Nat /\ f \in Nat
      /\ io \in BOOLEAN /\ fd \in BOOLEAN
  BY HistoryAssumption, ZenonT(60) DEF Validity
<1>3. Len(history) \in Nat /\ (history = <<>> <=> Len(history) = 0)
  OBVIOUS
<1>4. Len(history) > 0 => Last \in Record
  BY <1>3 DEF Last
<1>5. Len(history) > 0 => Last.timestamp \in Nat
  BY <1>4, Zenon DEF Record
<1>6. Len(history) > 0 => input.timestamp = Last.timestamp + d
  BY <1>1, <1>3, SMTT(30)
<1>7. input \in Record
  <2>1. (IF history = <<>> THEN 1 ELSE Last.timestamp) + d \in Nat
    BY <1>2, <1>3, <1>5
  <2>2. (IF io THEN b ELSE 0) \in Nat /\ (IF fd THEN f ELSE 0) \in Nat
    BY <1>2, Zenon
  <2> QED
    BY <1>1, <1>2, <2>1, <2>2, Zenon DEF Record
<1>8. Len(history) > 0 => input.timestamp - Last.timestamp = d
  BY <1>2, <1>5, <1>6
<1> QED
  BY <1>7, <1>8, Zenon

(* The invariant is kept by every record.                                  *)
LEMMA StepHistory ==
  ASSUME HistoryInv, [HistoryNext]_historyVars
  PROVE  HistoryInv'
<1>1. CASE UNCHANGED historyVars
  <2>1. UNCHANGED <<entry, history>>
    BY <1>1, Zenon DEF historyVars
  <2>2. UNCHANGED <<Records, ValidIo, ValidFd, Last>>
    BY <2>1, Zenon DEF Records, ValidIo, ValidFd, Last
  <2>3. \A n : UNCHANGED <<Length(n), Usage(n), Increase(n)>>
    BY <2>1, <2>2, Zenon DEF Length, Usage, Increase
  <2>4. Even' <=> Even
    BY <2>1, <2>2, <2>3, Zenon DEF Even
  <2>5. /\ CpuOf(entry)' <=> CpuOf(entry)
        /\ RssOf(entry)' <=> RssOf(entry)
        /\ FdsOf(entry)' <=> FdsOf(entry)
    BY <2>1, <2>2, <2>3, Zenon DEF CpuOf, RssOf, FdsOf
  <2>6. /\ IoOf(entry)' <=> IoOf(entry)
        /\ EvenOf(entry)' <=> EvenOf(entry)
    BY <2>1, <2>2, <2>3, <2>4, Zenon DEF IoOf, EvenOf
  <2> QED BY <2>1, <2>3, <2>5, <2>6, Zenon DEF HistoryInv, Described
<1>2. CASE HistoryNext
  <2>1. PICK input \in Inputs : Update(input)
    BY <1>2, Zenon DEF HistoryNext
  <2>2. history \in Seq(Record)
    BY Zenon DEF HistoryInv
  <2>3. input \in Record /\ (Len(history) > 0 => input.timestamp - Last.timestamp \in Steps)
    BY <2>2, InputFields, Zenon
  <2>4. PICK l \in Nat : l = Len(history)
    BY <2>2
  <2>5. PICK ps : ps = IF entry = NoEntry THEN NewProcess(input) ELSE entry
    BY Zenon
  <2>6. Described(ps)
    <3>1. CASE l = 0
      BY <2>3, <2>4, <2>5, <3>1, NewDescribed, Zenon DEF HistoryInv
    <3>2. CASE l > 0
      <4>1. Described(entry)
        BY <2>4, <3>2, Zenon DEF HistoryInv
      <4>2. entry.number_of_records # NoEntry.number_of_records
        BY <2>4, <3>2, <4>1 DEF Described, CpuOf, NoEntry
      <4> QED
        BY <2>5, <4>1, <4>2, Zenon
    <3> QED
      BY <3>1, <3>2
  <2>7. entry' = process_stats_update(input, ps) /\ history' = Append(history, input)
    BY <2>1, <2>5, Zenon DEF Update
  <2>8. /\ history' \in Seq(Record) /\ Len(history') = l + 1 /\ history'[l + 1] = input
        /\ \A n \in 1..l : history'[n] = history[n]
    BY <2>2, <2>3, <2>4, <2>7
  <2>9. OneMore(input, ps)
    <3>1. ps \in StatsEntry
      BY <2>6, Zenon DEF Described
    <3>2. /\ entry' \in StatsEntry
          /\ CpuDone(entry', input, ps) /\ FdsDone(entry', input, ps)
          /\ RssDone(entry', input, ps) /\ IoDone(entry', input, ps)
          /\ entry'.prev_timestamp = input.timestamp
          /\ entry'.number_of_records = ps.number_of_records + 1
      BY <2>3, <2>7, <3>1, UpdateFields, Zenon
    <3>3. \A n \in 1..l : history[n] \in Record
      BY <2>2, <2>4
    <3>4. \A n \in 2..Len(history) : Length(n) \in Steps
      BY Zenon DEF HistoryInv
    <3> QED
      BY <2>3, <2>4, <2>8, <3>1, <3>2, <3>3, <3>4, Zenon DEF OneMore, Records
  <2>10. Described(entry)'
    <3>1. CpuOf(ps) /\ RssOf(ps) /\ FdsOf(ps) /\ IoOf(ps) /\ EvenOf(ps)
      BY <2>6, Zenon DEF Described
    <3>2. CpuOf(entry)'
      BY <2>9, <3>1, StepCpu, Zenon
    <3>3. RssOf(entry)'
      BY <2>9, <3>1, StepRss, Zenon
    <3>4. FdsOf(entry)'
      BY <2>9, <3>1, StepFds, Zenon
    <3>5. IoOf(entry)'
      BY <2>9, <3>1, StepIo, Zenon
    <3>6. EvenOf(entry)'
      BY <2>9, <3>1, StepEven, ZenonT(60)
    <3>7. entry' \in StatsEntry
      BY <2>9, Zenon DEF OneMore
    <3> QED
      BY <3>2, <3>3, <3>4, <3>5, <3>6, <3>7, Zenon DEF Described
  <2>11. ASSUME NEW n \in 2..(l + 1) PROVE Length(n)' \in Steps
    <3>1. CASE n = l + 1
      <4>1. n - 1 = l /\ l \in 1..l /\ l > 0
        BY <3>1
      <4>2. history'[n] = input /\ history'[n - 1] = Last
        BY <2>4, <2>8, <3>1, <4>1, Zenon DEF Last
      <4> QED
        BY <2>3, <2>4, <4>1, <4>2, Zenon DEF Length
    <3>2. CASE n # l + 1
      <4>1. n \in 2..l /\ n \in 1..l /\ n - 1 \in 1..l
        BY <3>2
      <4>2. history'[n] = history[n] /\ history'[n - 1] = history[n - 1]
        BY <2>8, <4>1, Zenon
      <4>3. Length(n) \in Steps
        BY <2>4, <4>1, Zenon DEF HistoryInv
      <4> QED
        BY <4>2, <4>3, Zenon DEF Length
    <3> QED
      BY <3>1, <3>2, Zenon
  <2>12. ~(Len(history') = 0)
    BY <2>8
  <2> QED
    BY <2>8, <2>10, <2>11, <2>12, Zenon DEF HistoryInv
<1> QED
  BY <1>1, <1>2, SMTT(30)

(* The invariant holds of every history.                                   *)
LEMMA HistoryInvariant == HistorySpec => []HistoryInv
<1>1. HistoryInit => HistoryInv
  <2> SUFFICES ASSUME HistoryInit PROVE HistoryInv
    BY Zenon
  <2>1. history \in Seq(Record) /\ Len(history) = 0 /\ entry = NoEntry
    BY DEF HistoryInit
  <2> QED
    BY <2>1 DEF HistoryInv
<1>2. HistoryInv /\ [HistoryNext]_historyVars => HistoryInv'
  BY StepHistory, Zenon
<1> QED
  BY <1>1, <1>2, PTL DEF HistorySpec

(* A history that is not empty has a length.                               *)
LEMMA LongEnough ==
  ASSUME HistoryInv
  PROVE  Len(history) \in Nat /\ (history # <<>> <=> Len(history) > 0)
<1>1. history \in Seq(Record)
  BY Zenon DEF HistoryInv
<1> QED
  BY <1>1

(* The processor usage and the bytes that process_stats_update adds up     *)
(* record by record are the sums over all records, for any history of any  *)
(* length and whatever parts of its records were invalid.                  *)
THEOREM CountersAreSums == HistorySpec => []CountersMatchHistory
<1>1. HistoryInv => CountersMatchHistory
  BY LongEnough, ZenonT(60) DEF HistoryInv, Described, CpuOf, IoOf, CountersMatchHistory
<1> QED
  BY <1>1, HistoryInvariant, PTL

(* So are the resident set and the descriptors, each compared with the     *)
(* first valid value.                                                      *)
THEOREM GaugesAreCompared == HistorySpec => []GaugesMatchHistory
<1>1. HistoryInv => GaugesMatchHistory
  BY LongEnough, ZenonT(60) DEF HistoryInv, Described, RssOf, FdsOf, GaugesMatchHistory
<1> QED
  BY <1>1, HistoryInvariant, PTL

(* The time of the read rate is that of the bytes, if they could be read   *)
(* every time.                                                             *)
THEOREM IoTimeAddsUp == HistorySpec => []IoTimeCovered
<1>1. HistoryInv => IoTimeCovered
  <2> SUFFICES ASSUME HistoryInv, ValidIo # {} PROVE IoTimeCovered
    BY Zenon DEF IoTimeCovered
  <2>1. Len(history) > 0
    BY LongEnough DEF ValidIo, Records
  <2> QED
    BY <2>1, Zenon DEF HistoryInv, Described, IoOf, IoTimeCovered
<1> QED
  BY <1>1, HistoryInvariant, PTL

(* The average of the usages is the processor time over the time of        *)
(* observation, if the intervals have one length and the ticks did not go  *)
(* down.                                                                   *)
THEOREM AverageIsExact == HistorySpec => []AverageOverLifetime
<1>1. HistoryInv => AverageOverLifetime
  <2> SUFFICES ASSUME HistoryInv, Len(history) > 1,
                      \A n \in Later(Records) :
                        /\ history[n].ticks >= history[n - 1].ticks
                        /\ history[n].timestamp - history[n - 1].timestamp
                             = history[2].timestamp - history[2 - 1].timestamp
               PROVE  entry.cpu_usage_sum * (Last.timestamp - history[1].timestamp)
                        = entry.cpu_usage_samples * Scale * (Last.ticks - history[1].ticks)
    BY Zenon DEF AverageOverLifetime
  <2>1. PICK l \in Nat : l = Len(history) /\ l > 1
    BY LongEnough, Zenon
  <2>2. Later(Records) = 2..l
    BY <2>1, LaterInterval, Zenon DEF Records
  <2>3. Even
    BY <2>1, <2>2, ZenonT(60) DEF Even, Length
  <2>4. /\ entry \in StatsEntry /\ entry.cpu_usage_samples = l - 1
        /\ Length(2) * entry.cpu_usage_sum = Scale * (Last.ticks - history[1].ticks)
        /\ Last.timestamp - history[1].timestamp = (l - 1) * Length(2)
    BY <2>1, <2>3, SMTT(60) DEF HistoryInv, Described, EvenOf
  <2>5. \A n \in 1..l : history[n] \in Record
    BY <2>1 DEF HistoryInv
  <2>6. Last \in Record /\ history[1] \in Record /\ Length(2) \in Steps
    <3>1. l \in 1..l /\ 1 \in 1..l /\ 2 \in 2..l
      BY <2>1
    <3> QED
      BY <2>1, <2>5, <3>1, Zenon DEF HistoryInv, Last
  <2>7. /\ entry.cpu_usage_sum \in Int /\ Length(2) \in Int /\ l - 1 \in Int /\ Scale \in Int
        /\ Last.ticks - history[1].ticks \in Int
    <3>1. entry.cpu_usage_sum \in Int
      BY <2>4, Zenon DEF StatsEntry
    <3>2. Length(2) \in Int /\ Scale \in Int
      <4>1. Length(2) \in Nat
        BY <2>6, HistoryAssumption, ZenonT(60)
      <4> QED
        BY <4>1, StatsAssumption
    <3>3. Last.ticks - history[1].ticks \in Int
      BY <2>6, StatsAssumption, SMTT(30) DEF Record
    <3> QED
      BY <2>1, <3>1, <3>2, <3>3, SMTT(30)
  <2>8. entry.cpu_usage_sum * ((l - 1) * Length(2))
          = (l - 1) * Scale * (Last.ticks - history[1].ticks)
    <3>1. PICK a \in Int : a = entry.cpu_usage_sum
      BY <2>7, Zenon
    <3>2. PICK d \in Int : d = Length(2)
      BY <2>7, Zenon
    <3>3. PICK n \in Int : n = l - 1
      BY <2>7, Zenon
    <3>4. PICK s \in Int : s = Scale
      BY <2>7, Zenon
    <3>5. PICK x \in Int : x = Last.ticks - history[1].ticks
      BY <2>7, Zenon
    <3>6. d * a = s * x
      BY <2>4, <3>1, <3>2, <3>4, <3>5, ZenonT(60)
    <3>7. a * (n * d) = n * s * x
      <4>1. a * (n * d) = n * (d * a)
        BY SMTT(60)
      <4>2. n * s * x = n * (s * x)
        BY SMTT(60)
      <4> QED
        BY <3>6, <4>1, <4>2, Zenon
    <3> QED
      BY <3>1, <3>2, <3>3, <3>4, <3>5, <3>7, Zenon
  <2> QED
    BY <2>4, <2>8, Zenon
<1> QED
  BY <1>1, HistoryInvariant, PTL
-----------------------------------------------------------------------------
(* The names of the eleven metrics.                                        *)
Names == {Metric[i] : i \in DOMAIN Metric}

(* What metrics.json contains after the rankings c, first the value of     *)
(* boIsFirstJsonMetric.                                                    *)
Layout(c, first, f) ==
  IF c = <<>> THEN first /\ f = <<"head">>
    ELSE /\ ~first
         /\ Len(f) = 2 * Len(c)
         /\ f[1] = "head"
         /\ \A i \in 1..Len(c) : f[2 * i] = c[i]
         /\ \A i \in 1..(Len(c) - 1) : f[2 * i + 1] = "comma"

(* The rankings qsort and the loop over the rows can leave.                *)
Rankings ==
  UNION {{Block(m, s) : s \in {t \in Arrangements : SortedBy(m, t)}} :
           m \in {n \in Names : Asked(n)}}

MetricsOf(c) == {c[i].metric : i \in 1..Len(c)}

Ranked ==
  MetricsOf(console)
    = {Metric[i] : i \in {j \in 1..(next_block - 1) : Asked(Metric[j])}}

Averaged == \E t \in Tables : g_process_table = [p \in DOMAIN t |-> WithAverages(t[p])]

(* Before the first ranking.                                               *)
Preparing == stats_pc \notin {"blocks", "done"}

ReportInv ==
  /\ requested \in [Names -> Nat]
  /\ stats_pc \notin {"start", "nothing_to_do"} =>
       /\ configuration["metrics_on_console"] = TRUE
       /\ \E i \in DOMAIN Metric : Asked(Metric[i])
  /\ Preparing => console = <<>> /\ next_block = 1 /\ g_process_table \in Tables
  /\ stats_pc # "done" => metrics_json = Closed
  /\ stats_pc = "begin" => IF pfJsonOutput = Closed THEN open_failed ELSE pfJsonOutput = <<>>
  /\ stats_pc = "average" => pfJsonOutput = <<"head">> /\ boIsFirstJsonMetric = TRUE
  /\ ~Preparing => /\ Averaged
                   /\ next_block \in 1..(Len(Metric) + 1)
                   /\ console \in Seq(Rankings)
                   /\ Ranked
  /\ stats_pc = "blocks" /\ pfJsonOutput # Closed =>
       /\ pfJsonOutput \in Seq(Rankings \cup {"head", "comma"})
       /\ boIsFirstJsonMetric \in BOOLEAN
       /\ Layout(console, boIsFirstJsonMetric, pfJsonOutput)
  /\ DocumentComplete
  /\ CrashOnlyIfOpenFails

(* What the rankings can be depends on the table and the requests only.    *)
LEMMA RequestsFix ==
  ASSUME UNCHANGED <<requested, g_process_table>>
  PROVE  /\ Rankings' = Rankings
         /\ \A e : WithAverages(e)' = WithAverages(e)
         /\ \A m : Asked(m)' = Asked(m)
<1>1. \A m : Asked(m)' = Asked(m)
  BY Zenon DEF Asked
<1>2. \A e : WithAverages(e)' = WithAverages(e)
  BY <1>1, ZenonT(60) DEF WithAverages
<1>3. Arrangements' = Arrangements
  BY Zenon DEF Arrangements
<1>4. \A m, s : SortedBy(m, s)' = SortedBy(m, s)
  BY Zenon DEF SortedBy
<1>5. \A m, s : Block(m, s)' = Block(m, s)
  BY Zenon DEF Block, Rows, Shown
<1> QED
  <2>1. Rankings' = Rankings
    BY <1>1, <1>3, <1>4, <1>5, SMTT(30) DEF Rankings
  <2> QED
    BY <1>1, <1>2, <2>1, Zenon

(* One more block, with a comma before it unless it is the first.          *)
LEMMA LayoutGrows ==
  ASSUME NEW S, NEW c \in Seq(S), NEW f \in Seq(S), NEW first \in BOOLEAN,
         NEW block \in S, "comma" \in S, Layout(c, first, f)
  PROVE  LET g == f \o (IF ~first THEN <<"comma">> ELSE <<>>) \o <<block>>
         IN g \in Seq(S) /\ Layout(Append(c, block), FALSE, g)
<1> DEFINE comma == IF ~first THEN <<"comma">> ELSE <<>>
           h == f \o comma
           g == h \o <<block>>
           d == Append(c, block)
<1>1. /\ d \in Seq(S) /\ d # <<>> /\ Len(d) = Len(c) + 1
      /\ \A i \in 1..Len(c) : d[i] = c[i]
      /\ d[Len(c) + 1] = block
  OBVIOUS
<1>2. <<block>> \in Seq(S) /\ Len(<<block>>) = 1 /\ <<block>>[1] = block
  OBVIOUS
<1>3. comma \in Seq(S)
  OBVIOUS
<1>4. Len(c) \in Nat /\ Len(f) \in Nat
  OBVIOUS
<1>5. h \in Seq(S) /\ Len(h) = Len(f) + Len(comma)
      /\ \A i \in 1..(Len(f) + Len(comma)) :
           h[i] = IF i <= Len(f) THEN f[i] ELSE comma[i - Len(f)]
  BY <1>3
<1> HIDE DEF h, d
<1>6. g \in Seq(S) /\ Len(g) = Len(h) + Len(<<block>>)
      /\ \A i \in 1..(Len(h) + Len(<<block>>)) :
           g[i] = IF i <= Len(h) THEN h[i] ELSE <<block>>[i - Len(h)]
  BY <1>2, <1>5
<1> HIDE DEF g
<1>7. CASE c = <<>>
  <2>1. first /\ f = <<"head">> /\ Len(c) = 0 /\ Len(f) = 1 /\ f[1] = "head"
    BY <1>7 DEF Layout
  <2>2. comma = <<>> /\ Len(comma) = 0
    BY <2>1, Zenon
  <2> HIDE DEF comma
  <2>3. Len(h) = 1 /\ h[1] = "head"
    BY <1>5, <2>1, <2>2
  <2>4. Len(g) = 2 /\ g[1] = "head" /\ g[2] = block
    BY <1>2, <1>6, <2>3
  <2>5. Len(d) = 1 /\ d[1] = block
    BY <1>1, <2>1
  <2>6. \A i \in 1..Len(d) : i = 1 /\ g[2 * i] = d[i]
    BY <2>4, <2>5
  <2>7. Len(g) = 2 * Len(d) /\ 1..(Len(d) - 1) = {}
    BY <2>4, <2>5
  <2>8. Layout(d, FALSE, g)
    BY <1>1, <2>4, <2>6, <2>7, Zenon DEF Layout
  <2> QED
    BY <1>6, <2>8, Zenon DEF g, h, d, comma
<1>8. CASE c # <<>>
  <2>1. /\ ~first /\ Len(f) = 2 * Len(c) /\ f[1] = "head"
        /\ \A i \in 1..Len(c) : f[2 * i] = c[i]
        /\ \A i \in 1..(Len(c) - 1) : f[2 * i + 1] = "comma"
    BY <1>8, Zenon DEF Layout
  <2>2. comma = <<"comma">> /\ Len(comma) = 1 /\ comma[1] = "comma"
    BY <2>1, Zenon
  <2>3. Len(c) \in Nat \ {0}
    BY <1>8
  <2> HIDE DEF comma
  <2>4. /\ Len(h) = 2 * Len(c) + 1 /\ h[2 * Len(c) + 1] = "comma"
        /\ \A i \in 1..(2 * Len(c)) : h[i] = f[i]
    <3>1. /\ Len(f) + Len(comma) = 2 * Len(c) + 1
          /\ 2 * Len(c) + 1 \in 1..(2 * Len(c) + 1) /\ ~(2 * Len(c) + 1 <= Len(f))
          /\ 2 * Len(c) + 1 - Len(f) = 1
      BY <2>1, <2>2, <2>3
    <3>2. \A i \in 1..(2 * Len(c)) : i \in 1..(2 * Len(c) + 1) /\ i <= Len(f)
      BY <2>1, <2>3
    <3>3. /\ Len(h) = 2 * Len(c) + 1
          /\ \A i \in 1..(2 * Len(c) + 1) :
               h[i] = IF i <= Len(f) THEN f[i] ELSE comma[i - Len(f)]
      BY <1>5, <3>1, Zenon
    <3>4. h[2 * Len(c) + 1] = comma[2 * Len(c) + 1 - Len(f)]
      BY <3>1, <3>3
    <3>5. h[2 * Len(c) + 1] = "comma"
      BY <2>2, <3>1, <3>4, Zenon
    <3> QED
      BY <3>2, <3>3, <3>5, Zenon
  <2>5. /\ Len(g) = 2 * Len(c) + 2 /\ g[2 * Len(c) + 2] = block
        /\ g[2 * Len(c) + 1] = "comma"
        /\ \A i \in 1..(2 * Len(c)) : g[i] = f[i]
    <3>1. /\ Len(h) + Len(<<block>>) = 2 * Len(c) + 2
          /\ 2 * Len(c) + 2 \in 1..(2 * Len(c) + 2) /\ ~(2 * Len(c) + 2 <= Len(h))
          /\ 2 * Len(c) + 2 - Len(h) = 1
      BY <1>2, <2>3, <2>4
    <3>2. \A i \in 1..(2 * Len(c) + 1) : i \in 1..(2 * Len(c) + 2) /\ i <= Len(h)
      BY <2>3, <2>4
    <3>3. 2 * Len(c) + 1 \in 1..(2 * Len(c) + 1)
          /\ 1..(2 * Len(c)) \subseteq 1..(2 * Len(c) + 1)
      BY <2>3
    <3>4. \A i \in 1..(2 * Len(c) + 1) : g[i] = h[i]
      BY <1>6, <3>1, <3>2, Zenon
    <3>5. g[2 * Len(c) + 2] = <<block>>[2 * Len(c) + 2 - Len(h)]
          /\ Len(g) = 2 * Len(c) + 2
      <4>1. \A i \in 1..(2 * Len(c) + 2) :
              g[i] = IF i <= Len(h) THEN h[i] ELSE <<block>>[i - Len(h)]
        BY <1>6, <3>1, Zenon
      <4>2. Len(g) = 2 * Len(c) + 2
        BY <1>6, <3>1, Zenon
      <4> QED
        BY <3>1, <4>1, <4>2
    <3>6. g[2 * Len(c) + 2] = <<block>>[1]
      BY <3>1, <3>5, Zenon
    <3> QED
      BY <1>2, <2>4, <3>3, <3>4, <3>5, <3>6, Zenon
  <2>6. Len(g) = 2 * Len(d) /\ g[1] = "head"
    BY <1>1, <2>1, <2>3, <2>5
  <2>7. ASSUME NEW i \in 1..Len(d) PROVE g[2 * i] = d[i]
    <3>1. CASE i = Len(c) + 1
      BY <1>1, <2>3, <2>5, <3>1, SMTT(30)
    <3>2. CASE i # Len(c) + 1
      <4>1. i \in 1..Len(c) /\ 2 * i \in 1..(2 * Len(c))
        BY <1>1, <2>3, <3>2
      <4> QED
        BY <1>1, <2>1, <2>5, <4>1, Zenon
    <3> QED
      BY <3>1, <3>2, Zenon
  <2>8. ASSUME NEW i \in 1..(Len(d) - 1) PROVE g[2 * i + 1] = "comma"
    <3>1. CASE i = Len(c)
      BY <1>1, <2>3, <2>5, <3>1, Zenon
    <3>2. CASE i # Len(c)
      <4>1. i \in 1..(Len(c) - 1) /\ 2 * i + 1 \in 1..(2 * Len(c))
        BY <1>1, <2>3, <3>2
      <4> QED
        BY <2>1, <2>5, <4>1, Zenon
    <3> QED
      BY <3>1, <3>2, Zenon
  <2>9. Layout(d, FALSE, g)
    BY <1>1, <2>6, <2>7, <2>8, Zenon DEF Layout
  <2> QED
    BY <1>6, <2>9, Zenon DEF g, h, d, comma
<1> QED
  BY <1>7, <1>8, ZenonT(60)

(* The document after the end is written.                                  *)
LEMMA LayoutEnds ==
  ASSUME NEW S, NEW c \in Seq(S), NEW f \in Seq(S), NEW first,
         Layout(c, first, f), c # <<>>
  PROVE  LET g == Append(f, "end")
             n == Len(c)
         IN /\ Len(g) = 2 * n + 1
            /\ g[1] = "head" /\ g[2 * n + 1] = "end"
            /\ \A i \in 1..n : g[2 * i] = c[i]
            /\ \A i \in 1..(n - 1) : g[2 * i + 1] = "comma"
<1> DEFINE T == S \cup {"end"}
           g == Append(f, "end")
<1>1. f \in Seq(T) /\ "end" \in T
  OBVIOUS
<1>2. /\ Len(g) = Len(f) + 1 /\ g[Len(f) + 1] = "end"
      /\ \A i \in 1..Len(f) : g[i] = f[i]
  BY <1>1
<1>3. Len(c) \in Nat \ {0}
  OBVIOUS
<1>4. /\ Len(f) = 2 * Len(c) /\ f[1] = "head"
      /\ \A i \in 1..Len(c) : f[2 * i] = c[i]
      /\ \A i \in 1..(Len(c) - 1) : f[2 * i + 1] = "comma"
  BY Zenon DEF Layout
<1> HIDE DEF g
<1>5. Len(g) = 2 * Len(c) + 1 /\ g[1] = "head" /\ g[2 * Len(c) + 1] = "end"
  BY <1>2, <1>3, <1>4
<1>6. ASSUME NEW i \in 1..Len(c) PROVE g[2 * i] = c[i]
  <2>1. 2 * i \in 1..Len(f)
    BY <1>3, <1>4
  <2> QED
    BY <1>2, <1>4, <2>1, Zenon
<1>7. ASSUME NEW i \in 1..(Len(c) - 1) PROVE g[2 * i + 1] = "comma"
  <2>1. 2 * i + 1 \in 1..Len(f)
    BY <1>3, <1>4
  <2> QED
    BY <1>2, <1>4, <2>1, Zenon
<1> QED
  BY <1>5, <1>6, <1>7, Zenon DEF g

LEMMA MetricFacts ==
  /\ Len(Metric) = 11 /\ DOMAIN Metric = 1..11
  /\ \A i \in 1..11 : Metric[i] \in Names
<1>1. Len(Metric) = 11 /\ DOMAIN Metric = 1..11
  BY DEF Metric
<1> QED
  BY <1>1, Zenon DEF Names

(* The metrics of the rankings, with one more ranking ...                  *)
LEMMA OneRankingMore ==
  ASSUME NEW S, NEW c \in Seq(S), NEW b \in S
  PROVE  MetricsOf(Append(c, b)) = MetricsOf(c) \cup {b.metric}
<1> DEFINE d == Append(c, b)
<1>1. /\ Len(d) = Len(c) + 1 /\ d[Len(c) + 1] = b
      /\ \A i \in 1..Len(c) : d[i] = c[i]
  OBVIOUS
<1>2. Len(c) \in Nat
  OBVIOUS
<1> HIDE DEF d
<1>3. \A i \in 1..Len(d) : i = Len(c) + 1 \/ i \in 1..Len(c)
  BY <1>1, <1>2
<1>4. Len(c) + 1 \in 1..Len(d) /\ 1..Len(c) \subseteq 1..Len(d)
  BY <1>1, <1>2
<1>5. ASSUME NEW x \in {d[i].metric : i \in 1..Len(d)}
      PROVE  x \in {c[i].metric : i \in 1..Len(c)} \cup {b.metric}
  <2>1. PICK i \in 1..Len(d) : x = d[i].metric
    BY <1>5, Zenon
  <2> QED
    BY <1>1, <1>3, <2>1, Zenon
<1>6. ASSUME NEW x \in {c[i].metric : i \in 1..Len(c)} \cup {b.metric}
      PROVE  x \in {d[i].metric : i \in 1..Len(d)}
  BY <1>1, <1>4, Zenon
<1> QED
  BY <1>5, <1>6, Zenon DEF d, MetricsOf

(* ... and the metrics asked for, up to the next one.                      *)
LEMMA OneMetricMore ==
  ASSUME NEW k \in Nat \ {0}
  PROVE  {Metric[i] : i \in {j \in 1..k : Asked(Metric[j])}}
           = {Metric[i] : i \in {j \in 1..(k - 1) : Asked(Metric[j])}}
             \cup {m \in {Metric[k]} : Asked(m)}
<1>1. \A j \in 1..k : j = k \/ j \in 1..(k - 1)
  OBVIOUS
<1>2. k \in 1..k /\ 1..(k - 1) \subseteq 1..k
  OBVIOUS
<1> DEFINE A == {Metric[i] : i \in {j \in 1..k : Asked(Metric[j])}}
           B == {Metric[i] : i \in {j \in 1..(k - 1) : Asked(Metric[j])}}
           C == {m \in {Metric[k]} : Asked(m)}
<1>3. ASSUME NEW x \in A PROVE x \in B \cup C
  <2>1. PICK j \in 1..k : Asked(Metric[j]) /\ x = Metric[j]
    BY <1>3, Zenon
  <2> QED
    BY <1>1, <2>1, Zenon
<1>4. ASSUME NEW x \in B \cup C PROVE x \in A
  BY <1>2, Zenon
<1> QED
  BY <1>3, <1>4, Zenon

LEMMA InitReport == Init => ReportInv
<1> SUFFICES ASSUME Init PROVE ReportInv
  BY Zenon
<1>1. requested \in [Names -> Nat]
  BY RequestsAssumption, Zenon DEF Init, Names
<1>2. /\ stats_pc = "start" /\ console = <<>> /\ next_block = 1
      /\ g_process_table \in Tables /\ metrics_json = Closed
  BY Zenon DEF Init
<1>3. DocumentComplete /\ CrashOnlyIfOpenFails /\ Preparing
  BY <1>2, SMTT(30) DEF DocumentComplete, CrashOnlyIfOpenFails, Preparing
<1> QED
  BY <1>1, <1>2, <1>3, Zenon DEF ReportInv

(* The steps before the first ranking.                                     *)
LEMMA StepPreparing ==
  ASSUME ReportInv, Initialize \/ Allocate \/ OpenMetricsFile \/ JsonBegin
  PROVE  ReportInv'
<1>1. /\ requested' = requested /\ configuration' = configuration
      /\ console' = console /\ next_block' = next_block
      /\ g_process_table' = g_process_table /\ metrics_json' = metrics_json
  BY Zenon DEF Initialize, Allocate, OpenMetricsFile, JsonBegin
<1>2. /\ stats_pc \in {"start", "initialized", "open", "begin"}
      /\ stats_pc' \in {"initialized", "open", "begin", "average", "nothing_to_do", "crashed"}
  BY Zenon DEF Initialize, Allocate, OpenMetricsFile, JsonBegin, StatsGoto
<1>3. Preparing /\ Preparing' /\ stats_pc # "done" /\ stats_pc' # "done"
      /\ stats_pc' # "blocks"
  BY <1>2, Zenon DEF Preparing
<1>4. requested' \in [Names -> Nat]
  BY <1>1, Zenon DEF ReportInv
<1>5. stats_pc' # "nothing_to_do" =>
        /\ configuration'["metrics_on_console"] = TRUE
        /\ \E i \in DOMAIN Metric : Asked(Metric[i])'
  <2> SUFFICES ASSUME stats_pc' # "nothing_to_do"
               PROVE  /\ configuration["metrics_on_console"] = TRUE
                      /\ \E i \in DOMAIN Metric : Asked(Metric[i])
    BY <1>1, Zenon DEF Asked
  <2>1. CASE Initialize
    BY <2>1, Zenon DEF Initialize, config_get_metrics_console_enabled,
                config_get_metrics_json_enabled
  <2>2. CASE ~Initialize
    <3>1. stats_pc \notin {"start", "nothing_to_do"}
      BY <2>2, Zenon DEF Initialize, Allocate, OpenMetricsFile, JsonBegin, StatsGoto
    <3> QED
      BY <3>1, Zenon DEF ReportInv
  <2> QED
    BY <2>1, <2>2, Zenon
<1>6. (console = <<>>)' /\ (next_block = 1)' /\ (g_process_table \in Tables)'
      /\ (metrics_json = Closed)'
  BY <1>1, <1>3, Zenon DEF ReportInv
<1>7. (stats_pc = "begin" =>
         IF pfJsonOutput = Closed THEN open_failed ELSE pfJsonOutput = <<>>)'
  <2> SUFFICES ASSUME stats_pc' = "begin"
               PROVE  IF pfJsonOutput' = Closed THEN open_failed' ELSE pfJsonOutput' = <<>>
    BY Zenon
  <2>1. OpenMetricsFile
    BY Zenon DEF Initialize, Allocate, JsonBegin, StatsGoto
  <2>2. stats_pc = "open"
    BY <2>1, Zenon DEF OpenMetricsFile, StatsGoto
  <2>3. configuration["metrics_on_console"] = TRUE
    BY <2>2, Zenon DEF ReportInv
  <2> QED
    BY <2>1, <2>3, Zenon DEF OpenMetricsFile, config_get_metrics_json_enabled
<1>8. (stats_pc = "average" => pfJsonOutput = <<"head">> /\ boIsFirstJsonMetric = TRUE)'
  <2> SUFFICES ASSUME stats_pc' = "average"
               PROVE  pfJsonOutput' = <<"head">> /\ boIsFirstJsonMetric' = TRUE
    BY ZenonT(60)
  <2>1. JsonBegin /\ stats_pc' # "crashed"
    BY Zenon DEF Initialize, Allocate, OpenMetricsFile, StatsGoto
  <2>2. /\ stats_pc = "begin" /\ pfJsonOutput # Closed
        /\ pfJsonOutput' = Append(pfJsonOutput, "head") /\ boIsFirstJsonMetric' = TRUE
    BY <2>1, Zenon DEF JsonBegin, StatsGoto
  <2>3. pfJsonOutput = <<>>
    BY <2>2, Zenon DEF ReportInv
  <2> QED
    BY <2>2, <2>3
<1>9. DocumentComplete'
  BY <1>6, Zenon DEF DocumentComplete
<1>10. CrashOnlyIfOpenFails'
  <2> SUFFICES ASSUME stats_pc' = "crashed" PROVE open_failed'
    BY Zenon DEF CrashOnlyIfOpenFails
  <2>1. JsonBegin
    BY Zenon DEF Initialize, Allocate, OpenMetricsFile, StatsGoto
  <2>2. stats_pc = "begin" /\ pfJsonOutput = Closed /\ open_failed' = open_failed
    BY <2>1, Zenon DEF JsonBegin, StatsGoto
  <2> QED
    BY <2>2, Zenon DEF ReportInv
<1> QED
  BY <1>2, <1>3, <1>4, <1>5, <1>6, <1>7, <1>8, <1>9, <1>10, Zenon DEF ReportInv

(* process_stats_print_metrics stops being prepared.                       *)
LEMMA StepAverage ==
  ASSUME ReportInv, Average
  PROVE  ReportInv'
<1>1. /\ stats_pc = "average" /\ stats_pc' = "blocks"
      /\ g_process_table' = [p \in DOMAIN g_process_table |->
                               WithAverages(g_process_table[p])]
      /\ requested' = requested /\ configuration' = configuration
      /\ console' = console /\ next_block' = next_block
      /\ pfJsonOutput' = pfJsonOutput /\ boIsFirstJsonMetric' = boIsFirstJsonMetric
      /\ metrics_json' = metrics_json
  BY Zenon DEF Average, StatsGoto
<1>2. Preparing /\ ~Preparing'
  BY <1>1, Zenon DEF Preparing
<1>3. /\ console = <<>> /\ next_block = 1 /\ g_process_table \in Tables
      /\ pfJsonOutput = <<"head">> /\ boIsFirstJsonMetric = TRUE
      /\ metrics_json = Closed
  BY <1>1, <1>2, Zenon DEF ReportInv
<1>4. Averaged'
  <2>1. \A e : WithAverages(e)' = WithAverages(e)
    BY <1>1, ZenonT(60) DEF WithAverages, Asked
  <2> QED
    BY <1>1, <1>3, <2>1, SMTT(30) DEF Averaged
<1>5. (next_block \in 1..(Len(Metric) + 1))'
  BY <1>1, <1>3, MetricFacts
<1>6. (console \in Seq(Rankings))'
  BY <1>1, <1>3
<1>7. Ranked'
  <2>1. 1..Len(<<>>) = {} /\ 1..(1 - 1) = {}
    OBVIOUS
  <2> QED
    BY <1>1, <1>3, <2>1, Zenon DEF Ranked, MetricsOf
<1>8. (pfJsonOutput \in Seq(Rankings \cup {"head", "comma"}))'
  BY <1>1, <1>3
<1>9. Layout(console, boIsFirstJsonMetric, pfJsonOutput)' /\ (boIsFirstJsonMetric \in BOOLEAN)'
  BY <1>1, <1>3, Zenon DEF Layout
<1>10. DocumentComplete' /\ CrashOnlyIfOpenFails' /\ (metrics_json = Closed)'
  BY <1>1, <1>3, Zenon DEF DocumentComplete, CrashOnlyIfOpenFails
<1>11. /\ (requested \in [Names -> Nat])'
       /\ (configuration["metrics_on_console"] = TRUE)'
       /\ (\E i \in DOMAIN Metric : Asked(Metric[i]))'
  BY <1>1, Zenon DEF ReportInv, Asked
<1> QED
  BY <1>1, <1>2, <1>4, <1>5, <1>6, <1>7, <1>8, <1>9, <1>10, <1>11, ZenonT(60) DEF ReportInv

(* A ranking that is printed is one of the rankings possible.              *)
LEMMA IsARanking ==
  ASSUME NEW m \in Names, NEW s \in Arrangements, Asked(m), SortedBy(m, s)
  PROVE  Block(m, s) \in Rankings /\ Block(m, s).metric = m
<1>1. Block(m, s) \in {Block(m, t) : t \in {u \in Arrangements : SortedBy(m, u)}}
  BY Zenon
<1>2. m \in {n \in Names : Asked(n)}
  BY Zenon
<1>3. Block(m, s) \in Rankings
  BY <1>1, <1>2, Zenon DEF Rankings
<1> QED
  BY <1>3, Zenon DEF Block

LEMMA StepRanking ==
  ASSUME ReportInv, Ranking
  PROVE  ReportInv'
<1>1. /\ stats_pc = "blocks" /\ stats_pc' = "blocks"
      /\ next_block \in DOMAIN Metric /\ next_block' = next_block + 1
      /\ g_process_table' = g_process_table
      /\ requested' = requested /\ configuration' = configuration
      /\ metrics_json' = metrics_json /\ open_failed' = open_failed
  BY Zenon DEF Ranking
<1>2. ~Preparing /\ ~Preparing'
  BY <1>1, Zenon DEF Preparing
<1>3. /\ configuration["metrics_on_console"] = TRUE
      /\ \E i \in DOMAIN Metric : Asked(Metric[i])
      /\ metrics_json = Closed /\ Averaged
      /\ console \in Seq(Rankings) /\ Ranked
      /\ requested \in [Names -> Nat]
  BY <1>1, <1>2, Zenon DEF ReportInv
<1>4. next_block \in 1..11 /\ next_block \in Nat \ {0} /\ next_block + 1 \in 1..(Len(Metric) + 1)
  BY <1>1, MetricFacts
<1>5. Rankings' = Rankings /\ Averaged'
  <2>1. Rankings' = Rankings
    BY <1>1, RequestsFix, Zenon
  <2>2. \A e : WithAverages(e)' = WithAverages(e)
    BY <1>1, RequestsFix, Zenon
  <2> QED
    BY <1>1, <1>3, <2>1, <2>2, Zenon DEF Averaged
<1>6. \A m : Asked(m)' <=> Asked(m)
  BY <1>1, Zenon DEF Asked
<1> DEFINE m == Metric[next_block]
           R == Rankings \cup {"head", "comma"}
<1>7. m \in Names
  BY <1>4, MetricFacts, Zenon
<1>8. /\ (console \in Seq(Rankings))' /\ Ranked'
      /\ pfJsonOutput' # Closed =>
           /\ pfJsonOutput' \in Seq(R)
           /\ boIsFirstJsonMetric' \in BOOLEAN
           /\ Layout(console', boIsFirstJsonMetric', pfJsonOutput')
  <2>1. {Metric[i] : i \in {j \in 1..next_block : Asked(Metric[j])}}
           = {Metric[i] : i \in {j \in 1..(next_block - 1) : Asked(Metric[j])}}
             \cup {n \in {m} : Asked(n)}
    BY <1>4, OneMetricMore, Zenon
  <2>2. Ranked' <=> MetricsOf(console')
                      = {Metric[i] : i \in {j \in 1..next_block : Asked(Metric[j])}}
    <3>1. next_block' - 1 = next_block
      BY <1>1, <1>4
    <3> QED
      BY <1>6, <3>1, Zenon DEF Ranked
  <2>3. pfJsonOutput # Closed =>
          /\ pfJsonOutput \in Seq(R)
          /\ boIsFirstJsonMetric \in BOOLEAN
          /\ Layout(console, boIsFirstJsonMetric, pfJsonOutput)
    BY <1>1, Zenon DEF ReportInv
  <2>4. CASE ~Asked(m)
    <3>1. /\ console' = console /\ pfJsonOutput' = pfJsonOutput
          /\ boIsFirstJsonMetric' = boIsFirstJsonMetric
      BY <2>4, Zenon DEF Ranking
    <3>2. {n \in {m} : Asked(n)} = {}
      BY <2>4, ZenonT(60)
    <3>3. Ranked'
      BY <1>3, <2>1, <2>2, <3>1, <3>2, Zenon DEF Ranked
    <3> QED
      BY <1>3, <1>5, <2>3, <3>1, <3>3, Zenon
  <2>5. CASE Asked(m)
    <3>1. PICK s \in Arrangements :
            /\ SortedBy(m, s)
            /\ console' = Append(console, Block(m, s))
            /\ WriteMetricBlock(Block(m, s))
      BY <1>3, <2>5, Zenon DEF Ranking, config_get_metrics_console_enabled
    <3> DEFINE b == Block(m, s)
    <3>2. b \in Rankings /\ b.metric = m
      BY <1>7, <2>5, <3>1, IsARanking, Zenon
    <3> HIDE DEF b, m
    <3>3. console' \in Seq(Rankings)
      <4>1. \A c \in Seq(Rankings), x \in Rankings : Append(c, x) \in Seq(Rankings)
        OBVIOUS
      <4> QED
        BY <1>3, <3>1, <3>2, <4>1, Zenon DEF b
    <3>4. MetricsOf(console') = MetricsOf(console) \cup {m}
      <4>1. MetricsOf(Append(console, b)) = MetricsOf(console) \cup {b.metric}
        <5>1. \A c \in Seq(Rankings), x \in Rankings :
                MetricsOf(Append(c, x)) = MetricsOf(c) \cup {x.metric}
          BY OneRankingMore, Zenon
        <5> QED
          BY <1>3, <3>2, <5>1, Zenon
      <4>2. console' = Append(console, b)
        BY <3>1, Zenon DEF b
      <4> QED
        BY <3>2, <4>1, <4>2, ZenonT(60)
    <3>5. {n \in {m} : Asked(n)} = {m}
      BY <2>5, Zenon
    <3>6. Ranked'
      BY <1>3, <2>1, <2>2, <3>4, <3>5, Zenon DEF Ranked
    <3>7. ASSUME pfJsonOutput' # Closed
          PROVE  /\ pfJsonOutput' \in Seq(R)
                 /\ boIsFirstJsonMetric' \in BOOLEAN
                 /\ Layout(console', boIsFirstJsonMetric', pfJsonOutput')
      <4>1. pfJsonOutput # Closed
        BY <3>1, <3>7, Zenon DEF WriteMetricBlock
      <4>2. /\ pfJsonOutput' = pfJsonOutput
                 \o (IF ~boIsFirstJsonMetric THEN <<"comma">> ELSE <<>>) \o <<b>>
            /\ boIsFirstJsonMetric' = FALSE
        BY <3>1, <4>1, Zenon DEF WriteMetricBlock, CommaNeeded, b
      <4>3. console \in Seq(R) /\ b \in R /\ "comma" \in R
        BY <1>3, <3>2
      <4> HIDE DEF R
      <4>4. /\ pfJsonOutput' \in Seq(R)
            /\ Layout(Append(console, b), FALSE, pfJsonOutput')
        BY <2>3, <4>1, <4>2, <4>3, LayoutGrows, Zenon
      <4> QED
        BY <3>1, <4>2, <4>4, Zenon DEF b
    <3> QED
      BY <1>5, <3>3, <3>6, <3>7, Zenon
  <2> QED
    BY <2>4, <2>5, Zenon
<1>9. DocumentComplete' /\ CrashOnlyIfOpenFails' /\ (metrics_json = Closed)'
  BY <1>1, <1>3, Zenon DEF DocumentComplete, CrashOnlyIfOpenFails
<1>10. /\ (configuration["metrics_on_console"] = TRUE)'
       /\ (\E i \in DOMAIN Metric : Asked(Metric[i]))'
       /\ (requested \in [Names -> Nat])'
       /\ (next_block \in 1..(Len(Metric) + 1))'
  BY <1>1, <1>3, <1>4, <1>6, Zenon
<1> HIDE DEF m
<1> QED
  BY <1>1, <1>2, <1>5, <1>8, <1>9, <1>10, Zenon DEF ReportInv

LEMMA StepEnd ==
  ASSUME ReportInv, JsonEnd
  PROVE  ReportInv'
<1>1. /\ stats_pc = "blocks" /\ stats_pc' = "done"
      /\ next_block = Len(Metric) + 1 /\ next_block' = next_block
      /\ g_process_table' = g_process_table /\ console' = console
      /\ requested' = requested /\ configuration' = configuration
      /\ open_failed' = open_failed
  BY Zenon DEF JsonEnd, StatsGoto
<1>2. ~Preparing /\ ~Preparing'
  BY <1>1, Zenon DEF Preparing
<1>3. /\ configuration["metrics_on_console"] = TRUE
      /\ \E i \in DOMAIN Metric : Asked(Metric[i])
      /\ metrics_json = Closed /\ Averaged
      /\ next_block \in 1..(Len(Metric) + 1)
      /\ console \in Seq(Rankings) /\ Ranked
      /\ requested \in [Names -> Nat]
  BY <1>1, <1>2, Zenon DEF ReportInv
<1>4. \A m : Asked(m)' <=> Asked(m)
  BY <1>1, Zenon DEF Asked
<1>5. Rankings' = Rankings /\ Averaged' /\ Ranked'
  <2>1. Rankings' = Rankings
    BY <1>1, RequestsFix, Zenon
  <2>2. \A e : WithAverages(e)' = WithAverages(e)
    BY <1>1, RequestsFix, Zenon
  <2>3. Averaged'
    BY <1>1, <1>3, <2>2, Zenon DEF Averaged
  <2>4. Ranked'
    BY <1>1, <1>3, <1>4, ZenonT(60) DEF Ranked
  <2> QED
    BY <2>1, <2>3, <2>4, Zenon
<1>6. MetricsOf(console) = {m \in DOMAIN requested : Asked(m)}
  <2>1. 1..(next_block - 1) = 1..11 /\ DOMAIN Metric = 1..11
    BY <1>1, MetricFacts
  <2>2. DOMAIN requested = {Metric[i] : i \in 1..11}
    BY <1>3, <2>1, Zenon DEF Names
  <2>3. {Metric[i] : i \in {j \in 1..11 : Asked(Metric[j])}}
          = {m \in {Metric[i] : i \in 1..11} : Asked(m)}
    BY Zenon
  <2> QED
    BY <1>3, <2>1, <2>2, <2>3, ZenonT(60) DEF Ranked
<1>7. console # <<>>
  <2> SUFFICES ASSUME console = <<>> PROVE FALSE
    BY Zenon
  <2>1. MetricsOf(console) = {}
    BY DEF MetricsOf
  <2>2. PICK i \in DOMAIN Metric : Asked(Metric[i])
    BY <1>3, Zenon
  <2>3. Metric[i] \in DOMAIN requested
    BY <1>3, Zenon DEF Names
  <2> QED
    BY <1>6, <2>1, <2>2, <2>3, Zenon
<1>8. DocumentComplete'
  <2> SUFFICES ASSUME metrics_json' # Closed PROVE DocumentComplete'
    BY Zenon DEF DocumentComplete
  <2>1. pfJsonOutput # Closed /\ metrics_json' = Append(pfJsonOutput, "end")
    BY <1>3, Zenon DEF JsonEnd
  <2> DEFINE R == Rankings \cup {"head", "comma"}
  <2>2. pfJsonOutput \in Seq(R) /\ Layout(console, boIsFirstJsonMetric, pfJsonOutput)
    BY <1>1, <2>1, Zenon DEF ReportInv
  <2>3. console \in Seq(R)
    BY <1>3
  <2> HIDE DEF R
  <2>4. /\ Len(metrics_json') = 2 * Len(console) + 1
        /\ metrics_json'[1] = "head" /\ metrics_json'[2 * Len(console) + 1] = "end"
        /\ \A i \in 1..Len(console) : metrics_json'[2 * i] = console[i]
        /\ \A i \in 1..(Len(console) - 1) : metrics_json'[2 * i + 1] = "comma"
    <3> DEFINE g == Append(pfJsonOutput, "end")
    <3>1. /\ Len(g) = 2 * Len(console) + 1
          /\ g[1] = "head" /\ g[2 * Len(console) + 1] = "end"
          /\ \A i \in 1..Len(console) : g[2 * i] = console[i]
          /\ \A i \in 1..(Len(console) - 1) : g[2 * i + 1] = "comma"
      BY <1>7, <2>2, <2>3, LayoutEnds
    <3>2. metrics_json' = g
      BY <2>1, Zenon
    <3> HIDE DEF g
    <3> QED
      BY <3>1, <3>2, Zenon
  <2>5. {m \in DOMAIN requested : Asked(m)}' = {m \in DOMAIN requested : Asked(m)}
    BY <1>1, <1>4, ZenonT(60)
  <2>6. {console[i].metric : i \in 1..Len(console)}' = {m \in DOMAIN requested : Asked(m)}'
    BY <1>1, <1>6, <2>5, Zenon DEF MetricsOf
  <2> QED
    BY <1>1, <2>4, <2>6, Zenon DEF DocumentComplete
<1>9. CrashOnlyIfOpenFails'
  BY <1>1, Zenon DEF CrashOnlyIfOpenFails
<1>10. /\ (configuration["metrics_on_console"] = TRUE)'
       /\ (\E i \in DOMAIN Metric : Asked(Metric[i]))'
       /\ (requested \in [Names -> Nat])'
       /\ (next_block \in 1..(Len(Metric) + 1))'
       /\ (console \in Seq(Rankings))'
  BY <1>1, <1>3, <1>4, <1>5, ZenonT(60)
<1>11. stats_pc' # "begin" /\ stats_pc' # "average" /\ stats_pc' # "blocks"
  BY <1>1, Zenon
<1> QED
  BY <1>1, <1>2, <1>5, <1>8, <1>9, <1>10, <1>11, Zenon DEF ReportInv

LEMMA ReportInvariant == Spec => []ReportInv
<1>1. Init => ReportInv
  BY InitReport, Zenon
<1>2. ReportInv /\ [Next]_vars => ReportInv'
  <2> SUFFICES ASSUME ReportInv, [Next]_vars PROVE ReportInv'
    BY Zenon
  <2>1. CASE UNCHANGED vars
    <3>0. UNCHANGED <<requested, g_process_table>>
      BY <2>1, Zenon DEF vars
    <3>1. Preparing' = Preparing /\ Averaged' = Averaged
      <4>1. Preparing' = Preparing
        BY <2>1, Zenon DEF vars, Preparing
      <4>2. \A e : WithAverages(e)' = WithAverages(e)
        BY <3>0, RequestsFix, Zenon
      <4>3. Averaged' = Averaged
        BY <3>0, <4>2 DEF Averaged
      <4> QED
        BY <4>1, <4>3, Zenon
    <3>2. Rankings' = Rankings
      BY <3>0, RequestsFix, Zenon
    <3>3. Ranked' = Ranked /\ DocumentComplete' = DocumentComplete
          /\ CrashOnlyIfOpenFails' = CrashOnlyIfOpenFails
      <4>1. Ranked' = Ranked
        BY <2>1, SMTT(60) DEF vars, Ranked, Asked
      <4>2. DocumentComplete' = DocumentComplete
        BY <2>1, SMTT(60) DEF vars, DocumentComplete, Asked
      <4>3. CrashOnlyIfOpenFails' = CrashOnlyIfOpenFails
        BY <2>1, Zenon DEF vars, CrashOnlyIfOpenFails
      <4> QED
        BY <4>1, <4>2, <4>3, Zenon
    <3>4. \A m : Asked(m)' = Asked(m)
      BY <2>1, Zenon DEF vars, Asked
    <3> QED
      BY <2>1, <3>1, <3>2, <3>3, <3>4, Zenon DEF vars, ReportInv
  <2>2. CASE Initialize \/ Allocate \/ OpenMetricsFile \/ JsonBegin
    BY <2>2, StepPreparing, Zenon
  <2>3. CASE Average
    BY <2>3, StepAverage, Zenon
  <2>4. CASE Ranking
    BY <2>4, StepRanking, Zenon
  <2>5. CASE JsonEnd
    BY <2>5, StepEnd, Zenon
  <2> QED
    BY <2>1, <2>2, <2>3, <2>4, <2>5, Zenon DEF Next, Terminated
<1> QED
  BY <1>1, <1>2, PTL DEF Spec

(* The head is never written to a file that is not open unless opening     *)
(* metrics.json failed (open_metrics_file, metrics_json_begin): when there *)
(* is anything to report, the file was asked for.                          *)
THEOREM HeadNeedsTheFile == Spec => []CrashOnlyIfOpenFails
<1>1. ReportInv => CrashOnlyIfOpenFails
  BY Zenon DEF ReportInv
<1> QED
  BY <1>1, ReportInvariant, PTL

(* Whatever is asked for, and in whatever order qsort leaves equal         *)
(* entries, a metrics.json that metrics_json_end finishes is one document: *)
(* exactly the blocks of the metrics asked for, those of the console,      *)
(* separated by write_metric_block_json's commas.                          *)
THEOREM DocumentIsWhole == Spec => []DocumentComplete
<1>1. ReportInv => DocumentComplete
  BY Zenon DEF ReportInv
<1> QED
  BY <1>1, ReportInvariant, PTL

(* The figures of an entry with its averages.                              *)
LEMMA AveragedFields ==
  ASSUME NEW e \in process_state_t
  PROVE  LET E == WithAverages(e)
         IN /\ E.cpu_usage_sum = e.cpu_usage_sum
            /\ E.cpu_usage_samples = e.cpu_usage_samples
            /\ E.rss_sum = e.rss_sum
            /\ E.num_of_rss_records = e.num_of_rss_records
            /\ E.total_read_kbytes = e.total_read_kbytes
            /\ E.total_write_kbytes = e.total_write_kbytes
            /\ E.io_time_acc = e.io_time_acc
            /\ Asked("cpu_average") =>
                 E.average_cpu_usage = IF e.cpu_usage_samples # 0
                   THEN <<e.cpu_usage_sum, e.cpu_usage_samples>> ELSE <<0, 1>>
            /\ Asked("rss_average") =>
                 E.rss_average_kb = IF e.num_of_rss_records # 0
                   THEN e.rss_sum \div e.num_of_rss_records ELSE 0
            /\ Asked("read_rate") =>
                 E.avg_read_rate_kb_s = IF e.io_time_acc # 0
                   THEN <<e.total_read_kbytes, e.io_time_acc>> ELSE <<0, 1>>
            /\ Asked("write_rate") =>
                 E.avg_write_rate_kb_s = IF e.io_time_acc # 0
                   THEN <<e.total_write_kbytes, e.io_time_acc>> ELSE <<0, 1>>
<1>1. /\ e.average_cpu_usage = <<0, 1>> /\ e.rss_average_kb = 0
      /\ e.avg_read_rate_kb_s = <<0, 1>> /\ e.avg_write_rate_kb_s = <<0, 1>>
  BY Zenon DEF process_state_t
<1> QED
  BY <1>1, Zenon DEF WithAverages, process_state_t

(* What a comparison function compares is the figure the metric is about:  *)
(* the averages are those of the metrics that are asked for.               *)
LEMMA KeyIsFigure ==
  ASSUME NEW m \in Names, Asked(m), NEW e \in process_state_t
  PROVE  SortKey(m, WithAverages(e)) = Figure(m, WithAverages(e))
<1> DEFINE E == WithAverages(e)
<1>1. CASE m = "cpu_average"
  <2>1. E.average_cpu_usage = IF E.cpu_usage_samples = 0 THEN <<0, 1>>
                                ELSE <<E.cpu_usage_sum, E.cpu_usage_samples>>
    BY <1>1, AveragedFields, Zenon
  <2> HIDE DEF E
  <2> QED
    BY <1>1, <2>1, SMTT(30) DEF SortKey, Getter, Figure, E
<1>2. CASE m = "rss_average"
  <2>1. E.rss_average_kb = IF E.num_of_rss_records = 0 THEN 0
                             ELSE E.rss_sum \div E.num_of_rss_records
    BY <1>2, AveragedFields, Zenon
  <2> QED
    BY <1>2, <2>1, SMTT(30) DEF SortKey, Getter, Figure
<1>3. CASE m = "read_rate"
  <2>1. E.avg_read_rate_kb_s = IF E.io_time_acc = 0 THEN <<0, 1>>
                                 ELSE <<E.total_read_kbytes, E.io_time_acc>>
    BY <1>3, AveragedFields, Zenon
  <2> QED
    BY <1>3, <2>1, SMTT(30) DEF SortKey, Getter, Figure
<1>4. CASE m = "write_rate"
  <2>1. E.avg_write_rate_kb_s = IF E.io_time_acc = 0 THEN <<0, 1>>
                                  ELSE <<E.total_write_kbytes, E.io_time_acc>>
    BY <1>4, AveragedFields, Zenon
  <2> QED
    BY <1>4, <2>1, SMTT(30) DEF SortKey, Getter, Figure
<1>5. CASE m \in {"rss_delta", "fds_delta"}
  BY <1>5, Zenon DEF SortKey, Figure
<1>6. CASE m \notin {"cpu_average", "rss_average", "read_rate", "write_rate",
                     "rss_delta", "fds_delta"}
  BY <1>6, Zenon DEF SortKey, Figure
<1> QED
  BY <1>1, <1>2, <1>3, <1>4, <1>5, <1>6, Zenon

(* The array of the entries holds every process once.                      *)
LEMMA Arranged ==
  ASSUME NEW s \in Arrangements
  PROVE  LET n == Cardinality(DOMAIN g_process_table)
         IN /\ DOMAIN s = 1..n
            /\ \A i \in 1..n : s[i] \in DOMAIN g_process_table
            /\ \A i, j \in 1..n : s[i] = s[j] => i = j
            /\ \A p \in DOMAIN g_process_table : \E i \in 1..n : s[i] = p
<1> DEFINE T == DOMAIN g_process_table
           n == Cardinality(T)
<1>1. /\ s \in [1..n -> T]
      /\ \A p \in T : \E i \in DOMAIN s : \A j \in DOMAIN s : s[j] = p <=> j = i
  BY Zenon DEF Arrangements
<1> HIDE DEF n, T
<1>2. DOMAIN s = 1..n /\ \A i \in 1..n : s[i] \in T
  BY <1>1, Zenon
<1>3. \A p \in T : \E i \in 1..n : s[i] = p
  BY <1>1, <1>2, Zenon
<1>4. ASSUME NEW i \in 1..n, NEW j \in 1..n, s[i] = s[j] PROVE i = j
  <2>1. s[i] \in T
    BY <1>2, Zenon
  <2>2. PICK a \in DOMAIN s : \A b \in DOMAIN s : s[b] = s[i] <=> b = a
    BY <1>1, <2>1, Zenon
  <2>3. i \in DOMAIN s /\ j \in DOMAIN s
    BY <1>2, Zenon
  <2> QED
    BY <1>4, <2>2, <2>3, Zenon
<1> QED
  BY <1>2, <1>3, <1>4, Zenon DEF n, T

(* The rows shown are those asked for, or all if there are fewer.          *)
LEMMA ShownRows ==
  ASSUME NEW m, requested[m] \in Nat, Cardinality(DOMAIN g_process_table) \in Nat
  PROVE  Shown(m) \in Nat /\ Shown(m) <= Cardinality(DOMAIN g_process_table)
BY DEF Shown

(* A block holds its metric and its rows.                                  *)
LEMMA BlockOf ==
  ASSUME NEW m, NEW s
  PROVE  Block(m, s).metric = m /\ Block(m, s).rows = Rows(m, s)
BY DEF Block

(* The rows of a ranking are the first ones of the arrangement.            *)
LEMMA RowsOf ==
  ASSUME NEW m, NEW s, NEW rows, rows = Rows(m, s)
  PROVE  /\ rows = [i \in 1..Shown(m) |-> rows[i]]
         /\ DOMAIN rows = 1..Shown(m)
         /\ \A i \in 1..Shown(m) : rows[i].pid = s[i]
BY DEF Rows

(* The first c of n positions come before the others.                      *)
LEMMA Prefix ==
  ASSUME NEW n \in Nat, NEW c \in Nat, c <= n
  PROVE  /\ \A i \in 1..c : i \in 1..n
         /\ \A i \in 1..c, j \in 1..n : j \notin 1..c => i < j
OBVIOUS

(* Every ranking of the report, printed or written, is the top of the      *)
(* table for its metric, for any table and any requests: the rows asked    *)
(* for, in order, and nothing larger left out by the sort of               *)
(* process_stats_print_metrics.                                            *)
THEOREM RankingsAreTops == Spec => []TopOfTable
<1>1. ASSUME ReportInv PROVE TopOfTable
  <2> SUFFICES ASSUME NEW k \in DOMAIN console
               PROVE  LET block == console[k]
                          F(p) == Figure(block.metric, g_process_table[p])
                          pid(i) == block.rows[i].pid
                      IN /\ Len(block.rows) = Shown(block.metric)
                         /\ \A i, j \in DOMAIN block.rows :
                              i < j => pid(i) # pid(j) /\ ~Less(F(pid(i)), F(pid(j)))
                         /\ \A p \in DOMAIN g_process_table :
                              \/ \E i \in DOMAIN block.rows : pid(i) = p
                              \/ \A i \in DOMAIN block.rows : ~Less(F(pid(i)), F(p))
    BY ZenonT(60) DEF TopOfTable
  <2>1. ~Preparing
    <3>1. console # <<>>
      OBVIOUS
    <3> QED
      BY <1>1, <3>1, Zenon DEF ReportInv
  <2>2. console \in Seq(Rankings) /\ Averaged /\ requested \in [Names -> Nat]
    BY <1>1, <2>1, Zenon DEF ReportInv
  <2>3. console[k] \in Rankings
    BY <2>2
  <2>4. PICK m \in Names, s \in Arrangements :
          Asked(m) /\ SortedBy(m, s) /\ console[k] = Block(m, s)
    BY <2>3, Zenon DEF Rankings
  <2>5. PICK t \in Tables : g_process_table = [p \in DOMAIN t |-> WithAverages(t[p])]
    BY <2>2, Zenon DEF Averaged
  <2> DEFINE n == Cardinality(DOMAIN g_process_table)
             rows == console[k].rows
             Rank(p) == SortKey(m, g_process_table[p])
  <2>6. DOMAIN g_process_table = DOMAIN t /\ n \in Nat
    BY <2>5, TablesAssumption, SMTT(30)
  <2>7. ASSUME NEW p \in DOMAIN g_process_table
        PROVE  Figure(m, g_process_table[p]) = Rank(p)
    <3>1. t[p] \in process_state_t /\ g_process_table[p] = WithAverages(t[p])
      BY <2>5, <2>6, TablesAssumption, Zenon
    <3> QED
      BY <2>4, <3>1, KeyIsFigure, ZenonT(60)
  <2>8. /\ n \in Nat /\ DOMAIN s = 1..n
        /\ \A i \in 1..n : s[i] \in DOMAIN g_process_table
        /\ \A i, j \in 1..n : s[i] = s[j] => i = j
        /\ \A p \in DOMAIN g_process_table : \E i \in 1..n : s[i] = p
    BY <2>6, Arranged, ZenonT(60)
  <2>9. Shown(m) \in Nat /\ Shown(m) <= n
    <3>1. requested[m] \in Nat
      BY <2>2, Zenon
    <3> QED
      BY <2>8, <3>1, ShownRows, Zenon
  <2>10. console[k].metric = m /\ rows = Rows(m, s)
    BY <2>4, BlockOf, Zenon
  <2> HIDE DEF n, rows, Rank
  <2>11. /\ rows = [i \in 1..Shown(m) |-> rows[i]]
         /\ DOMAIN rows = 1..Shown(m)
         /\ \A i \in 1..Shown(m) : rows[i].pid = s[i]
    <3>1. rows = Rows(m, s)
      BY <2>10, Zenon
    <3> QED
      BY <3>1, RowsOf, SMTT(60)
  <2>12. Len(rows) = Shown(m)
    BY <2>9, <2>11, Tuple, Zenon
  <2>13. \A i, j \in 1..n : i < j => ~Less(Rank(s[i]), Rank(s[j]))
    BY <2>4, <2>8, Zenon DEF SortedBy, Rank
  <2>14. \A i \in 1..Shown(m) : i \in 1..n
    BY <2>8, <2>9, Prefix, Zenon
  <2>15. ASSUME NEW i \in 1..Shown(m), NEW j \in 1..Shown(m), i < j
         PROVE  rows[i].pid # rows[j].pid
                /\ ~Less(Figure(m, g_process_table[rows[i].pid]),
                         Figure(m, g_process_table[rows[j].pid]))
    <3>1. i \in 1..n /\ j \in 1..n /\ i # j
      BY <2>14, <2>15
    <3>2. s[i] # s[j] /\ ~Less(Rank(s[i]), Rank(s[j]))
      BY <2>8, <2>13, <2>15, <3>1, Zenon
    <3>3. /\ Figure(m, g_process_table[s[i]]) = Rank(s[i])
          /\ Figure(m, g_process_table[s[j]]) = Rank(s[j])
      BY <2>7, <2>8, <3>1, ZenonT(60)
    <3> QED
      BY <2>11, <3>2, <3>3, ZenonT(60)
  <2>16. ASSUME NEW p \in DOMAIN g_process_table
         PROVE  \/ \E i \in 1..Shown(m) : rows[i].pid = p
                \/ \A i \in 1..Shown(m) :
                     ~Less(Figure(m, g_process_table[rows[i].pid]),
                           Figure(m, g_process_table[p]))
    <3>1. PICK j \in 1..n : s[j] = p
      BY <2>8, Zenon
    <3>2. CASE j \in 1..Shown(m)
      BY <2>11, <3>1, <3>2, Zenon
    <3>3. CASE j \notin 1..Shown(m)
      <4>1. ASSUME NEW i \in 1..Shown(m)
            PROVE  ~Less(Figure(m, g_process_table[rows[i].pid]),
                         Figure(m, g_process_table[p]))
        <5>1. i \in 1..n /\ i < j
          BY <2>8, <2>9, <3>3, Prefix, Zenon
        <5>2. ~Less(Rank(s[i]), Rank(s[j]))
          BY <2>13, <5>1, Zenon
        <5>3. /\ Figure(m, g_process_table[s[i]]) = Rank(s[i])
              /\ Figure(m, g_process_table[p]) = Rank(p)
          BY <2>7, <2>8, <5>1, ZenonT(60)
        <5> QED
          BY <2>11, <3>1, <5>2, <5>3, Zenon
      <4> QED
        BY <4>1, Zenon
    <3> QED
      BY <3>2, <3>3, Zenon
  <2>17. Len(rows) = Shown(console[k].metric)
    BY <2>10, <2>12, SMTT(30)
  <2>18. ASSUME NEW i \in DOMAIN rows, NEW j \in DOMAIN rows, i < j
         PROVE  rows[i].pid # rows[j].pid
                /\ ~Less(Figure(console[k].metric, g_process_table[rows[i].pid]),
                         Figure(console[k].metric, g_process_table[rows[j].pid]))
    <3>1. i \in 1..Shown(m) /\ j \in 1..Shown(m)
      BY <2>11, Zenon
    <3>2. /\ rows[i].pid # rows[j].pid
          /\ ~Less(Figure(m, g_process_table[rows[i].pid]),
                   Figure(m, g_process_table[rows[j].pid]))
      BY <2>15, <2>18, <3>1, Zenon
    <3> QED
      BY <2>10, <3>2, Zenon
  <2>19. ASSUME NEW p \in DOMAIN g_process_table
         PROVE  \/ \E i \in DOMAIN rows : rows[i].pid = p
                \/ \A i \in DOMAIN rows :
                     ~Less(Figure(console[k].metric, g_process_table[rows[i].pid]),
                           Figure(console[k].metric, g_process_table[p]))
    BY <2>10, <2>11, <2>16, Zenon
  <2> QED
    BY <2>17, <2>18, <2>19, Zenon DEF rows
<1> QED
  BY <1>1, ReportInvariant, PTL
=============================================================================
