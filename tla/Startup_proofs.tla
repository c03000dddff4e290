--------------------------- MODULE Startup_proofs ---------------------------
(***************************************************************************)
(* Proofs about the start of an execution.  Startup: for all configuration *)
(* files, all options in any order and number, and any path of the output  *)
(* directory.  Instances, at the end: for any number of processes over one *)
(* output directory.  Init, Next, Spec and vars are those of Instances.    *)
(***************************************************************************)
EXTENDS Startup, Instances, TLAPS

AnyToken == Token["pid"] \cup Token["comm"]

AnyBuffer == {NULL} \cup {Buffer(type, n) : type \in FilterType, n \in Nat}

List == [buffer : AnyBuffer, items : Seq(AnyToken), capacity : Nat]

(* A list of the filter: its buffer is the one of its capacity, and its    *)
(* items fit in.                                                           *)
WellFormed(type, list) ==
  /\ list \in List
  /\ list.buffer = IF list.capacity = 0 THEN NULL ELSE Buffer(type, list.capacity)
  /\ Len(list.items) <= list.capacity

NoRepeats(list) ==
  \A i, j \in DOMAIN list.items : i # j => list.items[i] # list.items[j]

ArgsType ==
  /\ gArguments \in [interval_ms : Nat, count : Nat, delete_old_files : BOOLEAN,
                     requested : [Metric -> Nat], whitelist : [FilterType -> List]]
  /\ boIntervalProvided \in BOOLEAN /\ boCountProvided \in BOOLEAN
  /\ bad_free \in BOOLEAN /\ wrapped \in BOOLEAN
  /\ asked \in [FilterType -> SUBSET AnyToken]

(* The heap holds what the lists refer to, no more and no less.            *)
HeapInv ==
  /\ ~bad_free
  /\ heap = Blocks(gArguments.whitelist)
  /\ \A type \in FilterType : WellFormed(type, gArguments.whitelist[type])
  /\ args_pc = "freed" => gArguments.whitelist = [type \in FilterType |-> EmptyList]

FilterInv ==
  /\ args_pc \in {"idle", "options", "ok"} =>
       \A type \in FilterType :
         /\ Listed(gArguments.whitelist[type]) = asked[type]
         /\ NoRepeats(gArguments.whitelist[type])
  /\ args_pc = "idle" => asked = [type \in FilterType |-> {}]

IntervalInv ==
  /\ boIntervalProvided /\ ~wrapped => gArguments.interval_ms > 0
  /\ boCountProvided => gArguments.count > 0
  /\ args_pc = "ok" => boIntervalProvided /\ boCountProvided

ArgsInv == ArgsType /\ HeapInv /\ FilterInv /\ IntervalInv
-----------------------------------------------------------------------------
(* What Blocks collects, spelled out.                                      *)
LEMMA BlocksPair ==
  ASSUME NEW w
  PROVE  Blocks(w) = ({w["pid"].buffer, w["comm"].buffer} \ {NULL})
                       \cup {NameCopy(token) : token \in Listed(w["comm"])}
BY Zenon DEF Blocks, FilterType

(* Blocks of different kinds are different, and none is NULL.              *)
LEMMA BlocksDiffer ==
  ASSUME NEW type, NEW other, NEW n, NEW k, NEW token
  PROVE  /\ Buffer(type, n) # NULL /\ NameCopy(token) # NULL
         /\ Buffer(type, n) # NameCopy(token)
         /\ type # other \/ n # k => Buffer(type, n) # Buffer(other, k)
BY Zenon DEF Buffer, NameCopy, NULL

(* An empty list is well formed and refers to nothing.                     *)
LEMMA EmptyOk ==
  /\ \A type \in FilterType : WellFormed(type, EmptyList)
  /\ Listed(EmptyList) = {} /\ NoRepeats(EmptyList)
  /\ Blocks([type \in FilterType |-> EmptyList]) = {}
<1>1. EmptyList \in List
  BY DEF EmptyList, List, AnyBuffer
<1>2. \A type \in FilterType : WellFormed(type, EmptyList)
  BY <1>1 DEF EmptyList, WellFormed
<1>3. Listed(EmptyList) = {} /\ NoRepeats(EmptyList)
  BY DEF EmptyList, Listed, NoRepeats
<1>4. Blocks([type \in FilterType |-> EmptyList]) = {}
  BY <1>3, BlocksPair, Zenon DEF EmptyList, FilterType
<1> QED
  BY <1>2, <1>3, <1>4, Zenon

(* The reallocation makes room for an item and keeps the others.           *)
LEMMA GrownOk ==
  ASSUME NEW type \in FilterType, NEW list, WellFormed(type, list)
  PROVE  /\ WellFormed(type, Grown(type, list))
         /\ Grown(type, list).items = list.items
         /\ Len(list.items) < Grown(type, list).capacity
<1> USE CapacityAssumption DEF WellFormed, Grown, List
<1>1. CASE ~Full(list)
  BY <1>1 DEF Full
<1>2. CASE Full(list)
  <2>1. NewCapacity(list) \in Nat \ {0} /\ Len(list.items) < NewCapacity(list)
    BY <1>2 DEF Full, NewCapacity
  <2>2. Buffer(type, NewCapacity(list)) \in AnyBuffer
    BY <2>1 DEF AnyBuffer
  <2>3. /\ Grown(type, list).buffer = Buffer(type, NewCapacity(list))
        /\ Grown(type, list).capacity = NewCapacity(list)
        /\ Grown(type, list).items = list.items
    BY <1>2, Zenon
  <2>4. Grown(type, list) \in List
    BY <1>2, <2>1, <2>2, Zenon
  <2> HIDE DEF Grown, List
  <2> QED
    BY <2>1, <2>3, <2>4
<1> QED
  BY <1>1, <1>2, Zenon

(* An item is put behind the others.                                       *)
LEMMA AppendedOk ==
  ASSUME NEW type \in FilterType, NEW list, WellFormed(type, list),
         Len(list.items) < list.capacity, NEW token \in AnyToken
  PROVE  /\ WellFormed(type, Appended(list, token))
         /\ Appended(list, token).buffer = list.buffer
         /\ Listed(Appended(list, token)) = Listed(list) \cup {token}
         /\ NoRepeats(list) /\ token \notin Listed(list)
              => NoRepeats(Appended(list, token))
<1> DEFINE s == list.items
           t == Append(s, token)
<1>1. /\ s \in Seq(AnyToken) /\ Len(s) \in Nat /\ t \in Seq(AnyToken)
      /\ Len(t) = Len(s) + 1
      /\ DOMAIN s = 1..Len(s) /\ DOMAIN t = 1..(Len(s) + 1)
      /\ t[Len(s) + 1] = token
      /\ \A i \in 1..Len(s) : t[i] = s[i]
  BY DEF WellFormed, List
<1>2. /\ Appended(list, token).items = t
      /\ Appended(list, token).buffer = list.buffer
      /\ Appended(list, token).capacity = list.capacity
      /\ Appended(list, token) \in List
  <2>1. /\ Appended(list, token).items = t
        /\ Appended(list, token).buffer = list.buffer
        /\ Appended(list, token).capacity = list.capacity
    BY Zenon DEF Appended, WellFormed, List
  <2>2. Appended(list, token) \in List
    BY <1>1, Zenon DEF Appended, WellFormed, List
  <2> QED
    BY <2>1, <2>2, Zenon
<1>3. WellFormed(type, Appended(list, token))
  BY <1>1, <1>2 DEF WellFormed, List
<1> HIDE DEF t, s
<1>4. Listed(Appended(list, token)) = {t[i] : i \in 1..(Len(s) + 1)}
  BY <1>1, <1>2, Zenon DEF Listed
<1>5. Listed(list) = {s[i] : i \in 1..Len(s)}
  BY <1>1, Zenon DEF Listed, s
<1>6. Listed(Appended(list, token)) = Listed(list) \cup {token}
  BY <1>1, <1>4, <1>5
<1>7. ASSUME NoRepeats(list), token \notin Listed(list)
      PROVE  NoRepeats(Appended(list, token))
  <2>1. \A i, j \in 1..Len(s) : i # j => s[i] # s[j]
    BY <1>1, <1>7, ZenonT(60) DEF NoRepeats, s
  <2>2. \A i \in 1..Len(s) : s[i] # token
    BY <1>5, <1>7, Zenon
  <2>3. \A i, j \in 1..(Len(s) + 1) : i # j => t[i] # t[j]
    BY <1>1, <2>1, <2>2
  <2> QED
    BY <1>1, <1>2, <2>3 DEF NoRepeats
<1> QED
  BY <1>2, <1>3, <1>6, <1>7, Zenon

(* After the reallocation the heap is again what the lists refer to.       *)
LEMMA HeapGrownOk ==
  ASSUME ArgsType, HeapInv, NEW type \in FilterType
  PROVE  LET list == gArguments.whitelist[type]
         IN HeapGrown(type, list) =
              Blocks([gArguments.whitelist EXCEPT ![type] = Grown(type, list)])
<1> DEFINE w == gArguments.whitelist
           list == w[type]
           v == [w EXCEPT ![type] = Grown(type, list)]
<1>1. /\ w \in [FilterType -> List] /\ heap = Blocks(w)
      /\ \A u \in FilterType : WellFormed(u, w[u])
  BY Zenon DEF ArgsType, HeapInv
<1>2. v[type] = Grown(type, list) /\ \A u \in FilterType \ {type} : v[u] = w[u]
  BY <1>1, Zenon
<1>3. /\ WellFormed(type, v[type]) /\ v[type].items = list.items
      /\ list.buffer # NULL => list.buffer = Buffer(type, list.capacity)
  BY <1>1, <1>2, GrownOk DEF WellFormed
<1>4. Listed(v["comm"]) = Listed(w["comm"])
  BY <1>2, <1>3 DEF Listed, FilterType
<1>5. CASE ~Full(list)
  <2>1. v[type] = list
    BY <1>2, <1>5, Zenon DEF Grown
  <2>2. Blocks(v) = Blocks(w)
    BY <1>2, <2>1, <1>4, BlocksPair, Zenon DEF FilterType
  <2> QED
    BY <1>1, <1>5, <2>2, Zenon DEF HeapGrown
<1>6. CASE Full(list)
  <2>1. v[type].buffer = Buffer(type, v[type].capacity) /\ v[type].buffer # NULL
    <3>1. Len(list.items) < v[type].capacity /\ Len(list.items) \in Nat
      BY <1>1, <1>2, GrownOk DEF WellFormed, List
    <3>2. v[type].capacity \in Nat \ {0}
      BY <1>3, <3>1 DEF WellFormed, List
    <3>3. v[type].buffer = Buffer(type, v[type].capacity)
      BY <1>3, <3>2, Zenon DEF WellFormed
    <3> QED
      BY <3>3, BlocksDiffer, Zenon
  <2>2. HeapGrown(type, list) = (heap \ {list.buffer}) \cup {v[type].buffer}
    BY <1>2, <1>6, Zenon DEF HeapGrown
  <2>3. PICK other \in FilterType : other # type /\ FilterType = {type, other}
    BY Zenon DEF FilterType
  <2>4. /\ v[other].buffer = w[other].buffer
        /\ w[other].buffer = NULL \/ w[other].buffer # list.buffer
    BY <1>1, <1>2, <2>3, BlocksDiffer DEF WellFormed
  <2>5. \A token : NameCopy(token) # list.buffer \/ list.buffer = NULL
    BY <1>3, BlocksDiffer, Zenon
  <2>6. \A token : NameCopy(token) # NULL
    BY BlocksDiffer, Zenon
  <2>7. heap = ({list.buffer, w[other].buffer} \ {NULL})
                 \cup {NameCopy(token) : token \in Listed(w["comm"])}
    BY <1>1, <2>3, BlocksPair, Zenon DEF FilterType
  <2>8. Blocks(v) = ({v[type].buffer, v[other].buffer} \ {NULL})
                      \cup {NameCopy(token) : token \in Listed(w["comm"])}
    BY <1>4, <2>3, BlocksPair, Zenon DEF FilterType
  <2> DEFINE names == {NameCopy(token) : token \in Listed(w["comm"])}
             b == list.buffer
             o == w[other].buffer
             n == v[type].buffer
  <2>9. NULL \notin names /\ (b = NULL \/ b \notin names)
    BY <2>5, <2>6, Zenon
  <2>10. HeapGrown(type, list) = ((({b, o} \ {NULL}) \cup names) \ {b}) \cup {n}
    BY <2>2, <2>7, Zenon
  <2>11. Blocks(v) = ({n, o} \ {NULL}) \cup names
    BY <2>4, <2>8, Zenon
  <2>12. n # NULL /\ (o = NULL \/ o # b)
    BY <2>1, <2>4, Zenon
  <2>13. ((({b, o} \ {NULL}) \cup names) \ {b}) \cup {n} = ({n, o} \ {NULL}) \cup names
    <3> HIDE DEF names, b, o, n
    <3> QED
      BY <2>9, <2>12, Zenon
  <2> HIDE DEF names, b, o, n, v, w, list
  <2> QED
    BY <2>10, <2>11, <2>13, Zenon DEF v, w, list
<1> QED
  BY <1>5, <1>6, Zenon

(* ap_free_arguments leaves an empty heap and empty lists, and frees only  *)
(* what is there.                                                          *)
LEMMA FreeOk ==
  ASSUME ArgsType, HeapInv, FreeArguments
  PROVE  /\ heap' = {} /\ bad_free' = FALSE
         /\ gArguments' = [gArguments EXCEPT !.whitelist =
                             [type \in FilterType |-> EmptyList]]
<1>1. heap = Blocks(gArguments.whitelist) /\ ~bad_free /\ bad_free \in BOOLEAN
  BY Zenon DEF HeapInv, ArgsType
<1>2. heap' = {}
  BY <1>1, Zenon DEF FreeArguments
<1>3. bad_free' = FALSE
  BY <1>1, Zenon DEF FreeArguments
<1> QED
  BY <1>2, <1>3, Zenon DEF FreeArguments, Cleared

(* Whatever ends the parser early or the program, and the start of the     *)
(* parser, keep ArgsInv: they free the arguments.                          *)
LEMMA FreeKeepsInv ==
  ASSUME ArgsInv, FreeArguments, args_pc' \notin {"idle", "ok"},
         args_pc' = "options" => args_pc = "idle",
         UNCHANGED <<boIntervalProvided, boCountProvided, wrapped, asked>>
  PROVE  ArgsInv'
<1>1. /\ heap' = {} /\ bad_free' = FALSE
      /\ gArguments' = [gArguments EXCEPT !.whitelist =
                          [type \in FilterType |-> EmptyList]]
  BY FreeOk, Zenon DEF ArgsInv
<1>2. [type \in FilterType |-> EmptyList] \in [FilterType -> List]
  BY EmptyOk, Zenon DEF WellFormed
<1>3. /\ gArguments'.whitelist = [type \in FilterType |-> EmptyList]
      /\ gArguments'.interval_ms = gArguments.interval_ms
      /\ gArguments'.count = gArguments.count
  BY <1>1, Zenon DEF ArgsInv, ArgsType
<1>4. ArgsType'
  BY <1>1, <1>2, Zenon DEF ArgsInv, ArgsType
<1>5. HeapInv'
  BY <1>1, <1>3, EmptyOk, Zenon DEF HeapInv
<1>6. FilterInv'
  BY <1>3, EmptyOk, Zenon DEF ArgsInv, FilterInv
<1>7. IntervalInv'
  BY <1>3, Zenon DEF ArgsInv, IntervalInv
<1> QED
  BY <1>4, <1>5, <1>6, <1>7, Zenon DEF ArgsInv

(* A change of anything but the lists keeps what ArgsInv says of them.     *)
LEMMA ListsKept ==
  ASSUME HeapInv, FilterInv, UNCHANGED <<heap, bad_free, asked>>,
         gArguments'.whitelist = gArguments.whitelist,
         args_pc' = args_pc \/ (args_pc = "options" /\ args_pc' = "ok")
  PROVE  HeapInv' /\ FilterInv'
BY Zenon DEF HeapInv, FilterInv

(* -i, where the number of milliseconds is taken modulo the word.          *)
LEMMA IntervalOption ==
  ASSUME ArgsInv, NEW d \in Durations \cup {Bad}, OptInterval(d)
  PROVE  ArgsInv'
<1>1. CASE ~DurationOk(d)
  <2>1. FreeArguments /\ args_pc' = "error"
        /\ UNCHANGED <<boIntervalProvided, boCountProvided, wrapped, asked>>
    BY <1>1, Zenon DEF OptInterval, Fail
  <2> QED
    BY <2>1, FreeKeepsInv, Zenon
<1>2. CASE DurationOk(d)
  <2>1. /\ gArguments' = [gArguments EXCEPT !.interval_ms = Exact(d) % Word]
        /\ wrapped' = ~(Exact(d) < Word) /\ boIntervalProvided' = TRUE
        /\ UNCHANGED <<args_pc, heap, bad_free, boCountProvided, asked>>
    BY <1>2, Zenon DEF OptInterval
  <2>2. Exact(d) \in Nat /\ Exact(d) > 0
    <3>1. d.value \in Int /\ d.value > 0 /\ d.unit \in {"ms", "s", "m"}
      BY <1>2, DurationAssumption, Zenon DEF DurationOk, Millis
    <3> QED
      BY <3>1 DEF Exact, Millis
  <2>3. Exact(d) % Word \in Nat /\ (Exact(d) < Word => Exact(d) % Word = Exact(d))
    BY <2>2, WordAssumption
  <2>4. /\ gArguments'.whitelist = gArguments.whitelist
        /\ gArguments'.interval_ms = Exact(d) % Word
        /\ gArguments'.count = gArguments.count
    BY <2>1, Zenon DEF ArgsInv, ArgsType
  <2>5. wrapped' \in BOOLEAN
    BY <2>1, Zenon
  <2>6. ArgsType'
    BY <2>1, <2>3, <2>5, Zenon DEF ArgsInv, ArgsType
  <2>7. HeapInv' /\ FilterInv'
    BY <2>1, <2>4, ListsKept, Zenon DEF ArgsInv
  <2>8. ~wrapped' => Exact(d) < Word
    BY <2>1, Zenon
  <2>9. IntervalInv'
    BY <2>1, <2>2, <2>3, <2>4, <2>8, Zenon DEF ArgsInv, IntervalInv
  <2> QED
    BY <2>6, <2>7, <2>9, Zenon DEF ArgsInv
<1> QED
  BY <1>1, <1>2, Zenon

(* -n, the options for the metrics and -j.                                 *)
LEMMA PlainOption ==
  ASSUME ArgsInv,
         \/ \E n \in Counts \cup {Bad} : OptCount(n)
         \/ \E m \in Metric, n \in Counts \cup {Bad} : OptMetric(m, n)
         \/ OptDeleteOldFiles \/ OptStop
  PROVE  ArgsInv'
<1>1. CASE OptCount(Bad) \/ (\E m \in Metric : OptMetric(m, Bad)) \/ OptStop
  <2>1. FreeArguments /\ args_pc' = "error"
        /\ UNCHANGED <<boIntervalProvided, boCountProvided, wrapped, asked>>
    BY <1>1, Zenon DEF OptCount, OptMetric, OptStop, Fail
  <2> QED
    BY <2>1, FreeKeepsInv, Zenon
<1>2. ASSUME NEW n \in Counts, n # Bad, OptCount(n)
      PROVE  ArgsInv'
  <2>1. /\ gArguments' = [gArguments EXCEPT !.count = n] /\ boCountProvided' = TRUE
        /\ UNCHANGED <<args_pc, heap, bad_free, boIntervalProvided, wrapped, asked>>
    BY <1>2, Zenon DEF OptCount
  <2>2. n \in Nat /\ n > 0
    BY CountsAssumption
  <2>3. /\ gArguments'.whitelist = gArguments.whitelist
        /\ gArguments'.interval_ms = gArguments.interval_ms
        /\ gArguments'.count = n
    BY <2>1, Zenon DEF ArgsInv, ArgsType
  <2>4. ArgsType'
    BY <2>1, <2>2, Zenon DEF ArgsInv, ArgsType
  <2>5. HeapInv' /\ FilterInv'
    BY <2>1, <2>3, ListsKept, Zenon DEF ArgsInv
  <2>6. IntervalInv'
    BY <2>1, <2>2, <2>3, Zenon DEF ArgsInv, IntervalInv
  <2> QED
    BY <2>4, <2>5, <2>6, Zenon DEF ArgsInv
<1>3. ASSUME NEW m \in Metric, NEW n \in Counts, n # Bad, OptMetric(m, n)
      PROVE  ArgsInv'
  <2> DEFINE r == [gArguments.requested EXCEPT ![m] = n]
  <2>1. /\ gArguments' = [gArguments EXCEPT !.requested = r]
        /\ UNCHANGED <<args_pc, heap, bad_free, boIntervalProvided,
                       boCountProvided, wrapped, asked>>
    BY <1>3, Zenon DEF OptMetric
  <2>2. r \in [Metric -> Nat]
    BY CountsAssumption, Zenon DEF ArgsInv, ArgsType
  <2> HIDE DEF r
  <2>3. /\ gArguments'.whitelist = gArguments.whitelist
        /\ gArguments'.interval_ms = gArguments.interval_ms
        /\ gArguments'.count = gArguments.count
    BY <2>1, Zenon DEF ArgsInv, ArgsType
  <2>4. ArgsType'
    BY <2>1, <2>2, Zenon DEF ArgsInv, ArgsType
  <2>5. HeapInv' /\ FilterInv'
    BY <2>1, <2>3, ListsKept, Zenon DEF ArgsInv
  <2>6. IntervalInv'
    BY <2>1, <2>3, Zenon DEF ArgsInv, IntervalInv
  <2> QED
    BY <2>4, <2>5, <2>6, Zenon DEF ArgsInv
<1>4. CASE OptDeleteOldFiles
  <2>1. /\ gArguments' = [gArguments EXCEPT !.delete_old_files = TRUE]
        /\ UNCHANGED <<args_pc, heap, bad_free, boIntervalProvided,
                       boCountProvided, wrapped, asked>>
    BY <1>4, Zenon DEF OptDeleteOldFiles
  <2>2. /\ gArguments'.whitelist = gArguments.whitelist
        /\ gArguments'.interval_ms = gArguments.interval_ms
        /\ gArguments'.count = gArguments.count
    BY <2>1, Zenon DEF ArgsInv, ArgsType
  <2>3. ArgsType'
    BY <2>1, Zenon DEF ArgsInv, ArgsType
  <2>4. HeapInv' /\ FilterInv'
    BY <2>1, <2>2, ListsKept, Zenon DEF ArgsInv
  <2>5. IntervalInv'
    BY <2>1, <2>2, Zenon DEF ArgsInv, IntervalInv
  <2> QED
    BY <2>3, <2>4, <2>5, Zenon DEF ArgsInv
<1> QED
  <2>1. \A n : OptCount(n) /\ n = Bad => OptCount(Bad)
    BY Zenon
  <2>2. \A m, n : OptMetric(m, n) /\ n = Bad => OptMetric(m, Bad)
    BY Zenon
  <2> QED
    BY <1>1, <1>2, <1>3, <1>4, <2>1, <2>2, Zenon

(* One token of a filter, put into its list.                               *)
LEMMA FilterOption ==
  ASSUME ArgsInv, NEW type \in FilterType, NEW token \in Token[type],
         OptFilter(type, token)
  PROVE  ArgsInv'
<1> DEFINE w == gArguments.whitelist
           list == w[type]
           g == Grown(type, list)
           a == Appended(g, token)
           v == [w EXCEPT ![type] = a]
<1>1. /\ args_pc = "options" /\ asked' = [asked EXCEPT ![type] = @ \cup {token}]
      /\ UNCHANGED <<args_pc, boIntervalProvided, boCountProvided, bad_free, wrapped>>
  BY Zenon DEF OptFilter
<1>2. /\ w \in [FilterType -> List] /\ \A u \in FilterType : WellFormed(u, w[u])
      /\ \A u \in FilterType : Listed(w[u]) = asked[u] /\ NoRepeats(w[u])
      /\ asked \in [FilterType -> SUBSET AnyToken] /\ token \in AnyToken
  BY <1>1, Zenon DEF ArgsInv, ArgsType, HeapInv, FilterInv, AnyToken, FilterType
<1>3. asked' \in [FilterType -> SUBSET AnyToken]
  BY <1>1, <1>2, Zenon
<1>4. CASE Duplicate(list, token)
  <2>1. UNCHANGED <<gArguments, heap>>
    BY <1>4, Zenon DEF OptFilter
  <2>2. asked' = asked
    BY <1>1, <1>2, <1>4, Zenon DEF Duplicate
  <2> QED
    BY <1>1, <2>1, <2>2, ZenonT(60)
       DEF ArgsInv, ArgsType, HeapInv, FilterInv, IntervalInv
<1>5. CASE ~Duplicate(list, token)
  <2>1. /\ gArguments' = [gArguments EXCEPT !.whitelist = v]
        /\ heap' = HeapGrown(type, list)
                     \cup (IF type = "comm" THEN {NameCopy(token)} ELSE {})
    BY <1>5, ZenonT(60) DEF OptFilter
  <2>2. /\ WellFormed(type, g) /\ g.items = list.items
        /\ Len(g.items) < g.capacity /\ Listed(g) = Listed(list) /\ NoRepeats(g)
    BY <1>2, GrownOk, SMTT(60) DEF Listed, NoRepeats
  <2>3. /\ WellFormed(type, a) /\ a.buffer = g.buffer
        /\ Listed(a) = Listed(list) \cup {token} /\ NoRepeats(a)
    BY <1>2, <1>5, <2>2, AppendedOk DEF Duplicate
  <2>4. HeapGrown(type, list) = Blocks([w EXCEPT ![type] = g])
    BY HeapGrownOk, ZenonT(60) DEF ArgsInv
  <2>5. /\ v \in [FilterType -> List] /\ v[type] = a
        /\ \A u \in FilterType \ {type} : v[u] = w[u]
    BY <1>2, <2>3, Zenon DEF WellFormed
  <2> HIDE DEF v, a, g
  <2>6. heap' = Blocks(v)
    <3> DEFINE z == [w EXCEPT ![type] = g]
    <3>1. z[type] = g /\ \A u \in FilterType \ {type} : z[u] = w[u]
      BY <1>2, Zenon
    <3>2. {z["pid"].buffer, z["comm"].buffer} = {v["pid"].buffer, v["comm"].buffer}
      BY <2>3, <2>5, <3>1, Zenon DEF FilterType
    <3>3. CASE type = "comm"
      <4>1. Listed(v["comm"]) = Listed(z["comm"]) \cup {token}
        BY <2>2, <2>3, <2>5, <3>1, <3>3, Zenon
      <4>2. {NameCopy(t) : t \in Listed(v["comm"])} =
              {NameCopy(t) : t \in Listed(z["comm"])} \cup {NameCopy(token)}
        BY <4>1, Zenon
      <4> HIDE DEF z
      <4> QED
        BY <2>1, <2>4, <3>2, <3>3, <4>2, BlocksPair, Zenon DEF z
    <3>4. CASE type = "pid"
      <4>1. v["comm"] = z["comm"]
        BY <2>5, <3>1, <3>4, Zenon DEF FilterType
      <4> HIDE DEF z
      <4> QED
        BY <2>1, <2>4, <3>2, <3>4, <4>1, BlocksPair, ZenonT(60) DEF z
    <3> QED
      BY <3>3, <3>4, Zenon DEF FilterType
  <2>7. /\ gArguments'.whitelist = v
        /\ gArguments'.interval_ms = gArguments.interval_ms
        /\ gArguments'.count = gArguments.count
    BY <2>1, Zenon DEF ArgsInv, ArgsType
  <2>8. ArgsType'
    BY <1>1, <1>3, <2>1, <2>5, Zenon DEF ArgsInv, ArgsType
  <2>9. HeapInv'
    <3>1. \A u \in FilterType : WellFormed(u, v[u])
      BY <1>2, <2>3, <2>5, Zenon
    <3> QED
      BY <1>1, <2>6, <2>7, <3>1, Zenon DEF ArgsInv, HeapInv
  <2>10. FilterInv'
    <3>1. \A u \in FilterType : Listed(v[u]) = asked'[u] /\ NoRepeats(v[u])
      BY <1>1, <1>2, <2>3, <2>5, Zenon
    <3> QED
      BY <1>1, <2>7, <3>1, Zenon DEF FilterInv
  <2>11. IntervalInv'
    BY <1>1, <2>7, Zenon DEF ArgsInv, IntervalInv
  <2> QED
    BY <2>8, <2>9, <2>10, <2>11, Zenon DEF ArgsInv
<1> QED
  BY <1>4, <1>5, Zenon

(* The allocation of a copy fails: the list, perhaps enlarged just before, *)
(* is freed with everything else.                                          *)
LEMMA CopyFails ==
  ASSUME ArgsInv, NEW token, NoNameCopy(token)
  PROVE  ArgsInv'
<1> DEFINE grown == HeapGrown("comm", gArguments.whitelist["comm"])
           whitelist == [gArguments.whitelist EXCEPT
                           !["comm"] = Grown("comm", gArguments.whitelist["comm"])]
<1>1. grown = Blocks(whitelist)
  BY HeapGrownOk, Zenon DEF ArgsInv, FilterType
<1>2. /\ args_pc' = "error"
      /\ UNCHANGED <<boIntervalProvided, boCountProvided, wrapped, asked>>
      /\ gArguments' = [gArguments EXCEPT !.whitelist =
                          [type \in FilterType |-> EmptyList]]
  BY Zenon DEF NoNameCopy, Cleared
<1>3. heap' = {}
  BY <1>1, Zenon DEF NoNameCopy
<1>4. bad_free' = FALSE
  <2>1. ~bad_free /\ bad_free \in BOOLEAN
    BY Zenon DEF ArgsInv, HeapInv, ArgsType
  <2> QED
    BY <1>1, <2>1, Zenon DEF NoNameCopy
<1>5. [type \in FilterType |-> EmptyList] \in [FilterType -> List]
  BY EmptyOk, Zenon DEF WellFormed
<1>6. /\ gArguments'.whitelist = [type \in FilterType |-> EmptyList]
      /\ gArguments'.interval_ms = gArguments.interval_ms
      /\ gArguments'.count = gArguments.count
  BY <1>2, Zenon DEF ArgsInv, ArgsType
<1>7. ArgsType'
  BY <1>2, <1>4, <1>5, Zenon DEF ArgsInv, ArgsType
<1>8. HeapInv' /\ FilterInv'
  BY <1>2, <1>3, <1>4, <1>6, EmptyOk, Zenon DEF HeapInv, FilterInv
<1>9. IntervalInv'
  BY <1>2, <1>6, Zenon DEF ArgsInv, IntervalInv
<1> QED
  BY <1>7, <1>8, <1>9, Zenon DEF ArgsInv

(* Before main runs nothing is allocated and nothing has been parsed.      *)
LEMMA InitArgsInv == StartupInit => ArgsInv
<1> SUFFICES ASSUME ArgsInit PROVE ArgsInv
  BY Zenon DEF StartupInit
<1>1. [type \in FilterType |-> EmptyList] \in [FilterType -> List]
  BY EmptyOk, Zenon DEF WellFormed
<1>2. ArgsType
  BY <1>1, Zenon DEF ArgsInit, ArgsType
<1>3. HeapInv
  BY EmptyOk, Zenon DEF ArgsInit, HeapInv
<1>4. FilterInv
  BY EmptyOk, Zenon DEF ArgsInit, FilterInv
<1>5. IntervalInv
  BY Zenon DEF ArgsInit, IntervalInv
<1> QED
  BY <1>2, <1>3, <1>4, <1>5, Zenon DEF ArgsInv

(* Every option and every call of ap_free_arguments preserves the          *)
(* invariant.                                                              *)
LEMMA StepArgsInv == ArgsInv /\ [StartupNext]_startupVars => ArgsInv'
<1> SUFFICES ASSUME ArgsInv, [StartupNext]_startupVars PROVE ArgsInv'
  BY Zenon
<1>1. CASE UNCHANGED argsVars
  BY <1>1, Zenon DEF argsVars, ArgsInv, ArgsType, HeapInv, FilterInv, IntervalInv
<1>2. CASE ParseBegin
  BY <1>2, FreeKeepsInv, Zenon DEF ParseBegin
<1>3. CASE MainFrees
  BY <1>3, FreeKeepsInv, ZenonT(60) DEF MainFrees
<1>4. CASE Option
  <2>1. ASSUME NEW type \in FilterType, NEW token \in Token[type] \cup {Bad},
               OptFilter(type, token)
        PROVE  ArgsInv'
    <3>1. token \in Token[type]
      BY <2>1, Zenon DEF OptFilter
    <3> QED
      BY <2>1, <3>1, FilterOption, Zenon
  <2>2. ASSUME NEW type, NEW token, OptFilterFails(type, token)
        PROVE  ArgsInv'
    <3>1. FreeArguments /\ args_pc' = "error"
          /\ UNCHANGED <<boIntervalProvided, boCountProvided, wrapped, asked>>
      BY <2>2, Zenon DEF OptFilterFails, Fail
    <3> QED
      BY <3>1, FreeKeepsInv, Zenon
  <2> QED
    BY <1>4, <2>1, <2>2, IntervalOption, PlainOption, CopyFails, ZenonT(60) DEF Option
<1>5. CASE ParseEnd(configuration)
  <2>1. CASE boIntervalProvided /\ boCountProvided
    <3>1. /\ args_pc = "options" /\ args_pc' = "ok"
          /\ UNCHANGED <<gArguments, heap, bad_free, boIntervalProvided,
                         boCountProvided, wrapped, asked>>
      BY <1>5, <2>1, Zenon DEF ParseEnd
    <3>2. HeapInv' /\ FilterInv'
      BY <3>1, ListsKept, Zenon DEF ArgsInv
    <3> QED
      BY <2>1, <3>1, <3>2, Zenon DEF ArgsInv, ArgsType, IntervalInv
  <2>2. CASE ~(boIntervalProvided /\ boCountProvided)
    <3>1. FreeArguments /\ args_pc' = "error"
          /\ UNCHANGED <<boIntervalProvided, boCountProvided, wrapped, asked>>
      BY <1>5, <2>2, Zenon DEF ParseEnd, Fail
    <3> QED
      BY <3>1, FreeKeepsInv, Zenon
  <2> QED
    BY <2>1, <2>2, Zenon
<1>6. UNCHANGED argsVars \/ ParseBegin \/ Option \/ ParseEnd(configuration) \/ MainFrees
  BY Zenon DEF StartupNext, startupVars, InitConfig, CallParser, ParseOptions,
         Return, Returned
<1> QED
  BY <1>1, <1>2, <1>3, <1>4, <1>5, <1>6, Zenon

(* For every command line and every failing allocation: what args_parser.c *)
(* holds of the options is consistent after every one of them.             *)
THEOREM ArgumentsInvariant == StartupSpec => []ArgsInv
BY InitArgsInv, StepArgsInv, PTL DEF StartupSpec

(* No order of options, no early return and no failing allocation makes    *)
(* ap_free_arguments free a block twice, lets a list overrun its buffer or *)
(* leaves anything allocated at the end.                                   *)
THEOREM HeapIsSafe == StartupSpec => []MemorySafe
<1>1. ArgsInv => MemorySafe
  <2> SUFFICES ASSUME ArgsInv PROVE MemorySafe
    BY Zenon
  <2>1. ~bad_free /\ Blocks(gArguments.whitelist) \subseteq heap
    BY Zenon DEF ArgsInv, HeapInv
  <2>2. \A type \in FilterType : Len(gArguments.whitelist[type].items)
                                   <= gArguments.whitelist[type].capacity
    BY Zenon DEF ArgsInv, HeapInv, WellFormed
  <2>3. args_pc = "freed" => heap = {}
    BY EmptyOk, Zenon DEF ArgsInv, HeapInv
  <2> QED
    BY <2>1, <2>2, <2>3, Zenon DEF MemorySafe
<1> QED
  BY <1>1, ArgumentsInvariant, PTL

(* The accepted filter lists exactly what was asked for, each once.        *)
THEOREM FilterIsComplete == StartupSpec => []FilterComplete
<1>1. ArgsInv => FilterComplete
  BY Zenon DEF ArgsInv, FilterInv, NoRepeats, FilterComplete
<1> QED
  BY <1>1, ArgumentsInvariant, PTL

(* The accepted interval and count are positive.                           *)
THEOREM TimerIsArmed == StartupSpec => []TimerArmed
<1>1. ArgsInv => TimerArmed
  BY Zenon DEF ArgsInv, IntervalInv, TimerArmed
<1> QED
  BY <1>1, ArgumentsInvariant, PTL
-----------------------------------------------------------------------------
(* mkdir_p never falls behind what exists: without a file in the way the   *)
(* level it is about to create exists already or has an existing parent.   *)
PathInv ==
  /\ made \in 0..Depth /\ level \in Nat /\ in_the_way \in Nat
  /\ config_pc \in {"start", "read"} => level = 0
  /\ config_pc = "mkdir" => level \in 1..Depth
  /\ config_pc = "mkdir" /\ in_the_way = 0 => level <= made + 1
  /\ config_pc = "access" /\ in_the_way = 0 => made = Depth
  /\ config_pc \in {"validate", "success"} => made = Depth

AtFault(c) == c["output_dir"] = "" \/ ~Usable(c)

ReasonInv ==
  config_pc = "error" /\ level > 0 /\ ~refused /\ in_the_way = 0 =>
    AtFault(configuration)

ConfigInv == PathInv /\ ReasonInv

(* Before the file is read there is no path and no error.                  *)
LEMMA InitConfigInv == StartupInit => ConfigInv
<1> SUFFICES ASSUME ConfigInit PROVE ConfigInv
  BY Zenon DEF StartupInit
<1>1. made \in 0..Depth /\ in_the_way \in {0} \cup (made + 1)..Depth
  BY Zenon DEF ConfigInit
<1>2. in_the_way \in Nat
  BY <1>1, DepthAssumption
<1>3. config_pc = "start" /\ level = 0
  BY Zenon DEF ConfigInit
<1> QED
  BY <1>1, <1>2, <1>3, Zenon DEF ConfigInv, PathInv, ReasonInv

(* Every step of config_read_configuration preserves the invariant.        *)
LEMMA StepConfigInv == ConfigInv /\ [StartupNext]_startupVars => ConfigInv'
<1> SUFFICES ASSUME ConfigInv, [StartupNext]_startupVars PROVE ConfigInv'
  BY Zenon
<1>1. CASE UNCHANGED <<config_pc, configuration, level, made, in_the_way, refused>>
  BY <1>1, Zenon DEF ConfigInv, PathInv, ReasonInv
<1>2. CASE ConfigNext
  <2>1. \/ config_pc = "start" /\ config_pc' \in {"stat", "read", "error"}
           /\ UNCHANGED <<level, made, in_the_way>>
        \/ config_pc = "read" /\ config_pc' \in {"read", "stat", "error"}
           /\ UNCHANGED <<level, made, in_the_way>>
        \/ StatOutputDir \/ MakeDirectory \/ CheckAccess \/ Validate \/ OtherInstance
    BY <1>2, Zenon DEF ConfigNext, LoadDefaults, OpenConfigFile, ReadPiece, EndOfFile,
                ConfigGoto, Refuse
  <2>2. PathInv'
    <3> USE DepthAssumption DEF ConfigInv, PathInv, ConfigGoto, Refuse
    <3>1. CASE StatOutputDir
      <4>1. /\ \/ config_pc' \in {"error", "mkdir"}
               \/ config_pc' = "access" /\ made = Depth
            /\ level' = 1 /\ UNCHANGED <<made, in_the_way>>
        BY <3>1, Zenon DEF StatOutputDir
      <4> QED
        BY <4>1
    <3>2. CASE MakeDirectory
      BY <3>2 DEF MakeDirectory, MkdirNext, Tolerated
    <3>3. CASE CheckAccess
      BY <3>3, Zenon DEF CheckAccess
    <3>4. CASE Validate
      BY <3>4, Zenon DEF Validate
    <3>5. CASE OtherInstance
      BY <3>5 DEF OtherInstance
    <3> QED
      BY <2>1, <3>1, <3>2, <3>3, <3>4, <3>5, Zenon
  <2>3. ASSUME config_pc' = "error", level' > 0, in_the_way' = 0
        PROVE  refused' = TRUE \/ AtFault(configuration')
    <3> USE DepthAssumption, <2>3 DEF ConfigInv, PathInv, ConfigGoto, Refuse
    <3>1. CASE StatOutputDir
      BY <3>1, Zenon DEF StatOutputDir, AtFault
    <3>2. CASE MakeDirectory
      BY <3>2 DEF MakeDirectory, MkdirNext, Tolerated
    <3>3. CASE CheckAccess
      BY <3>3 DEF CheckAccess
    <3>4. CASE Validate
      BY <3>4, Zenon DEF Validate, AtFault
    <3>5. CASE OtherInstance
      BY <3>5, Zenon DEF OtherInstance
    <3>6. CASE config_pc \in {"start", "read"} /\ level' = level
      BY <3>6
    <3> HIDE <2>3 DEF ConfigInv, PathInv
    <3> QED
      BY <2>1, <3>1, <3>2, <3>3, <3>4, <3>5, <3>6, Zenon
  <2> QED
    BY <2>2, <2>3, Zenon DEF ConfigInv, ReasonInv
<1>3. \/ UNCHANGED <<config_pc, configuration, level, made, in_the_way, refused>>
      \/ ConfigNext
  BY Zenon DEF StartupNext, startupVars, configVars, InitConfig, CallParser,
         ParseOptions, Return, Returned
<1> QED
  BY <1>1, <1>2, <1>3, Zenon

(* The output directory of an accepted configuration is there, and another *)
(* instance that creates it meanwhile is never the reason for an error.    *)
THEOREM DirectoryIsReady == StartupSpec => []DirectoryReady
<1>1. ConfigInv => DirectoryReady
  BY Zenon DEF ConfigInv, PathInv, ReasonInv, AtFault, DirectoryReady
<1> QED
  BY <1>1, InitConfigInv, StepConfigInv, PTL DEF StartupSpec
-----------------------------------------------------------------------------
(* No line is longer than the buffer of fgets.                             *)
ShortLines == \A i \in DOMAIN file : Len(file[i]) = 1

(* The option key is what the first n lines make it: the value of the last *)
(* one of them that sets it, or zero.                                      *)
LastWord(key, n) ==
  \/ (\A i \in Mentions(key) : i > n) /\ configuration[key] = Zeroed[key]
  \/ \E i \in Mentions(key) :
       /\ i <= n /\ \A j \in Mentions(key) : j <= n => j <= i
       /\ Converted(key, file[i][1].value) # Invalid
       /\ configuration[key] = Converted(key, file[i][1].value)

LinesRead == Len(file) - Len(unread)

(* What is unread is the end of the file.                                  *)
Suffix ==
  /\ unread \in Seq({file[i] : i \in DOMAIN file}) /\ Len(unread) <= Len(file)
  /\ \A i \in 1..Len(unread) : unread[i] = file[LinesRead + i]

SettingsInv ==
  /\ file \in Files \cup {NotSet}
  /\ configuration = [key \in Key |-> configuration[key]]
  /\ config_pc = "start" => configuration = Zeroed
  /\ file # NotSet /\ ShortLines /\ config_pc \notin {"start", "error"} =>
       /\ Suffix
       /\ config_pc # "read" => unread = <<>>
       /\ \A key \in Key : LastWord(key, LinesRead)

(* What is known of a file that was found.                                 *)
LEMMA FileType ==
  ASSUME file \in Files
  PROVE  /\ file \in Seq({file[i] : i \in DOMAIN file})
         /\ Len(file) \in Nat /\ DOMAIN file = 1..Len(file)
BY FilesAssumption

(* Nothing has been read at the start.                                     *)
LEMMA InitSettingsInv == StartupInit => SettingsInv
BY Zenon DEF StartupInit, ConfigInit, SettingsInv, Zeroed

(* One iteration of parse_config_file: the line it reads has the last word *)
(* on the option it sets, and the others keep what they had.               *)
LEMMA ReadPieceOk ==
  ASSUME SettingsInv, ReadPiece
  PROVE  SettingsInv'
<1>1. /\ config_pc = "read" /\ unread # <<>> /\ file' = file
      /\ unread' = AfterPiece(unread)
  BY Zenon DEF ReadPiece
<1> DEFINE piece == Head(Head(unread))
<1>2. \/ piece.kind # "option" /\ UNCHANGED <<config_pc, configuration>>
      \/ /\ piece.kind = "option" /\ Converted(piece.key, piece.value) # Invalid
         /\ configuration' = [configuration EXCEPT ![piece.key] =
                                Converted(piece.key, piece.value)]
         /\ UNCHANGED config_pc
      \/ config_pc' = "error" /\ UNCHANGED configuration
  BY Zenon DEF ReadPiece, SetOption
<1>3. configuration' = [key \in Key |-> configuration'[key]]
  BY <1>2, Zenon DEF SettingsInv
<1>4. CASE config_pc' = "error"
  BY <1>1, <1>3, <1>4, Zenon DEF SettingsInv
<1>5. CASE file # NotSet /\ ShortLines /\ config_pc' = config_pc
  <2>0. PICK n : n = LinesRead
    BY Zenon
  <2> DEFINE line == file[n + 1]
  <2>1. Suffix /\ file \in Files /\ \A key \in Key : LastWord(key, n)
    BY <1>1, <1>5, <2>0, Zenon DEF SettingsInv
  <2>2. /\ Len(file) \in Nat /\ DOMAIN file = 1..Len(file)
        /\ unread \in Seq({file[i] : i \in DOMAIN file})
    BY <2>1, FileType, Zenon DEF Suffix
  <2>3. /\ n \in Nat /\ n + 1 \in DOMAIN file /\ Head(unread) = line
        /\ n = Len(file) - Len(unread)
    BY <1>1, <2>0, <2>1, <2>2 DEF Suffix, LinesRead
  <2>4. Len(line) = 1 /\ piece = line[1] /\ unread' = Tail(unread)
    <3>1. Len(line) = 1
      BY <1>5, <2>3, Zenon DEF ShortLines
    <3>2. line \in Seq({line[j] : j \in DOMAIN line})
      BY <2>1, <2>3, FilesAssumption, Zenon
    <3> QED
      BY <1>1, <2>3, <3>1, <3>2 DEF AfterPiece
  <2>5. Suffix' /\ LinesRead' = n + 1
    <3>1. /\ Len(unread') = Len(unread) - 1 /\ Len(unread) \in Nat
          /\ unread' \in Seq({file[i] : i \in DOMAIN file})
          /\ \A i \in 1..Len(unread') : unread'[i] = unread[i + 1]
      BY <1>1, <2>2, <2>4
    <3>2. LinesRead' = n + 1
      BY <1>1, <2>2, <2>3, <3>1 DEF LinesRead
    <3>3. ASSUME NEW i \in 1..Len(unread')
          PROVE  unread'[i] = file[n + 1 + i]
      <4>0. unread'[i] = unread[i + 1]
        BY <3>1, Zenon
      <4>1. i \in Nat /\ i + 1 \in 1..Len(unread) /\ unread'[i] = unread[i + 1]
        BY <3>1, <4>0
      <4>2. unread[i + 1] = file[n + (i + 1)]
        BY <2>0, <2>1, <4>1, Zenon DEF Suffix
      <4>3. n + (i + 1) = n + 1 + i
        BY <2>3, <4>1
      <4> QED
        BY <4>1, <4>2, <4>3, Zenon
    <3>4. Len(unread') <= Len(file')
      BY <1>1, <2>2, <2>3, <3>1
    <3>5. \A i \in 1..Len(unread') : unread'[i] = file'[LinesRead' + i]
      BY <1>1, <3>2, <3>3, Zenon
    <3> QED
      BY <1>1, <3>1, <3>2, <3>4, <3>5, Zenon DEF Suffix
  <2>6. ASSUME NEW key \in Key
        PROVE  LastWord(key, n + 1)'
    <3>1. Mentions(key)' = Mentions(key) /\ Mentions(key) \subseteq 1..Len(file)
      BY <1>1, <2>2, Zenon DEF Mentions
    <3>2. CASE piece.kind = "option" /\ piece.key = key
      <4>1. /\ configuration'[key] = Converted(key, line[1].value)
            /\ Converted(key, line[1].value) # Invalid
        BY <1>2, <1>5, <2>4, <3>2, <1>1, Zenon DEF SettingsInv
      <4>2. n + 1 \in Mentions(key)
        BY <2>3, <2>4, <3>2, Zenon DEF Mentions
      <4> QED
        BY <1>1, <2>2, <2>3, <3>1, <4>1, <4>2 DEF LastWord
    <3>3. CASE ~(piece.kind = "option" /\ piece.key = key)
      <4>1. configuration'[key] = configuration[key]
        BY <1>1, <1>2, <1>5, <3>3, Zenon DEF SettingsInv
      <4>2. n + 1 \notin Mentions(key)
        BY <2>4, <3>3, Zenon DEF Mentions
      <4>3. \A i \in Mentions(key) : i \in Nat /\ (i <= n + 1 <=> i <= n)
        BY <2>2, <2>3, <3>1, <4>2
      <4>4. LastWord(key, n)
        BY <2>1, Zenon
      <4> QED
        BY <1>1, <2>3, <3>1, <4>1, <4>3, <4>4 DEF LastWord
    <3> QED
      BY <3>2, <3>3, Zenon
  <2> QED
    BY <1>1, <1>3, <1>5, <2>5, <2>6, Zenon DEF SettingsInv
<1>6. CASE ~(file # NotSet /\ ShortLines) /\ config_pc' = config_pc
  BY <1>1, <1>3, <1>6, Zenon DEF SettingsInv, ShortLines
<1> QED
  BY <1>2, <1>4, <1>5, <1>6, SMTT(30)

(* Every step of config_init and of main keeps to the lines of the file.   *)
LEMMA StepSettingsInv ==
  SettingsInv /\ [StartupNext]_startupVars => SettingsInv'
<1> SUFFICES ASSUME SettingsInv, [StartupNext]_startupVars PROVE SettingsInv'
  BY Zenon
<1>1. CASE UNCHANGED <<config_pc, file, unread, configuration>>
  BY <1>1 DEF SettingsInv, ShortLines, Suffix, LinesRead, LastWord, Mentions
<1>2. CASE ReadPiece
  BY <1>2, ReadPieceOk, Zenon
<1>3. CASE LoadDefaults
  BY <1>3, Zenon DEF LoadDefaults, SettingsInv, config_default, ConfigGoto
<1>4. CASE OpenConfigFile
  <2>1. CASE config_pc' = "error"
    BY <1>4, <2>1, Zenon DEF OpenConfigFile, SettingsInv
  <2>2. CASE config_pc' # "error"
    <3>1. /\ config_pc = "start" /\ config_pc' = "read" /\ file # NotSet
          /\ unread' = file /\ file' = file /\ configuration' = configuration
      BY <1>4, <2>2, Zenon DEF OpenConfigFile, ConfigGoto, Refuse
    <3>2. file \in Files /\ configuration = Zeroed
      BY <3>1, Zenon DEF SettingsInv
    <3>3. Suffix' /\ LinesRead' = 0
      BY <3>1, <3>2, FileType DEF Suffix, LinesRead
    <3>4. ASSUME NEW key \in Key
          PROVE  LastWord(key, 0)'
      <4>1. Mentions(key)' \subseteq 1..Len(file)
        BY <3>1, <3>2, FileType, Zenon DEF Mentions
      <4> QED
        BY <3>1, <3>2, <4>1, FileType DEF LastWord
    <3> QED
      BY <3>1, <3>2, <3>3, <3>4, Zenon DEF SettingsInv
  <2> QED
    BY <2>1, <2>2, Zenon
<1>5. CASE /\ config_pc' \in {"stat", "mkdir", "access", "validate", "success", "error"}
           /\ config_pc \notin {"start", "error"}
           /\ config_pc = "read" => unread = <<>>
           /\ UNCHANGED <<file, unread, configuration>>
  BY <1>5 DEF SettingsInv, ShortLines, Suffix, LinesRead, LastWord, Mentions
<1>6. CASE CallParser
  BY <1>6, Zenon DEF CallParser, SettingsInv
<1>7. CASE EndOfFile \/ StatOutputDir \/ MakeDirectory \/ CheckAccess \/ Validate
  <2>1. /\ config_pc' \in {"stat", "mkdir", "access", "validate", "success", "error"}
        /\ config_pc \notin {"start", "error"}
        /\ config_pc = "read" => unread = <<>>
    BY <1>7, ZenonT(60) DEF EndOfFile, StatOutputDir, MakeDirectory, CheckAccess, Validate,
                ConfigGoto, Refuse, MkdirNext
  <2>2. UNCHANGED <<file, unread, configuration>>
    BY <1>7, Zenon DEF EndOfFile, StatOutputDir, MakeDirectory, CheckAccess, Validate
  <2> QED
    BY <1>5, <2>1, <2>2, Zenon
<1>8. CASE OtherInstance
  BY <1>1, <1>8, Zenon DEF OtherInstance
<1>9. ConfigNext \/ CallParser \/ UNCHANGED configVars
  BY Zenon DEF StartupNext, startupVars, InitConfig, ParseOptions, Return, Returned
<1> QED
  BY <1>1, <1>2, <1>3, <1>4, <1>6, <1>7, <1>8, <1>9, ZenonT(60) DEF ConfigNext, configVars

(* A size that fits in off_t is stored as it is.                           *)
LEMMA SizeExact ==
  ASSUME NEW v, v.n \in Nat \cup {Invalid},
         parse_size(v) # Invalid, ~(Product(v) >= SizeWord \div 2)
  PROVE  parse_size(v) = Product(v)
<1>1. v.n \in Nat /\ v.unit \in {"none", "k", "m", "g"}
      /\ parse_size(v) = OffT(Product(v))
  BY Zenon DEF parse_size, Factor
<1>2. KiB * KiB \in Nat /\ KiB * KiB * KiB \in Nat /\ KiB \in Nat
  BY SizeAssumption
<1>3. Factor[v.unit] \in Nat
  BY <1>1, <1>2 DEF Factor
<1>4. Product(v) \in Nat
  BY <1>1, <1>3 DEF Product
<1>5. \A n \in Nat : n < SizeWord \div 2 => n % SizeWord = n
  BY SizeAssumption
<1> QED
  BY <1>1, <1>4, <1>5, SizeAssumption DEF OffT

(* Whatever is in the file, in whatever order, and however often: each     *)
(* option of an accepted configuration is the one of the last line that    *)
(* sets it.                                                                *)
THEOREM SettingsAreTheFile == StartupSpec => []SettingsFollowFile
<1>1. SettingsInv => SettingsFollowFile
  <2> SUFFICES ASSUME SettingsInv, config_pc = "success", file # NotSet,
                      ShortLines, ~SizeWraps, NEW key \in Key, Mentions(key) # {}
               PROVE  configuration[key] = Meant(key)
    BY Zenon DEF SettingsFollowFile, FileAccepted, ShortLines
  <2>1. file \in Files /\ Suffix /\ unread = <<>> /\ LastWord(key, LinesRead)
    BY Zenon DEF SettingsInv
  <2>2. LinesRead = Len(file)
    BY <2>1, FileType DEF LinesRead
  <2>3. Mentions(key) \subseteq 1..Len(file) /\ Len(file) \in Nat
    BY <2>1, FileType, Zenon DEF Mentions
  <2>4. PICK i \in Mentions(key) :
          /\ \A j \in Mentions(key) : j <= i
          /\ Converted(key, file[i][1].value) # Invalid
          /\ configuration[key] = Converted(key, file[i][1].value)
    BY <2>1, <2>2, <2>3 DEF LastWord
  <2>5. i = CHOOSE m \in Mentions(key) : \A j \in Mentions(key) : j <= m
    BY <2>3, <2>4
  <2> DEFINE v == file[i][1].value
  <2>6. Meant(key) = IF key = "max_file_size" THEN Product(v) ELSE Converted(key, v)
    BY <2>5 DEF Meant
  <2>7. CASE key # "max_file_size"
    BY <2>4, <2>6, <2>7, Zenon
  <2>8. CASE key = "max_file_size"
    <3>1. Converted(key, v) = parse_size(v)
      BY <2>8, Zenon DEF Converted, BoolKey, RawKey
    <3>2. i \in DOMAIN file /\ file[i][1].kind = "option" /\ file[i][1].key = "max_file_size"
      BY <2>8, Zenon DEF Mentions
    <3>3. 1 \in DOMAIN file[i]
      <4>1. file[i] \in Seq({file[i][j] : j \in DOMAIN file[i]}) /\ file[i] # <<>>
        BY <2>1, <3>2, FilesAssumption, Zenon
      <4> QED
        BY <4>1
    <3>4. v.n \in Nat \cup {Invalid}
      BY <2>1, <3>2, <3>3, FilesAssumption, Zenon
    <3>5. ~(Product(v) >= SizeWord \div 2)
      BY <2>8, Zenon DEF SizeWraps
    <3> QED
      BY <2>4, <2>6, <2>8, <3>1, <3>4, <3>5, SizeExact, Zenon
  <2> QED
    BY <2>7, <2>8, Zenon
<1> QED
  BY <1>1, InitSettingsInv, StepSettingsInv, PTL DEF StartupSpec
-----------------------------------------------------------------------------

(* The lock is held exactly by the process with raw output that is between *)
(* acquire_lock and process_snapshot_deinit.                               *)
LockInv ==
  /\ phase \in [Proc -> Phase]
  /\ \A p \in RawOutput : phase[p] \in {"open", "run"} <=> lock = p

(* No process has started and nobody holds the lock.                       *)
LEMMA InitLockInv == Init => LockInv
BY ProcAssumption, Zenon DEF Init, LockInv, Phase

(* acquire_lock, the returns of main and a kill keep the lock with the     *)
(* process that samples.                                                   *)
LEMMA StepLockInv == LockInv /\ [Next]_vars => LockInv'
<1> SUFFICES ASSUME LockInv, [Next]_vars PROVE LockInv'
  BY Zenon
<1> USE ProcAssumption DEF LockInv, Phase, Enter
<1>1. ASSUME NEW p \in Proc, Step(p) PROVE LockInv'
  <2>0. ASSUME End(p) PROVE LockInv'
    BY <2>0, Zenon DEF End, DropLock
  <2>1. CASE Launch(p) BY <2>1, Zenon DEF Launch
  <2>2. CASE DeleteOldFiles(p) BY <2>0, <2>2, Zenon DEF DeleteOldFiles
  <2>3. CASE AcquireLock(p) BY <2>0, <2>3, Zenon DEF AcquireLock, LockGranted
  <2>4. CASE OpenStream(p) BY <2>0, <2>4, Zenon DEF OpenStream
  <2>5. CASE Rotate(p) BY <2>5, Zenon DEF Rotate
  <2>6. CASE Compress(p) BY <2>6, Zenon DEF Compress
  <2>7. CASE ReleaseLock(p) BY <2>7, Zenon DEF ReleaseLock, DropLock
  <2>8. CASE CloseStreams(p) BY <2>8, Zenon DEF CloseStreams
  <2>9. CASE Drained(p) BY <2>9, Zenon DEF Drained
  <2>10. CASE PrintMetrics(p) BY <2>0, <2>10, Zenon DEF PrintMetrics
  <2>11. CASE Crash(p) BY <2>0, <2>11, Zenon DEF Crash
  <2> QED BY <1>1, <2>1, <2>2, <2>3, <2>4, <2>5, <2>6, <2>7, <2>8, <2>9,
             <2>10, <2>11, Zenon DEF Step
<1>2. CASE Tick \/ UNCHANGED vars
  BY <1>2, Zenon DEF Tick, vars
<1> QED BY <1>1, <1>2, Zenon DEF Next

(* However many processes are started, killed and started again, with or   *)
(* without -j, at most one of those with raw output is past acquire_lock,  *)
(* and a process that is gone holds no lock.                               *)
THEOREM LockExcludes == Spec => []SingleInstance
<1>1. LockInv => SingleInstance
  BY Zenon DEF LockInv, SingleInstance
<1> QED BY <1>1, InitLockInv, StepLockInv, PTL DEF Spec
-----------------------------------------------------------------------------
(* The file an instance writes is the one under the name, as long as       *)
(* nobody has swept its files away.                                        *)
FileInv ==
  /\ LockInv
  /\ \A p \in Proc : phase[p] = "open" => p \in RawOutput
  /\ handle \in [Proc -> Nat]
  /\ \A p \in RawOutput \ swept : phase[p] = "run" => handle[p] = current

(* Nobody has a file open at the start.                                    *)
LEMMA InitFileInv == Init => FileInv
BY ProcAssumption, InitLockInv DEF Init, FileInv

(* Every step but a sweep with -j leaves the file of a sampling process    *)
(* under its name: only the process that has the lock renames it.          *)
LEMMA StepFileInv == TypeOK /\ FileInv /\ [Next]_vars => FileInv'
<1> SUFFICES ASSUME TypeOK, FileInv, [Next]_vars PROVE FileInv'
  BY Zenon
<1>0. LockInv'
  BY StepLockInv, Zenon DEF FileInv
<1>t. inodes \in Nat /\ current \in Nat
  BY InstanceBounds DEF TypeOK
<1> USE ProcAssumption, <1>0, <1>t DEF FileInv, LockInv, Phase, Enter
<1>1. ASSUME NEW p \in Proc, Step(p) PROVE FileInv'
  <2>0. ASSUME End(p), swept \ {p} \subseteq swept',
               current' = current \/ \A q \in Proc : phase[q] = "run" => q \in swept'
        PROVE  FileInv'
    BY <2>0 DEF End
  <2>1. CASE Launch(p) BY <2>1, Zenon DEF Launch, memory, directory
  <2>2. CASE DeleteOldFiles(p)
    <3>1. /\ swept \subseteq swept'
          /\ \A q \in Proc : phase[q] = "run" => q \in swept'
      BY <2>2, Zenon DEF DeleteOldFiles
    <3>2. \/ End(p)
          \/ Enter(p, "lock") /\ UNCHANGED <<lock, memory, rushed>>
      BY <2>2, Zenon DEF DeleteOldFiles
    <3> QED BY <2>0, <3>1, <3>2, Zenon DEF memory
  <2>3. CASE AcquireLock(p)
    BY <2>0, <2>3, ZenonT(60) DEF AcquireLock, LockGranted, memory, directory
  <2>4. CASE OpenStream(p)
    <3>1. CASE End(p) /\ UNCHANGED <<current, inodes>>
      BY <2>0, <2>4, <3>1, Zenon DEF OpenStream
    <3>2. CASE FopenAppend(p) /\ Enter(p, "run") /\ UNCHANGED lock
      BY <2>4, <3>2 DEF OpenStream, FopenAppend
    <3> QED BY <2>4, <3>1, <3>2, Zenon DEF OpenStream
  <2>5. CASE Rotate(p)
    BY <2>5 DEF Rotate, Reopened
  <2>6. CASE Compress(p) BY <2>6, Zenon DEF Compress
  <2>7. CASE ReleaseLock(p) BY <2>7, Zenon DEF ReleaseLock, memory, directory
  <2>8. CASE CloseStreams(p) BY <2>8 DEF CloseStreams, directory
  <2>9. CASE Drained(p) BY <2>9, Zenon DEF Drained, memory, directory
  <2>10. CASE PrintMetrics(p) BY <2>0, <2>10, Zenon DEF PrintMetrics, directory
  <2>11. CASE Crash(p) BY <2>0, <2>11, Zenon DEF Crash, directory
  <2> QED BY <1>1, <2>1, <2>2, <2>3, <2>4, <2>5, <2>6, <2>7, <2>8, <2>9,
             <2>10, <2>11, Zenon DEF Step
<1>2. CASE Tick \/ UNCHANGED vars
  BY <1>2, Zenon DEF Tick, vars, memory, directory
<1> QED BY <1>1, <1>2, Zenon DEF Next
-----------------------------------------------------------------------------
(* What Append and Tail do to a list of jobs.                              *)
LEMMA JobsAppended ==
  ASSUME NEW S, NEW s \in Seq(S), NEW x \in S
  PROVE  /\ Append(s, x) \in Seq(S)
         /\ DOMAIN Append(s, x) = DOMAIN s \cup {Len(s) + 1}
         /\ Len(s) + 1 \notin DOMAIN s
         /\ Append(s, x)[Len(s) + 1] = x
         /\ \A i \in DOMAIN s : Append(s, x)[i] = s[i]
OBVIOUS

(* The first job is taken and the others move up.                          *)
LEMMA JobsTail ==
  ASSUME NEW S, NEW s \in Seq(S), s # <<>>
  PROVE  /\ Tail(s) \in Seq(S)
         /\ 1 \in DOMAIN s /\ Head(s) = s[1]
         /\ \A i \in DOMAIN Tail(s) :
              /\ i + 1 \in DOMAIN s /\ i + 1 # 1
              /\ Tail(s)[i] = s[i + 1]
         /\ \A i, j \in DOMAIN Tail(s) : i # j => i + 1 # j + 1
OBVIOUS

(* A list of jobs holds jobs.                                              *)
LEMMA JobsElement ==
  ASSUME NEW S, NEW s \in Seq(S), NEW i \in DOMAIN s
  PROVE  s[i] \in S
OBVIOUS

(* A range of numbers that starts at zero holds natural numbers.           *)
LEMMA RangeNat ==
  ASSUME NEW n, NEW a \in 0..n
  PROVE  a \in Nat
OBVIOUS

(* A counter is above what is below it, and stays so when it advances.     *)
LEMMA CountAdvances ==
  ASSUME NEW c \in Nat
  PROVE  /\ c <= c /\ c < c + 1
         /\ \A a \in Nat : a < c => a # c /\ a < c + 1
OBVIOUS

JobRecord == [name : Name, inode : Inode]

(* Every position, name and inode stays in its range.                      *)
LEMMA InitTypes == Init => TypeOK
BY ProcAssumption, InstanceBounds DEF Init, TypeOK, Phase

(* A step keeps them there.                                                *)
LEMMA StepTypes == TypeOK /\ [Next]_vars => TypeOK'
<1> SUFFICES ASSUME TypeOK, [Next]_vars PROVE TypeOK'
  BY Zenon
<1>0. inodes \in Nat /\ MaxInodes \in Nat /\ MaxFiles \in Nat \ {0}
      /\ clock \in Nat /\ MaxTime \in Nat
  BY InstanceBounds DEF TypeOK
<1> DEFINE Directory == /\ current' \in 0..inodes'
                        /\ plain' \in [Slot -> 0..inodes'] /\ gz' \in [Slot -> 0..inodes']
                        /\ tmp' \in [Name -> 0..inodes']
           Memory == /\ compression_enabled' \in [Proc -> BOOLEAN]
                     /\ handle' \in [Proc -> 0..inodes']
                     /\ rotation_counter' \in [Proc -> 0..inodes']
                     /\ jobs' \in [Proc -> Seq(JobRecord)]
           Rest == /\ phase' \in [Proc -> Phase] /\ lock' \in Proc \cup {NoProc}
                   /\ clock' \in 0..MaxTime /\ inodes' \in 0..MaxInodes
                   /\ swept' \subseteq Proc /\ rushed' \subseteq Proc
<1>q. Directory /\ Memory /\ Rest => TypeOK'
  BY Zenon DEF TypeOK, JobRecord
<1>d. UNCHANGED directory => Directory /\ inodes' = inodes
  BY Zenon DEF directory, TypeOK
<1>m. UNCHANGED memory /\ inodes' = inodes => Memory
  BY Zenon DEF memory, TypeOK, JobRecord
<1>z. inodes' = inodes => 0 \in 0..inodes'
  BY <1>0
<1>g. ASSUME inodes' = inodes + 1 PROVE 0..inodes \subseteq 0..inodes' /\ inodes' \in 0..inodes'
  BY <1>0, <1>g
<1>p. ASSUME NEW p \in Proc, NEW to \in Phase, Enter(p, to)
      PROVE  phase' \in [Proc -> Phase]
  BY <1>p, Zenon DEF Enter, TypeOK
<1>ph. {"off", "delete", "lock", "open", "run", "close", "drain", "metrics"} = Phase
  BY Zenon DEF Phase
<1>1. ASSUME NEW p \in Proc, Step(p) PROVE TypeOK'
  <2>e. ASSUME End(p), inodes' = inodes
        PROVE  /\ Memory /\ phase' \in [Proc -> Phase]
               /\ lock' \in Proc \cup {NoProc} /\ rushed' \subseteq Proc
    <3>1. <<>> \in Seq(JobRecord)
      OBVIOUS
    <3> QED BY <1>z, <1>p, <1>ph, <2>e, <3>1, Zenon DEF End, DropLock, TypeOK, JobRecord
  <2>1. CASE Launch(p)
    BY <1>q, <1>d, <1>m, <1>p, <1>ph, <2>1, Zenon DEF Launch, TypeOK
  <2>2. CASE DeleteOldFiles(p)
    <3>1. inodes' = inodes /\ UNCHANGED clock /\ swept' \subseteq Proc
      BY <2>2, Zenon DEF DeleteOldFiles, TypeOK
    <3>2. Directory
      <4>1. PICK gone \in SUBSET (1..inodes) :
              /\ current' = IF current \in gone THEN 0 ELSE current
              /\ plain' = Without(plain, gone) /\ gz' = Without(gz, gone)
              /\ tmp' = Without(tmp, gone)
        BY <2>2, Zenon DEF DeleteOldFiles
      <4> QED BY <1>z, <3>1, <4>1, Zenon DEF Without, TypeOK
    <3>3. \/ End(p)
          \/ Enter(p, "lock") /\ UNCHANGED <<lock, memory, rushed>>
      BY <2>2, Zenon DEF DeleteOldFiles
    <3> QED BY <1>q, <1>m, <1>p, <1>ph, <2>e, <3>1, <3>2, <3>3, Zenon DEF TypeOK
  <2>3. CASE AcquireLock(p)
    <3>1. inodes' = inodes /\ Directory /\ UNCHANGED <<clock, swept>>
      BY <1>d, <2>3, Zenon DEF AcquireLock
    <3>2. \/ End(p)
          \/ /\ lock' \in {p, lock} /\ (Enter(p, "open") \/ Enter(p, "run"))
             /\ UNCHANGED memory /\ rushed' \subseteq Proc
      BY <2>3, Zenon DEF AcquireLock, TypeOK
    <3> QED BY <1>q, <1>m, <1>p, <1>ph, <2>e, <3>1, <3>2, Zenon DEF TypeOK
  <2>4. CASE OpenStream(p)
    <3>1. CASE End(p) /\ UNCHANGED <<current, inodes>>
      <4>1. Directory /\ UNCHANGED <<clock, swept>>
        BY <2>4, <3>1, Zenon DEF OpenStream, TypeOK
      <4> QED BY <1>q, <2>e, <3>1, <4>1, Zenon DEF TypeOK
    <3>2. CASE /\ FopenAppend(p) /\ Enter(p, "run")
               /\ \E c \in BOOLEAN :
                    compression_enabled' = [compression_enabled EXCEPT ![p] = c]
               /\ UNCHANGED <<lock, rotation_counter, jobs, rushed>>
      <4>1. /\ UNCHANGED <<clock, plain, gz, tmp, swept>>
            /\ compression_enabled' \in [Proc -> BOOLEAN]
        BY <2>4, <3>2, Zenon DEF OpenStream, TypeOK
      <4>2. /\ inodes' \in 0..MaxInodes /\ 0..inodes \subseteq 0..inodes'
            /\ current' \in 0..inodes'
            /\ handle' = [handle EXCEPT ![p] = current']
        BY <1>0, <3>2 DEF FopenAppend, TypeOK
      <4>3. Directory /\ Memory
        BY <3>2, <4>1, <4>2, Zenon DEF TypeOK, JobRecord
      <4> QED BY <1>q, <1>p, <1>ph, <3>2, <4>1, <4>2, <4>3, Zenon DEF TypeOK
    <3> QED BY <2>4, <3>1, <3>2, Zenon DEF OpenStream
  <2>5. CASE Rotate(p)
    <3>1. /\ inodes' = inodes + 1 /\ inodes < MaxInodes /\ current # 0
          /\ current' = inodes' /\ gz' = ShiftedGz(p) /\ MoveCurrent(p)
          /\ handle' = [handle EXCEPT ![p] = inodes']
          /\ UNCHANGED <<phase, lock, clock, compression_enabled, swept, rushed>>
      BY <2>5, Zenon DEF Rotate, Reopened
    <3>2. inodes' \in 0..MaxInodes /\ current \in Inode /\ current \in 0..inodes
      BY <1>0, <3>1 DEF TypeOK, Inode
    <3>3. 0 \in 0..inodes /\ 1 \in Slot
          /\ \A i \in Slot : i > 1 => i - 1 \in Slot
      BY <1>0 DEF Slot
    <3>4. gz' \in [Slot -> 0..inodes]
      <4>1. \A i \in Slot : i # 1 => i - 1 \in Slot
        BY <1>0 DEF Slot
      <4> QED BY <3>1, <3>3, <4>1, Zenon DEF ShiftedGz, TypeOK
    <3>5. ShiftedPlain(p) \in [Slot -> 0..inodes]
      BY <3>3, Zenon DEF ShiftedPlain, TypeOK
    <3>6. CASE ~compression_enabled[p]
      <4>1. plain' = [ShiftedPlain(p) EXCEPT ![1] = current]
            /\ UNCHANGED <<tmp, rotation_counter, jobs>>
        BY <3>1, <3>6, Zenon DEF MoveCurrent
      <4>2. plain' \in [Slot -> 0..inodes]
        BY <3>2, <3>5, <4>1, Zenon
      <4>3. Directory /\ Memory
        BY <1>g, <3>1, <3>4, <4>1, <4>2, Zenon DEF TypeOK, JobRecord
      <4> QED BY <1>q, <3>1, <3>2, <4>3, Zenon DEF TypeOK
    <3>7. CASE compression_enabled[p]
      <4> DEFINE n == [second |-> clock, count |-> rotation_counter[p]]
                 x == [name |-> n, inode |-> current]
      <4>1. /\ tmp' = [tmp EXCEPT ![n] = current] /\ plain' = ShiftedPlain(p)
            /\ rotation_counter' = [rotation_counter EXCEPT ![p] = rotation_counter[p] + 1]
            /\ jobs' = [jobs EXCEPT ![p] = Append(jobs[p], x)]
        BY <3>1, <3>7, Zenon DEF MoveCurrent, NextCount
      <4>2. /\ rotation_counter[p] \in 0..MaxInodes
            /\ rotation_counter[p] + 1 \in 0..inodes'
        <5>1. rotation_counter[p] \in 0..inodes
          BY Zenon DEF TypeOK
        <5> QED BY <1>0, <3>1, <5>1
      <4>3. n \in Name /\ x \in JobRecord
        BY <3>2, <4>2, Zenon DEF Name, JobRecord, TypeOK
      <4>4. Append(jobs[p], x) \in Seq(JobRecord)
        BY <4>3, JobsAppended, Zenon DEF TypeOK, JobRecord
      <4>5. Directory /\ Memory
        BY <1>g, <3>1, <3>2, <3>4, <3>5, <4>1, <4>2, <4>3, <4>4, Zenon DEF TypeOK, JobRecord
      <4> QED BY <1>q, <3>1, <3>2, <4>5, Zenon DEF TypeOK
    <3> QED BY <3>6, <3>7, Zenon
  <2>6. CASE Compress(p)
    <3> DEFINE n == Head(jobs[p]).name
    <3>1. /\ jobs[p] # <<>>
          /\ gz' = IF tmp[n] = 0 THEN gz ELSE [gz EXCEPT ![1] = tmp[n]]
          /\ tmp' = [tmp EXCEPT ![n] = 0]
          /\ jobs' = [jobs EXCEPT ![p] = Tail(jobs[p])]
          /\ UNCHANGED <<phase, lock, clock, current, plain, inodes,
                         compression_enabled, handle, rotation_counter, swept, rushed>>
      BY <2>6, Zenon DEF Compress
    <3>2. jobs[p] \in Seq(JobRecord)
      BY Zenon DEF TypeOK, JobRecord
    <3>3. Tail(jobs[p]) \in Seq(JobRecord) /\ n \in Name
      <4>1. /\ Tail(jobs[p]) \in Seq(JobRecord) /\ 1 \in DOMAIN jobs[p]
            /\ Head(jobs[p]) = jobs[p][1]
        BY <3>1, <3>2, JobsTail, Zenon
      <4>2. Head(jobs[p]) \in JobRecord
        BY <3>2, <4>1, JobsElement, Zenon
      <4> QED BY <4>1, <4>2, Zenon DEF JobRecord
    <3>4. 0 \in 0..inodes' /\ 1 \in Slot
      BY <1>0, <3>1, SMTT(30) DEF Slot
    <3>5. Directory /\ Memory
      BY <3>1, <3>3, <3>4, Zenon DEF TypeOK, JobRecord
    <3> QED BY <1>q, <3>1, <3>5, Zenon DEF TypeOK
  <2>7. CASE ReleaseLock(p)
    BY <1>q, <1>d, <1>m, <1>p, <1>ph, <2>7, Zenon DEF ReleaseLock, DropLock, TypeOK
  <2>8. CASE CloseStreams(p)
    BY <1>q, <1>d, <1>z, <1>p, <1>ph, <2>8, Zenon DEF CloseStreams, TypeOK, JobRecord
  <2>9. CASE Drained(p)
    BY <1>q, <1>d, <1>m, <1>p, <1>ph, <2>9, Zenon DEF Drained, TypeOK
  <2>10. CASE PrintMetrics(p)
    BY <1>q, <1>d, <2>e, <2>10, Zenon DEF PrintMetrics, TypeOK
  <2>11. CASE Crash(p)
    BY <1>q, <1>d, <2>e, <2>11, Zenon DEF Crash, TypeOK
  <2> QED BY <1>1, <2>1, <2>2, <2>3, <2>4, <2>5, <2>6, <2>7, <2>8, <2>9,
             <2>10, <2>11, Zenon DEF Step
<1>2. CASE Tick
  <2>1. clock' \in 0..MaxTime
    BY <1>0, <1>2 DEF Tick
  <2> QED BY <1>q, <1>d, <1>m, <1>2, <2>1, Zenon DEF Tick, TypeOK
<1>3. CASE UNCHANGED vars
  BY <1>q, <1>d, <1>m, <1>3, Zenon DEF vars, TypeOK
<1> QED BY <1>1, <1>2, <1>3, Zenon DEF Next

(* Until another process sweeps the directory with -j, every record a      *)
(* running instance writes goes to the file under the name ptime.log.      *)
THEOREM OutputStaysReachable == Spec => []OutputReachable
<1>1. FileInv => OutputReachable
  BY ProcAssumption, Zenon DEF FileInv, OutputReachable, WritesToName
<1> QED BY <1>1, InitFileInv, StepFileInv, InitTypes, StepTypes, PTL DEF Spec
-----------------------------------------------------------------------------
(* Why pending files stay.  An instance that samples draws names of the    *)
(* present second, so it can only meet names that were drawn in it, and    *)
(* those belong to itself, with smaller counts, or to an instance that     *)
(* gave up the lock in this second (HolderInv).                            *)
JobsOk(js, ph, second, counter) ==
  /\ js # <<>> => ph \in {"run", "close", "drain"}
  /\ \A i \in DOMAIN js : js[i].name.second <= second /\ js[i].name.count < counter
  /\ \A i, j \in DOMAIN js : i # j => js[i].name.count # js[j].name.count

OwnNames ==
  \A p \in Proc : JobsOk(jobs[p], phase[p], clock, rotation_counter[p])

HolderInv ==
  \A q \in Proc, h \in Proc :
    lock = h /\ q # h /\ DrewNow(q) => q \in rushed /\ h \in rushed

PairInv ==
  \A q \in Proc, h \in Proc : \A i \in DOMAIN jobs[q], j \in DOMAIN jobs[h] :
    q # h /\ jobs[q][i].name.second = jobs[h][j].name.second => q \in rushed

IntactInv == \A p \in Proc \ (swept \cup rushed) : PendingFiles(p)

PendingInv == OwnNames /\ HolderInv /\ PairInv /\ IntactInv

(* There are no jobs at the start.                                         *)
LEMMA InitPendingInv == Init => PendingInv
<1> SUFFICES ASSUME Init PROVE PendingInv
  BY Zenon
<1>1. \A p \in Proc : jobs[p] = <<>>
  BY Zenon DEF Init
<1>2. DOMAIN <<>> = {}
  OBVIOUS
<1> QED
  BY <1>1, <1>2, Zenon DEF PendingInv, OwnNames, JobsOk, HolderInv, PairInv, IntactInv,
     PendingFiles, DrewNow

(* A step that neither draws nor finishes a job and takes no lock.         *)
LEMMA QuietOk ==
  ASSUME PendingInv, UNCHANGED <<jobs, rotation_counter, clock, tmp, rushed>>,
         swept \subseteq swept',
         lock' = lock \/ lock' = NoProc,
         \A p \in Proc : jobs[p] # <<>> => phase'[p] \in {"run", "close", "drain"}
  PROVE  PendingInv'
<1>1. OwnNames'
  BY ZenonT(60) DEF PendingInv, OwnNames, JobsOk
<1>2. HolderInv'
  BY ProcAssumption, ZenonT(60) DEF PendingInv, HolderInv, DrewNow
<1>3. PairInv'
  BY Zenon DEF PendingInv, PairInv
<1>4. IntactInv'
  BY Zenon DEF PendingInv, IntactInv, PendingFiles
<1> QED
  BY <1>1, <1>2, <1>3, <1>4, Zenon DEF PendingInv

(* The end of a process takes its jobs away, and a step that removes files *)
(* marks all that have jobs as swept.                                      *)
LEMMA EndOk ==
  ASSUME TypeOK, PendingInv, NEW p \in Proc, End(p), clock' = clock,
         swept \ {p} \subseteq swept',
         \/ tmp' = tmp
         \/ \A q \in Proc : phase[q] \in {"run", "close", "drain"} => q \in swept'
  PROVE  PendingInv'
<1>1. /\ jobs'[p] = <<>> /\ DOMAIN jobs'[p] = {}
      /\ \A q \in Proc \ {p} : /\ jobs'[q] = jobs[q]
                               /\ rotation_counter'[q] = rotation_counter[q]
                               /\ phase'[q] = phase[q]
                               /\ q \in rushed' <=> q \in rushed
  <2>1. DOMAIN <<>> = {}
    OBVIOUS
  <2> QED BY <2>1, Zenon DEF End, Enter, TypeOK
<1>2. lock' # p /\ (lock' = lock \/ lock' \notin Proc)
  BY ProcAssumption, Zenon DEF End, DropLock
<1>3. OwnNames'
  <2>1. ASSUME NEW q \in Proc
        PROVE  JobsOk(jobs'[q], phase'[q], clock', rotation_counter'[q])
    <3>1. CASE q = p
      BY <1>1, <3>1, Zenon DEF JobsOk
    <3>2. CASE q # p
      BY <1>1, <3>2, Zenon DEF PendingInv, OwnNames
    <3> QED BY <3>1, <3>2, Zenon
  <2> QED BY <2>1, Zenon DEF OwnNames
<1>4. HolderInv'
  BY <1>1, <1>2, ZenonT(60) DEF PendingInv, HolderInv, DrewNow
<1>5. PairInv'
  <2> SUFFICES ASSUME NEW q \in Proc, NEW h \in Proc, q # h,
                      NEW i \in DOMAIN jobs'[q], NEW j \in DOMAIN jobs'[h],
                      jobs'[q][i].name.second = jobs'[h][j].name.second
               PROVE  q \in rushed'
    BY Zenon DEF PairInv
  <2>1. q # p /\ h # p
    BY <1>1, Zenon
  <2>2. jobs'[q] = jobs[q] /\ jobs'[h] = jobs[h] /\ (q \in rushed' <=> q \in rushed)
    BY <1>1, <2>1, Zenon
  <2> QED BY <2>2, Zenon DEF PendingInv, PairInv
<1>6. IntactInv'
  <2> SUFFICES ASSUME NEW q \in Proc, q \notin swept', q \notin rushed'
               PROVE  PendingFiles(q)'
    BY Zenon DEF IntactInv
  <2>1. CASE q = p
    BY <1>1, <2>1, Zenon DEF PendingFiles
  <2>2. CASE q # p
    <3>1. PendingFiles(q) /\ jobs'[q] = jobs[q]
      BY <1>1, <2>2, Zenon DEF PendingInv, IntactInv
    <3>2. CASE tmp' = tmp
      BY <3>1, <3>2, Zenon DEF PendingFiles
    <3>3. CASE jobs[q] = <<>>
      <4>1. DOMAIN <<>> = {}
        OBVIOUS
      <4> QED BY <3>1, <3>3, <4>1, Zenon DEF PendingFiles
    <3>4. CASE jobs[q] # <<>> /\ tmp' # tmp
      BY <3>4, Zenon DEF PendingInv, OwnNames, JobsOk
    <3> QED BY <3>2, <3>3, <3>4, Zenon
  <2> QED BY <2>1, <2>2, Zenon
<1> QED
  BY <1>3, <1>4, <1>5, <1>6, Zenon DEF PendingInv

(* A second that passes leaves no name of the present one.                 *)
LEMMA TickOk == TypeOK /\ PendingInv /\ Tick => PendingInv'
<1> SUFFICES ASSUME TypeOK, PendingInv, Tick PROVE PendingInv'
  BY Zenon
<1>1. /\ UNCHANGED <<phase, lock, tmp, rotation_counter, jobs, swept, rushed>>
      /\ clock' = clock + 1
  BY Zenon DEF Tick, memory, directory
<1>2. \A p \in Proc : \A i \in DOMAIN jobs[p] :
        /\ jobs[p][i].name.second <= clock'
        /\ jobs[p][i].name.second # clock'
  <2> SUFFICES ASSUME NEW p \in Proc, NEW i \in DOMAIN jobs[p]
               PROVE  /\ jobs[p][i].name.second <= clock'
                      /\ jobs[p][i].name.second # clock'
    OBVIOUS
  <2>1. jobs[p][i].name.second \in Nat /\ clock \in Nat
    <3>1. jobs[p] \in Seq(JobRecord)
      BY Zenon DEF TypeOK, JobRecord
    <3>2. jobs[p][i] \in JobRecord
      BY <3>1
    <3>3. jobs[p][i].name.second \in 0..MaxTime
      BY <3>2, Zenon DEF JobRecord, Name
    <3> QED BY <3>3, InstanceBounds DEF TypeOK
  <2>2. jobs[p][i].name.second <= clock
    BY Zenon DEF PendingInv, OwnNames, JobsOk
  <2> QED BY <1>1, <2>1, <2>2
<1>3. OwnNames'
  BY <1>1, <1>2, ZenonT(60) DEF PendingInv, OwnNames, JobsOk
<1>4. HolderInv'
  BY <1>1, <1>2, Zenon DEF HolderInv, DrewNow
<1>5. PairInv' /\ IntactInv'
  BY <1>1, ZenonT(60) DEF PendingInv, PairInv, IntactInv, PendingFiles
<1> QED
  BY <1>3, <1>4, <1>5, Zenon DEF PendingInv

(* Taking the lock marks both sides of a possible collision.               *)
LEMMA LockOk ==
  ASSUME TypeOK, PendingInv, NEW p \in Proc, phase[p] = "lock",
         lock' = p, Enter(p, "open"),
         rushed' = rushed \cup {q \in Proc : DrewNow(q)}
                          \cup {q \in {p} : \E r \in Proc : DrewNow(r)},
         UNCHANGED <<memory, clock, directory, swept>>
  PROVE  PendingInv'
<1>1. UNCHANGED <<jobs, rotation_counter, clock, tmp, swept>>
  BY Zenon DEF memory, directory
<1>2. /\ rushed \subseteq rushed'
      /\ \A q \in Proc : DrewNow(q) => q \in rushed' /\ p \in rushed'
  BY Zenon
<1>3. \A q \in Proc : jobs[q] # <<>> => phase'[q] \in {"run", "close", "drain"}
  BY Zenon DEF PendingInv, OwnNames, JobsOk, Enter, TypeOK
<1>4. OwnNames'
  BY <1>1, <1>3, ZenonT(60) DEF PendingInv, OwnNames, JobsOk
<1>5. HolderInv'
  BY <1>1, <1>2, Zenon DEF HolderInv, DrewNow
<1>6. PairInv' /\ IntactInv'
  BY <1>1, <1>2, ZenonT(60) DEF PendingInv, PairInv, IntactInv, PendingFiles
<1> QED
  BY <1>4, <1>5, <1>6, Zenon DEF PendingInv

(* A rotation with compression draws a name that no pending file has,      *)
(* except those of instances in rushed.                                    *)
LEMMA DrawOk ==
  ASSUME TypeOK, LockInv, PendingInv, NEW p \in RawOutput, phase[p] = "run",
         NEW n, n = [second |-> clock, count |-> rotation_counter[p]],
         n \in Name, current \in Inode,
         tmp' = [tmp EXCEPT ![n] = current],
         rotation_counter' = [rotation_counter EXCEPT ![p] = rotation_counter[p] + 1],
         jobs' = [jobs EXCEPT ![p] = Append(jobs[p], [name |-> n, inode |-> current])],
         UNCHANGED <<phase, lock, clock, swept, rushed>>
  PROVE  PendingInv'
<1> DEFINE x == [name |-> n, inode |-> current]
           l == Len(jobs[p]) + 1
<1>p. p \in Proc /\ lock = p
  BY ProcAssumption, Zenon DEF LockInv
<1>1. jobs[p] \in Seq(JobRecord) /\ x \in JobRecord
  BY <1>p, Zenon DEF TypeOK, JobRecord
<1>2. /\ jobs'[p] = Append(jobs[p], x)
      /\ \A q \in Proc \ {p} : jobs'[q] = jobs[q] /\ rotation_counter'[q] = rotation_counter[q]
      /\ rotation_counter'[p] = rotation_counter[p] + 1
  BY <1>p, Zenon DEF TypeOK
<1>3. /\ DOMAIN jobs'[p] = DOMAIN jobs[p] \cup {l} /\ l \notin DOMAIN jobs[p]
      /\ jobs'[p][l] = x
      /\ \A i \in DOMAIN jobs[p] : jobs'[p][i] = jobs[p][i]
  <2> HIDE DEF x
  <2>1. /\ DOMAIN Append(jobs[p], x) = DOMAIN jobs[p] \cup {Len(jobs[p]) + 1}
        /\ Len(jobs[p]) + 1 \notin DOMAIN jobs[p]
        /\ Append(jobs[p], x)[Len(jobs[p]) + 1] = x
        /\ \A i \in DOMAIN jobs[p] : Append(jobs[p], x)[i] = jobs[p][i]
    <3>1. ASSUME NEW s \in Seq(JobRecord), NEW y \in JobRecord
          PROVE  /\ DOMAIN Append(s, y) = DOMAIN s \cup {Len(s) + 1}
                 /\ Len(s) + 1 \notin DOMAIN s
                 /\ Append(s, y)[Len(s) + 1] = y
                 /\ \A i \in DOMAIN s : Append(s, y)[i] = s[i]
      BY ONLY SMTT(30)
    <3> QED BY ONLY <1>1, <3>1, Zenon
  <2> QED BY <1>2, <2>1, Zenon
<1>4. x.name = n /\ x.inode = current /\ n.second = clock /\ n.count = rotation_counter[p]
  BY Zenon
<1>5. /\ clock \in Nat /\ rotation_counter[p] \in Nat
      /\ \A i \in DOMAIN jobs[p] : jobs[p][i].name.count \in Nat
  <2>1. rotation_counter[p] \in 0..inodes /\ clock \in 0..MaxTime
    BY <1>p, Zenon DEF TypeOK
  <2>2. \A i \in DOMAIN jobs[p] : jobs[p][i] \in JobRecord
    BY <1>1, JobsElement, Zenon
  <2>3. \A i \in DOMAIN jobs[p] : jobs[p][i].name.count \in 0..MaxInodes
    BY <2>2, Zenon DEF JobRecord, Name
  <2> QED BY <2>1, <2>3, RangeNat, Zenon
<1>6. \A i \in DOMAIN jobs[p] : /\ jobs[p][i].name.second <= clock
                                /\ jobs[p][i].name.count < rotation_counter[p]
  BY <1>p, Zenon DEF PendingInv, OwnNames, JobsOk
<1>7. \A i \in DOMAIN jobs[p] : /\ jobs[p][i].name.count # n.count
                                /\ jobs[p][i].name.count < rotation_counter[p] + 1
  BY <1>4, <1>5, <1>6, CountAdvances, Zenon
<1>8. n.second <= clock /\ n.count < rotation_counter[p] + 1
  BY <1>4, <1>5, CountAdvances, Zenon
<1> HIDE DEF x, l
<1>9. OwnNames'
  <2>1. ASSUME NEW q \in Proc, q # p
        PROVE  JobsOk(jobs'[q], phase'[q], clock', rotation_counter'[q])
    BY <1>2, <2>1, Zenon DEF PendingInv, OwnNames
  <2>2. \A i, j \in DOMAIN jobs[p] :
          i # j => jobs[p][i].name.count # jobs[p][j].name.count
    BY <1>p, Zenon DEF PendingInv, OwnNames, JobsOk
  <2>3. \A i \in DOMAIN jobs'[p] : /\ jobs'[p][i].name.second <= clock
                                   /\ jobs'[p][i].name.count < rotation_counter'[p]
    BY <1>2, <1>3, <1>4, <1>6, <1>7, <1>8, Zenon
  <2>4. ASSUME NEW i \in DOMAIN jobs'[p], NEW j \in DOMAIN jobs'[p], i # j
        PROVE  jobs'[p][i].name.count # jobs'[p][j].name.count
    <3>1. CASE i = l
      <4>1. j \in DOMAIN jobs[p]
        BY <1>3, <2>4, <3>1, Zenon
      <4>2. jobs[p][j].name.count # n.count
        BY <1>7, <4>1, Zenon
      <4> QED BY <1>3, <1>4, <3>1, <4>1, <4>2, Zenon
    <3>2. CASE j = l
      <4>1. i \in DOMAIN jobs[p]
        BY <1>3, <2>4, <3>2, Zenon
      <4>2. jobs[p][i].name.count # n.count
        BY <1>7, <4>1, Zenon
      <4> QED BY <1>3, <1>4, <3>2, <4>1, <4>2, Zenon
    <3>3. CASE i # l /\ j # l
      BY <1>3, <2>2, <2>4, <3>3, ZenonT(60)
    <3> QED BY <3>1, <3>2, <3>3, Zenon
  <2>5. JobsOk(jobs'[p], phase'[p], clock', rotation_counter'[p])
    BY <2>3, <2>4, Zenon DEF JobsOk
  <2> QED BY <2>1, <2>5, Zenon DEF OwnNames
<1>10. \A q \in Proc \ {p} : DrewNow(q) => q \in rushed /\ p \in rushed
  BY <1>p, Zenon DEF PendingInv, HolderInv
<1>11. HolderInv'
  <2> SUFFICES ASSUME NEW q \in Proc, NEW h \in Proc, lock' = h, q # h, DrewNow(q)'
               PROVE  q \in rushed' /\ h \in rushed'
    BY Zenon DEF HolderInv
  <2>1. h = p
    BY <1>p, Zenon
  <2>2. DrewNow(q)
    BY <1>2, <2>1, Zenon DEF DrewNow
  <2> QED BY <1>10, <2>1, <2>2, Zenon
<1>12. PairInv'
  <2> SUFFICES ASSUME NEW q \in Proc, NEW h \in Proc, q # h,
                      NEW i \in DOMAIN jobs'[q], NEW j \in DOMAIN jobs'[h],
                      jobs'[q][i].name.second = jobs'[h][j].name.second
               PROVE  q \in rushed
    BY ZenonT(60) DEF PairInv
  <2>1. CASE q = p /\ i = l
    <3>1. jobs'[h] = jobs[h] /\ jobs'[q][i].name.second = clock
      BY <1>2, <1>3, <1>4, <2>1, Zenon
    <3>2. DrewNow(h)
      BY <3>1, Zenon DEF DrewNow
    <3> QED BY <1>10, <2>1, <3>2, Zenon
  <2>2. CASE h = p /\ j = l
    <3>1. jobs'[q] = jobs[q] /\ jobs'[h][j].name.second = clock
      BY <1>2, <1>3, <1>4, <2>2, Zenon
    <3>2. DrewNow(q)
      BY <3>1, Zenon DEF DrewNow
    <3> QED BY <1>10, <2>2, <3>2, Zenon
  <2>3. CASE ~(q = p /\ i = l) /\ ~(h = p /\ j = l)
    <3>1. i \in DOMAIN jobs[q] /\ jobs'[q][i] = jobs[q][i]
      BY <1>2, <1>3, <2>3, Zenon
    <3>2. j \in DOMAIN jobs[h] /\ jobs'[h][j] = jobs[h][j]
      BY <1>2, <1>3, <2>3, Zenon
    <3>3. jobs[q][i].name.second = jobs[h][j].name.second
      BY <3>1, <3>2, Zenon
    <3> QED BY <3>1, <3>2, <3>3, Zenon DEF PendingInv, PairInv
  <2> QED BY <2>1, <2>2, <2>3, Zenon
<1>13. IntactInv'
  <2> SUFFICES ASSUME NEW q \in Proc, q \notin swept, q \notin rushed,
                      NEW i \in DOMAIN jobs'[q]
               PROVE  tmp'[jobs'[q][i].name] = jobs'[q][i].inode
    BY Zenon DEF IntactInv, PendingFiles
  <2>0. tmp'[n] = current /\ \A m \in Name : m # n => tmp'[m] = tmp[m]
    BY Zenon DEF TypeOK
  <2>1. CASE q = p /\ i = l
    <3>1. jobs'[q][i] = x
      BY <1>3, <2>1, Zenon
    <3>2. jobs'[q][i].name = n /\ jobs'[q][i].inode = current
      BY <1>4, <3>1, Zenon
    <3> QED BY <2>0, <3>2, Zenon
  <2>2. CASE ~(q = p /\ i = l)
    <3>1. i \in DOMAIN jobs[q] /\ jobs'[q][i] = jobs[q][i]
      <4>1. CASE q = p
        BY <1>3, <2>2, <4>1, Zenon
      <4>2. CASE q # p
        BY <1>2, <4>2, Zenon
      <4> QED BY <4>1, <4>2, Zenon
    <3>2. tmp[jobs[q][i].name] = jobs[q][i].inode
      BY <3>1, Zenon DEF PendingInv, IntactInv, PendingFiles
    <3>3. jobs[q][i].name # n
      <4>1. CASE q = p
        BY <1>7, <3>1, <4>1, Zenon
      <4>2. CASE q # p
        <5>1. ~DrewNow(q)
          BY <1>10, <4>2, Zenon
        <5> QED BY <1>4, <3>1, <5>1, Zenon DEF DrewNow
      <4> QED BY <4>1, <4>2, Zenon
    <3>4. jobs[q][i].name \in Name
      <4>1. jobs[q] \in Seq(JobRecord)
        BY Zenon DEF TypeOK, JobRecord
      <4>2. jobs[q][i] \in JobRecord
        BY <3>1, <4>1, JobsElement, Zenon
      <4> QED BY <4>2, Zenon DEF JobRecord
    <3> QED BY <2>0, <3>1, <3>2, <3>3, <3>4, Zenon
  <2> QED BY <2>1, <2>2, Zenon
<1> QED
  BY <1>9, <1>11, <1>12, <1>13, Zenon DEF PendingInv

(* The worker removes the file of its own job and no other.                *)
LEMMA CompressOk ==
  ASSUME TypeOK, PendingInv, NEW p \in Proc, Compress(p)
  PROVE  PendingInv'
<1> DEFINE n == Head(jobs[p]).name
<1>1. /\ jobs[p] # <<>> /\ tmp' = [tmp EXCEPT ![n] = 0]
      /\ jobs' = [jobs EXCEPT ![p] = Tail(jobs[p])]
      /\ UNCHANGED <<phase, lock, clock, rotation_counter, swept, rushed>>
  BY Zenon DEF Compress
<1>2. jobs[p] \in Seq(JobRecord)
  BY Zenon DEF TypeOK, JobRecord
<1>3. /\ 1 \in DOMAIN jobs[p] /\ n = jobs[p][1].name
      /\ \A i \in DOMAIN Tail(jobs[p]) :
           i + 1 \in DOMAIN jobs[p] /\ i + 1 # 1 /\ Tail(jobs[p])[i] = jobs[p][i + 1]
      /\ \A i, j \in DOMAIN Tail(jobs[p]) : i # j => i + 1 # j + 1
  BY <1>1, <1>2, JobsTail, Zenon
<1>4. jobs'[p] = Tail(jobs[p]) /\ \A q \in Proc \ {p} : jobs'[q] = jobs[q]
  BY <1>1, Zenon DEF TypeOK
<1> HIDE DEF n
<1>5. \A q \in Proc : \A i \in DOMAIN jobs'[q] : \E k \in DOMAIN jobs[q] :
        jobs'[q][i] = jobs[q][k] /\ (q = p => k # 1)
  BY <1>3, <1>4, ZenonT(60)
<1>6. OwnNames'
  <2>1. ASSUME NEW q \in Proc, q # p
        PROVE  JobsOk(jobs'[q], phase'[q], clock', rotation_counter'[q])
    BY <1>1, <1>4, <2>1, Zenon DEF PendingInv, OwnNames
  <2>2. JobsOk(jobs[p], phase[p], clock, rotation_counter[p])
    BY Zenon DEF PendingInv, OwnNames
  <2>3. phase[p] \in {"run", "close", "drain"}
    BY <1>1, <2>2, Zenon DEF JobsOk
  <2>4. \A i \in DOMAIN jobs'[p] : /\ jobs'[p][i].name.second <= clock
                                   /\ jobs'[p][i].name.count < rotation_counter[p]
    <3>1. \A k \in DOMAIN jobs[p] : /\ jobs[p][k].name.second <= clock
                                    /\ jobs[p][k].name.count < rotation_counter[p]
      BY <2>2, Zenon DEF JobsOk
    <3>2. \A i \in DOMAIN jobs'[p] : \E k \in DOMAIN jobs[p] : jobs'[p][i] = jobs[p][k]
      BY <1>5, Zenon
    <3> QED BY <3>1, <3>2, Zenon
  <2>5. \A i, j \in DOMAIN jobs'[p] :
          i # j => jobs'[p][i].name.count # jobs'[p][j].name.count
    <3> SUFFICES ASSUME NEW i \in DOMAIN jobs'[p], NEW j \in DOMAIN jobs'[p], i # j
                 PROVE  jobs'[p][i].name.count # jobs'[p][j].name.count
      BY Zenon
    <3>1. /\ i + 1 \in DOMAIN jobs[p] /\ j + 1 \in DOMAIN jobs[p] /\ i + 1 # j + 1
          /\ jobs'[p][i] = jobs[p][i + 1] /\ jobs'[p][j] = jobs[p][j + 1]
      BY <1>3, <1>4, Zenon
    <3>2. jobs[p][i + 1].name.count # jobs[p][j + 1].name.count
      BY <2>2, <3>1, Zenon DEF JobsOk
    <3> QED BY <3>1, <3>2, Zenon
  <2>6. JobsOk(jobs'[p], phase'[p], clock', rotation_counter'[p])
    BY <1>1, <2>3, <2>4, <2>5, Zenon DEF JobsOk
  <2> QED BY <2>1, <2>6, Zenon DEF OwnNames
<1>7. HolderInv'
  <2>1. \A q \in Proc : DrewNow(q)' => DrewNow(q)
    <3> SUFFICES ASSUME NEW q \in Proc, DrewNow(q)' PROVE DrewNow(q)
      BY Zenon
    <3>1. PICK i \in DOMAIN jobs'[q] : jobs'[q][i].name.second = clock'
      BY Zenon DEF DrewNow
    <3>2. PICK k \in DOMAIN jobs[q] : jobs'[q][i] = jobs[q][k]
      BY <1>5, Zenon
    <3>3. jobs[q][k].name.second = clock
      BY <1>1, <3>1, <3>2, Zenon
    <3> QED BY <3>3, Zenon DEF DrewNow
  <2> QED BY <1>1, <2>1, Zenon DEF PendingInv, HolderInv
<1>8. PairInv'
  <2> SUFFICES ASSUME NEW q \in Proc, NEW h \in Proc, q # h,
                      NEW i \in DOMAIN jobs'[q], NEW j \in DOMAIN jobs'[h],
                      jobs'[q][i].name.second = jobs'[h][j].name.second
               PROVE  q \in rushed
    BY <1>1, ZenonT(60) DEF PairInv
  <2>1. PICK k \in DOMAIN jobs[q] : jobs'[q][i] = jobs[q][k]
    BY <1>5, Zenon
  <2>2. PICK m \in DOMAIN jobs[h] : jobs'[h][j] = jobs[h][m]
    BY <1>5, Zenon
  <2>3. jobs[q][k].name.second = jobs[h][m].name.second
    BY <2>1, <2>2, Zenon
  <2> QED BY <2>3, Zenon DEF PendingInv, PairInv
<1>9. IntactInv'
  <2> SUFFICES ASSUME NEW q \in Proc, q \notin swept, q \notin rushed,
                      NEW i \in DOMAIN jobs'[q]
               PROVE  tmp'[jobs'[q][i].name] = jobs'[q][i].inode
    BY <1>1, Zenon DEF IntactInv, PendingFiles
  <2>1. PICK k \in DOMAIN jobs[q] : jobs'[q][i] = jobs[q][k] /\ (q = p => k # 1)
    BY <1>5, Zenon
  <2>2. tmp[jobs[q][k].name] = jobs[q][k].inode
    BY Zenon DEF PendingInv, IntactInv, PendingFiles
  <2>3. jobs[q][k].name # n
    <3>1. CASE q = p
      BY <1>3, <2>1, <3>1, Zenon DEF PendingInv, OwnNames, JobsOk
    <3>2. CASE q # p
      BY <1>3, <3>2, Zenon DEF PendingInv, PairInv
    <3> QED BY <3>1, <3>2, Zenon
  <2>4. jobs[q][k].name \in Name
    <3>1. jobs[q] \in Seq(JobRecord)
      BY Zenon DEF TypeOK, JobRecord
    <3>2. jobs[q][k] \in JobRecord
      BY <3>1, JobsElement, Zenon
    <3> QED BY <3>2, Zenon DEF JobRecord
  <2>5. \A m \in Name : m # n => tmp'[m] = tmp[m]
    BY <1>1, Zenon DEF TypeOK
  <2> QED BY <2>1, <2>2, <2>3, <2>4, <2>5, Zenon
<1> QED
  BY <1>6, <1>7, <1>8, <1>9, Zenon DEF PendingInv

(* Every step preserves the invariant of the pending files.                *)
LEMMA StepPendingInv == TypeOK /\ LockInv /\ PendingInv /\ [Next]_vars => PendingInv'
<1> SUFFICES ASSUME TypeOK, LockInv, PendingInv, [Next]_vars PROVE PendingInv'
  BY Zenon
<1>1. ASSUME NEW p \in Proc, Step(p) PROVE PendingInv'
  <2>q. ASSUME NEW to, Enter(p, to), jobs[p] = <<>> \/ to \in {"run", "close", "drain"}
        PROVE  \A q \in Proc : jobs[q] # <<>> => phase'[q] \in {"run", "close", "drain"}
    BY <2>q, Zenon DEF Enter, TypeOK, PendingInv, OwnNames, JobsOk
  <2>n. phase[p] \in {"off", "delete", "lock", "open", "metrics"} => jobs[p] = <<>>
    BY DEF PendingInv, OwnNames, JobsOk
  <2>1. CASE Launch(p)
    BY <2>q, <2>n, <2>1, QuietOk, Zenon DEF Launch, memory, directory
  <2>2. CASE DeleteOldFiles(p)
    <3>1. /\ UNCHANGED clock /\ swept \subseteq swept'
          /\ \A q \in Proc : phase[q] \in {"run", "close", "drain"} => q \in swept'
      BY <2>2, Zenon DEF DeleteOldFiles
    <3>2. CASE End(p)
      BY <3>1, <3>2, EndOk, Zenon
    <3>3. CASE Enter(p, "lock") /\ UNCHANGED <<lock, memory, rushed>>
      <4>1. \A q \in Proc : jobs[q] # <<>> => phase'[q] \in {"run", "close", "drain"}
        BY <2>q, <2>n, <2>2, <3>3, Zenon DEF DeleteOldFiles
      <4>2. UNCHANGED <<lock, rotation_counter, jobs, rushed, clock>>
        BY <3>1, <3>3, Zenon DEF memory
      <4>4. OwnNames'
        BY <4>1, <4>2, ZenonT(60) DEF PendingInv, OwnNames, JobsOk
      <4>5. HolderInv' /\ PairInv'
        BY <4>2, Zenon DEF PendingInv, HolderInv, PairInv, DrewNow
      <4>3. IntactInv'
        <5>1. DOMAIN <<>> = {}
          OBVIOUS
        <5> QED BY <3>1, <3>3, <5>1, Zenon
                   DEF memory, PendingInv, OwnNames, JobsOk, IntactInv, PendingFiles
      <4> QED BY <4>3, <4>4, <4>5, Zenon DEF PendingInv
    <3> QED BY <2>2, <3>2, <3>3, Zenon DEF DeleteOldFiles
  <2>3. CASE AcquireLock(p)
    <3>1. CASE End(p)
      BY <2>3, <3>1, EndOk, Zenon DEF AcquireLock, directory
    <3>2. CASE Enter(p, "run") /\ UNCHANGED <<lock, memory, rushed>>
      BY <2>q, <2>3, <3>2, QuietOk, Zenon DEF AcquireLock, memory, directory
    <3>3. CASE /\ lock' = p /\ Enter(p, "open")
               /\ rushed' = rushed \cup {q \in Proc : DrewNow(q)}
                                   \cup {q \in {p} : \E r \in Proc : DrewNow(r)}
               /\ UNCHANGED memory
      BY <2>3, <3>3, LockOk, Zenon DEF AcquireLock
    <3> QED BY <2>3, <3>1, <3>2, <3>3, Zenon DEF AcquireLock
  <2>4. CASE OpenStream(p)
    <3>1. CASE End(p)
      BY <2>4, <3>1, EndOk, Zenon DEF OpenStream
    <3>2. CASE Enter(p, "run") /\ UNCHANGED <<lock, rotation_counter, jobs, rushed>>
      BY <2>q, <2>4, <3>2, QuietOk, Zenon DEF OpenStream
    <3> QED BY <2>4, <3>1, <3>2, Zenon DEF OpenStream
  <2>5. CASE Rotate(p)
    <3>1. /\ phase[p] = "run" /\ p \in RawOutput /\ current # 0 /\ inodes < MaxInodes
          /\ MoveCurrent(p)
          /\ UNCHANGED <<phase, lock, clock, swept, rushed>>
      BY <2>5, Zenon DEF Rotate
    <3>2. CASE ~compression_enabled[p]
      <4>1. UNCHANGED <<tmp, rotation_counter, jobs>>
        BY <3>1, <3>2, Zenon DEF MoveCurrent
      <4>2. \A q \in Proc : jobs[q] # <<>> => phase'[q] \in {"run", "close", "drain"}
        BY <3>1, Zenon DEF PendingInv, OwnNames, JobsOk
      <4> QED BY <3>1, <4>1, <4>2, QuietOk, Zenon
    <3>3. CASE compression_enabled[p]
      <4> DEFINE n == [second |-> clock, count |-> rotation_counter[p]]
      <4>1. /\ tmp' = [tmp EXCEPT ![n] = current]
            /\ rotation_counter' = [rotation_counter EXCEPT ![p] = rotation_counter[p] + 1]
            /\ jobs' = [jobs EXCEPT ![p] = Append(jobs[p], [name |-> n, inode |-> current])]
        BY <3>1, <3>3, Zenon DEF MoveCurrent, NextCount
      <4>2. current \in Inode /\ rotation_counter[p] \in 0..MaxInodes
        <5>1. rotation_counter[p] \in 0..inodes /\ current \in 0..inodes
              /\ inodes \in 0..MaxInodes
          BY Zenon DEF TypeOK
        <5> QED BY <3>1, <5>1, InstanceBounds, SMTT(30) DEF Inode
      <4>3. n \in Name
        BY <4>2, Zenon DEF Name, TypeOK
      <4> HIDE DEF n
      <4>4. n = [second |-> clock, count |-> rotation_counter[p]]
        BY Zenon DEF n
      <4> QED BY <3>1, <4>1, <4>2, <4>3, <4>4, DrawOk, Zenon
    <3> QED BY <3>2, <3>3, Zenon
  <2>6. CASE Compress(p)
    BY <2>6, CompressOk, Zenon
  <2>7. CASE ReleaseLock(p)
    BY <2>q, <2>7, QuietOk, Zenon DEF ReleaseLock, DropLock, memory, directory
  <2>8. CASE CloseStreams(p)
    BY <2>q, <2>8, QuietOk, Zenon DEF CloseStreams, directory
  <2>9. CASE Drained(p)
    BY <2>q, <2>9, QuietOk, Zenon DEF Drained, memory, directory
  <2>10. CASE PrintMetrics(p)
    BY <2>10, EndOk, Zenon DEF PrintMetrics, directory
  <2>11. CASE Crash(p)
    BY <2>11, EndOk, Zenon DEF Crash, directory
  <2> QED BY <1>1, <2>1, <2>2, <2>3, <2>4, <2>5, <2>6, <2>7, <2>8, <2>9,
             <2>10, <2>11, Zenon DEF Step
<1>2. CASE UNCHANGED vars
  <2>1. \A q \in Proc : jobs[q] # <<>> => phase'[q] \in {"run", "close", "drain"}
    BY <1>2, Zenon DEF PendingInv, OwnNames, JobsOk, vars
  <2> QED BY <1>2, <2>1, QuietOk, Zenon DEF vars, memory, directory
<1> QED BY <1>1, <1>2, TickOk, Zenon DEF Next

(* A file handed to the worker keeps its name and its content until the    *)
(* worker takes it, for any number of instances that follow each other and *)
(* overlap, unless -j removes it or an instance took the lock in the very  *)
(* second in which another had drawn a name.                               *)
THEOREM PendingFilesStay == Spec => []PendingIntact
<1>1. PendingInv => PendingIntact
  BY ProcAssumption, Zenon DEF PendingInv, IntactInv, PendingIntact
<1> QED BY <1>1, InitPendingInv, StepPendingInv, InitTypes, StepTypes,
           InitLockInv, StepLockInv, PTL DEF Spec
=============================================================================
