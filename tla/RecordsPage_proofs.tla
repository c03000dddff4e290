------------------------- MODULE RecordsPage_proofs -------------------------
(***************************************************************************)
(* Proofs about RecordsPage, for any number of tabs, files, processes and  *)
(* metrics, and for any number of messages on their way.                   *)
(***************************************************************************)
EXTENDS RecordsPage, WellFoundedInduction, FiniteSetTheorems, TLAPS

(* A page on which everything belongs to its file, and whose workers are   *)
(* the ones its two slots know of, so that a cancellation reaches them.    *)
PageInv(r) ==
  /\ r \in Page
  /\ \A job \in r.workers :
       job.file = r.sharedFile /\ (job = r.prepareTask \/ job = r.seriesTask)
  /\ \A p \in Pid : r.pidSeriesCache[p] \in {None, r.sharedFile}
  /\ r.timelineChart # None => r.timelineChart.file = r.sharedFile
  /\ r.pidMap # {} => r.sharedFile \in File /\ r.pidMap = PidsOf[r.sharedFile]

Locked(r) == r.disabled => r.prepareTask \in r.workers

(* A process is selected among those of the file, which are known only     *)
(* when no indexing runs, and the slot of the series holds a running       *)
(* worker or nothing.                                                      *)
Ready(r) ==
  /\ r.pidSelect # None => r.pidSelect \in r.pidMap
  /\ r.pidMap # {} => r.prepareTask = None
  /\ r.seriesTask # None => r.seriesTask \in r.workers

(* What is selected is what is drawn, or what is being built.              *)
SelectedSeries(r) ==
  [slot |-> "series", file |-> r.sharedFile, pid |-> r.pidSelect,
   metric |-> r.metricSelect]

Follows(r) ==
  /\ Ready(r)
  /\ r.pidSelect # None /\ ~r.overtaken =>
       /\ r.seriesTask \in {None, SelectedSeries(r)}
       /\ r.seriesTask = None
          /\ <<r.sharedFile, r.pidSelect, r.metricSelect>> \notin NoPoints
          => r.timelineChart = [file |-> r.sharedFile, pid |-> r.pidSelect,
                                metric |-> r.metricSelect]

Msg == {FileMsg(f) : f \in File} \cup {RequestMsg}

ChannelInv ==
  /\ channel \in [Tab -> [Tab -> Seq(Msg)]]
  /\ \A s, t \in Tab : channel[s][t] # <<>> => t \in Opened

TabInv ==
  /\ tab \in [Tab -> Page \cup {None}]
  /\ \A t \in Opened : PageInv(tab[t]) /\ Locked(tab[t]) /\ Follows(tab[t])

RInv == TabInv /\ ChannelInv
-----------------------------------------------------------------------------
(* A set of natural numbers that is not empty has a least element.         *)
LEMMA Least ==
  ASSUME NEW T, T \subseteq Nat, T # {}
  PROVE  \E x \in T : \A y \in T : x <= y
<1>1. PICK x \in T : \A y \in T : ~(<<y, x>> \in OpToRel(<, Nat))
  BY NatLessThanWellFounded, WFMin, Zenon
<1>2. ASSUME NEW y \in T PROVE x <= y
  <2>1. OpToRel(<, Nat) = {ss \in Nat \X Nat : ss[1] < ss[2]}
    BY Zenon DEF OpToRel
  <2>2. <<y, x>> \in Nat \X Nat /\ <<y, x>>[1] = y /\ <<y, x>>[2] = x
    BY Zenon
  <2>3. ~(y < x)
    BY <1>1, <2>1, <2>2, Zenon
  <2> QED
    BY <2>3
<1> QED
  BY <1>2, Zenon

(* The two kinds of tasks and null are told apart.                         *)
LEMMA Kinds ==
  /\ \A a \in PrepareJob : a.slot = "prepare" /\ a \notin SeriesJob /\ a # None
  /\ \A a \in SeriesJob : a.slot = "series" /\ a \notin PrepareJob /\ a # None
BY NoneAssumption, Zenon DEF PrepareJob, SeriesJob, Job

(* cancelTask on the indexing task ends and forgets it and nothing else.   *)
LEMMA CancelPrepareFields ==
  ASSUME NEW r \in Page
  PROVE  LET c == CancelPrepare(r)
         IN /\ c \in Page
            /\ c.workers = r.workers \ {r.prepareTask} /\ c.prepareTask = None
            /\ c.sharedFile = r.sharedFile /\ c.pidMap = r.pidMap
            /\ c.pidSelect = r.pidSelect /\ c.metricSelect = r.metricSelect
            /\ c.pidSeriesCache = r.pidSeriesCache
            /\ c.timelineChart = r.timelineChart /\ c.seriesTask = r.seriesTask
            /\ c.disabled = r.disabled /\ c.overtaken = r.overtaken
BY Zenon DEF CancelPrepare, Page

(* cancelTask on the series task ends and forgets it and nothing else.     *)
LEMMA CancelSeriesFields ==
  ASSUME NEW r \in Page
  PROVE  LET c == CancelSeries(r)
         IN /\ c \in Page
            /\ c.workers = r.workers \ {r.seriesTask} /\ c.seriesTask = None
            /\ c.sharedFile = r.sharedFile /\ c.pidMap = r.pidMap
            /\ c.pidSelect = r.pidSelect /\ c.metricSelect = r.metricSelect
            /\ c.pidSeriesCache = r.pidSeriesCache
            /\ c.timelineChart = r.timelineChart /\ c.prepareTask = r.prepareTask
            /\ c.disabled = r.disabled /\ c.overtaken = r.overtaken
BY Zenon DEF CancelSeries, Page

(* applyFile leaves one worker, the one that indexes the new file.         *)
LEMMA ApplyFileOk ==
  ASSUME NEW r, PageInv(r), NEW f \in File
  PROVE  LET z == ApplyFile(r, f)
         IN PageInv(z) /\ Locked(z) /\ Follows(z) /\ z.sharedFile = f
<1> DEFINE idle == r.prepareTask = None
           c == CancelSeries(CancelPrepare(r))
           x == [c EXCEPT !.sharedFile = f, !.pidMap = {}, !.pidSelect = None,
                          !.pidSeriesCache = [p \in Pid |-> None],
                          !.timelineChart = None,
                          !.disabled = idle]
           y == CancelPrepare(x)
           job == [slot |-> "prepare", file |-> f, pid |-> None, metric |-> None]
           z == [y EXCEPT !.workers = @ \cup {job}, !.prepareTask = job]
<1>1. r \in Page /\ CancelPrepare(r) \in Page /\ c \in Page /\ c.workers = {}
  BY CancelPrepareFields, CancelSeriesFields DEF PageInv
<1>0. c.seriesTask = None
  BY <1>1, CancelSeriesFields, Zenon
<1> HIDE DEF c
<1>2. idle \in BOOLEAN
  BY Zenon
<1> HIDE DEF idle
<1>3. /\ x \in Page /\ x.workers = {} /\ x.sharedFile = f /\ x.pidMap = {}
      /\ x.pidSeriesCache = [p \in Pid |-> None] /\ x.timelineChart = None
      /\ x.pidSelect = None /\ x.seriesTask = None
  <2> DEFINE none == [p \in Pid |-> None]
  <2>1. none \in [Pid -> File \cup {None}]
    BY Zenon
  <2> HIDE DEF none
  <2>2. x \in Page
    BY <1>1, <1>2, <2>1, ZenonT(60) DEF Page, none
  <2>3. x.workers = c.workers /\ x.sharedFile = f /\ x.pidMap = {}
    BY <1>1, ZenonT(60) DEF Page
  <2>4. x.pidSeriesCache = [p \in Pid |-> None] /\ x.timelineChart = None
    BY <1>1, ZenonT(60) DEF Page
  <2>5. x.pidSelect = None /\ x.seriesTask = c.seriesTask
    BY <1>1, ZenonT(60) DEF Page
  <2> QED
    BY <1>0, <1>1, <2>2, <2>3, <2>4, <2>5, Zenon
<1> HIDE DEF x
<1>4. /\ y \in Page /\ y.workers = {} /\ y.sharedFile = f /\ y.pidMap = {}
      /\ y.pidSeriesCache = [p \in Pid |-> None] /\ y.timelineChart = None
      /\ y.pidSelect = None /\ y.seriesTask = None
  BY <1>3, CancelPrepareFields, Zenon
<1> HIDE DEF y
<1>5. job \in PrepareJob /\ job.file = f
  BY Zenon DEF PrepareJob
<1> HIDE DEF job
<1>6. /\ z \in Page /\ z.workers = {job} /\ z.prepareTask = job /\ z.sharedFile = f
      /\ z.pidMap = {} /\ z.pidSeriesCache = [p \in Pid |-> None]
      /\ z.timelineChart = None
  BY <1>4, <1>5, ZenonT(60) DEF Page, Job
<1>7. z.pidSelect = None /\ z.seriesTask = None
  BY <1>4, <1>5, ZenonT(60) DEF Page
<1>8. ApplyFile(r, f) = z
  BY <1>3, Zenon DEF ApplyFile, RunPrepare, z, y, x, c, job, idle
<1> HIDE DEF z
<1>9. PageInv(z) /\ Locked(z)
  BY <1>5, <1>6, Zenon DEF PageInv, Locked
<1>10. Follows(z)
  BY <1>6, <1>7, Zenon DEF Follows, Ready
<1> QED
  BY <1>6, <1>8, <1>9, <1>10, Zenon

(* A series of the selected process is put to work.                        *)
LEMMA RunSeriesOk ==
  ASSUME NEW r, PageInv(r), Ready(r), r.pidSelect # None, r.pidSelect \in r.pidMap
  PROVE  LET z == [RunSeries(r) EXCEPT !.overtaken = FALSE]
         IN /\ PageInv(z) /\ (Locked(r) => Locked(z))
            /\ Follows(z) /\ z.sharedFile = r.sharedFile
<1> DEFINE c == CancelSeries(r)
           job == [slot |-> "series", file |-> r.sharedFile,
                   pid |-> r.pidSelect, metric |-> r.metricSelect]
           z == [[c EXCEPT !.workers = @ \cup {job}, !.seriesTask = job]
                   EXCEPT !.overtaken = FALSE]
<1>1. /\ r \in Page /\ r.sharedFile \in File
      /\ r.pidSelect \in Pid /\ r.metricSelect \in Metric
  BY Zenon DEF PageInv, Page
<1>2. job \in SeriesJob /\ job.file = r.sharedFile
  BY <1>1, Zenon DEF SeriesJob
<1> HIDE DEF job
<1>3. /\ c \in Page /\ c.workers = r.workers \ {r.seriesTask}
      /\ c.prepareTask = r.prepareTask /\ c.sharedFile = r.sharedFile
      /\ c.pidMap = r.pidMap /\ c.pidSeriesCache = r.pidSeriesCache
      /\ c.timelineChart = r.timelineChart /\ c.disabled = r.disabled
      /\ c.pidSelect = r.pidSelect /\ c.metricSelect = r.metricSelect
  BY <1>1, CancelSeriesFields, Zenon
<1> HIDE DEF c
<1>4. /\ z \in Page /\ z.workers = (r.workers \ {r.seriesTask}) \cup {job}
      /\ z.seriesTask = job /\ z.prepareTask = r.prepareTask
      /\ z.sharedFile = r.sharedFile /\ z.pidMap = r.pidMap
      /\ z.pidSeriesCache = r.pidSeriesCache /\ z.timelineChart = r.timelineChart
      /\ z.disabled = r.disabled
  BY <1>2, <1>3, ZenonT(60) DEF Page, Job
<1>9. z.pidSelect = r.pidSelect /\ z.metricSelect = r.metricSelect
  BY <1>2, <1>3, ZenonT(60) DEF Page, Job
<1>10. job = SelectedSeries(r)
  BY Zenon DEF job, SelectedSeries
<1>5. z = [RunSeries(r) EXCEPT !.overtaken = FALSE]
  BY Zenon DEF RunSeries, c, job
<1> HIDE DEF z
<1>6. PageInv(z)
  BY <1>2, <1>4, Zenon DEF PageInv
<1>7. ASSUME r.prepareTask \in r.workers PROVE r.prepareTask # r.seriesTask
  <2>1. r.prepareTask \in PrepareJob \cup {None} /\ r.prepareTask \in Job
        /\ r.seriesTask \in SeriesJob \cup {None}
    BY <1>1, <1>7, Zenon DEF Page
  <2> QED
    BY <2>1, Kinds, NoneAssumption, Zenon
<1>8. Locked(r) => Locked(z)
  BY <1>4, <1>7, Zenon DEF Locked
<1>11. Follows(z)
  <2>1. Ready(z)
    BY <1>4, <1>9, Zenon DEF Ready
  <2>2. z.seriesTask = SelectedSeries(z) /\ SelectedSeries(z) # None
    <3>1. SelectedSeries(z) = SelectedSeries(r)
      BY <1>4, <1>9, Zenon DEF SelectedSeries
    <3> QED
      BY <1>2, <1>4, <1>10, <3>1, Kinds, Zenon
  <2> QED
    BY <2>1, <2>2, Zenon DEF Follows
<1> QED
  BY <1>4, <1>5, <1>6, <1>8, <1>11, Zenon

(* The drawing of a chart of the page's file.                              *)
LEMMA RenderOk ==
  ASSUME NEW r, PageInv(r), r.sharedFile \in File,
         NEW pid \in Pid, NEW metric \in Metric
  PROVE  LET z == Render(r, r.sharedFile, pid, metric)
         IN /\ PageInv(z) /\ (Locked(r) => Locked(z))
            /\ z.sharedFile = r.sharedFile
            /\ Ready(r)
               /\ (r.pidSelect # None /\ ~r.overtaken =>
                     /\ r.seriesTask = None
                     /\ pid = r.pidSelect /\ metric = r.metricSelect)
               => Follows(z)
<1> DEFINE chart == [file |-> r.sharedFile, pid |-> pid, metric |-> metric]
           z == [r EXCEPT !.timelineChart = chart]
<1>1. chart \in Chart /\ chart.file = r.sharedFile
  BY Zenon DEF Chart
<1> HIDE DEF chart
<1>2. /\ z \in Page /\ z.timelineChart = chart /\ z.workers = r.workers
      /\ z.prepareTask = r.prepareTask /\ z.seriesTask = r.seriesTask
      /\ z.sharedFile = r.sharedFile /\ z.pidMap = r.pidMap
      /\ z.pidSeriesCache = r.pidSeriesCache /\ z.disabled = r.disabled
      /\ z.pidSelect = r.pidSelect /\ z.metricSelect = r.metricSelect
      /\ z.overtaken = r.overtaken
  BY <1>1, ZenonT(60) DEF PageInv, Page
<1>3. Render(r, r.sharedFile, pid, metric)
        = IF <<r.sharedFile, pid, metric>> \in NoPoints THEN r ELSE z
  BY Zenon DEF Render, z, chart
<1> HIDE DEF z
<1>4. PageInv(z) /\ (Locked(r) => Locked(z))
  BY <1>1, <1>2, Zenon DEF PageInv, Locked
<1>5. ASSUME Ready(r), r.pidSelect # None /\ ~r.overtaken =>
               r.seriesTask = None /\ pid = r.pidSelect /\ metric = r.metricSelect
      PROVE  Follows(Render(r, r.sharedFile, pid, metric))
  <2>1. CASE <<r.sharedFile, pid, metric>> \in NoPoints
    BY <1>3, <1>5, <2>1, Zenon DEF Follows
  <2>2. CASE <<r.sharedFile, pid, metric>> \notin NoPoints
    <3>1. Ready(z)
      BY <1>2, <1>5, Zenon DEF Ready
    <3>2. ASSUME z.pidSelect # None, ~z.overtaken
          PROVE  /\ z.seriesTask = None
                 /\ z.timelineChart = [file |-> z.sharedFile, pid |-> z.pidSelect,
                                       metric |-> z.metricSelect]
      BY <1>2, <1>5, <3>2, Zenon DEF chart
    <3> QED
      BY <1>3, <2>2, <3>1, <3>2, Zenon DEF Follows
  <2> QED
    BY <2>1, <2>2, Zenon
<1> QED
  BY <1>2, <1>3, <1>4, <1>5, Zenon

(* updateChart draws from the cache or starts a task, on a page in order.  *)
LEMMA UpdateChartOk ==
  ASSUME NEW r, PageInv(r), Ready(r)
  PROVE  LET z == UpdateChart(r)
         IN /\ PageInv(z) /\ (Locked(r) => Locked(z)) /\ Follows(z)
            /\ z.sharedFile = r.sharedFile
<1>1. CASE r.pidSelect = None \/ r.pidSelect \notin r.pidMap
  BY <1>1, Zenon DEF UpdateChart, Ready, Follows
<1>2. CASE r.pidSelect # None /\ r.pidSelect \in r.pidMap
           /\ r.pidSeriesCache[r.pidSelect] = None
  BY <1>2, RunSeriesOk, Zenon DEF UpdateChart
<1>3. CASE r.pidSelect # None /\ r.pidSelect \in r.pidMap
           /\ r.pidSeriesCache[r.pidSelect] # None
  <2> DEFINE late == r.seriesTask # None
             x == [r EXCEPT !.overtaken = late]
  <2>1. late \in BOOLEAN
    BY Zenon
  <2>2. /\ r.sharedFile \in File /\ r.pidSelect \in Pid /\ r.metricSelect \in Metric
        /\ r.pidSeriesCache[r.pidSelect] = r.sharedFile
    BY <1>3, Zenon DEF PageInv, Page
  <2> HIDE DEF late
  <2>3. /\ x \in Page /\ x.timelineChart = r.timelineChart /\ x.workers = r.workers
        /\ x.prepareTask = r.prepareTask /\ x.seriesTask = r.seriesTask
        /\ x.sharedFile = r.sharedFile /\ x.pidMap = r.pidMap
        /\ x.pidSeriesCache = r.pidSeriesCache /\ x.disabled = r.disabled
        /\ x.pidSelect = r.pidSelect /\ x.metricSelect = r.metricSelect
        /\ x.overtaken = late
    BY <2>1, ZenonT(60) DEF PageInv, Page
  <2>4. UpdateChart(r) = Render(x, r.sharedFile, r.pidSelect, r.metricSelect)
    BY <1>3, <2>2, Zenon DEF UpdateChart, x, late
  <2> HIDE DEF x
  <2>5. PageInv(x) /\ (Locked(r) => Locked(x)) /\ Ready(x)
    BY <2>3, Zenon DEF PageInv, Locked, Ready
  <2>6. ~x.overtaken => x.seriesTask = None
    BY <2>3, Zenon DEF late
  <2> QED
    BY <2>2, <2>3, <2>4, <2>5, <2>6, RenderOk
<1> QED
  BY <1>1, <1>2, <1>3, SMTT(30)

(* The worker of a job is gone from its slot.                              *)
LEMMA CleanupOk ==
  ASSUME NEW r, PageInv(r), NEW job \in r.workers
  PROVE  LET z == Cleanup(r, job)
         IN /\ PageInv(z) /\ z.sharedFile = r.sharedFile
            /\ z.sharedFile = job.file /\ z.sharedFile \in File
            /\ job \in SeriesJob => (Locked(r) => Locked(z))
            /\ Ready(r) => Ready(z)
            /\ job \in PrepareJob => r.prepareTask = job /\ z.prepareTask = None
            /\ job \in SeriesJob => r.seriesTask = job /\ z.seriesTask = None
            /\ z.pidSelect = r.pidSelect /\ z.metricSelect = r.metricSelect
            /\ z.overtaken = r.overtaken
<1> DEFINE a == IF r.prepareTask = job THEN None ELSE r.prepareTask
           b == IF r.seriesTask = job THEN None ELSE r.seriesTask
           z == [r EXCEPT !.workers = @ \ {job}, !.prepareTask = a, !.seriesTask = b]
<1>1. /\ r \in Page /\ job \in Job /\ job.file = r.sharedFile
      /\ r.prepareTask \in PrepareJob \cup {None}
      /\ r.seriesTask \in SeriesJob \cup {None}
  BY Zenon DEF PageInv, Page
<1>2. job.file \in File
  BY <1>1, Zenon DEF Job, PrepareJob, SeriesJob
<1>3. a \in PrepareJob \cup {None} /\ b \in SeriesJob \cup {None}
  BY <1>1, Zenon
<1>4. \A j \in r.workers \ {job} : j = a \/ j = b
  BY Zenon DEF PageInv
<1>5. job \in SeriesJob => (r.prepareTask \in r.workers => a = r.prepareTask /\ a # job)
  BY <1>1, Kinds, Zenon
<1>6. z = Cleanup(r, job)
  BY <1>1, Zenon DEF Cleanup, Page
<1>10. /\ job \in PrepareJob => r.prepareTask = job /\ a = None
       /\ job \in SeriesJob => r.seriesTask = job /\ b = None
  BY <1>1, Kinds, Zenon DEF PageInv
<1>11. /\ r.prepareTask = None => a = None
       /\ r.seriesTask \in r.workers => b = None \/ b \in r.workers \ {job}
       /\ r.seriesTask = None => b = None
  BY Zenon
<1> HIDE DEF a, b
<1>7. /\ z \in Page /\ z.workers = r.workers \ {job}
      /\ z.prepareTask = a /\ z.seriesTask = b
      /\ z.sharedFile = r.sharedFile /\ z.pidMap = r.pidMap
      /\ z.pidSeriesCache = r.pidSeriesCache /\ z.timelineChart = r.timelineChart
      /\ z.disabled = r.disabled
  BY <1>1, <1>3, ZenonT(60) DEF Page
<1>12. /\ z.pidSelect = r.pidSelect /\ z.metricSelect = r.metricSelect
       /\ z.overtaken = r.overtaken
  BY <1>1, <1>3, ZenonT(60) DEF Page
<1> HIDE DEF z
<1>13. Ready(r) => Ready(z)
  BY <1>7, <1>11, <1>12, Zenon DEF Ready
<1>8. PageInv(z)
  BY <1>4, <1>7, Zenon DEF PageInv
<1>9. job \in SeriesJob => (Locked(r) => Locked(z))
  BY <1>5, <1>7, Zenon DEF Locked
<1> QED
  BY <1>1, <1>2, <1>6, <1>7, <1>8, <1>9, <1>10, <1>12, <1>13, Zenon

(* The process selected after indexing is one of the file, or none.        *)
LEMMA PreselectedOk ==
  ASSUME NEW f \in File, NEW url
  PROVE  /\ PreselectedPid(f, url) \in Pid \cup {None}
         /\ PreselectedPid(f, url) # None => PreselectedPid(f, url) \in PidsOf[f]
         /\ PidsOf[f] \in SUBSET Pid
<1>1. PidsOf[f] \in SUBSET Pid
  BY PidAssumption, Zenon
<1>2. PidsOf[f] # {} => LowestPid(f) \in PidsOf[f]
  <2>1. PidsOf[f] # {} => \E p \in PidsOf[f] : \A q \in PidsOf[f] : p <= q
    BY <1>1, PidAssumption, Least, Zenon
  <2> QED
    BY <2>1, Zenon DEF LowestPid
<1> QED
  BY <1>1, <1>2, Zenon DEF PreselectedPid

(* The index of the file arrives.                                          *)
LEMMA FilePreparedOk ==
  ASSUME NEW r, PageInv(r), NEW job, r.sharedFile = job.file, job.file \in File,
         Ready(r), r.prepareTask = None, NEW t \in Tab
  PROVE  LET z == FilePrepared(r, job, Url[t])
         IN /\ PageInv(z) /\ Locked(z) /\ Follows(z)
            /\ z.sharedFile = r.sharedFile
<1> DEFINE f == job.file
           initial == InitialPid(f, Url[t].pid)
           cache == [p \in Pid |-> IF p = initial THEN f ELSE r.pidSeriesCache[p]]
           select == PreselectedPid(f, Url[t].pid)
           metric == IF Url[t].metric # None THEN Url[t].metric ELSE r.metricSelect
           x == [r EXCEPT !.pidMap = PidsOf[f], !.pidSelect = select,
                          !.metricSelect = metric, !.pidSeriesCache = cache,
                          !.disabled = FALSE]
<1>1. r \in Page /\ r.metricSelect \in Metric
      /\ r.pidSeriesCache \in [Pid -> File \cup {None}]
  BY Zenon DEF PageInv, Page
<1>2. FilePrepared(r, job, Url[t]) = UpdateChart(x)
  BY <1>1, Zenon DEF FilePrepared, Page
<1>3. /\ cache \in [Pid -> File \cup {None}]
      /\ \A p \in Pid : cache[p] \in {None, r.sharedFile}
  BY <1>1, Zenon DEF PageInv
<1>4. /\ select \in Pid \cup {None} /\ PidsOf[f] \in SUBSET Pid
      /\ select # None => select \in PidsOf[f]
  BY PreselectedOk, Zenon
<1>5. metric \in Metric
  BY <1>1, MetricAssumption, Zenon
<1> HIDE DEF cache, select, metric
<1>6. /\ x \in Page /\ x.workers = r.workers /\ x.sharedFile = r.sharedFile
      /\ x.prepareTask = r.prepareTask /\ x.seriesTask = r.seriesTask
      /\ x.pidMap = PidsOf[f] /\ x.pidSeriesCache = cache
      /\ x.timelineChart = r.timelineChart /\ x.disabled = FALSE
  BY <1>1, <1>3, <1>4, <1>5, ZenonT(60) DEF Page
<1>7. x.pidSelect = select
  BY <1>1, <1>3, <1>4, <1>5, ZenonT(60) DEF Page
<1> HIDE DEF x
<1>8. PageInv(x) /\ Locked(x)
  BY <1>3, <1>6, Zenon DEF PageInv, Locked
<1>9. Ready(x)
  BY <1>4, <1>6, <1>7, Zenon DEF Ready
<1> QED
  BY <1>2, <1>6, <1>8, <1>9, UpdateChartOk, Zenon

(* A series arrives.                                                       *)
LEMMA SeriesBuiltOk ==
  ASSUME NEW r, PageInv(r), NEW job \in SeriesJob, r.sharedFile = job.file,
         Ready(r), r.seriesTask = None,
         r.pidSelect # None /\ ~r.overtaken => job = SelectedSeries(r)
  PROVE  LET z == SeriesBuilt(r, job)
         IN /\ PageInv(z) /\ (Locked(r) => Locked(z)) /\ Follows(z)
            /\ z.sharedFile = r.sharedFile
<1> DEFINE cache == [r.pidSeriesCache EXCEPT ![job.pid] = job.file]
           x == [r EXCEPT !.pidSeriesCache = cache]
<1>1. job.file \in File /\ job.pid \in Pid /\ job.metric \in Metric
  BY Zenon DEF SeriesJob
<1>2. r \in Page /\ r.pidSeriesCache \in [Pid -> File \cup {None}]
  BY Zenon DEF PageInv, Page
<1>3. SeriesBuilt(r, job) = Render(x, job.file, job.pid, job.metric)
  BY Zenon DEF SeriesBuilt
<1>4. /\ cache \in [Pid -> File \cup {None}]
      /\ \A p \in Pid : cache[p] \in {None, r.sharedFile}
  BY <1>1, <1>2, Zenon DEF PageInv
<1> HIDE DEF cache
<1>5. /\ x \in Page /\ x.workers = r.workers /\ x.sharedFile = r.sharedFile
      /\ x.prepareTask = r.prepareTask /\ x.seriesTask = r.seriesTask
      /\ x.pidMap = r.pidMap /\ x.pidSeriesCache = cache
      /\ x.timelineChart = r.timelineChart /\ x.disabled = r.disabled
      /\ x.pidSelect = r.pidSelect /\ x.metricSelect = r.metricSelect
      /\ x.overtaken = r.overtaken
  BY <1>2, <1>4, ZenonT(60) DEF Page
<1> HIDE DEF x
<1>6. PageInv(x) /\ (Locked(r) => Locked(x)) /\ Ready(x)
  BY <1>4, <1>5, Zenon DEF PageInv, Locked, Ready
<1>7. x.pidSelect # None /\ ~x.overtaken =>
        /\ x.seriesTask = None
        /\ job.pid = x.pidSelect /\ job.metric = x.metricSelect
  BY <1>5 DEF SelectedSeries
<1> QED
  BY <1>1, <1>3, <1>5, <1>6, <1>7, RenderOk

(* The catch of a failed task leaves the page in order.                    *)
LEMMA AfterFailureOk ==
  ASSUME NEW r, PageInv(r), NEW job, Ready(r),
         job.slot = "prepare" => r.pidSelect = None
  PROVE  LET z == AfterFailure(r, job)
         IN /\ PageInv(z) /\ (job.slot = "prepare" \/ Locked(r) => Locked(z))
            /\ Follows(z) /\ z.sharedFile = r.sharedFile
<1>1. CASE job.slot = "prepare"
  <2> DEFINE z == [r EXCEPT !.disabled = FALSE]
  <2>1. /\ z \in Page /\ z.workers = r.workers /\ z.sharedFile = r.sharedFile
        /\ z.prepareTask = r.prepareTask /\ z.seriesTask = r.seriesTask
        /\ z.pidMap = r.pidMap /\ z.pidSeriesCache = r.pidSeriesCache
        /\ z.timelineChart = r.timelineChart /\ z.disabled = FALSE
        /\ z.pidSelect = r.pidSelect
    BY Zenon DEF PageInv, Page
  <2>2. AfterFailure(r, job) = z
    BY <1>1, Zenon DEF AfterFailure
  <2> HIDE DEF z
  <2> QED
    BY <1>1, <2>1, <2>2, Zenon DEF PageInv, Locked, Ready, Follows
<1>2. CASE job.slot # "prepare"
  <2> DEFINE z == [r EXCEPT !.overtaken = TRUE]
  <2>1. /\ z \in Page /\ z.workers = r.workers /\ z.sharedFile = r.sharedFile
        /\ z.prepareTask = r.prepareTask /\ z.seriesTask = r.seriesTask
        /\ z.pidMap = r.pidMap /\ z.pidSeriesCache = r.pidSeriesCache
        /\ z.timelineChart = r.timelineChart /\ z.disabled = r.disabled
        /\ z.pidSelect = r.pidSelect /\ z.overtaken = TRUE
    BY Zenon DEF PageInv, Page
  <2>2. AfterFailure(r, job) = z
    BY <1>2, Zenon DEF AfterFailure
  <2> HIDE DEF z
  <2> QED
    BY <1>2, <2>1, <2>2, Zenon DEF PageInv, Locked, Ready, Follows
<1> QED
  BY <1>1, <1>2, Zenon

(* A page that has just been opened is in order.                           *)
LEMMA NewTabOk ==
  PageInv(NewTab) /\ Locked(NewTab) /\ Follows(NewTab) /\ NewTab.sharedFile = None
<1>1. (CHOOSE m \in Metric : TRUE) \in Metric
  BY MetricAssumption, Zenon
<1>2. /\ NewTab \in Page /\ NewTab.workers = {} /\ NewTab.timelineChart = None
      /\ NewTab.pidMap = {} /\ NewTab.pidSeriesCache = [p \in Pid |-> None]
      /\ NewTab.disabled = FALSE /\ NewTab.pidSelect = None
      /\ NewTab.seriesTask = None /\ NewTab.sharedFile = None
  BY <1>1, Zenon DEF NewTab, Page
<1> QED
  BY <1>2, Zenon DEF PageInv, Locked, Follows, Ready
-----------------------------------------------------------------------------
Fine(r) == PageInv(r) /\ Locked(r) /\ Follows(r)

(* No tab opens, and every tab keeps its file.                             *)
KeepsFiles ==
  /\ Opened' = Opened
  /\ \A u \in Opened : tab'[u].sharedFile = tab[u].sharedFile

(* A tab that is open, or opens, gets a page that is in order.             *)
LEMMA BecomeOk ==
  ASSUME TabInv, NEW t \in Tab, NEW r, Fine(r), Become(t, r)
  PROVE  /\ TabInv' /\ Opened' = Opened \cup {t} /\ tab'[t] = r
         /\ \A u \in Tab \ {t} : tab'[u] = tab[u]
         /\ t \in Opened /\ r.sharedFile = tab[t].sharedFile => KeepsFiles
<1>1. r \in Page /\ tab \in [Tab -> Page \cup {None}]
  BY Zenon DEF Fine, PageInv, TabInv
<1>2. /\ tab' \in [Tab -> Page \cup {None}] /\ tab'[t] = r
      /\ \A u \in Tab \ {t} : tab'[u] = tab[u]
  BY <1>1, Zenon DEF Become
<1>3. \A u \in Opened' : u = t \/ u \in Opened
  BY <1>2, Zenon DEF Opened
<1>4. \A u \in Opened' : Fine(tab'[u])
  BY <1>2, <1>3, Zenon DEF TabInv, Opened, Fine
<1>5. Opened' = Opened \cup {t}
  BY <1>1, <1>2, NoneAssumption, Zenon DEF Opened
<1>6. t \in Opened /\ r.sharedFile = tab[t].sharedFile => KeepsFiles
  BY <1>2, <1>5, Zenon DEF KeepsFiles, Opened
<1> QED
  BY <1>2, <1>4, <1>5, <1>6, Zenon DEF TabInv, Fine

Delivered(ch) ==
  /\ ch \in [Tab -> [Tab -> Seq(Msg)]]
  /\ \A s, t \in Tab : ch[s][t] # <<>> => t \in Opened

(* What is posted goes to open tabs only.                                  *)
LEMMA PostedOk ==
  ASSUME NEW ch, Delivered(ch), NEW s \in Tab, NEW msg \in Msg
  PROVE  Delivered(Posted(ch, s, msg))
<1> DEFINE row == [t \in Tab |-> IF t \in Opened \ {s} THEN Append(ch[s][t], msg)
                                                       ELSE ch[s][t]]
           new == [ch EXCEPT ![s] = row]
<1>1. ch \in [Tab -> [Tab -> Seq(Msg)]]
  BY Zenon DEF Delivered
<1>2. new = Posted(ch, s, msg)
  BY <1>1, Zenon DEF Posted
<1>3. \A t \in Tab : ch[s][t] \in Seq(Msg) /\ Append(ch[s][t], msg) \in Seq(Msg)
  BY <1>1
<1>4. row \in [Tab -> Seq(Msg)]
  BY <1>3, Zenon
<1>5. \A t \in Tab : row[t] # <<>> => t \in Opened
  BY Zenon DEF Delivered
<1> HIDE DEF row
<1>6. new \in [Tab -> [Tab -> Seq(Msg)]] /\ new[s] = row
      /\ \A u \in Tab \ {s} : new[u] = ch[u]
  BY <1>1, <1>4, Zenon
<1> HIDE DEF new
<1> QED
  BY <1>2, <1>5, <1>6, Zenon DEF Delivered

(* Messages are only for tabs that are open.                               *)
LEMMA ChannelStep ==
  ASSUME Delivered(channel'), Opened \subseteq Opened'
  PROVE  ChannelInv'
BY Zenon DEF Delivered, ChannelInv

(* What is left when the head of a queue is taken is for open tabs.        *)
LEMMA TakenOk ==
  ASSUME ChannelInv, NEW s \in Tab, NEW t \in Tab, channel[s][t] # <<>>
  PROVE  Delivered([channel EXCEPT ![s][t] = Tail(@)])
<1> DEFINE q == channel[s][t]
           row == [channel[s] EXCEPT ![t] = Tail(q)]
           new == [channel EXCEPT ![s] = row]
<1>1. /\ channel \in [Tab -> [Tab -> Seq(Msg)]] /\ q \in Seq(Msg) /\ q # <<>>
      /\ t \in Opened /\ Tail(q) \in Seq(Msg)
  BY DEF ChannelInv
<1>2. new = [channel EXCEPT ![s][t] = Tail(@)]
  BY <1>1, Zenon
<1>3. row \in [Tab -> Seq(Msg)] /\ row[t] = Tail(q)
      /\ \A u \in Tab \ {t} : row[u] = channel[s][u]
  BY <1>1, Zenon
<1> HIDE DEF row
<1>4. new \in [Tab -> [Tab -> Seq(Msg)]] /\ new[s] = row
      /\ \A u \in Tab \ {s} : new[u] = channel[u]
  BY <1>1, <1>3, Zenon
<1> HIDE DEF new
<1>5. \A u, v \in Tab : new[u][v] # <<>> => v \in Opened
  BY <1>1, <1>3, <1>4, ZenonT(60) DEF ChannelInv
<1> QED
  BY <1>2, <1>4, <1>5, Zenon DEF Delivered

(* The head of a queue is handled by a tab that is open.                   *)
LEMMA ReceiveOk ==
  ASSUME RInv, NEW s \in Tab, NEW t \in Tab, Receive(s, t)
  PROVE  RInv'
<1> DEFINE q == channel[s][t]
           msg == Head(q)
           ch == [channel EXCEPT ![s][t] = Tail(@)]
<1>1. /\ channel \in [Tab -> [Tab -> Seq(Msg)]] /\ q \in Seq(Msg) /\ q # <<>>
      /\ t \in Opened
  BY Zenon DEF Receive, RInv, ChannelInv
<1>2. msg \in Msg
  BY <1>1
<1>3. Delivered(ch)
  BY <1>1, TakenOk, Zenon DEF RInv
<1>4. PageInv(tab[t]) /\ TabInv
  BY <1>1, Zenon DEF RInv, TabInv
<1>5. \/ msg.type = "file" /\ ReceiveFile(t, msg, ch)
      \/ msg.type = "request" /\ ReceiveRequest(t, ch)
  BY Zenon DEF Receive
<1> HIDE DEF ch
<1>6. CASE msg.type = "file" /\ ReceiveFile(t, msg, ch)
  <2>1. msg.file \in File
    BY <1>2, <1>6 DEF Msg, FileMsg, RequestMsg
  <2>2. channel' = ch /\ (UNCHANGED tab \/ Become(t, ApplyFile(tab[t], msg.file)))
    BY <1>6, Zenon DEF ReceiveFile
  <2>3. Fine(ApplyFile(tab[t], msg.file))
    BY <1>4, <2>1, ApplyFileOk, Zenon DEF Fine
  <2>4. TabInv' /\ Opened \subseteq Opened'
    <3>1. CASE UNCHANGED tab
      BY <1>4, <3>1, Zenon DEF TabInv, Opened
    <3>2. CASE Become(t, ApplyFile(tab[t], msg.file))
      BY <1>4, <2>3, <3>2, BecomeOk, Zenon
    <3> QED
      BY <2>2, <3>1, <3>2, Zenon
  <2> QED
    BY <1>3, <2>2, <2>4, ChannelStep, Zenon DEF RInv
<1>7. CASE msg.type = "request" /\ ReceiveRequest(t, ch)
  <2>1. UNCHANGED tab
    BY <1>7, Zenon DEF ReceiveRequest
  <2>2. TabInv' /\ Opened' = Opened
    BY <1>4, <2>1, Zenon DEF TabInv, Opened
  <2>3. tab[t].sharedFile # None => FileMsg(tab[t].sharedFile) \in Msg
    BY <1>4, Zenon DEF PageInv, Page, Msg
  <2>4. Delivered(channel')
    BY <1>3, <1>7, <2>3, PostedOk, Zenon DEF ReceiveRequest
  <2> QED
    BY <2>2, <2>4, ChannelStep, Zenon DEF RInv
<1> QED
  BY <1>5, <1>6, <1>7, Zenon

(* A chart is asked for: the selection of a process or of a metric, and    *)
(* the switch of the colours.                                              *)
SelectStep(t) ==
  \/ ToggleLightMode(t)
  \/ \E p \in Pid : SelectPid(t, p)
  \/ \E m \in Metric : SelectMetric(t, m)

LEMMA SelectStepOk ==
  ASSUME RInv, NEW t \in Tab, SelectStep(t)
  PROVE  RInv' /\ KeepsFiles /\ UNCHANGED channel
<1>1. TabInv /\ Delivered(channel)
  BY Zenon DEF RInv, ChannelInv, Delivered
<1>2. t \in Opened /\ Fine(tab[t]) /\ UNCHANGED channel
  BY <1>1, Zenon DEF SelectStep, ToggleLightMode, SelectPid, SelectMetric, TabInv, Fine
<1>3. ASSUME NEW r, PageInv(r), Locked(r), Ready(r), Become(t, UpdateChart(r)),
             r.sharedFile = tab[t].sharedFile
      PROVE  RInv' /\ KeepsFiles
  <2>1. Fine(UpdateChart(r)) /\ UpdateChart(r).sharedFile = tab[t].sharedFile
    BY <1>3, UpdateChartOk, Zenon DEF Fine
  <2>2. TabInv' /\ KeepsFiles
    BY <1>1, <1>2, <1>3, <2>1, BecomeOk, Zenon
  <2> QED
    BY <1>1, <1>2, <2>2, ChannelStep, Zenon DEF RInv, KeepsFiles
<1>4. ASSUME NEW p \in Pid, SelectPid(t, p)
      PROVE  RInv' /\ KeepsFiles
  <2> DEFINE r == [tab[t] EXCEPT !.pidSelect = p]
  <2>1. /\ r \in Page /\ r.workers = tab[t].workers /\ r.sharedFile = tab[t].sharedFile
        /\ r.prepareTask = tab[t].prepareTask /\ r.seriesTask = tab[t].seriesTask
        /\ r.pidMap = tab[t].pidMap /\ r.pidSeriesCache = tab[t].pidSeriesCache
        /\ r.timelineChart = tab[t].timelineChart /\ r.disabled = tab[t].disabled
        /\ r.pidSelect = p
    BY <1>2, ZenonT(60) DEF Fine, PageInv, Page
  <2>2. Become(t, UpdateChart(r)) /\ p \in tab[t].pidMap
    BY <1>4, SMTT(30) DEF SelectPid
  <2> HIDE DEF r
  <2>3. PageInv(r) /\ Locked(r) /\ Ready(r)
    <3>1. PageInv(r)
      BY <1>2, <2>1, Zenon DEF Fine, PageInv
    <3>2. Locked(r)
      BY <1>2, <2>1, Zenon DEF Fine, Locked
    <3>3. Ready(r)
      BY <1>2, <2>1, <2>2, Zenon DEF Fine, Follows, Ready
    <3> QED
      BY <3>1, <3>2, <3>3, Zenon
  <2> QED
    BY <1>3, <2>1, <2>2, <2>3, Zenon
<1>5. ASSUME NEW m \in Metric, SelectMetric(t, m)
      PROVE  RInv' /\ KeepsFiles
  <2> DEFINE r == [tab[t] EXCEPT !.metricSelect = m]
  <2>1. /\ r \in Page /\ r.workers = tab[t].workers /\ r.sharedFile = tab[t].sharedFile
        /\ r.prepareTask = tab[t].prepareTask /\ r.seriesTask = tab[t].seriesTask
        /\ r.pidMap = tab[t].pidMap /\ r.pidSeriesCache = tab[t].pidSeriesCache
        /\ r.timelineChart = tab[t].timelineChart /\ r.disabled = tab[t].disabled
        /\ r.pidSelect = tab[t].pidSelect
    BY <1>2, ZenonT(60) DEF Fine, PageInv, Page
  <2>2. Become(t, UpdateChart(r))
    BY <1>5, Zenon DEF SelectMetric
  <2> HIDE DEF r
  <2>3. PageInv(r) /\ Locked(r) /\ Ready(r)
    <3>1. PageInv(r)
      BY <1>2, <2>1, Zenon DEF Fine, PageInv
    <3>2. Locked(r)
      BY <1>2, <2>1, Zenon DEF Fine, Locked
    <3>3. Ready(r)
      BY <1>2, <2>1, Zenon DEF Fine, Follows, Ready
    <3> QED
      BY <3>1, <3>2, <3>3, Zenon
  <2> QED
    BY <1>3, <2>1, <2>2, <2>3, Zenon
<1>6. CASE ToggleLightMode(t)
  BY <1>2, <1>3, <1>6, Zenon DEF ToggleLightMode, Fine, Follows
<1> QED
  BY <1>2, <1>4, <1>5, <1>6, Zenon DEF SelectStep

(* The user's steps.                                                       *)
LEMMA UserStepOk ==
  ASSUME RInv, NEW t \in Tab, UserStep(t)
  PROVE  RInv'
<1>1. TabInv /\ Delivered(channel) /\ RequestMsg \in Msg
  BY Zenon DEF RInv, ChannelInv, Delivered, Msg
<1>2. CASE OpenTab(t)
  <2>1. TabInv' /\ Opened \subseteq Opened'
    BY <1>1, <1>2, NewTabOk, BecomeOk, Zenon DEF OpenTab, Fine
  <2>2. Delivered(channel')
    BY <1>1, <1>2, PostedOk, Zenon DEF OpenTab, RequestFile
  <2> QED
    BY <2>1, <2>2, ChannelStep, Zenon DEF RInv
<1>3. CASE BecomeVisible(t)
  <2>1. TabInv' /\ Opened' = Opened
    BY <1>1, <1>3, Zenon DEF BecomeVisible, TabInv, Opened
  <2>2. Delivered(channel')
    BY <1>1, <1>3, PostedOk, Zenon DEF BecomeVisible, RequestFile
  <2> QED
    BY <2>1, <2>2, ChannelStep, Zenon DEF RInv
<1>4. ASSUME NEW f \in File, LoadFile(t, f)
      PROVE  RInv'
  <2>1. Fine(ApplyFile(tab[t], f))
    BY <1>1, <1>4, ApplyFileOk, SMTT(30) DEF LoadFile, TabInv, Fine
  <2>2. TabInv' /\ Opened \subseteq Opened'
    BY <1>1, <1>4, <2>1, BecomeOk, Zenon DEF LoadFile
  <2>3. FileMsg(f) \in Msg
    BY Zenon DEF Msg
  <2>4. Delivered(channel')
    BY <1>1, <1>4, <2>3, PostedOk, Zenon DEF LoadFile
  <2> QED
    BY <2>2, <2>4, ChannelStep, Zenon DEF RInv
<1> QED
  BY <1>2, <1>3, <1>4, SelectStepOk, Zenon DEF UserStep, SelectStep

(* The messages of the workers.                                            *)
LEMMA WorkerStepOk ==
  ASSUME RInv, NEW t \in Tab, WorkerStep(t)
  PROVE  RInv' /\ KeepsFiles /\ UNCHANGED channel
<1>1. PICK job \in Job : WorkerDone(t, job) \/ WorkerFails(t, job)
  BY Zenon DEF WorkerStep
<1> DEFINE r == Cleanup(tab[t], job)
<1>2. /\ t \in Opened /\ job \in tab[t].workers /\ UNCHANGED channel
      /\ TabInv /\ Delivered(channel)
  BY <1>1, Zenon DEF WorkerDone, WorkerFails, RInv, ChannelInv, Delivered
<1>3. PageInv(tab[t]) /\ Locked(tab[t]) /\ Follows(tab[t])
  BY <1>2, SMTT(30) DEF TabInv
<1>4. /\ PageInv(r) /\ r.sharedFile = job.file /\ job.file \in File
      /\ r.sharedFile = tab[t].sharedFile
      /\ job \in SeriesJob => Locked(r)
  BY <1>2, <1>3, CleanupOk, SMTT(30)
<1>9. /\ Ready(tab[t]) /\ Ready(r)
      /\ job \in PrepareJob => tab[t].prepareTask = job /\ r.prepareTask = None
      /\ job \in SeriesJob => tab[t].seriesTask = job /\ r.seriesTask = None
      /\ r.pidSelect = tab[t].pidSelect /\ r.metricSelect = tab[t].metricSelect
      /\ r.overtaken = tab[t].overtaken
  BY <1>2, <1>3, CleanupOk, SMTT(30) DEF Follows
<1>10. job \in PrepareJob => r.pidSelect = None
  BY <1>9, Kinds, Zenon DEF Ready
<1>11. job \in SeriesJob /\ r.pidSelect # None /\ ~r.overtaken
         => job = SelectedSeries(r)
  <2>1. SelectedSeries(r) = SelectedSeries(tab[t])
    BY <1>4, <1>9, Zenon DEF SelectedSeries
  <2> QED
    BY <1>3, <1>9, <2>1, Kinds, Zenon DEF Follows
<1>5. \/ job.slot = "prepare" /\ job \in PrepareJob
      \/ job.slot = "series" /\ job \in SeriesJob
  BY Kinds, SMTT(30) DEF Job
<1>6. \/ job.slot = "prepare" /\ Become(t, FilePrepared(r, job, Url[t]))
      \/ job.slot = "series" /\ Become(t, SeriesBuilt(r, job))
      \/ Become(t, AfterFailure(r, job))
  BY <1>1, Zenon DEF WorkerDone, WorkerFails
<1> HIDE DEF r
<1>7. \E z : Fine(z) /\ z.sharedFile = tab[t].sharedFile /\ Become(t, z)
  <2>1. CASE job.slot = "prepare" /\ Become(t, FilePrepared(r, job, Url[t]))
    <3>1. r.prepareTask = None
      BY <1>5, <1>9, <2>1, SMTT(30)
    <3>2. LET z == FilePrepared(r, job, Url[t])
          IN /\ PageInv(z) /\ Locked(z) /\ Follows(z)
             /\ z.sharedFile = r.sharedFile
      BY <1>4, <1>9, <3>1, FilePreparedOk, Zenon
    <3> QED
      BY <1>4, <2>1, <3>2, Zenon DEF Fine
  <2>2. CASE job.slot = "series" /\ Become(t, SeriesBuilt(r, job))
    BY <1>4, <1>5, <1>9, <1>11, <2>2, Kinds, SeriesBuiltOk, ZenonT(60) DEF Fine
  <2>3. CASE Become(t, AfterFailure(r, job))
    BY <1>4, <1>5, <1>9, <1>10, <2>3, AfterFailureOk, Zenon DEF Fine
  <2> QED
    BY <1>6, <2>1, <2>2, <2>3, Zenon
<1>8. TabInv' /\ KeepsFiles
  BY <1>2, <1>7, BecomeOk, Zenon
<1> QED
  BY <1>2, <1>8, ChannelStep, Zenon DEF RInv, KeepsFiles

(* At the start no page is open and no message is under way.               *)
LEMMA InitRInv == Init => RInv
<1> SUFFICES ASSUME Init PROVE RInv
  BY Zenon
<1>1. TabInv
  BY Zenon DEF Init, TabInv, Opened
<1>2. <<>> \in Seq(Msg)
  OBVIOUS
<1>3. ChannelInv
  BY <1>2, Zenon DEF Init, ChannelInv
<1> QED
  BY <1>1, <1>3, Zenon DEF RInv

(* Every handler of every page preserves the invariant.                    *)
LEMMA StepRInv == RInv /\ [Next]_vars => RInv'
<1> SUFFICES ASSUME RInv, [Next]_vars PROVE RInv'
  BY Zenon
<1>1. CASE UNCHANGED vars
  BY <1>1, Zenon DEF vars, RInv, TabInv, ChannelInv, Opened
<1>2. CASE Next
  BY <1>2, UserStepOk, WorkerStepOk, ReceiveOk, Zenon DEF Next
<1> QED
  BY <1>1, <1>2, Zenon

(* For any set of tabs, files, processes and metrics: every page of        *)
(* records.html is in order after every handler, whatever the order in     *)
(* which workers, timers and messages get their turn.                      *)
THEOREM PagesInOrder == Spec => []RInv
BY InitRInv, StepRInv, PTL DEF Spec

(* However files, selections, results and failures of workers interleave,  *)
(* in any number of tabs, no result of an earlier file reaches the page:   *)
(* the two slots know all workers, so applyFile terminates every one.      *)
THEOREM NoLateResults == Spec => []OneFile
<1>1. RInv => OneFile
  BY Zenon DEF RInv, TabInv, PageInv, OneFile
<1> QED
  BY <1>1, PagesInOrder, PTL

(* Locked controls always have a worker to unlock them.                    *)
THEOREM ControlsUnlock == Spec => []ControlsReturn
<1>1. RInv => ControlsReturn
  BY SMTT(30) DEF RInv, TabInv, Locked, ControlsReturn
<1> QED
  BY <1>1, PagesInOrder, PTL

(* The chart is the one that was asked for once nothing is being built,    *)
(* for any files, processes and metrics: what is selected is drawn, or the *)
(* only series in the making is its own.                                   *)
THEOREM ChartIsTheSelection == Spec => []ChartFollowsSelection
<1>1. RInv => ChartFollowsSelection
  BY Zenon DEF RInv, TabInv, Follows, Ready, ChartFollowsSelection
<1> QED
  BY <1>1, PagesInOrder, PTL
-----------------------------------------------------------------------------
(* Message m is on its way from tab s to tab t.                            *)
On(ch, s, t, m) == \E i \in DOMAIN ch[s][t] : ch[s][t][i] = m

(* File f is the one the tabs are about to agree on: it is the only one    *)
(* under way, and a tab has it, will get it, or has asked a tab that has   *)
(* it.                                                                     *)
Agreed(f) ==
  /\ \A s, t \in Tab : \A g \in File : On(channel, s, t, FileMsg(g)) => g = f
  /\ \A t \in Opened :
       \/ tab[t].sharedFile = f
       \/ \E s \in Tab : On(channel, s, t, FileMsg(f))
       \/ /\ tab[t].sharedFile = None
          /\ \E u \in Opened : tab[u].sharedFile = f /\ On(channel, t, u, RequestMsg)
  /\ (\E s, t \in Tab : On(channel, s, t, RequestMsg))
       => \A t \in Opened : tab[t].sharedFile \in {f, None}
  /\ f # None => \E u \in Opened : tab[u].sharedFile = f

AgreeInv == ~raced => \E f \in File \cup {None} : Agreed(f)

(* postMessage: a message more for every other tab that is open.           *)
Adds(ch, new, s, msg) ==
  \A a, b \in Tab : \A m :
    On(new, a, b, m) <=> On(ch, a, b, m) \/ (a = s /\ b \in Opened \ {s} /\ m = msg)

LEMMA PostedOn ==
  ASSUME NEW ch \in [Tab -> [Tab -> Seq(Msg)]], NEW s \in Tab, NEW msg \in Msg
  PROVE  Adds(ch, Posted(ch, s, msg), s, msg)
<1> DEFINE new == Posted(ch, s, msg)
<1> SUFFICES ASSUME NEW a \in Tab, NEW b \in Tab, NEW m
             PROVE  On(new, a, b, m)
                      <=> On(ch, a, b, m) \/ (a = s /\ b \in Opened \ {s} /\ m = msg)
  BY Zenon DEF Adds
<1>1. ch[a][b] \in Seq(Msg)
  BY Zenon
<1>2. new[a][b] = IF a = s /\ b \in Opened \ {s} THEN Append(ch[a][b], msg)
                                                 ELSE ch[a][b]
  BY Zenon DEF Posted
<1> HIDE DEF new
<1>3. ASSUME NEW q \in Seq(Msg)
      PROVE  (\E i \in DOMAIN Append(q, msg) : Append(q, msg)[i] = m)
               <=> (\E i \in DOMAIN q : q[i] = m) \/ m = msg
  <2>1. /\ Len(q) \in Nat /\ DOMAIN q = 1..Len(q)
        /\ DOMAIN Append(q, msg) = 1..(Len(q) + 1)
        /\ Append(q, msg)[Len(q) + 1] = msg
        /\ \A i \in 1..Len(q) : Append(q, msg)[i] = q[i]
    OBVIOUS
  <2>2. Len(q) + 1 \in 1..(Len(q) + 1) /\ 1..Len(q) \subseteq 1..(Len(q) + 1)
        /\ \A i \in 1..(Len(q) + 1) : i = Len(q) + 1 \/ i \in 1..Len(q)
    BY <2>1, SMTT(60)
  <2> QED
    BY <2>1, <2>2, Zenon
<1>4. On(new, a, b, m) <=> \E i \in DOMAIN new[a][b] : new[a][b][i] = m
  BY Zenon DEF On
<1> QED
  BY <1>1, <1>2, <1>3, <1>4, Zenon DEF On

(* A delivery takes the first message of one queue.                        *)
Takes(ch, new, s, t, msg) ==
  /\ On(ch, s, t, msg)
  /\ \A a, b \in Tab : \A m : On(new, a, b, m) => On(ch, a, b, m)
  /\ \A a, b \in Tab : \A m :
       On(ch, a, b, m) => On(new, a, b, m) \/ (a = s /\ b = t /\ m = msg)

LEMMA TailOn ==
  ASSUME NEW ch \in [Tab -> [Tab -> Seq(Msg)]], NEW s \in Tab, NEW t \in Tab,
         ch[s][t] # <<>>
  PROVE  Takes(ch, [ch EXCEPT ![s][t] = Tail(@)], s, t, Head(ch[s][t]))
<1> DEFINE new == [ch EXCEPT ![s][t] = Tail(@)]
           q == ch[s][t]
<1>1. q \in Seq(Msg) /\ q # <<>>
  BY Zenon
<1>2. \A a, b \in Tab : new[a][b] = IF a = s /\ b = t THEN Tail(q) ELSE ch[a][b]
  BY SMTT(30)
<1> HIDE DEF new, q
<1>3. /\ 1 \in DOMAIN q /\ Head(q) = q[1]
      /\ DOMAIN q = 1..Len(q) /\ DOMAIN Tail(q) = 1..(Len(q) - 1)
      /\ \A i \in 1..(Len(q) - 1) : Tail(q)[i] = q[i + 1]
  BY <1>1
<1>4. ASSUME NEW m, NEW i \in DOMAIN Tail(q), Tail(q)[i] = m
      PROVE  \E n \in DOMAIN q : q[n] = m
  <2>1. i + 1 \in DOMAIN q /\ q[i + 1] = m
    BY <1>1, <1>3, <1>4
  <2> QED
    BY <2>1, Zenon
<1>5. ASSUME NEW m, NEW i \in DOMAIN q, q[i] = m, m # Head(q)
      PROVE  \E n \in DOMAIN Tail(q) : Tail(q)[n] = m
  <2>1. i - 1 \in DOMAIN Tail(q) /\ Tail(q)[i - 1] = m
    BY <1>1, <1>3, <1>5
  <2> QED
    BY <2>1, Zenon
<1>6. On(ch, s, t, Head(q))
  BY <1>3, Zenon DEF On, q
<1>7. ASSUME NEW a \in Tab, NEW b \in Tab, NEW m, On(new, a, b, m)
      PROVE  On(ch, a, b, m)
  <2>1. PICK i \in DOMAIN new[a][b] : new[a][b][i] = m
    BY <1>7, SMTT(30) DEF On
  <2>2. CASE a = s /\ b = t
    <3>1. new[a][b] = Tail(q)
      BY <1>2, <2>2, Zenon
    <3>2. \E n \in DOMAIN q : q[n] = m
      BY <1>4, <2>1, <3>1, Zenon
    <3> QED
      BY <2>2, <3>2, Zenon DEF On, q
  <2>3. CASE ~(a = s /\ b = t)
    <3>1. new[a][b] = ch[a][b]
      BY <1>2, <2>3, Zenon
    <3> QED
      BY <2>1, <3>1, Zenon DEF On
  <2> QED
    BY <2>2, <2>3, Zenon
<1>8. ASSUME NEW a \in Tab, NEW b \in Tab, NEW m, On(ch, a, b, m)
      PROVE  On(new, a, b, m) \/ (a = s /\ b = t /\ m = Head(q))
  <2>1. PICK i \in DOMAIN ch[a][b] : ch[a][b][i] = m
    BY <1>8, Zenon DEF On
  <2>2. CASE a = s /\ b = t /\ m # Head(q)
    <3>1. \E n \in DOMAIN Tail(q) : Tail(q)[n] = m
      BY <1>5, <2>1, <2>2, Zenon DEF q
    <3>2. new[a][b] = Tail(q)
      BY <1>2, <2>2, Zenon
    <3> QED
      BY <3>1, <3>2, Zenon DEF On
  <2>3. CASE ~(a = s /\ b = t)
    <3>1. new[a][b] = ch[a][b]
      BY <1>2, <2>3, Zenon
    <3> QED
      BY <2>1, <3>1, Zenon DEF On
  <2> QED
    BY <2>2, <2>3, Zenon
<1>9. Takes(ch, new, s, t, Head(q))
  BY <1>6, <1>7, <1>8, Zenon DEF Takes
<1> QED
  BY <1>9, Zenon DEF new, q

(* Nothing of a kind is on its way.                                        *)
LEMMA NothingOn ==
  /\ ~OnItsWay({"file"}) =>
       \A s, t \in Tab : \A f : ~On(channel, s, t, FileMsg(f))
  /\ ~OnItsWay({"file", "request"}) =>
       \A s, t \in Tab : /\ \A f : ~On(channel, s, t, FileMsg(f))
                         /\ ~On(channel, s, t, RequestMsg)
<1>1. RequestMsg.type = "request" /\ \A f : FileMsg(f).type = "file"
  BY Zenon DEF RequestMsg, FileMsg
<1> QED
  BY <1>1, Zenon DEF OnItsWay, On

(* A request is sent while no file is on its way.                          *)
LEMMA AgreeRequest ==
  ASSUME RInv, NEW t \in Tab, NEW f \in File \cup {None}, Agreed(f),
         channel' = Posted(channel, t, RequestMsg),
         Opened' = Opened \cup {t}, ~OnItsWay({"file"}),
         tab'[t].sharedFile = None,
         \A u \in Opened \ {t} : tab'[u].sharedFile = tab[u].sharedFile,
         t \in Opened => tab[t].sharedFile = None
  PROVE  Agreed(f)'
<1>1. /\ channel \in [Tab -> [Tab -> Seq(Msg)]] /\ RequestMsg \in Msg
      /\ \A g : RequestMsg # FileMsg(g)
      /\ Opened \subseteq Tab
  BY SMTT(30) DEF RInv, ChannelInv, Msg, Opened, RequestMsg, FileMsg
<1>2. Adds(channel, channel', t, RequestMsg)
  BY <1>1, PostedOn, Zenon
<1>3. \A a, b \in Tab : \A g : ~On(channel, a, b, FileMsg(g))
  BY NothingOn, Zenon
<1>4. \A a, b \in Tab : \A g : ~On(channel', a, b, FileMsg(g))
  BY <1>1, <1>2, <1>3, ZenonT(60) DEF Adds, Takes
<1>5. \A u \in Opened : tab'[u].sharedFile = tab[u].sharedFile
  BY Zenon
<1>6. \A u \in Opened : tab[u].sharedFile \in {f, None}
  BY <1>1, <1>3, Zenon DEF Agreed
<1>7. \A u \in Opened' : tab'[u].sharedFile \in {f, None}
  BY <1>5, <1>6, Zenon
<1>8. f # None => \E u \in Opened \ {t} : tab'[u].sharedFile = f
  BY <1>5, Zenon DEF Agreed
<1>9. ASSUME NEW u \in Opened'
      PROVE  \/ tab'[u].sharedFile = f
             \/ /\ tab'[u].sharedFile = None
                /\ \E v \in Opened' : tab'[v].sharedFile = f
                                      /\ On(channel', u, v, RequestMsg)
  <2>1. CASE u = t
    BY <1>1, <1>2, <1>8, <2>1, Zenon DEF Adds, Takes
  <2>2. CASE u # t /\ tab'[u].sharedFile # f
    <3>1. PICK v \in Opened : tab[v].sharedFile = f /\ On(channel, u, v, RequestMsg)
      BY <1>1, <1>3, <1>5, <2>2, Zenon DEF Agreed
    <3>2. tab'[v].sharedFile = f /\ On(channel', u, v, RequestMsg)
      BY <1>1, <1>2, <1>5, <2>2, <3>1, Zenon DEF Adds, Takes
    <3> QED
      BY <1>7, <2>2, <3>2, Zenon
  <2> QED
    BY <2>1, <2>2, Zenon
<1> QED
  BY <1>4, <1>7, <1>8, <1>9, Zenon DEF Agreed

(* A file is loaded while nothing is on its way.                           *)
LEMMA AgreeLoad ==
  ASSUME RInv, NEW t \in Tab, NEW f \in File,
         channel' = Posted(channel, t, FileMsg(f)),
         Opened' = Opened, t \in Opened, ~OnItsWay({"file", "request"}),
         tab'[t].sharedFile = f
  PROVE  Agreed(f)'
<1>1. /\ channel \in [Tab -> [Tab -> Seq(Msg)]] /\ FileMsg(f) \in Msg
      /\ RequestMsg # FileMsg(f) /\ Opened \subseteq Tab
      /\ \A g : FileMsg(g) = FileMsg(f) => g = f
  BY Zenon DEF RInv, ChannelInv, Msg, Opened, RequestMsg, FileMsg
<1>2. Adds(channel, channel', t, FileMsg(f))
  BY <1>1, PostedOn, Zenon
<1>3. \A a, b \in Tab : ~On(channel', a, b, RequestMsg)
                        /\ \A g \in File : On(channel', a, b, FileMsg(g)) => g = f
  <2>1. \A a, b \in Tab : ~On(channel, a, b, RequestMsg)
                          /\ \A g : ~On(channel, a, b, FileMsg(g))
    BY NothingOn, Zenon
  <2>2. ASSUME NEW a \in Tab, NEW b \in Tab, NEW m, On(channel', a, b, m)
        PROVE  On(channel, a, b, m) \/ m = FileMsg(f)
    BY <1>2, <2>2, Zenon DEF Adds
  <2>3. ASSUME NEW a \in Tab, NEW b \in Tab, NEW g, On(channel', a, b, FileMsg(g))
        PROVE  g = f
    BY <1>1, <2>1, <2>2, <2>3, Zenon
  <2>4. ASSUME NEW a \in Tab, NEW b \in Tab, On(channel', a, b, RequestMsg)
        PROVE  FALSE
    BY <1>1, <2>1, <2>2, <2>4, Zenon
  <2> QED
    BY <2>3, <2>4, Zenon
<1>4. \A u \in Opened : u = t \/ On(channel', t, u, FileMsg(f))
  BY <1>1, <1>2, Zenon DEF Adds, Takes
<1> QED
  BY <1>3, <1>4, Zenon DEF Agreed

(* A file arrives: it is the one that the tabs are about to agree on.      *)
LEMMA AgreeFile ==
  ASSUME RInv, NEW s \in Tab, NEW t \in Tab, NEW f \in File \cup {None}, Agreed(f),
         channel[s][t] # <<>>, NEW g \in File, Head(channel[s][t]) = FileMsg(g),
         channel' = [channel EXCEPT ![s][t] = Tail(@)],
         Opened' = Opened, t \in Opened, tab'[t].sharedFile = g,
         \A u \in Opened \ {t} : tab'[u].sharedFile = tab[u].sharedFile
  PROVE  Agreed(f)'
<1>1. /\ channel \in [Tab -> [Tab -> Seq(Msg)]]
      /\ \A h : RequestMsg # FileMsg(h) /\ Opened \subseteq Tab
  BY SMTT(30) DEF RInv, ChannelInv, Opened, RequestMsg, FileMsg
<1>2. Takes(channel, channel', s, t, FileMsg(g))
  BY <1>1, TailOn, Zenon
<1>3. g = f
  BY <1>2, Zenon DEF Agreed, Takes
<1>4. ASSUME NEW u \in Opened
      PROVE  \/ tab'[u].sharedFile = f
             \/ \E a \in Tab : On(channel', a, u, FileMsg(f))
             \/ /\ tab'[u].sharedFile = None
                /\ \E v \in Opened : tab'[v].sharedFile = f
                                     /\ On(channel', u, v, RequestMsg)
  <2>1. CASE u = t
    BY <1>3, <2>1, Zenon
  <2>2. CASE u # t /\ \E a \in Tab : On(channel, a, u, FileMsg(f))
    BY <1>1, <1>2, <2>2, Zenon DEF Adds, Takes
  <2>3. ASSUME u # t, tab[u].sharedFile = None,
               NEW v \in Opened, tab[v].sharedFile = f, On(channel, u, v, RequestMsg)
        PROVE  tab'[u].sharedFile = None /\ tab'[v].sharedFile = f
               /\ On(channel', u, v, RequestMsg)
    BY <1>1, <1>2, <1>3, <2>3, Zenon DEF Adds, Takes
  <2>4. CASE u # t /\ tab[u].sharedFile = f
    BY <2>4, Zenon
  <2> QED
    BY <2>1, <2>2, <2>3, <2>4, Zenon DEF Agreed
<1>5. \A u \in Opened : tab[u].sharedFile \in {f, None} =>
                          tab'[u].sharedFile \in {f, None}
  BY <1>3, Zenon
<1>6. \E u \in Opened : tab'[u].sharedFile = f
  BY <1>3, Zenon
<1>7. \A a, b \in Tab : \A h \in File : On(channel', a, b, FileMsg(h)) => h = f
  BY <1>2, Zenon DEF Agreed, Adds, Takes
<1>8. (\E a, b \in Tab : On(channel', a, b, RequestMsg))
        => \A u \in Opened : tab'[u].sharedFile \in {f, None}
  BY <1>2, <1>5, Zenon DEF Agreed, Adds, Takes
<1> QED
  BY <1>4, <1>6, <1>7, <1>8, ZenonT(60) DEF Agreed

(* A request arrives: the answer is the file that the tabs are about to    *)
(* agree on.                                                               *)
LEMMA AgreeAnswer ==
  ASSUME RInv, NEW s \in Tab, NEW t \in Tab, NEW f \in File \cup {None}, Agreed(f),
         channel[s][t] # <<>>, Head(channel[s][t]) = RequestMsg,
         NEW ch, ch = [channel EXCEPT ![s][t] = Tail(@)],
         Delivered(ch), UNCHANGED tab, t \in Opened,
         IF tab[t].sharedFile = None THEN channel' = ch
           ELSE channel' = Posted(ch, t, FileMsg(tab[t].sharedFile))
  PROVE  Agreed(f)'
<1>1. /\ channel \in [Tab -> [Tab -> Seq(Msg)]] /\ Opened \subseteq Tab
      /\ \A h : RequestMsg # FileMsg(h)
      /\ \A h : FileMsg(h) = FileMsg(f) => h = f
  BY Zenon DEF RInv, ChannelInv, Opened, RequestMsg, FileMsg
<1>2. Takes(channel, ch, s, t, RequestMsg)
  BY <1>1, TailOn, Zenon
<1>3. \A u \in Opened : tab[u].sharedFile \in {f, None}
  BY <1>2, Zenon DEF Agreed, Adds, Takes
<1>4. Opened' = Opened
  BY Zenon DEF Opened
<1>5. CASE tab[t].sharedFile = None
  <2>1. channel' = ch
    BY <1>5, Zenon
  <2>2. ASSUME NEW u \in Opened
        PROVE  \/ tab[u].sharedFile = f
               \/ \E a \in Tab : On(ch, a, u, FileMsg(f))
               \/ /\ tab[u].sharedFile = None
                  /\ \E v \in Opened : tab[v].sharedFile = f
                                       /\ On(ch, u, v, RequestMsg)
    <3>1. CASE \E a \in Tab : On(channel, a, u, FileMsg(f))
      BY <1>1, <1>2, <3>1, Zenon DEF Adds, Takes
    <3>2. ASSUME tab[u].sharedFile = None, tab[u].sharedFile # f,
                 NEW v \in Opened, tab[v].sharedFile = f, On(channel, u, v, RequestMsg)
          PROVE  On(ch, u, v, RequestMsg)
      BY <1>1, <1>2, <1>5, <3>2, Zenon DEF Adds, Takes
    <3> QED
      BY <3>1, <3>2, Zenon DEF Agreed
  <2>3. \A a, b \in Tab : \A h \in File : On(ch, a, b, FileMsg(h)) => h = f
    BY <1>2, Zenon DEF Agreed, Adds, Takes
  <2>4. f # None => \E u \in Opened : tab[u].sharedFile = f
    BY Zenon DEF Agreed
  <2> QED
    BY <1>3, <1>4, <2>1, <2>2, <2>3, <2>4, Zenon DEF Agreed
<1>6. CASE tab[t].sharedFile # None
  <2>1. /\ tab[t].sharedFile = f /\ FileMsg(f) \in Msg
        /\ channel' = Posted(ch, t, FileMsg(f))
    BY <1>3, <1>6, SMTT(30) DEF Msg
  <2>2. Adds(ch, channel', t, FileMsg(f))
    BY <2>1, PostedOn, Zenon DEF Delivered
  <2>3. \A u \in Opened : tab[u].sharedFile = f
                          \/ \E a \in Tab : On(channel', a, u, FileMsg(f))
    BY <1>1, <2>1, <2>2, Zenon DEF Adds
  <2>4. \A a, b \in Tab : \A h \in File : On(channel', a, b, FileMsg(h)) => h = f
    <3>1. \A a, b \in Tab : \A h \in File : On(channel, a, b, FileMsg(h)) => h = f
      BY Zenon DEF Agreed
    <3> QED
      BY <1>1, <1>2, <2>2, <3>1, ZenonT(60) DEF Adds, Takes
  <2> QED
    BY <1>3, <1>4, <1>6, <2>1, <2>3, <2>4, Zenon DEF Agreed
<1> QED
  BY <1>5, <1>6, SMTT(30)

(* Every handler of every page keeps what the tabs are to agree on.        *)
LEMMA StepAgree == RInv /\ AgreeInv /\ [Next]_vars => AgreeInv'
<1> SUFFICES ASSUME RInv, AgreeInv, [Next]_vars, ~raced'
             PROVE  \E f \in File \cup {None} : Agreed(f)'
  BY Zenon DEF AgreeInv
<1>1. raced => raced'
  BY Zenon DEF Next, vars, UserStep, OpenTab, BecomeVisible, RequestFile, ToggleLightMode,
         LoadFile, SelectPid, SelectMetric, WorkerStep, WorkerDone, WorkerFails,
         Receive
<1>2. PICK f \in File \cup {None} : Agreed(f)
  BY <1>1, Zenon DEF AgreeInv
<1>3. TabInv /\ RInv'
  BY StepRInv, Zenon DEF RInv
<1>4. ASSUME KeepsFiles, UNCHANGED channel PROVE Agreed(f)'
  BY <1>2, <1>4, Zenon DEF KeepsFiles, Agreed
<1>5. CASE UNCHANGED vars
  BY <1>4, <1>5, Zenon DEF vars, KeepsFiles, Opened
<1>6. ASSUME NEW t \in Tab, OpenTab(t) PROVE Agreed(f)'
  <2>1. /\ Opened' = Opened \cup {t} /\ tab'[t].sharedFile = None
        /\ \A u \in Tab \ {t} : tab'[u] = tab[u]
    BY <1>3, <1>6, NewTabOk, BecomeOk, Zenon DEF OpenTab, Fine
  <2>2. t \notin Opened /\ Opened \subseteq Tab
    BY <1>6, Zenon DEF OpenTab, Opened
  <2>3. channel' = Posted(channel, t, RequestMsg) /\ ~OnItsWay({"file"})
    BY <1>6, Zenon DEF OpenTab, RequestFile
  <2> QED
    BY <1>2, <2>1, <2>2, <2>3, AgreeRequest, SMTT(30)
<1>7. ASSUME NEW t \in Tab, BecomeVisible(t) PROVE Agreed(f)'
  <2>1. t \in Opened /\ tab[t].sharedFile = None /\ UNCHANGED tab
    BY <1>7, Zenon DEF BecomeVisible
  <2>2. Opened' = Opened \cup {t}
    BY <2>1, Zenon DEF Opened
  <2>3. channel' = Posted(channel, t, RequestMsg) /\ ~OnItsWay({"file"})
    BY <1>7, Zenon DEF BecomeVisible, RequestFile
  <2> QED
    BY <1>2, <2>1, <2>2, <2>3, AgreeRequest, Zenon
<1>8. ASSUME NEW t \in Tab, NEW g \in File, LoadFile(t, g) PROVE Agreed(g)'
  <2>1. t \in Opened /\ PageInv(tab[t]) /\ Become(t, ApplyFile(tab[t], g))
    BY <1>3, <1>8, Zenon DEF LoadFile, TabInv
  <2>2. Fine(ApplyFile(tab[t], g)) /\ ApplyFile(tab[t], g).sharedFile = g
    BY <2>1, ApplyFileOk, SMTT(30) DEF Fine
  <2>3. Opened' = Opened /\ tab'[t].sharedFile = g
    BY <1>3, <2>1, <2>2, BecomeOk, SMTT(30)
  <2>4. channel' = Posted(channel, t, FileMsg(g)) /\ ~OnItsWay({"file", "request"})
    BY <1>8, Zenon DEF LoadFile
  <2> QED
    BY <2>1, <2>3, <2>4, AgreeLoad, Zenon
<1>9. ASSUME NEW s \in Tab, NEW t \in Tab, Receive(s, t) PROVE Agreed(f)'
  <2> DEFINE msg == Head(channel[s][t])
             ch == [channel EXCEPT ![s][t] = Tail(@)]
  <2>1. /\ channel[s][t] \in Seq(Msg) /\ channel[s][t] # <<>> /\ t \in Opened
    BY <1>9, Zenon DEF Receive, RInv, ChannelInv
  <2>2. msg \in Msg /\ PageInv(tab[t]) /\ Opened \subseteq Tab
    BY <1>3, <2>1 DEF TabInv, Opened
  <2>3. CASE msg.type = "file"
    <3>1. PICK g \in File : msg = FileMsg(g)
      BY <2>2, <2>3 DEF Msg, RequestMsg
    <3>2. msg.file = g /\ msg.type # "request"
      BY <2>3, <3>1 DEF FileMsg
    <3>3. ReceiveFile(t, msg, ch)
      BY <1>9, <3>2, Zenon DEF Receive
    <3>4. channel' = ch
      BY <3>3, Zenon DEF ReceiveFile
    <3>5. CASE g = tab[t].sharedFile
      <4>1. UNCHANGED tab
        BY <3>2, <3>3, <3>5, Zenon DEF ReceiveFile
      <4>2. Opened' = Opened
        BY <4>1, Zenon DEF Opened
      <4> QED
        BY <1>2, <2>1, <3>1, <3>4, <3>5, <4>1, <4>2, AgreeFile, Zenon
    <3>6. CASE g # tab[t].sharedFile
      <4>1. Become(t, ApplyFile(tab[t], g))
        BY <3>2, <3>3, <3>6, Zenon DEF ReceiveFile
      <4>2. Fine(ApplyFile(tab[t], g)) /\ ApplyFile(tab[t], g).sharedFile = g
        BY <2>2, ApplyFileOk, Zenon DEF Fine
      <4>3. /\ Opened' = Opened /\ tab'[t].sharedFile = g
            /\ \A u \in Opened \ {t} : tab'[u].sharedFile = tab[u].sharedFile
        BY <1>3, <2>1, <2>2, <4>1, <4>2, BecomeOk, Zenon
      <4> QED
        BY <1>2, <2>1, <3>1, <3>4, <4>3, AgreeFile, Zenon
    <3> QED
      BY <3>5, <3>6, Zenon
  <2>4. CASE msg.type # "file"
    <3>1. msg = RequestMsg
      BY <2>2, <2>4 DEF Msg, FileMsg
    <3>2. ReceiveRequest(t, ch)
      BY <1>9, <2>4, Zenon DEF Receive
    <3>3. Delivered(ch)
      BY <2>1, TakenOk, SMTT(30) DEF RInv
    <3> QED
      BY <1>2, <2>1, <3>1, <3>2, <3>3, AgreeAnswer, Zenon DEF ReceiveRequest
  <2> QED
    BY <2>3, <2>4, Zenon
<1>10. ASSUME NEW t \in Tab, WorkerStep(t) \/ SelectStep(t) PROVE Agreed(f)'
  BY <1>4, <1>10, WorkerStepOk, SelectStepOk, Zenon
<1> QED
  BY <1>5, <1>6, <1>7, <1>8, <1>9, <1>10, Zenon DEF Next, UserStep, SelectStep

(* For any set of tabs and files: once all messages have been handled the  *)
(* tabs have one file, however deliveries, requests of tabs that open or   *)
(* become visible, selections and workers interleave, unless a file is     *)
(* loaded or asked for while another one is on its way.                    *)
THEOREM TabsConverge == Spec => []TabsAgree
<1>1. Init => RInv /\ AgreeInv
  <2>1. ASSUME Init PROVE Agreed(None)
    BY <2>1 DEF Init, Agreed, On, Opened
  <2> QED
    BY <2>1, InitRInv, Zenon DEF AgreeInv
<1>2. (RInv /\ AgreeInv) /\ [Next]_vars => (RInv /\ AgreeInv)'
  BY StepRInv, StepAgree, Zenon
<1>3. RInv /\ AgreeInv => TabsAgree
  <2> SUFFICES ASSUME RInv, AgreeInv, ~raced, ~OnItsWay({"file", "request"}),
                      NEW s \in Opened, NEW t \in Opened
               PROVE  tab[s].sharedFile = tab[t].sharedFile
    BY Zenon DEF TabsAgree
  <2>1. PICK f \in File \cup {None} : Agreed(f)
    BY Zenon DEF AgreeInv
  <2>2. Opened \subseteq Tab
    BY Zenon DEF Opened
  <2>3. \A u \in Opened : tab[u].sharedFile = f
    BY <2>1, <2>2, NothingOn, Zenon DEF Agreed
  <2> QED
    BY <2>3, Zenon
<1> QED
  BY <1>1, <1>2, <1>3, PTL DEF Spec
-----------------------------------------------------------------------------
(* The requests on their way: sender, receiver and place in the queue.     *)
AskedAt(ch, s, t, n) == n \in DOMAIN ch[s][t] /\ ch[s][t][n] = RequestMsg

Asked(ch) ==
  {x \in Tab \X Tab \X (Nat \ {0}) : AskedAt(ch, x[1], x[2], x[3])}

(* Every request on its way is an answer still to come.                    *)
StormInv ==
  /\ announced \in Nat /\ loads \in Nat /\ requests \in Nat
  /\ IsFiniteSet(Asked(channel))
  /\ announced + Cardinality(Asked(channel))
       <= loads + requests * (Cardinality(Tab) - 1)

(* The elements of Asked.                                                  *)
LEMMA AskedElement ==
  ASSUME NEW ch
  PROVE  /\ \A x \in Asked(ch) : \E a, b \in Tab : \E n \in Nat \ {0} :
              x = <<a, b, n>> /\ AskedAt(ch, a, b, n)
         /\ \A a, b \in Tab : \A n \in Nat \ {0} :
              <<a, b, n>> \in Asked(ch) <=> AskedAt(ch, a, b, n)
BY DEF Asked

(* Sending a file is no request.                                           *)
LEMMA FileAsksNothing ==
  ASSUME NEW ch \in [Tab -> [Tab -> Seq(Msg)]], NEW s \in Tab, NEW f \in File
  PROVE  Asked(Posted(ch, s, FileMsg(f))) = Asked(ch)
<1> DEFINE new == Posted(ch, s, FileMsg(f))
<1>1. FileMsg(f) \in Msg /\ FileMsg(f) # RequestMsg
  BY Zenon DEF Msg, FileMsg, RequestMsg
<1>2. \A a, b \in Tab : /\ ch[a][b] \in Seq(Msg)
                        /\ new[a][b] \in {ch[a][b], Append(ch[a][b], FileMsg(f))}
  BY <1>1, Zenon DEF Posted
<1> HIDE DEF new
<1>3. ASSUME NEW a \in Tab, NEW b \in Tab, NEW n \in Nat \ {0}
      PROVE  (n \in DOMAIN new[a][b] /\ new[a][b][n] = RequestMsg)
               <=> (n \in DOMAIN ch[a][b] /\ ch[a][b][n] = RequestMsg)
  <2> DEFINE q == ch[a][b]
  <2>1. q \in Seq(Msg) /\ new[a][b] \in {q, Append(q, FileMsg(f))}
    BY <1>2, Zenon
  <2> HIDE DEF q
  <2>2. /\ Len(q) \in Nat /\ DOMAIN q = 1..Len(q)
        /\ DOMAIN Append(q, FileMsg(f)) = 1..(Len(q) + 1)
        /\ Append(q, FileMsg(f))[Len(q) + 1] = FileMsg(f)
        /\ \A i \in 1..Len(q) : Append(q, FileMsg(f))[i] = q[i]
    BY <1>1, <2>1
  <2>3. CASE new[a][b] = Append(q, FileMsg(f))
    <3>1. CASE n \in 1..Len(q)
      BY <2>2, <2>3, <3>1, SMTT(30) DEF q
    <3>2. CASE n = Len(q) + 1
      BY <1>1, <2>2, <2>3, <3>2, SMTT(30) DEF q
    <3>3. CASE n \notin 1..(Len(q) + 1)
      BY <2>2, <2>3, <3>3 DEF q
    <3>4. n \in 1..Len(q) \/ n = Len(q) + 1 \/ n \notin 1..(Len(q) + 1)
      BY <2>2, SMTT(30)
    <3> QED
      BY <3>1, <3>2, <3>3, <3>4, Zenon
  <2> QED
    BY <2>1, <2>3, Zenon DEF q
<1>4. Asked(new) = Asked(ch)
  BY <1>3, SMTT(30) DEF Asked, AskedAt
<1> QED
  BY <1>4, Zenon DEF new

(* A request reaches at most all tabs but the one that asks.               *)
LEMMA RequestAsksAll ==
  ASSUME NEW ch \in [Tab -> [Tab -> Seq(Msg)]], NEW s \in Tab,
         IsFiniteSet(Asked(ch))
  PROVE  LET new == Posted(ch, s, RequestMsg)
         IN /\ IsFiniteSet(Asked(new))
            /\ Cardinality(Asked(new))
                 <= Cardinality(Asked(ch)) + (Cardinality(Tab) - 1)
<1> DEFINE new == Posted(ch, s, RequestMsg)
           others == Opened \ {s}
           at == [u \in others |-> <<s, u, Len(ch[s][u]) + 1>>]
           added == {at[u] : u \in others}
<1>1. /\ IsFiniteSet(others) /\ Cardinality(others) \in Nat
      /\ Cardinality(others) <= Cardinality(Tab) - 1
  <2>1. IsFiniteSet(Tab \ {s}) /\ Cardinality(Tab \ {s}) = Cardinality(Tab) - 1
    BY TabAssumption, FS_RemoveElement, Zenon
  <2>2. others \in SUBSET (Tab \ {s})
    BY Zenon DEF Opened
  <2> QED
    BY <2>1, <2>2, FS_Subset, FS_CardinalityType
<1>2. /\ IsFiniteSet(added) /\ Cardinality(added) \in Nat
      /\ Cardinality(added) <= Cardinality(others)
  <2>1. at \in Surjection(others, added)
    BY Zenon DEF Surjection
  <2> QED
    BY <1>1, <2>1, FS_Surjection, FS_CardinalityType, Zenon
<1>3. Asked(new) \in SUBSET (Asked(ch) \cup added)
  <2>1. \A a, b \in Tab : /\ ch[a][b] \in Seq(Msg)
                          /\ new[a][b] = IF a = s /\ b \in others
                                           THEN Append(ch[a][b], RequestMsg)
                                           ELSE ch[a][b]
    BY Zenon DEF Posted
  <2> HIDE DEF new
  <2>2. ASSUME NEW a \in Tab, NEW b \in Tab, NEW n \in Nat \ {0},
               AskedAt(new, a, b, n)
        PROVE  \/ AskedAt(ch, a, b, n)
               \/ a = s /\ b \in others /\ n = Len(ch[s][b]) + 1
    <3>1. CASE a = s /\ b \in others
      <4> DEFINE p == ch[a][b]
      <4>1. new[a][b] = Append(p, RequestMsg) /\ p \in Seq(Msg)
        BY <2>1, <3>1, Zenon
      <4> HIDE DEF p
      <4>2. RequestMsg \in Msg
        BY Zenon DEF Msg
      <4>3. /\ Len(p) \in Nat /\ DOMAIN p = 1..Len(p)
            /\ DOMAIN Append(p, RequestMsg) = 1..(Len(p) + 1)
            /\ \A i \in 1..Len(p) : Append(p, RequestMsg)[i] = p[i]
        BY <4>1, <4>2
      <4>4. n = Len(p) + 1 \/ (n \in DOMAIN p /\ p[n] = RequestMsg)
        BY <2>2, <4>1, <4>3, SMTT(30) DEF AskedAt
      <4> QED
        BY <3>1, <4>4, Zenon DEF AskedAt, p
    <3>2. CASE ~(a = s /\ b \in others)
      BY <2>1, <2>2, <3>2, Zenon DEF AskedAt
    <3> QED
      BY <3>1, <3>2, Zenon
  <2>3. \A u \in others : <<s, u, Len(ch[s][u]) + 1>> \in added
    BY Zenon
  <2> HIDE DEF added
  <2> QED
    BY <2>2, <2>3, AskedElement
<1> HIDE DEF new, added, others
<1>4. /\ IsFiniteSet(Asked(ch) \cup added)
      /\ Cardinality(Asked(ch) \cup added) <= Cardinality(Asked(ch)) + Cardinality(added)
  <2>1. IsFiniteSet(Asked(ch) \cap added)
    BY <1>2, FS_Subset, Zenon
  <2>2. /\ Cardinality(Asked(ch) \cap added) \in Nat
        /\ Cardinality(Asked(ch)) \in Nat
    BY <2>1, FS_CardinalityType, Zenon
  <2>3. /\ IsFiniteSet(Asked(ch) \cup added)
        /\ Cardinality(Asked(ch) \cup added) = Cardinality(Asked(ch))
             + Cardinality(added) - Cardinality(Asked(ch) \cap added)
    BY <1>2, FS_Union, Zenon
  <2> QED
    BY <1>2, <2>2, <2>3
<1>5. /\ IsFiniteSet(Asked(new))
      /\ Cardinality(Asked(new)) <= Cardinality(Asked(ch) \cup added)
  BY <1>3, <1>4, FS_Subset, Zenon
<1>6. /\ Cardinality(Asked(new)) \in Nat /\ Cardinality(Asked(ch)) \in Nat
      /\ Cardinality(Asked(ch) \cup added) \in Nat /\ Cardinality(Tab) \in Nat
  BY <1>4, <1>5, TabAssumption, FS_CardinalityType, Zenon
<1> QED
  BY <1>1, <1>2, <1>4, <1>5, <1>6 DEF new

(* A message taken from its queue is no longer on its way.                 *)
LEMMA TakingAsksLess ==
  ASSUME NEW ch \in [Tab -> [Tab -> Seq(Msg)]], NEW s \in Tab, NEW t \in Tab,
         ch[s][t] # <<>>, IsFiniteSet(Asked(ch))
  PROVE  LET new == [ch EXCEPT ![s][t] = Tail(@)]
         IN /\ IsFiniteSet(Asked(new))
            /\ Cardinality(Asked(new))
                 <= IF Head(ch[s][t]) = RequestMsg THEN Cardinality(Asked(ch)) - 1
                                                   ELSE Cardinality(Asked(ch))
<1> DEFINE new == [ch EXCEPT ![s][t] = Tail(@)]
           q == ch[s][t]
           first == <<s, t, 1>>
           before == Asked(ch) \ {first}
           f == [x \in before |-> IF x[1] = s /\ x[2] = t THEN <<s, t, x[3] - 1>>
                                                          ELSE x]
<1>1. q \in Seq(Msg) /\ q # <<>>
  BY Zenon
<1>2. \A a, b \in Tab : new[a][b] = IF a = s /\ b = t THEN Tail(q) ELSE ch[a][b]
  BY SMTT(30)
<1>3. first \in Asked(ch) <=> Head(q) = RequestMsg
  BY <1>1, AskedElement DEF AskedAt
<1> HIDE DEF new
<1>4. ASSUME NEW n \in Nat \ {0}
      PROVE  AskedAt(new, s, t, n) <=> AskedAt(ch, s, t, n + 1)
  <2>1. (n \in DOMAIN Tail(q) /\ Tail(q)[n] = RequestMsg)
           <=> (n + 1 \in DOMAIN q /\ q[n + 1] = RequestMsg)
    BY <1>1
  <2>2. new[s][t] = Tail(q)
    BY <1>2, SMTT(30)
  <2> QED
    BY <2>1, <2>2, Zenon DEF AskedAt
<1>0. ASSUME NEW a \in Tab, NEW b \in Tab, NEW n \in Nat \ {0}, ~(a = s /\ b = t)
      PROVE  AskedAt(new, a, b, n) <=> AskedAt(ch, a, b, n)
  BY <1>0, <1>2, Zenon DEF AskedAt
<1>5. \A x \in before : f[x] \in Asked(new)
  <2> TAKE x \in before
  <2>1. PICK a \in Tab, b \in Tab, n \in Nat \ {0} :
          x = <<a, b, n>> /\ AskedAt(ch, a, b, n)
    BY AskedElement
  <2>2. CASE a = s /\ b = t
    <3>1. n # 1
      BY <2>1, <2>2, Zenon
    <3>2. n - 1 \in Nat \ {0} /\ (n - 1) + 1 = n
      BY <3>1
    <3>3. AskedAt(new, s, t, n - 1)
      BY <1>4, <2>1, <2>2, <3>2, SMTT(30)
    <3>4. f[x] = <<s, t, n - 1>>
      BY <2>1, <2>2, Zenon
    <3>5. <<s, t, n - 1>> \in Asked(new)
      BY <3>2, <3>3, AskedElement, Zenon
    <3> QED
      BY <3>4, <3>5, Zenon
  <2>3. CASE ~(a = s /\ b = t)
    <3>1. f[x] = <<a, b, n>>
      BY <2>1, <2>3, Zenon
    <3> QED
      BY <1>0, <2>1, <2>3, <3>1, AskedElement, Zenon
  <2> QED
    BY <2>2, <2>3, Zenon
<1>6. \A y \in Asked(new) : \E x \in before : f[x] = y
  <2> TAKE y \in Asked(new)
  <2>1. PICK a \in Tab, b \in Tab, n \in Nat \ {0} :
          y = <<a, b, n>> /\ AskedAt(new, a, b, n)
    BY AskedElement, SMTT(30)
  <2>2. CASE a = s /\ b = t
    <3>1. n + 1 \in Nat \ {0} /\ (n + 1) - 1 = n /\ n + 1 # 1
      OBVIOUS
    <3>2. AskedAt(ch, s, t, n + 1)
      BY <1>4, <2>1, <2>2, Zenon
    <3>3. <<s, t, n + 1>> \in before
      BY <3>1, <3>2, AskedElement, Zenon
    <3>4. f[<<s, t, n + 1>>] = y
      BY <2>1, <2>2, <3>1, <3>3, Zenon
    <3> QED
      BY <3>3, <3>4, Zenon
  <2>3. CASE ~(a = s /\ b = t)
    <3>1. y \in Asked(ch)
      BY <1>0, <2>1, <2>3, AskedElement, Zenon
    <3>2. y \in before /\ f[y] = y
      BY <2>1, <2>3, <3>1, Zenon
    <3> QED
      BY <3>2, SMTT(30)
  <2> QED
    BY <2>2, <2>3, Zenon
<1>7. f \in Surjection(before, Asked(new))
  <2>1. f \in [before -> Asked(new)]
    BY <1>5, Zenon
  <2> HIDE DEF f, before
  <2> QED
    BY <1>6, <2>1, Zenon DEF Surjection
<1>8. /\ IsFiniteSet(before)
      /\ Cardinality(before) = IF first \in Asked(ch) THEN Cardinality(Asked(ch)) - 1
                                                      ELSE Cardinality(Asked(ch))
  BY FS_RemoveElement, Zenon
<1> HIDE DEF f, before, first
<1>9. IsFiniteSet(Asked(new)) /\ Cardinality(Asked(new)) <= Cardinality(before)
  BY <1>7, <1>8, FS_Surjection, Zenon
<1> QED
  BY <1>3, <1>8, <1>9, Zenon DEF new

(* A step that neither sends nor delivers.                                 *)
Silent == UNCHANGED <<channel, loads, requests, announced>>

(* Every handler of every page keeps the balance of requests and answers.  *)
LEMMA StepStorm == RInv /\ StormInv /\ [Next]_vars => StormInv'
<1> SUFFICES ASSUME RInv, StormInv, [Next]_vars PROVE StormInv'
  BY Zenon
<1> DEFINE asked == Cardinality(Asked(channel))
           M == Cardinality(Tab) - 1
<1>1. /\ channel \in [Tab -> [Tab -> Seq(Msg)]] /\ IsFiniteSet(Asked(channel))
      /\ announced \in Nat /\ loads \in Nat /\ requests \in Nat
      /\ asked \in Nat /\ M \in Int /\ requests * M \in Int
      /\ announced + asked <= loads + requests * M
  <2>1. Cardinality(Tab) \in Nat /\ asked \in Nat
    BY TabAssumption, FS_CardinalityType, Zenon DEF StormInv
  <2>2. M \in Int /\ requests \in Nat
    BY <2>1 DEF StormInv
  <2>3. requests * M \in Int
    BY <2>2
  <2> QED
    BY <2>1, <2>2, <2>3, Zenon DEF RInv, ChannelInv, StormInv
<1>2. CASE Silent
  BY <1>2, Zenon DEF Silent, StormInv
<1>3. ASSUME NEW t \in Tab, RequestFile(t) PROVE StormInv'
  <2>1. /\ channel' = Posted(channel, t, RequestMsg) /\ requests' = requests + 1
        /\ UNCHANGED <<loads, announced>>
    BY <1>3, Zenon DEF RequestFile
  <2>2. IsFiniteSet(Asked(channel')) /\ Cardinality(Asked(channel')) <= asked + M
    BY <1>1, <2>1, RequestAsksAll, SMTT(30)
  <2>3. Cardinality(Asked(channel')) \in Nat
    BY <2>2, FS_CardinalityType, Zenon
  <2> HIDE DEF asked, M
  <2>4. requests' * M = requests * M + M
    BY <1>1, <2>1
  <2>5. announced' + Cardinality(Asked(channel')) <= loads' + requests' * M
    BY <1>1, <2>1, <2>2, <2>3, <2>4, SMTT(30)
  <2> QED
    BY <1>1, <2>1, <2>2, <2>5 DEF StormInv, M
<1>4. ASSUME NEW t \in Tab, NEW f \in File, LoadFile(t, f) PROVE StormInv'
  <2>1. /\ channel' = Posted(channel, t, FileMsg(f)) /\ loads' = loads + 1
        /\ announced' = announced + 1 /\ UNCHANGED requests
    BY <1>4, Zenon DEF LoadFile
  <2>2. Asked(channel') = Asked(channel)
    BY <1>1, <2>1, FileAsksNothing, SMTT(30)
  <2> QED
    BY <1>1, <2>1, <2>2, SMTT(30) DEF StormInv
<1>5. ASSUME NEW s \in Tab, NEW t \in Tab, Receive(s, t) PROVE StormInv'
  <2> DEFINE msg == Head(channel[s][t])
             ch == [channel EXCEPT ![s][t] = Tail(@)]
  <2>1. channel[s][t] # <<>> /\ t \in Opened /\ UNCHANGED <<loads, requests>>
    BY <1>5, SMTT(30) DEF Receive, RInv, ChannelInv
  <2>2. /\ IsFiniteSet(Asked(ch))
        /\ Cardinality(Asked(ch)) <= IF msg = RequestMsg THEN asked - 1 ELSE asked
    BY <1>1, <2>1, TakingAsksLess, Zenon
  <2>3. Cardinality(Asked(ch)) \in Nat
    BY <2>2, FS_CardinalityType, Zenon
  <2>4. msg \in Msg
    BY <1>1, <2>1, SMTT(30)
  <2>5. \/ msg.type = "file" /\ ReceiveFile(t, msg, ch)
        \/ msg.type = "request" /\ ReceiveRequest(t, ch)
    BY <1>5, Zenon DEF Receive
  <2>6. ch \in [Tab -> [Tab -> Seq(Msg)]]
    BY <2>1, TakenOk, Zenon DEF Delivered, RInv
  <2> HIDE DEF ch
  <2>7. CASE msg.type = "file" /\ ReceiveFile(t, msg, ch)
    <3>1. channel' = ch /\ UNCHANGED announced
      BY <2>7, Zenon DEF ReceiveFile
    <3> HIDE DEF asked, M
    <3>2. Cardinality(Asked(ch)) <= asked
      <4> DEFINE left == Cardinality(Asked(ch))
      <4>1. left <= asked - 1 \/ left <= asked
        BY <2>2, Zenon
      <4>2. left \in Nat /\ asked \in Nat
        BY <1>1, <2>3, Zenon
      <4> HIDE DEF left
      <4>3. left <= asked
        BY <4>1, <4>2
      <4> QED
        BY <4>3, Zenon DEF left
    <3>3. announced' + Cardinality(Asked(channel')) <= loads' + requests' * M
      BY <1>1, <2>1, <2>3, <3>1, <3>2, SMTT(30)
    <3>4. /\ announced' \in Nat /\ loads' \in Nat /\ requests' \in Nat
          /\ IsFiniteSet(Asked(channel'))
      BY <1>1, <2>1, <2>2, <3>1, SMTT(30)
    <3> QED
      BY <3>3, <3>4, Zenon DEF StormInv, M
  <2>8. CASE msg.type = "request" /\ ReceiveRequest(t, ch)
    <3>1. msg = RequestMsg
      BY <2>4, <2>8 DEF Msg, FileMsg
    <3>2. announced' \in {announced, announced + 1}
      BY <2>8, Zenon DEF ReceiveRequest
    <3>3. Asked(channel') = Asked(ch)
      <4>1. tab[t].sharedFile # None => tab[t].sharedFile \in File
        BY <2>1, Zenon DEF RInv, TabInv, PageInv, Page
      <4> QED
        BY <2>6, <2>8, <4>1, FileAsksNothing, ZenonT(60) DEF ReceiveRequest
    <3>4. Cardinality(Asked(ch)) <= asked - 1
      BY <2>2, <3>1, Zenon
    <3> HIDE DEF asked, M
    <3>5. announced' + Cardinality(Asked(channel')) <= loads' + requests' * M
      BY <1>1, <2>1, <2>3, <3>2, <3>3, <3>4, SMTT(30)
    <3>6. announced' \in Nat /\ loads' \in Nat /\ requests' \in Nat
      BY <1>1, <2>1, <3>2
    <3> QED
      BY <2>2, <3>3, <3>5, <3>6, SMTT(30) DEF StormInv, M
  <2> QED
    BY <2>5, <2>7, <2>8, Zenon
<1>6. ASSUME NEW t \in Tab, WorkerStep(t) \/ SelectStep(t) PROVE Silent
  BY <1>6, Zenon DEF WorkerStep, WorkerDone, WorkerFails, SelectStep, SelectPid,
              SelectMetric, ToggleLightMode, Silent
<1>7. CASE UNCHANGED vars
  BY <1>2, <1>7, Zenon DEF vars, Silent
<1> QED
  BY <1>2, <1>3, <1>4, <1>5, <1>6, <1>7, Zenon DEF Next, UserStep, SelectStep, OpenTab,
                                            BecomeVisible

(* For any finite set of tabs, also when they have different files, there  *)
(* is no storm of messages: a load is announced once and a request is      *)
(* answered at most once by every other tab, because every answer uses up  *)
(* a request that was on its way.                                          *)
THEOREM MessagesAreFew == Spec => []NoStorm
<1>1. Init => RInv /\ StormInv
  <2> SUFFICES ASSUME Init PROVE StormInv
    BY InitRInv, Zenon
  <2>1. Asked(channel) = {}
    BY DEF Init, Asked, AskedAt
  <2>2. IsFiniteSet({}) /\ Cardinality({}) = 0 /\ Cardinality(Tab) \in Nat
    BY TabAssumption, FS_EmptySet, FS_CardinalityType, Zenon
  <2>3. loads = 0 /\ requests = 0 /\ announced = 0
    BY Zenon DEF Init
  <2> QED
    BY <2>1, <2>2, <2>3 DEF StormInv
<1>2. (RInv /\ StormInv) /\ [Next]_vars => (RInv /\ StormInv)'
  BY StepRInv, StepStorm, Zenon
<1>3. StormInv => NoStorm
  <2> SUFFICES ASSUME StormInv PROVE NoStorm
    BY Zenon
  <2>1. Cardinality(Asked(channel)) \in Nat /\ Cardinality(Tab) \in Nat
    BY TabAssumption, FS_CardinalityType, Zenon DEF StormInv
  <2> DEFINE answers == requests * (Cardinality(Tab) - 1)
  <2>2. answers \in Int
    BY <2>1 DEF StormInv
  <2>3. announced + Cardinality(Asked(channel)) <= loads + answers
    BY Zenon DEF StormInv
  <2>4. announced \in Nat /\ loads \in Nat
    BY Zenon DEF StormInv
  <2> HIDE DEF answers
  <2>5. announced <= loads + answers
    BY <2>1, <2>2, <2>3, <2>4
  <2> QED
    BY <2>5, Zenon DEF NoStorm, answers
<1> QED
  BY <1>1, <1>2, <1>3, PTL DEF Spec
=============================================================================
