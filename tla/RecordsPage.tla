----------------------------- MODULE RecordsPage ----------------------------
(***************************************************************************)
(* The script of dashboard/records.html in several browser tabs: files     *)
(* loaded by the user are shared over a BroadcastChannel, indexed by a     *)
(* background worker, and the time series of a process is built by a       *)
(* second one, cached and drawn.                                           *)
(*                                                                         *)
(* A tab is a record with the script's global variables and the state of   *)
(* its page.  The functions of the script map such a record to the next    *)
(* one.  An action is one task of the event loop: an event handler with    *)
(* the code behind its awaits that becomes runnable in it.  A worker stays *)
(* in `workers' until its last message has been handled or it has been     *)
(* terminated.  A message of a terminated worker is never delivered.       *)
(***************************************************************************)
EXTENDS Naturals, Sequences, FiniteSets

CONSTANTS
  Tab, File, Pid, Metric,
  None,         \* null, or nothing selected
  PidsOf,       \* PidsOf[f]: the processes with records in f
  FirstPid,     \* FirstPid[f]: the process of f's first record
  Url,          \* Url[t]: the parameters pid and metric of the tab's address
  NoPoints,     \* the <<file, pid, metric>> without a valid data point
  MaxLoads,     \* bound on the files the user loads
  MaxRequests   \* bound on the requests for a file

ASSUME PidAssumption == Pid \subseteq Nat /\ PidsOf \in [File -> SUBSET Pid]
ASSUME TabAssumption == IsFiniteSet(Tab)
ASSUME MetricAssumption ==
  Metric # {} /\ \A t \in Tab : Url[t].metric \in Metric \cup {None}

VARIABLES
  tab,          \* the state of each tab, None before it is opened
  channel,      \* channel[s][t]: the messages from s that t has yet to handle
  loads, requests,
  announced,    \* how often a tab posted a file
  raced         \* a tab spoke up while a file was still on its way

vars == <<tab, channel, loads, requests, announced, raced>>

NewTab ==
  [sharedFile |-> None, pidMap |-> {}, pidSelect |-> None,
   metricSelect |-> CHOOSE m \in Metric : TRUE,
   pidSeriesCache |-> [p \in Pid |-> None], timelineChart |-> None,
   prepareTask |-> None, seriesTask |-> None, workers |-> {},
   disabled |-> FALSE,
   overtaken |-> FALSE]   \* a worker failed, or runs while a cached chart shows

Opened == {t \in Tab : tab[t] # None}

Init ==
  /\ tab = [t \in Tab |-> None]
  /\ channel = [s \in Tab |-> [t \in Tab |-> <<>>]]
  /\ loads = 0 /\ requests = 0 /\ announced = 0
  /\ raced = FALSE
-----------------------------------------------------------------------------
(* cancelTask, for either slot.                                            *)
CancelPrepare(r) ==
  [r EXCEPT !.workers = @ \ {r.prepareTask}, !.prepareTask = None]

(* Mutant: the worker is forgotten but goes on.                            *)
ForgetSeries(r) == [r EXCEPT !.seriesTask = None]

CancelSeries(r) ==
  [r EXCEPT !.workers = @ \ {r.seriesTask}, !.seriesTask = None]

(* runWorkerJob, for either slot: the file is the one shared at the call.  *)
RunPrepare(r) ==
  LET job == [slot |-> "prepare", file |-> r.sharedFile,
              pid |-> None, metric |-> None]
  IN [CancelPrepare(r) EXCEPT !.workers = @ \cup {job}, !.prepareTask = job]

RunSeries(r) ==
  LET job == [slot |-> "series", file |-> r.sharedFile,
              pid |-> r.pidSelect, metric |-> r.metricSelect]
  IN [CancelSeries(r) EXCEPT !.workers = @ \cup {job}, !.seriesTask = job]

(* The end of updateChart: a series without points leaves the old chart.   *)
Render(r, file, pid, metric) ==
  IF <<file, pid, metric>> \in NoPoints THEN r
    ELSE [r EXCEPT !.timelineChart =
                     [file |-> file, pid |-> pid, metric |-> metric]]

(* updateChart up to its await.  A cached series is drawn at once, and a   *)
(* worker that builds another one is left running.                         *)
UpdateChart(r) ==
  IF r.pidSelect = None \/ r.pidSelect \notin r.pidMap THEN r
  ELSE IF r.pidSeriesCache[r.pidSelect] # None
    THEN Render([r EXCEPT !.overtaken = r.seriesTask # None],
                r.pidSeriesCache[r.pidSelect], r.pidSelect, r.metricSelect)
    ELSE [RunSeries(r) EXCEPT !.overtaken = FALSE]

(* Mutant: the series of the old file are kept.                            *)
ApplyKeepingCache(r, file) ==
  RunPrepare([CancelSeries(CancelPrepare(r)) EXCEPT
    !.sharedFile = file, !.pidMap = {}, !.pidSelect = None,
    !.timelineChart = None, !.disabled = r.prepareTask = None])

(* applyFile up to its await.  When it cancels the indexing of an earlier  *)
(* file, the catch of that call runs in the same task and enables the      *)
(* controls again.                                                         *)
ApplyFile(r, file) ==
  RunPrepare([CancelSeries(CancelPrepare(r)) EXCEPT
    !.sharedFile = file, !.pidMap = {}, !.pidSelect = None,
    !.pidSeriesCache = [p \in Pid |-> None], !.timelineChart = None,
    !.disabled = r.prepareTask = None])

(* prepareFile: the process whose series the index already contains, that  *)
(* is the one of the address or the first record's if it has the lowest    *)
(* number.  The options of the select are in numerical order.              *)
LowestPid(f) == CHOOSE p \in PidsOf[f] : \A q \in PidsOf[f] : p <= q

InitialPid(f, url) ==
  IF url # None THEN IF url \in PidsOf[f] THEN url ELSE None
  ELSE IF PidsOf[f] # {} /\ FirstPid[f] = LowestPid(f) THEN FirstPid[f] ELSE None

PreselectedPid(f, url) ==
  IF PidsOf[f] = {} THEN None ELSE IF url \in PidsOf[f] THEN url ELSE LowestPid(f)

(* applyFile behind its await.                                             *)
FilePrepared(r, job, url) ==
  LET initial == InitialPid(job.file, url.pid)
  IN UpdateChart([r EXCEPT
       !.pidMap = PidsOf[job.file],
       !.pidSelect = PreselectedPid(job.file, url.pid),
       !.metricSelect = IF url.metric # None THEN url.metric ELSE @,
       !.pidSeriesCache = [p \in Pid |-> IF p = initial THEN job.file ELSE @[p]],
       !.disabled = FALSE])

(* updateChart behind its await.                                           *)
SeriesBuilt(r, job) ==
  Render([r EXCEPT !.pidSeriesCache[job.pid] = job.file],
         job.file, job.pid, job.metric)

(* cleanup of runWorkerJob.                                                *)
Cleanup(r, job) ==
  [r EXCEPT !.workers = @ \ {job},
            !.prepareTask = IF @ = job THEN None ELSE @,
            !.seriesTask = IF @ = job THEN None ELSE @]
-----------------------------------------------------------------------------
Become(t, r) == tab' = [tab EXCEPT ![t] = r]

FileMsg(f) == [type |-> "file", file |-> f]
RequestMsg == [type |-> "request", file |-> None]

(* postMessage of a BroadcastChannel: every other open tab gets it.        *)
Posted(ch, s, msg) ==
  [ch EXCEPT ![s] = [t \in Tab |-> IF t \in Opened \ {s} THEN Append(@[t], msg)
                                                         ELSE @[t]]]

OnItsWay(types) ==
  \E s, t \in Tab : \E i \in DOMAIN channel[s][t] :
    channel[s][t][i].type \in types

(* A request is sent when a page is loaded, and whenever a tab without a   *)
(* file becomes visible.                                                   *)
RequestFile(t) ==
  /\ requests < MaxRequests
  /\ channel' = Posted(channel, t, RequestMsg)
  /\ requests' = requests + 1
  /\ raced' = (raced \/ OnItsWay({"file"}))
  /\ UNCHANGED <<loads, announced>>

OpenTab(t) ==
  /\ t \notin Opened
  /\ Become(t, NewTab)
  /\ RequestFile(t)

BecomeVisible(t) ==
  /\ t \in Opened /\ tab[t].sharedFile = None
  /\ RequestFile(t)
  /\ UNCHANGED tab

(* loadFile: the user chooses a file.                                      *)
LoadFile(t, f) ==
  /\ t \in Opened /\ loads < MaxLoads
  /\ channel' = Posted(channel, t, FileMsg(f)) /\ announced' = announced + 1
  /\ Become(t, ApplyFile(tab[t], f))
  /\ loads' = loads + 1
  /\ raced' = (raced \/ OnItsWay({"file", "request"}))
  /\ UNCHANGED requests

(* fileChannel.onmessage.  A file with the signature of the present one is *)
(* ignored.  A request is answered to everybody.                           *)
(* Mutants: a file received is passed on like one that was loaded; a tab   *)
(* with a file does not take another one.                                  *)
PassOnFile(t, msg, ch) ==
  IF msg.file = tab[t].sharedFile THEN channel' = ch /\ UNCHANGED <<tab, announced>>
    ELSE /\ channel' = Posted(ch, t, msg) /\ announced' = announced + 1
         /\ Become(t, ApplyFile(tab[t], msg.file))

KeepFirstFile(t, msg, ch) ==
  /\ channel' = ch /\ UNCHANGED announced
  /\ IF tab[t].sharedFile # None THEN UNCHANGED tab
                                 ELSE Become(t, ApplyFile(tab[t], msg.file))

ReceiveFile(t, msg, ch) ==
  /\ channel' = ch /\ UNCHANGED announced
  /\ IF msg.file = tab[t].sharedFile THEN UNCHANGED tab
                                     ELSE Become(t, ApplyFile(tab[t], msg.file))

ReceiveRequest(t, ch) ==
  /\ IF tab[t].sharedFile = None THEN channel' = ch /\ UNCHANGED announced
       ELSE /\ channel' = Posted(ch, t, FileMsg(tab[t].sharedFile))
            /\ announced' = announced + 1
  /\ UNCHANGED tab

Receive(s, t) ==
  /\ channel[s][t] # <<>>
  /\ LET msg == Head(channel[s][t])
         ch == [channel EXCEPT ![s][t] = Tail(@)]
     IN \/ msg.type = "file" /\ ReceiveFile(t, msg, ch)
        \/ msg.type = "request" /\ ReceiveRequest(t, ch)
  /\ UNCHANGED <<loads, requests, raced>>
-----------------------------------------------------------------------------
(* The change events of the two selects, and toggleLightMode, which draws  *)
(* the chart again.                                                        *)
SelectPid(t, p) ==
  /\ t \in Opened /\ ~tab[t].disabled
  /\ p \in tab[t].pidMap \ {tab[t].pidSelect}
  /\ Become(t, UpdateChart([tab[t] EXCEPT !.pidSelect = p]))
  /\ UNCHANGED <<channel, loads, requests, announced, raced>>

SelectMetric(t, m) ==
  /\ t \in Opened /\ ~tab[t].disabled
  /\ m # tab[t].metricSelect
  /\ Become(t, UpdateChart([tab[t] EXCEPT !.metricSelect = m]))
  /\ UNCHANGED <<channel, loads, requests, announced, raced>>

ToggleLightMode(t) ==
  /\ t \in Opened
  /\ Become(t, UpdateChart(tab[t]))
  /\ UNCHANGED <<channel, loads, requests, announced, raced>>

(* worker.onmessage with a result: cleanup, then the code behind the await.*)
WorkerDone(t, job) ==
  /\ t \in Opened /\ job \in tab[t].workers
  /\ LET r == Cleanup(tab[t], job)
     IN \/ job.slot = "prepare" /\ Become(t, FilePrepared(r, job, Url[t]))
        \/ job.slot = "series" /\ Become(t, SeriesBuilt(r, job))
  /\ UNCHANGED <<channel, loads, requests, announced, raced>>

(* worker.onmessage with an error, or worker.onerror.                      *)
(* Mutant: the controls stay as they are when the indexing fails.          *)
KeepControls(r, job) == r

AfterFailure(r, job) ==
  IF job.slot = "prepare" THEN [r EXCEPT !.disabled = FALSE]
                          ELSE [r EXCEPT !.overtaken = TRUE]

WorkerFails(t, job) ==
  /\ t \in Opened /\ job \in tab[t].workers
  /\ Become(t, AfterFailure(Cleanup(tab[t], job), job))
  /\ UNCHANGED <<channel, loads, requests, announced, raced>>
-----------------------------------------------------------------------------
PrepareJob == [slot : {"prepare"}, file : File, pid : {None}, metric : {None}]
SeriesJob == [slot : {"series"}, file : File, pid : Pid, metric : Metric]
Job == PrepareJob \cup SeriesJob

UserStep(t) ==
  \/ OpenTab(t) \/ BecomeVisible(t) \/ ToggleLightMode(t)
  \/ \E f \in File : LoadFile(t, f)
  \/ \E p \in Pid : SelectPid(t, p)
  \/ \E m \in Metric : SelectMetric(t, m)

WorkerStep(t) == \E job \in Job : WorkerDone(t, job) \/ WorkerFails(t, job)

Next ==
  \E t \in Tab : UserStep(t) \/ WorkerStep(t) \/ \E s \in Tab : Receive(s, t)

Spec == Init /\ [][Next]_vars
-----------------------------------------------------------------------------
Chart == [file : File, pid : Pid, metric : Metric]

Page ==
  [sharedFile : File \cup {None}, pidMap : SUBSET Pid,
   pidSelect : Pid \cup {None}, metricSelect : Metric,
   pidSeriesCache : [Pid -> File \cup {None}], timelineChart : Chart \cup {None},
   prepareTask : PrepareJob \cup {None}, seriesTask : SeriesJob \cup {None},
   workers : SUBSET Job, disabled : BOOLEAN, overtaken : BOOLEAN]

(* null is neither a task nor a file, and a tab that was not opened is no  *)
(* page.                                                                   *)
ASSUME NoneAssumption == None \notin File \cup Job \cup Page

(* Whatever a tab shows, caches or has in the making belongs to the file   *)
(* it has now: the file may be replaced, by the user or by another tab,    *)
(* at any moment of the indexing or of the construction of a series, and   *)
(* no late result of the old file gets through.  The processes offered are *)
(* those of the file, too.                                                 *)
OneFile ==
  \A t \in Opened :
    LET r == tab[t]
    IN /\ \A job \in r.workers : job.file = r.sharedFile
       /\ \A p \in Pid : r.pidSeriesCache[p] \in {None, r.sharedFile}
       /\ r.timelineChart # None => r.timelineChart.file = r.sharedFile
       /\ r.pidMap # {} => r.pidMap = PidsOf[r.sharedFile]

(* When nothing is being built, the chart is the one that was asked for,   *)
(* provided there are points to draw, no worker failed, and no series was  *)
(* still being built when a cached one was drawn: that one arrives late    *)
(* and replaces the chart of the selected process.                         *)
ChartFollowsSelection ==
  \A t \in Opened :
    LET r == tab[t]
        selection == <<r.sharedFile, r.pidSelect, r.metricSelect>>
    IN /\ r.workers = {} /\ r.pidSelect # None
       /\ ~r.overtaken /\ selection \notin NoPoints
       => r.timelineChart = [file |-> r.sharedFile, pid |-> r.pidSelect,
                             metric |-> r.metricSelect]

(* The tabs agree on a file once all messages have been handled, as long   *)
(* as no file was loaded while another file or a request was still on its  *)
(* way, and no request sent while a file was (files loaded in two tabs at  *)
(* once end up exchanged).                                                 *)
TabsAgree ==
  ~raced /\ ~OnItsWay({"file", "request"}) =>
    \A s, t \in Opened : tab[s].sharedFile = tab[t].sharedFile

(* The controls never stay locked: while they are, there is a worker whose *)
(* end gives them back, whatever becomes of the indexing (done, failed, or *)
(* cancelled by the next file).                                            *)
ControlsReturn ==
  \A t \in Opened : tab[t].disabled => tab[t].prepareTask \in tab[t].workers

(* No storm of messages, also when the tabs have different files: a load   *)
(* is announced once, and a request answered at most once by every other   *)
(* tab.                                                                    *)
NoStorm == announced <= loads + requests * (Cardinality(Tab) - 1)
=============================================================================
