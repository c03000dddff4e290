CONSTANTS
  t1 = t1
  t2 = t2
  f1 = f1
  f2 = f2
  rss = rss
  cpu = cpu
  None = None
  Tab = {t1, t2}
  File = {f1, f2}
  Pid = {1, 2}
  Metric = {rss, cpu}
  PidsOf <- MCPidsOf
  FirstPid <- MCFirstPid
  Url <- MCUrl
  NoPoints <- MCNoPoints
  MaxLoads = 2
  MaxRequests = 3
SPECIFICATION Spec
CHECK_DEADLOCK FALSE
INVARIANTS
  OneFile
  ChartFollowsSelection
  TabsAgree
  ControlsReturn
  NoStorm
