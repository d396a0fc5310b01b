\* A payment adds more days than the button, as 30 and 29 do.
CONSTANTS
  Shown = {"user_form"}
  Minute = 2
  Hour = 4
  Day = 8
  Offset = 4
  Hour24 = FALSE
  Critical = 1
  Warning = 2
  None = None
  MaxTime = 16
  MaxExpiry = 21
  Expiries = {7, 13}
  Period = 10
  QuickDays = 1
  Shifts = {0}
  Typed <- MCTyped
  FormTime = 1
  Ips = {"ip1"}
  Ports = {1, 2}
  Strange <- MCStrange
  Servers = {s1, s2}
  Runs = {r1, r2}
  NoServer = NoServer
  Bucket = 2
  DayLength = 8
  MinBudget = 4
  MaxBudget = 6
  PixelRatio = 1
  Sides = 2
  PerTick = 2
  MinTicks = 3
  MaxTicks = 4
  Intervals <- MCIntervals
  Steps <- MCSteps
  TickCount = 5
  Milli = 10000
  Least = 504
  Most = 20000
  Periods = {1, 2}
  Histories <- MCHistories
  Amounts = {504}
  Widths = {4, 7}
  Height = 10
  Pointers = {1, 3}
  ChartStart = 16
  ChartEnd = 17
  NoChart = NoChart
  Orders = {1, 2, 3}
  NoOrder = NoOrder
  Sockets = {w1, w2}
  Tokens = {t1, t2}
  FirstDelay = 3
  LastDelay = 10
  NoSocket = NoSocket
  MaxToasts = 4
  Stamps = {1, 2, 3}
  NoStamp = NoStamp
SPECIFICATION Spec
PROPERTIES
  ExtendAddsToEnd
CHECK_DEADLOCK FALSE
