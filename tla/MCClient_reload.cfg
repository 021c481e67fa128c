SPECIFICATION Spec
CONSTANTS
  Events = {e1, e2, e3}
  ManyKeys = {e2}
  Keys = {k1}
  Unsigned = Unsigned
  MaxLives = 3
  MaxLogFaults = 2
  c1 = c1
  c2 = c2
  c3 = c3
  c4 = c4
  corrupted = corrupted
  Contents = {c1, c2, c3, c4, corrupted}
  Metadata <- MCMetadata
  SanitizeVersion <- MCSanitizeVersion
  RetentionCount = 2
  None = None
  Torn = Torn
  Unknown = Unknown
  MaxStoreFaults = 2
  a = a
  slash = slash
  Underscore = Underscore
  Unsafe = {slash}
  Jobs <- MCJobs
  Epochs = {1, 2}
  Retention = 0
  MaxNow = 1
  MaxCkptFaults = 1
  Certs <- MCCerts
  OurOrg = "us"
  CaBundle = {"ca"}
  Files = {f0, f1, f2}
  CertPath = f0
  Callers = {p1, p2}
  NoCert = NoCert
  MaxDay = 2
  Requests = {r1, r2}
  Completions = {r1}
  MaxRetries = 3
  MaxBackoff = 5
  Bits = 3
  Calls = 2
  Paths <- MCPaths
  Texts = {"org", "model", "coordinator"}
  Empty = ""
  Absent = Absent
  ConfigFiles <- MCConfigFiles
  Disks <- MCDisks
  Stopped = Stopped
  MaxStarts = 2
  MaxEpoch = 2
  Organizations = {"org", ""}
  CertPaths = {"cert", "none"}
  CaPaths = {"ca"}
  DataPaths <- MCDataPaths
  Quoted <- MCQuoted
  Unreadable = Unreadable
  Orgs = {1, 2, 3}
  NoKey = NoKey
  NoMetadata = NoMetadata
  MaxEngines = 2
  Workers = {1, 2, 3, 4, 5}
  Good = {0, 1, 2}
  Bad = {9, 12}
  Ids = {j1, j2, j3}
  Demands <- MCDemands
  MaxCpu = 3
  MaxRam = 3
  MaxConcurrent = 2
  MaxCalls = 4
  NoJob = NoJob
PROPERTY ReloadNeedsNoRestart
CHECK_DEADLOCK FALSE
