CONSTANTS
  Handlers = {h1, h2}
  Streams = {s1}
  Keys = {k1}
  BufferSize = 2
  NotSending = NotSending
  NoEntry = NoEntry
  MaxRequests = 3
  Appenders = {a1, a2}
  MaxEntries = 2
  Retention = 2
  PageLimit = 1
  MaxClock = 4
  MaxAppends = 4
  MaxLogFaults = 1
  Browsers = {b1, b2}
  MaxSessions = 1
  Lifetime = 2
  MaxDays = 2
  MaxTokens = 2
  MaxSessionFaults = 1
  Logins = {h1, h2}
  Clients = {c1, c2}
  FailureLimit = 2
  FailureWindow = 4
  BlockTime = 4
  MaxClients = 1
  MaxDelay = 1
  MaxTime = 5
  MaxGuesses = 5
  Reporters = {p1}
  SourceIds = {"a", "b"}
  Kinds = {"mister", "emulator"}
  Systems = {"snes", "ps2", "psp", "odd"}
  Supported = {"snes", "ps2", "psp"}
  FPGA = {"snes"}
  MisterKinds = {"mister"}
  DeviceKind = "deck"
  NoDevice = NoDevice
  ReportedLists <- MCReportedLists
  PolicyLists <- MCPolicyLists
  AllowLists <- MCAllowLists
  NoReport = NoReport
  MaxPatches = 3
  Packs = {"first", "second"}
  Builtins = {"first"}
  Modules = {"module", "other"}
  Place <- MCPlace
  CompiledIn = CompiledIn
  LibraryPacks = {"first", "second"}
  Bundles <- MCBundles
  ParserOf <- MCParserOf
  Workers = {w1, w2}
  Nothing = Nothing
  MaxOrders = 3
  Games = {"sm64", "sf64", "mk64", "oot", "alttp", "dkr", "dkc", "dkc3"}
  Slots = {1, 2}
  Torn = Torn
  MaxSaves = 3
  Helpers = {d1, d2}
  NoFile = NoFile
  MaxPlays = 2
  MaxRevisions = 2
  Files = {"gme", "ps2", "bin", "bkr"}
  Products = {1, 2, 3}
  Room = 4
  Sizes = {1, 3}
  Consoles = {c1}
  MaxWrites = 3
SPECIFICATION Parts
CHECK_DEADLOCK FALSE
INVARIANTS
  TypesOK
  ClientsAgree
  RecentEntriesAreShown
  SessionsLast
  GuessesAreLimited
  PolicySurvivesReports
  SwitchedOffStaysOff
  EditsAreSeen
  CopiesReadTheSame
  CardsAreReadBack
PROPERTIES
  PublishersFinish
