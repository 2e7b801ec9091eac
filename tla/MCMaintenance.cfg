CONSTANTS
  c1 = c1
  c2 = c2
  first = first
  second = second
  pcsx2 = pcsx2
  ff7 = ff7
  old = old
  k1 = k1
  k2 = k2
  psx = psx
  spoilt = spoilt
  Shared = Shared
  Operator = Operator
  Nobody = Nobody
  Lines = {first, second}
  Profiles = {1}
  Logicals = {mk64, oot}
  Contents = {c1, c2}
  NoLine = NoLine
  Capacity = 2
  MaxPaks = 3
  MaxRevisions = 2
  MaxUploads = 1
  MaxPakFaults = 0
  Keys = {old, k1, k2, psx}
  TrackOf <- MCTrackOf
  Detected <- MCDetected
  CardKeys = {psx}
  Hashes = {c1, c2, spoilt}
  Rejected = {spoilt}
  NoSave = NoSave
  MaxLegacy = 2
  MaxSaves = 3
  MaxCleanupFaults = 1
  Saves = {1, 2}
  Titles = {k1, k2}
  Legacy = Flat
  MaxRetitled = 1
  Handlers = {first, second}
  Payloads = {known, unknown}
  Importable = {known}
  Another = Another
  NoItem = NoItem
  MaxItems = 2
  MaxStored = 2
  MaxRescanned = 1
  MaxQuarantineFaults = 1
  Slots = {first, second}
  Shas = {c1, c2, spoilt, denied, noise, huge}
  Unsupported = spoilt
  NotAllowed = denied
  Noise = noise
  Huge = huge
  MaxEntries = 2
  MaxRequests = 2
  MaxFaults = 1
SPECIFICATION Parts
CHECK_DEADLOCK FALSE
SYMMETRY Interchangeable
INVARIANTS
  TypesOK
  PakSavesAreKept
  RevisionFilesRemain
  PaksShowActiveSaves
  CleanupKeepsHistory
  RollbackRestoresLayout
  RejectedUploadsAreKept
  RepeatedUploadsAddNothing
PROPERTIES
  DeletedSavesStayDeleted
  RemovalsMatchDownloads
