CONSTANTS
  mister = mister
  retroarch = retroarch
  pcsx2 = pcsx2
  d1 = d1
  d2 = d2
  ff7 = ff7
  mgs = mgs
  c1 = c1
  c2 = c2
  Shared = Shared
  Operator = Operator
  Nobody = Nobody
  Profiles <- PS1Profiles
  Position <- MCPosition
  Logicals <- TwoSaves
  Rank <- MCRank
  Home <- OneOfMister
  Contents <- MCContents
  Devices <- MCDevices
  ProfileOf <- PS1ProfileOf
  Capacity = 2
  MaxRebuilds = 2
  MaxRevisions = 2
  MaxRequests = 1
  MaxFaults = 1
SPECIFICATION Spec
SYMMETRY PS1Symmetry
INVARIANTS
  PromisesAreKept
  RecordsAreOfStoredProjections
  LatestShowsActiveSaves
PROPERTIES
  StoredForGood
