CONSTANTS
  h1 = h1
  h2 = h2
  slotA = slotA
  slotB = slotB
  zelda = zelda
  p1 = p1
  p2 = p2
  Handlers <- TwoHandlers
  Keys <- MCKeys
  Tracks <- MCTracks
  TrackOf <- MCTrackOf
  Payloads <- MCPayloads
  MaxSaves = 3
  MaxTogether = 2
  MaxRemoved = 1
SPECIFICATION MCSpec
SYMMETRY Symmetry
INVARIANTS
  TypeOK
  MetadataHasPayload
  AcknowledgedSavesAreStored
  ListedSavesAreStored
  LatestIsNewest
  VersionsAreUniqueInTurn
  ContentsAreUniqueInTurn
  ListMatchesDiskInTurn
PROPERTIES
  ImplementsLedger
  WritesReplaceTheirBaseInTurn
