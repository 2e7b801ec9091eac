CONSTANTS
  h1 = h1
  h2 = h2
  slotA = slotA
  slotB = slotB
  zelda = zelda
  p1 = p1
  p2 = p2
  Handlers <- TwoHandlers
  Keys <- OneKey
  Tracks <- MCTracks
  TrackOf <- MCTrackOf
  Payloads <- MCPayloads
  MaxSaves = 2
  MaxTogether = 2
  MaxRemoved = 1
SPECIFICATION MCSpec
SYMMETRY Symmetry
PROPERTIES
  ConditionalWritesReplaceTheirBase
