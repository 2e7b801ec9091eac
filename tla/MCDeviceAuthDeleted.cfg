CONSTANTS
  deck = deck
  deckEmulator = deckEmulator
  mister = mister
  deckPrint = deckPrint
  misterPrint = misterPrint
  NoIdentity = NoIdentity
  Handlers = {h1}
  Identities <- MCIdentities
  Machine <- MCMachine
  MaxDevices = 3
  MaxPasswords = 2
  MaxFaults = 0
SPECIFICATION Spec
SYMMETRY DeckTypes
PROPERTIES
  DeletedHelpersReenroll
