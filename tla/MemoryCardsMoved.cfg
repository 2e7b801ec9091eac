CONSTANTS
  Files = {"mcr"}
  Products = {1}
  Room = 4
  Sizes = {1, 2}
  Consoles = {first, second}
  MaxWrites = 2
SPECIFICATION Spec
CHECK_DEADLOCK FALSE
PROPERTIES
  OldCardsAreStale
