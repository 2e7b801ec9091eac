CONSTANTS
  Files = {"mcr"}
  Products = {1, 2}
  Room = 4
  Sizes = {1, 2}
  Consoles = {first}
  MaxWrites = 2
SPECIFICATION Spec
CHECK_DEADLOCK FALSE
INVARIANTS
  GamesFindWholeSaves
