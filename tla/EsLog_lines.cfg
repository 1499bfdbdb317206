CONSTANTS
  Thread = {loop, s1, s2}
  Level = {3, 4, 6, 7}
SPECIFICATION FairSpec
INVARIANTS
  TypeOK
  ColourHasALine
PROPERTY ColourIsReset
