CONSTANTS
  WORD = 32
  HALF = 16
  PowersOfTwo <- MCPowersOfTwo
  Arenas <- MCArenas
  Sizes <- MCSizes
  Aligns <- MCAligns
SPECIFICATION Spec
INVARIANTS TypeOK BlocksDisjoint BlocksAligned CopyDisjoint RefusedOnlyWhenFull
