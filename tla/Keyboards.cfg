CONSTANTS
  BUFFER_SIZE = 3
  LowerKeys <- MCLower
  UpperKeys <- MCUpper
  Letters <- MCLetters
  Scancodes <- MCScancodes
  DrvKeys <- MCLetters
  DrvMaxLen = 2
SPECIFICATION BothSpec
INVARIANTS TypeOK ModifiersHeld DrvTypeOK DrvKeysDown
PROPERTIES RefinesKeyQueue RingKeepsKey DrvRefinesKeyQueue DrvReadReturns
