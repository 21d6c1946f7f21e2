CONSTANTS
  PAGES_TOTAL = 6
  FIRST_FREE = 1
  MAP_END = 9
  PAGES_PER_TABLE = 2
  Virts <- MCVirts
  Flags <- MCFlags
  Dirs = {kernel_dir, user_dir}
  kernel_dir = kernel_dir
  BOOT = BOOT
SPECIFICATION Spec
INVARIANTS TypeOK PagesAccounted TreeShaped MappedPagesHeld TlbCoherent
PROPERTIES MapFailsOnlyWhenExhausted RefinesAddressSpaces
