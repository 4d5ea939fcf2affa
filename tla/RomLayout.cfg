SPECIFICATION Spec
CHECK_DEADLOCK FALSE
CONSTANTS
  Limit = 128
  AreaNames = {"a", "b", "default"}
  KDefaultAreaName = "default"
  Roms <- MCRoms
  Base = 64
  RomAlign = 2
  PageSize = 4
  SectionAlign = 4
  HeadSize = 2
  SectionHeader = 1
  ImageHeader = 1
  Reloc = 3
INVARIANTS
  TypeOK
  AreasApart
  RangesApart
  FilesAllPlaced
  PartsKept
