SPECIFICATION FairSpec
CONSTANTS
  small = small
  middle = middle
  large = large
  Images <- MCImages
  NoImage = NoImage
  SizeOf <- MCSizeOf
  SpaceEnd = 5
  FlashEnd = 6
  NoCommand = NoCommand
  Erased = Erased
  FileData = FileData
  Damaged = Damaged
  Hashes = TRUE
  Garbles = TRUE
INVARIANTS TypeOK SketchIntact StagedWhole
PROPERTIES FileSystemKept KeepsPromise UpdateArrives
