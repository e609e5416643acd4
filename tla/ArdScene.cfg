SPECIFICATION ArdSpec
CONSTANTS
  Runs = {r1, r2, r3, r4}
  Scenes = {plain, mosaic}
  Staged = {plain}
  Mosaic = {mosaic}
  Contracts = {c1, c2}
  MaxAttempts = 2
  MaxMixed = 2
  Faults = {"kill", "raise", "unwritable", "late", "loss"}
  NoRun = NoRun
  NoScene = NoScene
  NoContract = NoContract
INVARIANTS
  DoneRowsNameTheirProduct
  ZeroReturnHidesOnlyUnstaged
  AttemptsAreBounded
PROPERTY MosaicIsFrozen
SYMMETRY Interchangeable
CHECK_DEADLOCK FALSE
