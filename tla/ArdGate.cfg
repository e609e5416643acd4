SPECIFICATION ArdSpec
CONSTANTS
  Runs = {r1, r2}
  Scenes = {plain}
  Staged = {}
  Mosaic = {}
  Contracts = {c1}
  MaxAttempts = 2
  MaxMixed = 2
  Faults = {"kill"}
  NoRun = NoRun
  NoScene = NoScene
  NoContract = NoContract
INVARIANT GateShowsWholeProduct
SYMMETRY Interchangeable
CHECK_DEADLOCK FALSE
