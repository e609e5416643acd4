SPECIFICATION OutputsSpec
CONSTANTS
  Publishers = {p1, p2, p3}
  Policies = {f1, f2, longer}
  longer = longer
  Patches <- Lengths
  Faults = {"kill", "raise", "late"}
  NoPublisher = NoPublisher
  NoPolicy = NoPolicy
  Runs = {r1, r2}
  Scenes = {s1, s2}
  PolicyHashes = {h1, h2}
  Empty = {s2}
  MaxKills = 1
  NoRun = NoRun
  NoHash = NoHash
INVARIANTS
  PublishedIsCoherent
  SuccessIsTruthful
  ReleaseIsCoherent
  CleanRunHasRelease
PROPERTIES
  ImplementsImmutableRelease
  CommittedReleaseIsFrozen
  CommittedMaskIsFrozen
SYMMETRY Interchangeable
CHECK_DEADLOCK FALSE
