CONSTANTS
  Day = 4
  Zones <- SomeZones
  Inputs <- SomeInputs
  WallClocks <- SomeWallClocks
  Durations = {1, 4}
  Cutoffs = {0, 1}
  Moments <- SomeMoments
  MaxDays = 14
  None = None
SPECIFICATION Spec
INVARIANT SnapshotsAgree
INVARIANT OneOccurrencePerDate
INVARIANT GenerationsAreComplete
