SPECIFICATION Spec
CONSTANTS
  Lanes = 2
  Width <- MCWidth
  Gap <- MCGap
  Sum <- MCSum
  Listings <- MCListings
  Needles <- MCNeedles
INVARIANTS
  TypeOK
  ScoreIsBest
  WithinBounds
  ExactOnTop
