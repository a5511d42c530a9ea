SPECIFICATION ListingSpec
CONSTANTS
  Images <- Sixth
  Modes <- ListingOnly
  Junk <- MCJunk
INVARIANT LinesAsReference
CHECK_DEADLOCK FALSE
