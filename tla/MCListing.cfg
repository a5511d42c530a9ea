SPECIFICATION ListingSpec
CONSTANTS
  Images <- ListingImages
  Modes <- Both
  Junk <- MCJunk
CONSTRAINT OnceOnly
INVARIANT LinesShowInstructions
PROPERTY NoGapInListing
CHECK_DEADLOCK FALSE
