SPECIFICATION FairSpec
CONSTANTS
  Images <- OrAlImages
  Modes <- Listed
  Junk <- MCJunk
PROPERTY ListingEnds
CHECK_DEADLOCK FALSE
