SPECIFICATION ComparingSpec
CONSTANTS
  Images <- BranchImages
  Modes <- MCModes
  Junk <- MCJunk
PROPERTY BranchesFollowComparison
CHECK_DEADLOCK FALSE
