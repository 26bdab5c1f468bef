SPECIFICATION Spec
CONSTANTS
  AllBooks = {1, 2, 3}
  IncludeSets <- MC_IncludeSets
  MatchSets <- MC_MatchSets
  ShardConfigs <- MC_ShardConfigs
  SampleSizes = {2}
INVARIANT BatchOrderSorted
