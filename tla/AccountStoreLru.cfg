SPECIFICATION Spec
CONSTANTS
  Keys = {k1, k2}
  Elements = {nothing, v1}
  Nothing = nothing
  Absent = absent
  Unsaved = unsaved
  CacheSize = 1
  MaxDepth = 2
PROPERTY ActsAsMap
