CONSTANTS
  Chars <- MCChars
  MAX_IGNORE_PATTERNS = 0
  MAX_PATH_FILTERS = 2
  HOOKS <- MCHooks
  DEFAULT_CGROUP_PATTERN <- MCCgroupPattern
  DEFAULT_PATH_PATTERN <- MCPathPattern
  Requests <- MCRequests
  Edits <- MCEdits
  Contexts <- MCContexts
  NoExtra = NoExtra
SPECIFICATION Spec
INVARIANTS CoverageFloor EditNeverBlocked RebaseKeepsCoverage
PROPERTY AcceptedIsNarrower
