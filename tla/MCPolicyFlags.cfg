CONSTANTS
  Chars <- MCChars
  MAX_IGNORE_PATTERNS = 0
  MAX_PATH_FILTERS = 0
  HOOKS <- MCHooks
  DEFAULT_CGROUP_PATTERN <- MCCgroupPattern
  DEFAULT_PATH_PATTERN <- MCPathPattern
  Requests <- ScalarRequests
  Edits <- MCEdits
  Contexts <- ScalarContexts
  NoExtra = NoExtra
SPECIFICATION Spec
INVARIANT SkipFlagsAreAnded
