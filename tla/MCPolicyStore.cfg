CONSTANTS
  Chars = {}
  MAX_IGNORE_PATTERNS = 0
  MAX_PATH_FILTERS = 0
  HOOKS = {}
  DEFAULT_CGROUP_PATTERN <- NoStrings
  DEFAULT_PATH_PATTERN <- NoStrings
  Tasks = {t1, t2}
  NoTask = NoTask
  Maps = {m1}
  NoMap = NoMap
  Namespaces = {a, b}
  Root = Root
  BPFIMA_POLICY_NAMESPACES = 1
  GenMax = 3
  Requests <- TwoLevels
  Edits <- LevelEdits
  Reloading = FALSE
  ReaderMaps = {}
  UserMaps = {}
  NoMetadata = NoMetadata
  Junk = Junk
SYMMETRY Symmetry
SPECIFICATION Spec
INVARIANTS ActiveIsCommitted TrimSeesCommitted AuditExact ResultIsTrue NoLostUpdate
