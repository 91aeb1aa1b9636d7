CONSTANTS
  Chars = {}
  MAX_IGNORE_PATTERNS = 0
  MAX_PATH_FILTERS = 0
  HOOKS = {}
  DEFAULT_CGROUP_PATTERN <- NoStrings
  DEFAULT_PATH_PATTERN <- NoStrings
  Tasks = {t1, t2}
  NoTask = NoTask
  Maps = {m1, m2}
  NoMap = NoMap
  Namespaces = {}
  Root = Root
  BPFIMA_POLICY_NAMESPACES = 1
  GenMax = 3
  Requests <- OneLevel
  Edits <- OneEdit
  Reloading = TRUE
  ReaderMaps = {m1}
  UserMaps = {m1}
  NoMetadata = NoMetadata
  Junk = Junk
SYMMETRY TaskSymmetry
SPECIFICATION Spec
INVARIANTS NoForeignWrite ActiveIsCommitted AcceptedCopyIsWhole
