CONSTANTS
  Task <- MCTask
  Operations <- MCOperations
  Policies <- MCPolicies
  Unbound = Unbound
  Cgroup = {"a", "long"}
  Overlong = {"long"}
  Fault = {"storage", "alloc", "latch"}
  DEPS_BUF_SIZE = 8
  TASK_COMM_LEN = 3
  ATTRS_MAX = 6
  MaxLines = 2
SPECIFICATION Spec
INVARIANTS AllowedIsAccounted MeasurementIsOfEvent LinesReadBack
