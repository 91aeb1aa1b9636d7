CONSTANTS
  Task <- MCTask
  Operations <- MCOperations
  Policies <- MCPolicies
  Unbound = Unbound
  Cgroup = {"a", "long"}
  Overlong = {"long"}
  Fault = {}
  DEPS_BUF_SIZE = 8
  TASK_COMM_LEN = 3
  ATTRS_MAX = 6
  MaxLines = 2
SPECIFICATION Spec
INVARIANT LinesValidate
