------------------------ MODULE MCPolicyComposition --------------------------
(***************************************************************************)
(* Instances of PolicyComposition for TLC: requests that differ in their   *)
(* patterns and requests that differ in flags, thresholds and hooks.       *)
(***************************************************************************)
EXTENDS PolicyComposition

MCChars == {"a", "b"}
MCHooks == {"FILE_POST_OPEN", "KPROBE_FILE_OPEN"}
MCCgroupPattern == << <<"a">>, <<"b">> >>
MCPathPattern == << <<"a">>, <<"b", "a">> >>

Texts(n) == UNION {[1..m -> MCChars] : m \in 0..n}

Quiet == [DefaultSnapshot EXCEPT !.paths = [i \in PathSlots |-> EmptyEntry]]

(***************************************************************************)
(* Patterns: two path slots, the second with fewer choices.                *)
(***************************************************************************)
MCPatterns == {<<"a">>, <<"a", "b">>}
MCEntries == {Entry(t, p) : t \in 0..3, p \in MCPatterns} \cup {EmptyEntry}
MCSecond == {EmptyEntry, Entry(SUFFIX, <<"b">>), Entry(CONTAINS, <<"b">>)}
Slots(first, second) == <<first, second>>

PatternRequests ==
  {[Quiet EXCEPT !.paths = Slots(e, f)] : e \in MCEntries, f \in MCSecond}
    \cup {[Quiet EXCEPT !.paths = Slots([enabled |-> 0, match_type |-> 2, pattern |-> <<"a">>], EmptyEntry)],
          [Quiet EXCEPT !.paths = Slots(Entry(PREFIX, <<>>), EmptyEntry)],
          [Quiet EXCEPT !.paths = Slots(Entry(4, <<"a">>), EmptyEntry)]}

PatternContexts ==
  {[cgroup |-> <<>>, path |-> t, names |-> {}, file_size |-> 0,
    hook |-> "FILE_POST_OPEN", flags |-> {}] : t \in Texts(3)}

(***************************************************************************)
(* Scalars: both pattern slots empty.                                      *)
(***************************************************************************)
Scalars(enabled, filters, size, hookflags) ==
  [Quiet EXCEPT !.config = [@ EXCEPT !.enabled = enabled, !.filter_flags = filters,
                                     !.min_file_size = size],
                !.hooks = [@ EXCEPT !["FILE_POST_OPEN"] = hookflags]]

MCFilters == {{}, {"SYSTEM_CGROUPS"}, {"DEV", "READONLY_FILES"}, {"SYSTEM_CGROUPS", "DEV", "SMALL_FILES"}}
MCHookFlags == {{"ENABLED"}, HookFlags}

ScalarRequests ==
  {Scalars(1, f, s, h) : f \in MCFilters, s \in 0..1, h \in MCHookFlags}
    \cup {Scalars(2, {}, 0, HookFlags),
          Scalars(1, {UnknownFlag}, 0, HookFlags),
          Scalars(1, {}, 0, {UnknownFlag}),
          [Quiet EXCEPT !.reserved = 1],
          [Quiet EXCEPT !.config.action_flags = @ \cup {"BLOCK"}],
          [Quiet EXCEPT !.config.action_flags = {"LOG_SECURITYFS"}],
          [Quiet EXCEPT !.config.max_path_depth = 33],
          [Quiet EXCEPT !.config.history_max_size = 10]}

MCEdits ==
  {[field |-> "enabled", value |-> v] : v \in {0, 2}}
    \cup {[field |-> "filter_flags", value |-> {}],
          [field |-> "action_flags", value |-> DefaultConfig.action_flags],
          [field |-> "log_level", value |-> 2], [field |-> "log_level", value |-> 4]}

ScalarContexts ==
  {[cgroup |-> <<>>, path |-> <<>>, names |-> n, file_size |-> s,
    hook |-> "FILE_POST_OPEN", flags |-> f] :
      n \in SUBSET {"SYSTEM_CGROUPS", "DEV"}, s \in 0..1,
      f \in {{}, {"FILE"}, {"FILE", "READONLY", "EXECUTABLE"}}}

MCRequests == PatternRequests \cup ScalarRequests
MCContexts == PatternContexts \cup ScalarContexts
=============================================================================
