----------------------------- MODULE PolicyRules -----------------------------
(***************************************************************************)
(* The pure part of the policy: what a valid snapshot is, when a           *)
(* namespace's snapshot may extend the root's, how the two compose and     *)
(* which operations they skip (policy_manager.c, bpfima_policy_defaults.h).*)
(*                                                                         *)
(* A flag word is the set of its flags, with UnknownFlag for any bit that  *)
(* has no name.  A string is a sequence of characters.  Whether a name     *)
(* passes one of the fixed tests of filtered() ("/proc/", ".so", ...) is   *)
(* an attribute of the operation's context.                                *)
(***************************************************************************)
EXTENDS Integers, Sequences

CONSTANTS
  Chars,                    \* the characters of names and patterns
  MAX_IGNORE_PATTERNS,      \* slots for cgroup patterns
  MAX_PATH_FILTERS,         \* slots for path patterns
  HOOKS,                    \* hook identifiers, strings
  DEFAULT_CGROUP_PATTERN,   \* the two default cgroup patterns
  DEFAULT_PATH_PATTERN      \* the two default path patterns

CgroupSlots == 1..MAX_IGNORE_PATTERNS
PathSlots == 1..MAX_PATH_FILTERS

(***************************************************************************)
(* Flags.                                                                  *)
(***************************************************************************)
UnknownFlag == "UNKNOWN"

\* The filters that test a fixed name.
NameFilters == {"SYSTEM_CGROUPS", "PROC_SYS", "DEV", "TMP_FILES"}
FilterFlags == NameFilters \cup {"READONLY_FILES", "SMALL_FILES", "NON_EXECUTABLE", "LIBRARIES"}

UnsupportedActions == {"ALERT_SUSPICIOUS", "BLOCK"}
RequiredActions == {"EXTEND_TPM", "LOG_SECURITYFS"}
ActionFlags == RequiredActions \cup UnsupportedActions
                 \cup {"LOG_KERNEL", "TRACK_CONTAINER", "BUILD_DEPS"}

HookFlags == {"ENABLED", "TRACK_CONTAINERS", "MEASURE_HASH"}

(***************************************************************************)
(* Patterns.                                                               *)
(***************************************************************************)
EXACT == 0
PREFIX == 1
SUFFIX == 2
CONTAINS == 3

EmptyEntry == [enabled |-> 0, match_type |-> EXACT, pattern |-> <<>>]
Entry(type, pattern) == [enabled |-> 1, match_type |-> type, pattern |-> pattern]

\* The characters of s are those of text from position k + 1 on.
OccursAt(s, text, k) ==
  /\ k + Len(s) <= Len(text)
  /\ \A i \in 1..Len(s) : text[k + i] = s[i]

IsPrefixOf(s, text) == OccursAt(s, text, 0)
IsSuffixOf(s, text) == Len(s) <= Len(text) /\ OccursAt(s, text, Len(text) - Len(s))
IsContainedIn(s, text) == \E k \in 0..Len(text) : OccursAt(s, text, k)

\* bpfima_pattern_matches
pattern_matches(entry, text) ==
  /\ entry.enabled # 0
  /\ text # <<>>
  /\ \/ entry.match_type = EXACT /\ text = entry.pattern
     \/ entry.match_type = PREFIX /\ IsPrefixOf(entry.pattern, text)
     \/ entry.match_type = SUFFIX /\ IsSuffixOf(entry.pattern, text)
     \/ entry.match_type = CONTAINS /\ IsContainedIn(entry.pattern, text)

(* A subset test that takes any prefix of a prefix for narrower. *)
pattern_is_subset_Swapped(extra, root) ==
  \/ extra.enabled = 0
  \/ /\ root.enabled # 0
     /\ \/ extra.match_type = EXACT /\ pattern_matches(root, extra.pattern)
        \/ extra.match_type = root.match_type /\ IsPrefixOf(extra.pattern, root.pattern)

\* bpfima_pattern_is_subset: only relations it can decide count.
pattern_is_subset(extra, root) ==
  \/ extra.enabled = 0
  \/ /\ root.enabled # 0
     /\ \/ extra.match_type = EXACT /\ pattern_matches(root, extra.pattern)
        \/ /\ extra.match_type = root.match_type
           /\ \/ extra.match_type = PREFIX /\ IsPrefixOf(root.pattern, extra.pattern)
              \/ extra.match_type = SUFFIX /\ IsSuffixOf(root.pattern, extra.pattern)
              \/ extra.match_type = CONTAINS /\ IsContainedIn(root.pattern, extra.pattern)

\* The inner loop of validate_extension and rebase_extension.
Covered(entry, base) ==
  entry.enabled = 0 \/ \E j \in DOMAIN base : pattern_is_subset(entry, base[j])

(***************************************************************************)
(* Snapshots.                                                              *)
(***************************************************************************)
DefaultConfig ==
  [enabled |-> 1, filter_flags |-> {},
   action_flags |-> RequiredActions \cup {"LOG_KERNEL", "TRACK_CONTAINER", "BUILD_DEPS"},
   min_file_size |-> 0, max_path_depth |-> 32, log_level |-> 2,
   history_max_size |-> 1000, history_scope |-> 0]

\* bpfima_init_default_snapshot
DefaultSnapshot ==
  [config |-> DefaultConfig,
   cgroups |-> [i \in CgroupSlots |->
                  IF i <= 2 THEN Entry(EXACT, DEFAULT_CGROUP_PATTERN[i]) ELSE EmptyEntry],
   paths |-> [i \in PathSlots |->
                IF i <= 2 THEN Entry(PREFIX, DEFAULT_PATH_PATTERN[i]) ELSE EmptyEntry],
   hooks |-> [h \in HOOKS |-> IF h = "KPROBE_FILE_OPEN" THEN {} ELSE HookFlags],
   reserved |-> 0]

(***************************************************************************)
(* The shape of a request before any check: every field has its C type.    *)
(***************************************************************************)
Entries == [enabled : Nat, match_type : Nat, pattern : Seq(Chars)]
Configs ==
  [enabled : Nat, filter_flags : SUBSET (FilterFlags \cup {UnknownFlag}),
   action_flags : SUBSET (ActionFlags \cup {UnknownFlag}),
   min_file_size : Nat, max_path_depth : Nat, log_level : Nat,
   history_max_size : Nat, history_scope : Nat]
Snapshots ==
  [config : Configs, cgroups : [CgroupSlots -> Entries], paths : [PathSlots -> Entries],
   hooks : [HOOKS -> SUBSET (HookFlags \cup {UnknownFlag})], reserved : Nat]

ConfigInRange(c) ==
  /\ c.enabled <= 1
  /\ c.filter_flags \subseteq FilterFlags
  /\ c.action_flags \subseteq ActionFlags
  /\ RequiredActions \subseteq c.action_flags
  /\ c.log_level <= 3
  /\ c.max_path_depth <= 32
  /\ c.history_scope <= 1

EntryInRange(e) ==
  /\ e.enabled <= 1
  /\ e.match_type <= CONTAINS
  /\ e.enabled = 1 => e.pattern # <<>>

\* The checks of normalize_snapshot; reserved stands for every field that must be zero
\* (padding, overrides) and for strings without a terminator.
normalize_error(s) ==
  IF s.config.action_flags \cap UnsupportedActions # {} THEN "EOPNOTSUPP"
  ELSE IF /\ ConfigInRange(s.config)
          /\ \A i \in CgroupSlots : EntryInRange(s.cgroups[i])
          /\ \A i \in PathSlots : EntryInRange(s.paths[i])
          /\ \A h \in HOOKS : s.hooks[h] \subseteq HookFlags
          /\ s.reserved = 0
       THEN "OK"
       ELSE "EINVAL"

CleanEntry(e) == IF e.enabled = 1 THEN e ELSE EmptyEntry

\* What normalize_snapshot writes: inactive entries are cleared.
normalize_snapshot(s) ==
  [s EXCEPT !.cgroups = [i \in CgroupSlots |-> CleanEntry(s.cgroups[i])],
            !.paths = [i \in PathSlots |-> CleanEntry(s.paths[i])]]

(***************************************************************************)
(* Extension of the root policy by a namespace's.                          *)
(***************************************************************************)
\* validate_extension: TRUE for 0, FALSE for -EPERM.
validate_extension(root, extra) ==
  /\ extra.config.enabled >= root.config.enabled
  /\ extra.config.filter_flags \subseteq root.config.filter_flags
  /\ root.config.action_flags \subseteq extra.config.action_flags
  /\ extra.config.min_file_size <= root.config.min_file_size
  /\ extra.config.max_path_depth >= root.config.max_path_depth
  /\ extra.config.log_level >= root.config.log_level
  /\ extra.config.history_max_size = root.config.history_max_size
  /\ extra.config.history_scope = root.config.history_scope
  /\ \A h \in HOOKS : root.hooks[h] \subseteq extra.hooks[h]
  /\ \A i \in CgroupSlots : Covered(extra.cgroups[i], root.cgroups)
  /\ \A i \in PathSlots : Covered(extra.paths[i], root.paths)

Least(a, b) == IF a <= b THEN a ELSE b
Greatest(a, b) == IF a >= b THEN a ELSE b

\* bpfima_policy_merge_config with an extension; enabled is 0 or 1, so | is the greater.
merge_config(root, extra) ==
  [root EXCEPT
     !.enabled = Greatest(root.enabled, extra.enabled),
     !.filter_flags = root.filter_flags \cap extra.filter_flags,
     !.action_flags = root.action_flags \cup extra.action_flags,
     !.min_file_size = Least(root.min_file_size, extra.min_file_size),
     !.max_path_depth = Greatest(root.max_path_depth, extra.max_path_depth),
     !.log_level = Greatest(root.log_level, extra.log_level)]

(* Rebasing that replaces an uncovered pattern by the root's. *)
rebase_extension_RootPattern(root, s) ==
  [s EXCEPT
     !.config = merge_config(root.config, s.config),
     !.hooks = [h \in HOOKS |-> s.hooks[h] \cup root.hooks[h]],
     !.paths = [i \in PathSlots |->
                  IF Covered(s.paths[i], root.paths) THEN s.paths[i] ELSE root.paths[i]]]

\* rebase_extension: take over the root's floor, drop patterns the root no longer covers.
rebase_extension(root, s) ==
  [s EXCEPT
     !.config = merge_config(root.config, s.config),
     !.hooks = [h \in HOOKS |-> s.hooks[h] \cup root.hooks[h]],
     !.cgroups = [i \in CgroupSlots |->
                    IF Covered(s.cgroups[i], root.cgroups) THEN s.cgroups[i] ELSE EmptyEntry],
     !.paths = [i \in PathSlots |->
                  IF Covered(s.paths[i], root.paths) THEN s.paths[i] ELSE EmptyEntry]]

\* The value bpfima_policy_update_field refuses by itself, and its assignment.
EditRejected(edit) == edit.field = "enabled" /\ edit.value > 1

SetField(s, field, value) ==
  CASE field = "enabled" -> [s EXCEPT !.config = [@ EXCEPT !.enabled = value]]
    [] field = "filter_flags" -> [s EXCEPT !.config = [@ EXCEPT !.filter_flags = value]]
    [] field = "action_flags" -> [s EXCEPT !.config = [@ EXCEPT !.action_flags = value]]
    [] field = "min_file_size" -> [s EXCEPT !.config = [@ EXCEPT !.min_file_size = value]]
    [] field = "log_level" -> [s EXCEPT !.config = [@ EXCEPT !.log_level = value]]

(***************************************************************************)
(* What is skipped.  A context has cgroup and path strings, the set names  *)
(* of fixed-name tests they pass, file_size, hook, and flags among FILE,   *)
(* READONLY and EXECUTABLE.                                                *)
(***************************************************************************)
patterns_match(patterns, text) == \E i \in DOMAIN patterns : pattern_matches(patterns[i], text)

filtered(s, context) ==
  LET flags == s.config.filter_flags
  IN  \/ patterns_match(s.cgroups, context.cgroup)
      \/ patterns_match(s.paths, context.path)
      \/ flags \cap NameFilters \cap context.names # {}
      \/ /\ "FILE" \in context.flags
         /\ \/ "SMALL_FILES" \in flags /\ context.file_size < s.config.min_file_size
            \/ "READONLY_FILES" \in flags /\ "READONLY" \in context.flags
            \/ "NON_EXECUTABLE" \in flags /\ "EXECUTABLE" \notin context.flags
            \/ "LIBRARIES" \in flags \cap context.names

\* result->skip of bpfima_policy_resolve_context, without a record for the namespace ...
SkipRoot(root, context) ==
  \/ root.config.enabled = 0
  \/ "ENABLED" \notin root.hooks[context.hook]
  \/ "FILE" \in context.flags /\ "MEASURE_HASH" \notin root.hooks[context.hook]
  \/ filtered(root, context)

(* Composition in which either side's filters skip. *)
SkipExtended_AnyFilter(root, extra, context) ==
  LET hook == root.hooks[context.hook] \cup extra.hooks[context.hook]
  IN  \/ merge_config(root.config, extra.config).enabled = 0
      \/ "ENABLED" \notin hook
      \/ "FILE" \in context.flags /\ "MEASURE_HASH" \notin hook
      \/ filtered(root, context) \/ filtered(extra, context)

\* ... and with one.
SkipExtended(root, extra, context) ==
  LET hook == root.hooks[context.hook] \cup extra.hooks[context.hook]
  IN  \/ merge_config(root.config, extra.config).enabled = 0
      \/ "ENABLED" \notin hook
      \/ "FILE" \in context.flags /\ "MEASURE_HASH" \notin hook
      \/ filtered(root, context) /\ filtered(extra, context)
=============================================================================
