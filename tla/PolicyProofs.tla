---------------------------- MODULE PolicyProofs -----------------------------
(***************************************************************************)
(* Theorems about PolicyComposition: for any patterns, slots, hooks,       *)
(* requests, edits and operations.                                         *)
(***************************************************************************)
EXTENDS PolicyComposition, TLAPS

USE SMTT(30), ZenonT(30)

(***************************************************************************)
(* Patterns.                                                               *)
(***************************************************************************)
\* A string inside a string inside a text is inside the text (strstr and friends).
LEMMA OccursTrans ==
  ASSUME NEW r \in Seq(Chars), NEW e \in Seq(Chars), NEW t \in Seq(Chars),
         NEW j \in Nat, NEW k \in Nat, OccursAt(r, e, j), OccursAt(e, t, k)
  PROVE  OccursAt(r, t, j + k)
<1>1. /\ Len(r) \in Nat /\ Len(e) \in Nat /\ Len(t) \in Nat
      /\ j + Len(r) <= Len(e) /\ k + Len(e) <= Len(t)
  BY DEF OccursAt
<1>2. ASSUME NEW i \in 1..Len(r) PROVE t[(j + k) + i] = r[i]
  <2>1. j + i \in 1..Len(e) /\ e[j + i] = r[i]
    BY <1>1 DEF OccursAt
  <2>2. t[k + (j + i)] = e[j + i]
    BY <1>1, <2>1 DEF OccursAt
  <2>3. k + (j + i) = (j + k) + i
    BY <2>1
  <2>. QED BY <2>1, <2>2, <2>3
<1>. QED BY <1>1, <1>2 DEF OccursAt

\* What bpfima_pattern_is_subset accepts is narrower: every text that the extension's
\* pattern matches is matched by the root's.
LEMMA SubsetSound ==
  ASSUME NEW e \in Entries, NEW r \in Entries, NEW t \in Seq(Chars),
         pattern_is_subset(e, r), pattern_matches(e, t)
  PROVE  pattern_matches(r, t)
<1>1. /\ e.pattern \in Seq(Chars) /\ r.pattern \in Seq(Chars)
      /\ e.enabled # 0 /\ r.enabled # 0 /\ t # <<>>
  BY DEF Entries, pattern_is_subset, pattern_matches
<1>2. CASE e.match_type = EXACT
  BY <1>1, <1>2 DEF pattern_is_subset, pattern_matches, EXACT, PREFIX, SUFFIX, CONTAINS
<1>3. CASE e.match_type = PREFIX
  <2>1. IsPrefixOf(r.pattern, e.pattern) /\ IsPrefixOf(e.pattern, t) /\ r.match_type = PREFIX
    BY <1>1, <1>3 DEF pattern_is_subset, pattern_matches, EXACT, PREFIX, SUFFIX, CONTAINS
  <2>2. OccursAt(r.pattern, t, 0 + 0)
    BY <1>1, <2>1, OccursTrans DEF IsPrefixOf
  <2>. QED BY <1>1, <2>1, <2>2 DEF pattern_matches, IsPrefixOf
<1>4. CASE e.match_type = SUFFIX
  <2>1. IsSuffixOf(r.pattern, e.pattern) /\ IsSuffixOf(e.pattern, t) /\ r.match_type = SUFFIX
    BY <1>1, <1>4 DEF pattern_is_subset, pattern_matches, EXACT, PREFIX, SUFFIX, CONTAINS
  <2>2. /\ Len(r.pattern) \in Nat /\ Len(e.pattern) \in Nat /\ Len(t) \in Nat
        /\ Len(r.pattern) <= Len(e.pattern) /\ Len(e.pattern) <= Len(t)
    BY <1>1, <2>1 DEF IsSuffixOf
  <2>. DEFINE j == Len(e.pattern) - Len(r.pattern)
              k == Len(t) - Len(e.pattern)
  <2>3. OccursAt(r.pattern, t, j + k)
    <3>1. j \in Nat /\ k \in Nat
      BY <2>2
    <3>2. OccursAt(r.pattern, e.pattern, j) /\ OccursAt(e.pattern, t, k)
      BY <2>1, Zenon DEF IsSuffixOf
    <3>. HIDE DEF j, k
    <3>. QED BY <1>1, <3>1, <3>2, OccursTrans
  <2>4. j + k = Len(t) - Len(r.pattern)
    BY <2>2
  <2>5. OccursAt(r.pattern, t, Len(t) - Len(r.pattern)) /\ Len(r.pattern) <= Len(t)
    <3>. HIDE DEF j, k
    <3>. QED BY <2>2, <2>3, <2>4
  <2>. QED BY <1>1, <2>1, <2>5 DEF pattern_matches, IsSuffixOf
<1>5. CASE e.match_type = CONTAINS
  <2>1. IsContainedIn(r.pattern, e.pattern) /\ IsContainedIn(e.pattern, t) /\ r.match_type = CONTAINS
    BY <1>1, <1>5 DEF pattern_is_subset, pattern_matches, EXACT, PREFIX, SUFFIX, CONTAINS
  <2>2. PICK j \in 0..Len(e.pattern) : OccursAt(r.pattern, e.pattern, j)
    BY <2>1 DEF IsContainedIn
  <2>3. PICK k \in 0..Len(t) : OccursAt(e.pattern, t, k)
    BY <2>1 DEF IsContainedIn
  <2>4. OccursAt(r.pattern, t, j + k)
    BY <1>1, <2>2, <2>3, OccursTrans
  <2>5. j + k \in 0..Len(t)
    BY <1>1, <2>2, <2>3, <2>4 DEF OccursAt
  <2>. QED BY <1>1, <2>1, <2>4, <2>5 DEF pattern_matches, IsContainedIn
<1>. QED BY <1>2, <1>3, <1>4, <1>5 DEF pattern_matches

\* A pattern is a subset of itself once normalize_snapshot has accepted it.
LEMMA SubsetReflexive ==
  ASSUME NEW e \in Entries, EntryInRange(e)
  PROVE  pattern_is_subset(e, e)
<1>1. e.enabled \in Nat /\ e.match_type \in Nat /\ e.pattern \in Seq(Chars) /\ Len(e.pattern) \in Nat
  BY DEF Entries
<1>2. OccursAt(e.pattern, e.pattern, 0)
  BY <1>1 DEF OccursAt
<1>3. /\ IsPrefixOf(e.pattern, e.pattern)
      /\ IsContainedIn(e.pattern, e.pattern)
  BY <1>1, <1>2 DEF IsPrefixOf, IsContainedIn
<1>4. IsSuffixOf(e.pattern, e.pattern)
  BY <1>1, <1>2 DEF IsSuffixOf
<1>5. e.match_type \in {EXACT, PREFIX, SUFFIX, CONTAINS}
  BY <1>1 DEF EntryInRange, EXACT, PREFIX, SUFFIX, CONTAINS
<1>. QED BY <1>1, <1>3, <1>4, <1>5 DEF pattern_is_subset, pattern_matches, EntryInRange

\* The patterns of an accepted extension match nothing that the root's do not.
LEMMA CoveredSound ==
  ASSUME NEW S, NEW e \in Entries, NEW base \in [S -> Entries], NEW t \in Seq(Chars),
         Covered(e, base), pattern_matches(e, t)
  PROVE  patterns_match(base, t)
<1>1. PICK j \in S : pattern_is_subset(e, base[j])
  BY DEF Covered, pattern_matches
<1>. QED BY <1>1, SubsetSound DEF patterns_match

(***************************************************************************)
(* Filtering.                                                              *)
(***************************************************************************)
\* The fields of a snapshot and of a context.
LEMMA SnapshotFields ==
  ASSUME NEW s \in Snapshots
  PROVE  /\ s.config \in Configs
         /\ s.cgroups \in [CgroupSlots -> Entries]
         /\ s.paths \in [PathSlots -> Entries]
         /\ s.hooks \in [HOOKS -> SUBSET (HookFlags \cup {UnknownFlag})]
BY DEF Snapshots

\* Whatever an extension that passes validate_extension filters, the root filters.
LEMMA ValidIsNarrower ==
  ASSUME NEW r \in Snapshots, NEW x \in Snapshots, NEW c \in ContextType,
         validate_extension(r, x), filtered(x, c)
  PROVE  filtered(r, c)
<1>1. c.cgroup \in Seq(Chars) /\ c.path \in Seq(Chars) /\ c.file_size \in Nat
  BY DEF ContextType
<1>2. CASE patterns_match(x.cgroups, c.cgroup)
  <2>1. PICK i \in CgroupSlots : pattern_matches(x.cgroups[i], c.cgroup)
    BY <1>2, SnapshotFields DEF patterns_match
  <2>2. x.cgroups[i] \in Entries /\ Covered(x.cgroups[i], r.cgroups)
    BY SnapshotFields DEF validate_extension
  <2>3. patterns_match(r.cgroups, c.cgroup)
    BY <1>1, <2>1, <2>2, SnapshotFields, CoveredSound, Zenon
  <2>. QED BY <2>3 DEF filtered
<1>3. CASE patterns_match(x.paths, c.path)
  <2>1. PICK i \in PathSlots : pattern_matches(x.paths[i], c.path)
    BY <1>3, SnapshotFields DEF patterns_match
  <2>2. x.paths[i] \in Entries /\ Covered(x.paths[i], r.paths)
    BY SnapshotFields DEF validate_extension
  <2>3. patterns_match(r.paths, c.path)
    BY <1>1, <2>1, <2>2, SnapshotFields, CoveredSound, Zenon
  <2>. QED BY <2>3 DEF filtered
<1>4. CASE ~patterns_match(x.cgroups, c.cgroup) /\ ~patterns_match(x.paths, c.path)
  <2>1. /\ x.config.filter_flags \subseteq r.config.filter_flags
        /\ x.config.min_file_size <= r.config.min_file_size
        /\ x.config.min_file_size \in Nat /\ r.config.min_file_size \in Nat
    BY SnapshotFields DEF validate_extension, Configs
  <2>. QED BY <1>1, <1>4, <2>1 DEF filtered
<1>. QED BY <1>2, <1>3, <1>4

\* An operation the root measures is measured whatever the extension says.
LEMMA FloorOfExtended ==
  ASSUME NEW r \in Snapshots, NEW x \in Snapshots, NEW c \in ContextType,
         r.config.enabled <= 1, x.config.enabled <= 1, SkipExtended(r, x, c)
  PROVE  SkipRoot(r, c)
<1>1. r.config.enabled \in Nat /\ x.config.enabled \in Nat
  BY SnapshotFields DEF Configs
<1>2. merge_config(r.config, x.config).enabled = 0 => r.config.enabled = 0
  <2>1. merge_config(r.config, x.config).enabled = Greatest(r.config.enabled, x.config.enabled)
    BY SnapshotFields DEF merge_config, Configs
  <2>. QED BY <1>1, <2>1 DEF Greatest
<1>. QED BY <1>2 DEF SkipExtended, SkipRoot

(***************************************************************************)
(* Normal snapshots.                                                       *)
(***************************************************************************)
\* The checks of normalize_snapshot, as one predicate.
InRange(s) ==
  /\ ConfigInRange(s.config)
  /\ s.config.action_flags \cap UnsupportedActions = {}
  /\ \A i \in CgroupSlots : EntryInRange(s.cgroups[i])
  /\ \A i \in PathSlots : EntryInRange(s.paths[i])
  /\ \A h \in HOOKS : s.hooks[h] \subseteq HookFlags
  /\ s.reserved = 0

\* Inactive entries are cleared.
Clean(s) ==
  /\ \A i \in CgroupSlots : CleanEntry(s.cgroups[i]) = s.cgroups[i]
  /\ \A i \in PathSlots : CleanEntry(s.paths[i]) = s.paths[i]

\* normalize_snapshot returns 0 exactly for a snapshot in range.
LEMMA OkIsInRange ==
  ASSUME NEW s \in Snapshots
  PROVE  (normalize_error(s) = "OK") <=> InRange(s)
BY Zenon DEF normalize_error, InRange

\* A snapshot is normal if and only if it is in range and clean.
LEMMA NormalIff ==
  ASSUME NEW s \in Snapshots
  PROVE  Normal(s) <=> InRange(s) /\ Clean(s)
<1>1. (normalize_snapshot(s) = s) <=> Clean(s)
  <2>1. /\ normalize_snapshot(s).cgroups = [i \in CgroupSlots |-> CleanEntry(s.cgroups[i])]
        /\ normalize_snapshot(s).paths = [i \in PathSlots |-> CleanEntry(s.paths[i])]
        /\ normalize_snapshot(s) =
             [s EXCEPT !.cgroups = [i \in CgroupSlots |-> CleanEntry(s.cgroups[i])],
                       !.paths = [i \in PathSlots |-> CleanEntry(s.paths[i])]]
    BY DEF normalize_snapshot, Snapshots
  <2>2. ASSUME normalize_snapshot(s) = s PROVE Clean(s)
    <3>. DEFINE cg == [i \in CgroupSlots |-> CleanEntry(s.cgroups[i])]
                pa == [i \in PathSlots |-> CleanEntry(s.paths[i])]
    <3>1. /\ \A i \in CgroupSlots : cg[i] = CleanEntry(s.cgroups[i])
          /\ \A i \in PathSlots : pa[i] = CleanEntry(s.paths[i])
      OBVIOUS
    <3>2. s.cgroups = cg /\ s.paths = pa
      BY <2>1, <2>2, Zenon
    <3>. HIDE DEF cg, pa
    <3>. QED BY <3>1, <3>2, Zenon DEF Clean
  <2>3. ASSUME Clean(s) PROVE normalize_snapshot(s) = s
    <3>1. /\ [i \in CgroupSlots |-> CleanEntry(s.cgroups[i])] = s.cgroups
          /\ [i \in PathSlots |-> CleanEntry(s.paths[i])] = s.paths
      BY <2>3, SnapshotFields DEF Clean
    <3>2. [s EXCEPT !.cgroups = s.cgroups, !.paths = s.paths] = s
      BY Zenon DEF Snapshots
    <3>. QED BY <2>1, <3>1, <3>2, Zenon
  <2>. QED BY <2>2, <2>3
<1>. QED BY <1>1, OkIsInRange DEF Normal

\* Cleaning an entry keeps it in range, and cleaning it again changes nothing.
LEMMA CleanEntryFacts ==
  ASSUME NEW e \in Entries, EntryInRange(e)
  PROVE  /\ CleanEntry(e) \in Entries
         /\ EntryInRange(CleanEntry(e))
         /\ CleanEntry(CleanEntry(e)) = CleanEntry(e)
<1>1. EmptyEntry \in Entries /\ EntryInRange(EmptyEntry) /\ CleanEntry(EmptyEntry) = EmptyEntry
  <2>1. <<>> \in Seq(Chars)
    OBVIOUS
  <2>. QED BY <2>1 DEF EmptyEntry, Entries, EntryInRange, EXACT, CONTAINS, CleanEntry
<1>. QED BY <1>1 DEF CleanEntry

\* normalize_snapshot is idempotent: what it writes is normal.
LEMMA NormalizeNormal ==
  ASSUME NEW s \in Snapshots, normalize_error(s) = "OK"
  PROVE  Normal(normalize_snapshot(s))
<1>. DEFINE n == normalize_snapshot(s)
            cg == [i \in CgroupSlots |-> CleanEntry(s.cgroups[i])]
            pa == [i \in PathSlots |-> CleanEntry(s.paths[i])]
<1>1. InRange(s)
  BY OkIsInRange
<1>2. /\ \A i \in CgroupSlots : s.cgroups[i] \in Entries /\ EntryInRange(s.cgroups[i])
      /\ \A i \in PathSlots : s.paths[i] \in Entries /\ EntryInRange(s.paths[i])
  BY <1>1, SnapshotFields DEF InRange
<1>3. cg \in [CgroupSlots -> Entries] /\ pa \in [PathSlots -> Entries]
  BY <1>2, CleanEntryFacts
<1>4. /\ n \in Snapshots /\ n.cgroups = cg /\ n.paths = pa
      /\ n.config = s.config /\ n.hooks = s.hooks /\ n.reserved = s.reserved
  <2>1. n = [s EXCEPT !.cgroups = cg, !.paths = pa]
    BY DEF normalize_snapshot
  <2>. HIDE DEF n, cg, pa
  <2>. QED BY <1>3, <2>1, Zenon DEF Snapshots
<1>5. InRange(n)
  BY <1>1, <1>2, <1>4, CleanEntryFacts DEF InRange
<1>6. Clean(n)
  BY <1>2, <1>4, CleanEntryFacts DEF Clean
<1>. QED BY <1>4, <1>5, <1>6, NormalIff

(***************************************************************************)
(* Field edits and rebasing.                                               *)
(***************************************************************************)
\* A field edit changes nothing but the configuration, which keeps its type.
LEMMA SetFieldFacts ==
  ASSUME NEW s \in Snapshots, NEW e \in EditType
  PROVE  /\ SetField(s, e.field, e.value) \in Snapshots
         /\ SetField(s, e.field, e.value).cgroups = s.cgroups
         /\ SetField(s, e.field, e.value).paths = s.paths
         /\ SetField(s, e.field, e.value).hooks = s.hooks
         /\ SetField(s, e.field, e.value).reserved = s.reserved
<1>1. \A c \in Configs :
        /\ [s EXCEPT !.config = c] \in Snapshots
        /\ [s EXCEPT !.config = c].cgroups = s.cgroups
        /\ [s EXCEPT !.config = c].paths = s.paths
        /\ [s EXCEPT !.config = c].hooks = s.hooks
        /\ [s EXCEPT !.config = c].reserved = s.reserved
  BY DEF Snapshots
<1>2. s.config \in Configs
  BY SnapshotFields
<1>3. CASE e.field = "enabled"
  <2>1. e.value \in Nat
    BY <1>3 DEF EditType
  <2>2. [s.config EXCEPT !.enabled = e.value] \in Configs
    BY <1>2, <2>1 DEF Configs
  <2>3. SetField(s, e.field, e.value) = [s EXCEPT !.config = [s.config EXCEPT !.enabled = e.value]]
    BY <1>3 DEF SetField, Snapshots
  <2>. QED BY <1>1, <2>2, <2>3
<1>4. CASE e.field = "filter_flags"
  <2>1. e.value \in SUBSET (FilterFlags \cup {UnknownFlag})
    BY <1>4 DEF EditType
  <2>2. [s.config EXCEPT !.filter_flags = e.value] \in Configs
    BY <1>2, <2>1 DEF Configs
  <2>3. SetField(s, e.field, e.value) = [s EXCEPT !.config = [s.config EXCEPT !.filter_flags = e.value]]
    BY <1>4 DEF SetField, Snapshots
  <2>. QED BY <1>1, <2>2, <2>3
<1>5. CASE e.field = "action_flags"
  <2>1. e.value \in SUBSET (ActionFlags \cup {UnknownFlag})
    BY <1>5 DEF EditType
  <2>2. [s.config EXCEPT !.action_flags = e.value] \in Configs
    BY <1>2, <2>1 DEF Configs
  <2>3. SetField(s, e.field, e.value) = [s EXCEPT !.config = [s.config EXCEPT !.action_flags = e.value]]
    BY <1>5 DEF SetField, Snapshots
  <2>. QED BY <1>1, <2>2, <2>3
<1>6. CASE e.field = "min_file_size"
  <2>1. e.value \in Nat
    BY <1>6 DEF EditType
  <2>2. [s.config EXCEPT !.min_file_size = e.value] \in Configs
    BY <1>2, <2>1 DEF Configs
  <2>3. SetField(s, e.field, e.value) = [s EXCEPT !.config = [s.config EXCEPT !.min_file_size = e.value]]
    BY <1>6 DEF SetField, Snapshots
  <2>. QED BY <1>1, <2>2, <2>3
<1>7. CASE e.field = "log_level"
  <2>1. e.value \in Nat
    BY <1>7 DEF EditType
  <2>2. [s.config EXCEPT !.log_level = e.value] \in Configs
    BY <1>2, <2>1 DEF Configs
  <2>3. SetField(s, e.field, e.value) = [s EXCEPT !.config = [s.config EXCEPT !.log_level = e.value]]
    BY <1>7 DEF SetField, Snapshots
  <2>. QED BY <1>1, <2>2, <2>3
<1>. QED BY <1>3, <1>4, <1>5, <1>6, <1>7 DEF EditType

\* bpfima_policy_merge_config field by field.
LEMMA MergeFacts ==
  ASSUME NEW r \in Configs, NEW x \in Configs
  PROVE  /\ merge_config(r, x) \in Configs
         /\ merge_config(r, x).enabled = Greatest(r.enabled, x.enabled)
         /\ merge_config(r, x).filter_flags = r.filter_flags \cap x.filter_flags
         /\ merge_config(r, x).action_flags = r.action_flags \cup x.action_flags
         /\ merge_config(r, x).min_file_size = Least(r.min_file_size, x.min_file_size)
         /\ merge_config(r, x).max_path_depth = Greatest(r.max_path_depth, x.max_path_depth)
         /\ merge_config(r, x).log_level = Greatest(r.log_level, x.log_level)
         /\ merge_config(r, x).history_max_size = r.history_max_size
         /\ merge_config(r, x).history_scope = r.history_scope
<1>1. \A a, b \in Nat : Least(a, b) \in Nat /\ Greatest(a, b) \in Nat
  BY DEF Least, Greatest
<1>. QED BY <1>1, Zenon DEF merge_config, Configs

\* rebase_extension field by field.
LEMMA RebaseFacts ==
  ASSUME NEW r \in Snapshots, NEW x \in Snapshots
  PROVE  /\ rebase_extension(r, x) \in Snapshots
         /\ rebase_extension(r, x).config = merge_config(r.config, x.config)
         /\ \A h \in HOOKS : rebase_extension(r, x).hooks[h] = x.hooks[h] \cup r.hooks[h]
         /\ \A i \in CgroupSlots :
              rebase_extension(r, x).cgroups[i] =
                IF Covered(x.cgroups[i], r.cgroups) THEN x.cgroups[i] ELSE EmptyEntry
         /\ \A i \in PathSlots :
              rebase_extension(r, x).paths[i] =
                IF Covered(x.paths[i], r.paths) THEN x.paths[i] ELSE EmptyEntry
         /\ rebase_extension(r, x).reserved = x.reserved
<1>. DEFINE cf == merge_config(r.config, x.config)
            hk == [h \in HOOKS |-> x.hooks[h] \cup r.hooks[h]]
            cg == [i \in CgroupSlots |->
                     IF Covered(x.cgroups[i], r.cgroups) THEN x.cgroups[i] ELSE EmptyEntry]
            pa == [i \in PathSlots |->
                     IF Covered(x.paths[i], r.paths) THEN x.paths[i] ELSE EmptyEntry]
<1>1. cf \in Configs
  BY MergeFacts, SnapshotFields
<1>2. hk \in [HOOKS -> SUBSET (HookFlags \cup {UnknownFlag})]
  BY SnapshotFields
<1>3. EmptyEntry \in Entries
  <2>1. <<>> \in Seq(Chars)
    OBVIOUS
  <2>. QED BY <2>1 DEF EmptyEntry, Entries, EXACT
<1>4. cg \in [CgroupSlots -> Entries]
  BY <1>3, SnapshotFields
<1>5. pa \in [PathSlots -> Entries]
  BY <1>3, SnapshotFields
<1>6. rebase_extension(r, x) =
        [x EXCEPT !.config = cf, !.hooks = hk, !.cgroups = cg, !.paths = pa]
  BY DEF rebase_extension
<1>. HIDE DEF cf, hk, cg, pa
<1>7. /\ rebase_extension(r, x) \in Snapshots
      /\ rebase_extension(r, x).config = cf
      /\ rebase_extension(r, x).hooks = hk
      /\ rebase_extension(r, x).cgroups = cg
      /\ rebase_extension(r, x).paths = pa
      /\ rebase_extension(r, x).reserved = x.reserved
  BY <1>1, <1>2, <1>4, <1>5, <1>6, Zenon DEF Snapshots
<1>8. /\ \A h \in HOOKS : hk[h] = x.hooks[h] \cup r.hooks[h]
      /\ \A i \in CgroupSlots :
           cg[i] = IF Covered(x.cgroups[i], r.cgroups) THEN x.cgroups[i] ELSE EmptyEntry
      /\ \A i \in PathSlots :
           pa[i] = IF Covered(x.paths[i], r.paths) THEN x.paths[i] ELSE EmptyEntry
  BY DEF hk, cg, pa
<1>. QED BY <1>7, <1>8 DEF cf

\* A rebased extension is normal again.
LEMMA RebaseNormal ==
  ASSUME NEW r, NEW x, Normal(r), Normal(x)
  PROVE  Normal(rebase_extension(r, x))
<1>. DEFINE b == rebase_extension(r, x)
<1>1. r \in Snapshots /\ x \in Snapshots
  BY DEF Normal
<1>2. InRange(r) /\ InRange(x) /\ Clean(x)
  BY <1>1, NormalIff
<1>3. r.config \in Configs /\ x.config \in Configs
  BY <1>1, SnapshotFields
<1>4. ConfigInRange(b.config) /\ b.config.action_flags \cap UnsupportedActions = {}
  <2>1. ConfigInRange(merge_config(r.config, x.config))
    <3>1. ConfigInRange(r.config) /\ ConfigInRange(x.config)
      BY <1>2 DEF InRange
    <3>2. \A m, n, k \in Nat : m <= k /\ n <= k => Greatest(m, n) <= k
      BY DEF Greatest
    <3>. QED BY <1>3, <3>1, <3>2, MergeFacts DEF ConfigInRange, Configs
  <2>2. merge_config(r.config, x.config).action_flags \cap UnsupportedActions = {}
    BY <1>2, <1>3, MergeFacts DEF InRange
  <2>. QED BY <1>1, <2>1, <2>2, RebaseFacts
<1>5. EntryInRange(EmptyEntry) /\ CleanEntry(EmptyEntry) = EmptyEntry
  BY DEF EmptyEntry, EntryInRange, EXACT, CONTAINS, CleanEntry
<1>6. /\ \A i \in CgroupSlots : EntryInRange(b.cgroups[i]) /\ CleanEntry(b.cgroups[i]) = b.cgroups[i]
      /\ \A i \in PathSlots : EntryInRange(b.paths[i]) /\ CleanEntry(b.paths[i]) = b.paths[i]
  BY <1>1, <1>2, <1>5, RebaseFacts DEF InRange, Clean
<1>7. \A h \in HOOKS : b.hooks[h] \subseteq HookFlags
  BY <1>1, <1>2, RebaseFacts DEF InRange
<1>8. b \in Snapshots /\ b.reserved = 0
  BY <1>1, <1>2, RebaseFacts DEF InRange
<1>. HIDE DEF b
<1>9. InRange(b) /\ Clean(b)
  BY <1>4, <1>6, <1>7, <1>8 DEF InRange, Clean
<1>. QED BY <1>8, <1>9, NormalIff DEF b

\* A rebased extension passes validate_extension against the root it was rebased on.
LEMMA RebaseValid ==
  ASSUME NEW r, NEW x, Normal(r), Normal(x)
  PROVE  validate_extension(r, rebase_extension(r, x))
<1>. DEFINE b == rebase_extension(r, x)
<1>1. r \in Snapshots /\ x \in Snapshots
  BY DEF Normal
<1>2. r.config \in Configs /\ x.config \in Configs
  BY <1>1, SnapshotFields
<1>3. /\ b.config.enabled >= r.config.enabled
      /\ b.config.filter_flags \subseteq r.config.filter_flags
      /\ r.config.action_flags \subseteq b.config.action_flags
      /\ b.config.min_file_size <= r.config.min_file_size
      /\ b.config.max_path_depth >= r.config.max_path_depth
      /\ b.config.log_level >= r.config.log_level
      /\ b.config.history_max_size = r.config.history_max_size
      /\ b.config.history_scope = r.config.history_scope
  <2>1. \A m, n \in Nat : Greatest(m, n) >= m /\ Least(m, n) <= m
    BY DEF Greatest, Least
  <2>2. b.config = merge_config(r.config, x.config)
    BY <1>1, RebaseFacts
  <2>. QED BY <1>2, <2>1, <2>2, MergeFacts DEF Configs
<1>4. \A h \in HOOKS : r.hooks[h] \subseteq b.hooks[h]
  BY <1>1, RebaseFacts
<1>5. \A base : Covered(EmptyEntry, base)
  BY DEF Covered, EmptyEntry
<1>6. /\ \A i \in CgroupSlots : Covered(b.cgroups[i], r.cgroups)
      /\ \A i \in PathSlots : Covered(b.paths[i], r.paths)
  BY <1>1, <1>5, RebaseFacts
<1>. HIDE DEF b
<1>7. validate_extension(r, b)
  BY <1>3, <1>4, <1>6, Zenon DEF validate_extension
<1>. QED BY <1>7 DEF b

\* A namespace without a record starts from the root's snapshot, which extends itself.
LEMMA RootValid ==
  ASSUME NEW r, Normal(r)
  PROVE  validate_extension(r, r)
<1>1. r \in Snapshots /\ InRange(r)
  BY NormalIff DEF Normal
<1>2. \A i \in CgroupSlots : Covered(r.cgroups[i], r.cgroups)
  <2>. TAKE i \in CgroupSlots
  <2>1. pattern_is_subset(r.cgroups[i], r.cgroups[i])
    BY <1>1, SnapshotFields, SubsetReflexive DEF InRange
  <2>. QED BY <1>1, <2>1, SnapshotFields DEF Covered
<1>3. \A i \in PathSlots : Covered(r.paths[i], r.paths)
  <2>. TAKE i \in PathSlots
  <2>1. pattern_is_subset(r.paths[i], r.paths[i])
    BY <1>1, SnapshotFields, SubsetReflexive DEF InRange
  <2>. QED BY <1>1, <2>1, SnapshotFields DEF Covered
<1>4. /\ r.config.enabled >= r.config.enabled /\ r.config.min_file_size <= r.config.min_file_size
      /\ r.config.max_path_depth >= r.config.max_path_depth /\ r.config.log_level >= r.config.log_level
  BY <1>1, SnapshotFields DEF Configs
<1>. QED BY <1>2, <1>3, <1>4 DEF validate_extension

\* Rebasing removes exclusions and adds none.
LEMMA RebaseFiltersLess ==
  ASSUME NEW r, NEW x, Normal(r), Normal(x), NEW c \in ContextType,
         filtered(rebase_extension(r, x), c)
  PROVE  filtered(x, c)
<1>. DEFINE b == rebase_extension(r, x)
<1>1. r \in Snapshots /\ x \in Snapshots
  BY DEF Normal
<1>2. ~pattern_matches(EmptyEntry, c.cgroup) /\ ~pattern_matches(EmptyEntry, c.path)
  BY DEF pattern_matches, EmptyEntry
<1>3. patterns_match(b.cgroups, c.cgroup) => patterns_match(x.cgroups, c.cgroup)
  BY <1>1, <1>2, RebaseFacts, SnapshotFields DEF patterns_match
<1>4. patterns_match(b.paths, c.path) => patterns_match(x.paths, c.path)
  BY <1>1, <1>2, RebaseFacts, SnapshotFields DEF patterns_match
<1>5. /\ b.config.filter_flags \subseteq x.config.filter_flags
      /\ b.config.min_file_size <= x.config.min_file_size
      /\ b.config.min_file_size \in Nat /\ x.config.min_file_size \in Nat
  <2>1. \A m, n \in Nat : Least(m, n) <= n /\ Least(m, n) \in Nat
    BY DEF Least
  <2>2. b.config = merge_config(r.config, x.config)
    BY <1>1, RebaseFacts
  <2>3. r.config \in Configs /\ x.config \in Configs
    BY <1>1, SnapshotFields
  <2>4. /\ b.config.filter_flags = r.config.filter_flags \cap x.config.filter_flags
        /\ b.config.min_file_size = Least(r.config.min_file_size, x.config.min_file_size)
    BY <2>2, <2>3, MergeFacts
  <2>5. r.config.min_file_size \in Nat /\ x.config.min_file_size \in Nat
    BY <2>3 DEF Configs
  <2>. HIDE DEF b
  <2>. QED BY <2>1, <2>4, <2>5, Zenon
<1>6. c.file_size \in Nat
  BY DEF ContextType
<1>. HIDE DEF b
<1>7. filtered(b, c)
  BY DEF b
<1>. QED BY <1>3, <1>4, <1>5, <1>6, <1>7 DEF filtered

\* A valid field edit of a snapshot that extends the root is accepted.
LEMMA EditAccepted ==
  ASSUME Normal(root), NEW s, Normal(s), validate_extension(root, s),
         NEW e \in EditType, Strengthens(e)
  PROVE  apply_error(SetField(s, e.field, e.value)) = "OK"
<1>. DEFINE y == SetField(s, e.field, e.value)
<1>1. root \in Snapshots /\ s \in Snapshots
  BY DEF Normal
<1>2. InRange(root) /\ InRange(s) /\ Clean(s)
  BY <1>1, NormalIff
<1>3. /\ y \in Snapshots /\ y.cgroups = s.cgroups /\ y.paths = s.paths
      /\ y.hooks = s.hooks /\ y.reserved = s.reserved
  BY <1>1, SetFieldFacts
<1>4. /\ s.config \in Configs /\ root.config \in Configs
      /\ ConfigInRange(s.config) /\ ConfigInRange(root.config)
      /\ s.config.action_flags \cap UnsupportedActions = {}
  BY <1>1, <1>2, SnapshotFields DEF InRange
<1>5. /\ ConfigInRange(y.config)
      /\ y.config.action_flags \cap UnsupportedActions = {}
      /\ y.config.enabled >= root.config.enabled
      /\ y.config.filter_flags \subseteq root.config.filter_flags
      /\ root.config.action_flags \subseteq y.config.action_flags
      /\ y.config.min_file_size <= root.config.min_file_size
      /\ y.config.max_path_depth >= root.config.max_path_depth
      /\ y.config.log_level >= root.config.log_level
      /\ y.config.history_max_size = root.config.history_max_size
      /\ y.config.history_scope = root.config.history_scope
  <2>1. CASE e.field = "enabled"
    <3>1. y.config = [s.config EXCEPT !.enabled = e.value] /\ e.value = 1
      BY <1>1, <2>1 DEF SetField, Snapshots, Strengthens
    <3>. QED BY <1>4, <3>1 DEF validate_extension, ConfigInRange, Configs
  <2>2. CASE e.field = "filter_flags"
    <3>1. /\ y.config = [s.config EXCEPT !.filter_flags = e.value]
          /\ e.value \subseteq root.config.filter_flags
      BY <1>1, <2>2 DEF SetField, Snapshots, Strengthens
    <3>. QED BY <1>4, <3>1 DEF validate_extension, ConfigInRange, Configs
  <2>3. CASE e.field = "action_flags"
    <3>1. /\ y.config = [s.config EXCEPT !.action_flags = e.value]
          /\ root.config.action_flags \subseteq e.value
          /\ e.value \subseteq ActionFlags \ UnsupportedActions
      BY <1>1, <2>3 DEF SetField, Snapshots, Strengthens
    <3>. QED BY <1>4, <3>1 DEF validate_extension, ConfigInRange, Configs
  <2>4. CASE e.field = "min_file_size"
    <3>1. /\ y.config = [s.config EXCEPT !.min_file_size = e.value]
          /\ e.value <= root.config.min_file_size
      BY <1>1, <2>4 DEF SetField, Snapshots, Strengthens
    <3>. QED BY <1>4, <3>1 DEF validate_extension, ConfigInRange, Configs
  <2>5. CASE e.field = "log_level"
    <3>1. /\ y.config = [s.config EXCEPT !.log_level = e.value]
          /\ e.value \in root.config.log_level..3
      BY <1>1, <2>5 DEF SetField, Snapshots, Strengthens
    <3>. QED BY <1>4, <3>1 DEF validate_extension, ConfigInRange, Configs
  <2>. QED BY <2>1, <2>2, <2>3, <2>4, <2>5, Zenon DEF EditType
<1>. HIDE DEF y
<1>6. InRange(y) /\ Clean(y)
  BY <1>2, <1>3, <1>5, Zenon DEF InRange, Clean
<1>7. normalize_error(y) = "OK" /\ normalize_snapshot(y) = y
  BY <1>3, <1>6, NormalIff DEF Normal
<1>8. validate_extension(root, y)
  BY <1>3, <1>5 DEF validate_extension
<1>9. apply_error(y) = "OK"
  BY <1>7, <1>8 DEF apply_error
<1>. QED BY <1>9 DEF y

(***************************************************************************)
(* The theorems.                                                           *)
(***************************************************************************)
Returns == {"OK", "EINVAL", "EPERM", "EOPNOTSUPP"}

\* A full request for the root leaves normal snapshots behind (apply_locked).
LEMMA ApplyRootType ==
  ASSUME TypeOK, NEW q \in Snapshots, ApplyRoot(q)
  PROVE  TypeOK'
<1>1. ret' \in Returns
  BY DEF ApplyRoot, normalize_error, Returns
<1>2. Normal(root')
  <2>1. CASE ret' = "OK"
    <3>1. normalize_error(q) = "OK" /\ root' = normalize_snapshot(q)
      BY <2>1 DEF ApplyRoot
    <3>. QED BY <3>1, NormalizeNormal
  <2>2. CASE ret' # "OK"
    BY <2>2 DEF ApplyRoot, TypeOK
  <2>. QED BY <2>1, <2>2
<1>3. extra' = extra
  BY DEF ApplyRoot
<1>. QED BY <1>1, <1>2, <1>3 DEF TypeOK, Returns, Normal

\* So does a full request for the namespace.
LEMMA ApplyExtraType ==
  ASSUME TypeOK, NEW q \in Snapshots, ApplyExtra(q)
  PROVE  TypeOK'
<1>1. ret' \in Returns
  BY DEF ApplyExtra, apply_error, normalize_error, Returns
<1>2. extra' = NoExtra \/ Normal(extra')
  <2>1. CASE ret' = "OK"
    <3>1. normalize_error(q) = "OK" /\ extra' = normalize_snapshot(q)
      BY <2>1 DEF ApplyExtra, apply_error
    <3>. QED BY <3>1, NormalizeNormal
  <2>2. CASE ret' # "OK"
    BY <2>2 DEF ApplyExtra, TypeOK
  <2>. QED BY <2>1, <2>2
<1>3. root' = root
  BY DEF ApplyExtra
<1>. QED BY <1>1, <1>2, <1>3 DEF TypeOK, Returns, Normal

\* The request that bpfima_policy_update_field builds is a snapshot.
LEMMA EditRequestType ==
  ASSUME TypeOK, NEW e \in EditType
  PROVE  EditRequest(e) \in Snapshots
<1>1. root \in Snapshots /\ (extra # NoExtra => extra \in Snapshots)
  BY DEF TypeOK, Normal
<1>2. (IF extra = NoExtra THEN root ELSE rebase_extension(root, extra)) \in Snapshots
  BY <1>1, RebaseFacts
<1>. QED BY <1>2, SetFieldFacts DEF EditRequest

\* The default root policy of bpfima_init_default_snapshot is normal.
LEMMA DefaultNormal == Normal(DefaultSnapshot)
<1>1. DefaultSnapshot \in Snapshots /\ InRange(DefaultSnapshot)
  BY CompositionAssumption, OkIsInRange
<1>2. \A t, p : CleanEntry(Entry(t, p)) = Entry(t, p)
  BY DEF CleanEntry, Entry
<1>3. CleanEntry(EmptyEntry) = EmptyEntry
  BY DEF CleanEntry, EmptyEntry
<1>4. Clean(DefaultSnapshot)
  BY <1>2, <1>3 DEF Clean, DefaultSnapshot
<1>. QED BY <1>1, <1>4, NormalIff

\* TypeOK is inductive: one case per kind of update.
LEMMA TypeStep ==
  ASSUME TypeOK, [Next]_vars
  PROVE  TypeOK'
<1>1. ASSUME NEW q \in Requests, ApplyRoot(q) PROVE TypeOK'
  BY <1>1, CompositionAssumption, ApplyRootType
<1>2. ASSUME NEW q \in Requests, ApplyExtra(q) PROVE TypeOK'
  BY <1>2, CompositionAssumption, ApplyExtraType
<1>3. ASSUME NEW e \in Edits, EditRejected(e), ret' = "EINVAL", UNCHANGED <<root, extra>>
      PROVE  TypeOK'
  BY <1>3 DEF TypeOK, Normal
<1>4. ASSUME NEW e \in Edits, EditRoot(e) PROVE TypeOK'
  <2>1. e \in EditType /\ root \in Snapshots
    BY CompositionAssumption DEF TypeOK, Normal
  <2>. QED BY <1>3, <1>4, <2>1, SetFieldFacts, ApplyRootType DEF EditRoot
<1>5. ASSUME NEW e \in Edits, EditExtra(e) PROVE TypeOK'
  <2>1. EditRequest(e) \in Snapshots
    BY CompositionAssumption, EditRequestType
  <2>. QED BY <1>3, <1>5, <2>1, ApplyExtraType DEF EditExtra
<1>6. CASE UNCHANGED vars
  BY <1>6 DEF TypeOK, vars, Normal
<1>. QED BY <1>1, <1>2, <1>4, <1>5, <1>6 DEF Next

\* Stored snapshots are normalised after any sequence of updates, so a repeated request is
\* recognised as identical by the memcmp of apply_locked.
THEOREM StoredNormal == Spec => []TypeOK
<1>1. Init => TypeOK
  BY DefaultNormal DEF Init, TypeOK
<1>. QED BY <1>1, TypeStep, PTL DEF Spec

\* The root policy is a floor for every namespace (bpfima_policy_resolve_context).
THEOREM RootIsFloor == Spec => []CoverageFloor
<1>1. TypeOK => CoverageFloor
  <2>. SUFFICES ASSUME TypeOK, NEW c \in Contexts, Skips(c) PROVE SkipRoot(root, c)
    BY DEF CoverageFloor
  <2>1. CASE extra = NoExtra
    BY <2>1 DEF Skips
  <2>2. CASE extra # NoExtra
    <3>1. Normal(root) /\ Normal(extra)
      BY <2>2 DEF TypeOK
    <3>2. root \in Snapshots /\ extra \in Snapshots /\ InRange(root) /\ InRange(extra)
      BY <3>1, NormalIff DEF Normal
    <3>3. root.config.enabled <= 1 /\ extra.config.enabled <= 1
      BY <3>2 DEF InRange, ConfigInRange
    <3>. QED BY <2>2, <3>2, <3>3, CompositionAssumption, FloorOfExtended DEF Skips
  <2>. QED BY <2>1, <2>2
<1>. QED BY <1>1, StoredNormal, PTL

\* An accepted request for the namespace filters nothing that the root does not.
LEMMA ApplyExtraNarrower ==
  ASSUME TypeOK, NEW q \in Snapshots, ApplyExtra(q), extra' # extra, NEW c \in Contexts,
         filtered(extra', c)
  PROVE  filtered(root', c)
<1>1. /\ normalize_error(q) = "OK" /\ extra' = normalize_snapshot(q) /\ root' = root
      /\ validate_extension(root, normalize_snapshot(q))
  BY DEF ApplyExtra, apply_error
<1>2. root \in Snapshots /\ normalize_snapshot(q) \in Snapshots
  BY <1>1, NormalizeNormal DEF TypeOK, Normal
<1>. QED BY <1>1, <1>2, CompositionAssumption, ValidIsNarrower

\* Whatever an extension filters when it is accepted, the root filters (validate_extension).
THEOREM AcceptedNarrower == Spec => AcceptedIsNarrower
<1>1. ASSUME TypeOK, [Next]_vars, extra' # extra, NEW c \in Contexts, filtered(extra', c)
      PROVE  filtered(root', c)
  <2>1. PICK q \in Snapshots : ApplyExtra(q)
    <3>1. ASSUME NEW q \in Requests, ApplyExtra(q) PROVE q \in Snapshots
      BY CompositionAssumption
    <3>2. ASSUME NEW e \in Edits, EditExtra(e)
          PROVE  EditRequest(e) \in Snapshots /\ ApplyExtra(EditRequest(e))
      BY <1>1, <3>2, CompositionAssumption, EditRequestType DEF EditExtra
    <3>. QED BY <1>1, <3>1, <3>2 DEF Next, vars, ApplyRoot, EditRoot
  <2>. QED BY <1>1, <2>1, ApplyExtraNarrower
<1>2. TypeOK /\ [Next]_vars =>
        [extra' # extra => \A c \in Contexts : filtered(extra', c) => filtered(root', c)]_vars
  BY <1>1
<1>. QED BY <1>2, StoredNormal, PTL DEF Spec, AcceptedIsNarrower

\* A field edit that is valid against the current root is never refused because of what the
\* extension held before (rebase_extension).
THEOREM EditsAccepted == Spec => []EditNeverBlocked
<1>1. TypeOK => EditNeverBlocked
  <2>. SUFFICES ASSUME TypeOK, NEW e \in Edits, Strengthens(e)
                PROVE  apply_error(EditRequest(e)) = "OK"
    BY DEF EditNeverBlocked
  <2>1. e \in EditType /\ Normal(root)
    BY CompositionAssumption DEF TypeOK
  <2>2. CASE extra = NoExtra
    BY <2>1, <2>2, RootValid, EditAccepted DEF EditRequest
  <2>3. CASE extra # NoExtra
    <3>1. Normal(extra)
      BY <2>3 DEF TypeOK
    <3>2. /\ Normal(rebase_extension(root, extra))
          /\ validate_extension(root, rebase_extension(root, extra))
      BY <2>1, <3>1, RebaseNormal, RebaseValid
    <3>. QED BY <2>1, <2>3, <3>2, EditAccepted DEF EditRequest
  <2>. QED BY <2>2, <2>3
<1>. QED BY <1>1, StoredNormal, PTL

\* Rebasing an extension never makes the namespace measure less.
THEOREM RebaseCoverage == Spec => []RebaseKeepsCoverage
<1>1. TypeOK => RebaseKeepsCoverage
  <2>. SUFFICES ASSUME TypeOK, extra # NoExtra, NEW c \in Contexts,
                       SkipExtended(root, rebase_extension(root, extra), c)
                PROVE  SkipExtended(root, extra, c)
    BY DEF RebaseKeepsCoverage, Skips
  <2>. DEFINE b == rebase_extension(root, extra)
  <2>1. Normal(root) /\ Normal(extra) /\ root \in Snapshots /\ extra \in Snapshots
        /\ c \in ContextType
    BY CompositionAssumption DEF TypeOK, Normal
  <2>2. filtered(b, c) => filtered(extra, c)
    BY <2>1, RebaseFiltersLess
  <2>3. root.hooks[c.hook] \cup b.hooks[c.hook] = root.hooks[c.hook] \cup extra.hooks[c.hook]
    <3>1. c.hook \in HOOKS
      BY <2>1 DEF ContextType
    <3>. QED BY <2>1, <3>1, RebaseFacts
  <2>4. merge_config(root.config, b.config).enabled = merge_config(root.config, extra.config).enabled
    <3>1. root.config \in Configs /\ extra.config \in Configs
      BY <2>1, SnapshotFields
    <3>2. b.config = merge_config(root.config, extra.config) /\ b.config \in Configs
      BY <2>1, <3>1, RebaseFacts, MergeFacts
    <3>3. /\ merge_config(root.config, b.config).enabled = Greatest(root.config.enabled, b.config.enabled)
          /\ b.config.enabled = Greatest(root.config.enabled, extra.config.enabled)
      BY <3>1, <3>2, MergeFacts
    <3>4. root.config.enabled \in Nat /\ extra.config.enabled \in Nat
      BY <3>1 DEF Configs
    <3>5. \A m, n \in Nat : Greatest(m, Greatest(m, n)) = Greatest(m, n)
      BY DEF Greatest
    <3>. HIDE DEF b
    <3>. QED BY <3>1, <3>2, <3>3, <3>4, <3>5, MergeFacts
  <2>. HIDE DEF b
  <2>5. SkipExtended(root, b, c)
    BY DEF b
  <2>. QED BY <2>2, <2>3, <2>4, <2>5 DEF SkipExtended
<1>. QED BY <1>1, StoredNormal, PTL
=============================================================================
