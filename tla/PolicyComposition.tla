------------------------- MODULE PolicyComposition ---------------------------
(***************************************************************************)
(* The root policy and one namespace's extension of it over a sequence of  *)
(* updates: full requests (bpfima_policy_apply) and field edits            *)
(* (bpfima_policy_update_field).  Updates are serialised by the policy     *)
(* mutex, so each is one step here; how a step is committed, and what may  *)
(* fail on the way, is the subject of PolicyStore.                         *)
(***************************************************************************)
EXTENDS PolicyRules

CONSTANTS
  Requests,   \* snapshots that callers submit, valid or not
  Edits,      \* field edits that callers submit: [field, value]
  Contexts,   \* operations that hooks resolve
  NoExtra     \* no record for the namespace

VARIABLES
  root,       \* records[0].snapshot of the active state
  extra,      \* the namespace's snapshot, or NoExtra
  ret         \* what the last call returned

vars == <<root, extra, ret>>

ContextType ==
  [cgroup : Seq(Chars), path : Seq(Chars), names : SUBSET (FilterFlags),
   file_size : Nat, hook : HOOKS, flags : SUBSET {"FILE", "READONLY", "EXECUTABLE"}]

EditType ==
  [field : {"enabled", "min_file_size", "log_level"}, value : Nat]
    \cup [field : {"filter_flags"}, value : SUBSET (FilterFlags \cup {UnknownFlag})]
    \cup [field : {"action_flags"}, value : SUBSET (ActionFlags \cup {UnknownFlag})]

ASSUME CompositionAssumption ==
  /\ MAX_IGNORE_PATTERNS \in Nat
  /\ MAX_PATH_FILTERS \in Nat
  /\ DefaultSnapshot \in Snapshots
  /\ normalize_error(DefaultSnapshot) = "OK"
  /\ \A r \in Requests : r \in Snapshots
  /\ \A e \in Edits : e \in EditType
  /\ \A c \in Contexts : c \in ContextType
  /\ NoExtra \notin Snapshots

(***************************************************************************)
(* Updates.                                                                *)
(***************************************************************************)
Init ==
  /\ root = DefaultSnapshot
  /\ extra = NoExtra
  /\ ret = "OK"

\* apply_locked for the empty identifier.
ApplyRoot(request) ==
  /\ ret' = normalize_error(request)
  /\ root' = IF ret' = "OK" THEN normalize_snapshot(request) ELSE root
  /\ UNCHANGED extra

\* apply_locked for the namespace.
apply_error(request) ==
  IF normalize_error(request) # "OK" THEN normalize_error(request)
  ELSE IF validate_extension(root, normalize_snapshot(request)) THEN "OK"
       ELSE "EPERM"

ApplyExtra(request) ==
  /\ ret' = apply_error(request)
  /\ extra' = IF ret' = "OK" THEN normalize_snapshot(request) ELSE extra
  /\ UNCHANGED root

(* An edit that starts from the stored extension as it is. *)
EditRequest_NoRebase(edit) ==
  SetField(IF extra = NoExtra THEN root ELSE extra, edit.field, edit.value)

\* The request bpfima_policy_update_field builds for the namespace.
EditRequest(edit) ==
  SetField(IF extra = NoExtra THEN root ELSE rebase_extension(root, extra),
           edit.field, edit.value)

EditRoot(edit) ==
  IF EditRejected(edit)
  THEN ret' = "EINVAL" /\ UNCHANGED <<root, extra>>
  ELSE ApplyRoot(SetField(root, edit.field, edit.value))

EditExtra(edit) ==
  IF EditRejected(edit)
  THEN ret' = "EINVAL" /\ UNCHANGED <<root, extra>>
  ELSE ApplyExtra(EditRequest(edit))

Next ==
  \/ \E r \in Requests : ApplyRoot(r) \/ ApplyExtra(r)
  \/ \E e \in Edits : EditRoot(e) \/ EditExtra(e)

Spec == Init /\ [][Next]_vars

(***************************************************************************)
(* Properties.                                                             *)
(***************************************************************************)
\* s is a snapshot as normalize_snapshot leaves it.
Normal(s) ==
  /\ s \in Snapshots
  /\ normalize_error(s) = "OK"
  /\ normalize_snapshot(s) = s

(* What is stored is normalised, whatever sequence of requests and edits led to it, so that *)
(* submitting a stored snapshot again is recognised as identical (the memcmp of             *)
(* apply_locked).                                                                           *)
TypeOK ==
  /\ Normal(root)
  /\ extra = NoExtra \/ Normal(extra)
  /\ ret \in {"OK", "EINVAL", "EPERM", "EOPNOTSUPP"}

Skips(c) == IF extra = NoExtra THEN SkipRoot(root, c) ELSE SkipExtended(root, extra, c)

(* The root policy is a floor: an operation that the root policy measures is measured in    *)
(* the namespace too, also after the root has changed under an old extension                *)
(* (bpfima_policy_resolve_context).                                                         *)
CoverageFloor == \A c \in Contexts : Skips(c) => SkipRoot(root, c)

(* When an extension is accepted, everything it filters is filtered by the root in force:   *)
(* validate_extension recognises every pattern, flag and threshold that excludes more.      *)
AcceptedIsNarrower ==
  [][extra' # extra =>
       \A c \in Contexts : filtered(extra', c) => filtered(root', c)]_vars

\* The value does not fall below the root's, and is one normalize_snapshot takes.
Strengthens(edit) ==
  \/ edit.field = "enabled" /\ edit.value = 1
  \/ edit.field = "filter_flags" /\ edit.value \subseteq root.config.filter_flags
  \/ /\ edit.field = "action_flags"
     /\ root.config.action_flags \subseteq edit.value
     /\ edit.value \subseteq ActionFlags \ UnsupportedActions
  \/ edit.field = "min_file_size" /\ edit.value <= root.config.min_file_size
  \/ edit.field = "log_level" /\ edit.value \in root.config.log_level..3

(* A field edit that is valid against the current root is never refused because of what the *)
(* extension held before: rebase_extension adopts the newer root floor.                     *)
EditNeverBlocked ==
  \A e \in Edits : Strengthens(e) => apply_error(EditRequest(e)) = "OK"

(* Rebasing an extension on the current root never makes the namespace measure less than    *)
(* the extension as it stands: additions are kept and only exclusions are dropped.          *)
RebaseKeepsCoverage ==
  extra # NoExtra =>
    \A c \in Contexts : SkipExtended(root, rebase_extension(root, extra), c) => Skips(c)

\* No pattern of either snapshot has a part in it.
NoPatternMatches(c) ==
  \A s \in {root, extra} : ~patterns_match(s.cgroups, c.cgroup) /\ ~patterns_match(s.paths, c.path)

\* The policy that the tables of effective values describe (merge_config, hook flags ORed).
Effective ==
  [root EXCEPT !.config = merge_config(root.config, extra.config),
               !.hooks = [h \in HOOKS |-> root.hooks[h] \cup extra.hooks[h]]]

(* docs/POLICY_MANAGEMENT.md: the effective skip flags of a namespace are "Root AND         *)
(* namespace", so an operation no pattern speaks about is skipped only if the effective     *)
(* policy, the one policy_show reports, skips it.                                           *)
SkipFlagsAreAnded ==
  extra # NoExtra =>
    \A c \in Contexts : NoPatternMatches(c) /\ Skips(c) => SkipRoot(Effective, c)
=============================================================================
