# A TLA+ model of bpfima

bpfima measures what containers do (files opened, mapped and executed, attributes
changed, connections made) from LSM hooks written in eBPF, keeps one measurement
list per namespace, and anchors the lists in a TPM register (PCR). This directory
holds TLA+ modules that model the parts of it where order, failure and
concurrency matter, TLC configurations that check them on small instances, and
TLAPS proofs for every size. `PROJECT.json` lists components, runs, hazards and
theorems, and maps every definition to the lines it models.

## The system and its parts

Paths are relative to the repository's `src/`.

| part | code | state | modelled by |
|---|---|---|---|
| commit transaction | `src/merkle.c`, `src/kfuncs_measure.c`, `src/measurements.c` | measurement lists, leaf hashes, root hash, latched error, epoch mode | `Commit` (abstractly `Ledger`) |
| TPM access | `src/tpm_ops.c` | the PCR, the chip | `Commit` |
| hash table and hash chains | `src/hash_utils.c` | duplicate table | `Commit` |
| Merkle root history | `src/merkle.c` | history list, counter | `Commit`, properties in `MCHistory` |
| policy composition | `include/bpfima_policy_defaults.h`, `src/policy_manager.c` | none (pure), then root and extension over a sequence of updates | `PolicyRules`, `PolicyComposition` |
| policy store | `src/policy_manager.c`, `src/policy_namespace.c` | double-buffered map, generation, audit lists | `PolicyStore` |
| container registry | `src/container.c`, `src/kfuncs_container.c` | RCU list, reference counts | `Containers` |
| securityfs views | `src/securityfs_utils.c`, `src/policy_securityfs.c` | directories, files, open descriptors, reader positions | `Containers`; readers in `Attestation` |
| module lifecycle | `src/bpfima_main.c` | what is initialised | `Containers`; policy across a reload in `PolicyStore` |
| LSM hooks and their helpers | `hooks/`, `utils/utils.h` | per-task scratch area | `Hooks` |
| verifier | `verifier/pkg/` | replayed lists and PCR | `Attestation`; the format of a line in `Hooks` |
| operator | `operator/internal/`, `operator/cmd` | caches, queue, applied policy, readiness | `Operator` |
| bpfima-tool | `tools/bpfima_tool.c` | pinned map, pinned links, PID file, dumped files | `Tool`; dumps in `Attestation` |

How the parts interact. `bpfima-tool load` gives the module its policy map and
attaches the hooks. A hook resolves the policy for its operation and, unless it
is to be skipped, calls the kfunc `bpfima_measurement_extend`. That finds or
creates the container and runs one *transaction* under `bpfima_commit_mutex`:
look for a duplicate, allocate, extend the container's leaf hash with the digest,
extend the system root with the leaf, extend the PCR with the root, publish. A
policy change, from the controller or the tool, goes through the same transaction
with its own digest in place of a leaf, and becomes active only after it.
securityfs shows the lists and the history of values extended into the root; the
verifier replays them against the PCR.

How the modules fit together. `Commit` is proved to implement `Ledger`, and
`Attestation` builds the verifier's surroundings on `Ledger`, so what it shows
holds for the transaction as the code runs it. `PolicyStore` and
`PolicyComposition` both use the operators of `PolicyRules`; `PolicyStore` takes
the commit by its outcomes, as `Hooks` does. `MCNode` composes `Tool` and
`Operator`, which meet in the variables of `PolicyInForce`.

## Modules

### Commit transaction

* `Ledger`: the promise, without tasks, locks, chips or error codes. A ledger of
  values grows by one; a register takes each state of the ledger before that state
  is published; the ledger is kept with the register or without it, never first
  one and then the other; once sealed nothing changes, and sealing may leave the
  register one state ahead.
* `Commit`: the transaction as the code runs it, one action per stretch of code
  between points where another task or the chip can intervene.
* `CommitLedger`: the refinement mapping from `Commit` to `Ledger`.
* `CommitFacts`, `CommitPublishProofs`, `CommitProofs`, `CommitLedgerProofs`: the
  theorems, each module on top of the one before.
* `MCCommit`, `MCHistory`: instances for TLC; `MCHistory` also holds the
  properties of the history, which need a recursive operator.

Variables carry the names of the code's globals and fields. A SHA-256 chain
`H(..H(H(0||v1)||v2)..||vn)` is the sequence `<<v1, .., vn>>`, which takes the hash
to be collision free; the PCR is the sequence of roots extended into it in this
epoch. Digests of measured data and of policy events are model values.

| action | code |
|---|---|
| `ChipChange` | the TPM driver binds or unbinds its chip (external) |
| `CommitGetError` | `bpfima_commit_get_error` from `status_show` and `bpfima_policy_bind_map` |
| `Begin` | a call: a measurement, a policy event or `bpfima_tpm_get_pcr_value` |
| `CheckError` | `bpfima_commit_get_error` before the work, and finding or creating the container |
| `LockCommit` | `mutex_lock`, the second check, the early duplicate test, `create_measurement_entry` |
| `PrepareEvent` | `commit_event_locked` up to the TPM command: third check, duplicate, allocations, hashes |
| `ExtendTpm` | `extend_tpm_pcr` and what `commit_event_locked` makes of its result |
| `Publish` | the infallible publication, the duplicate table, `software_committed` |
| `TrimHistory`, `Aggregate` | `bpfima_trim_history_locked`, `trim_merkle_root_history_locked`: detach under the history lock, hash without it, put back |
| `ReadPcr` | the rest of `bpfima_tpm_get_pcr_value` |
| `Return` | back to the caller |

Every check of the latched error is a step of its own because the chip is looked
up anew each time. `tpm_pcr_extend` may report an error whether or not the chip
executed the command: `extend_tpm_pcr` is the set of its outcomes, with and
without effect. Allocations, hashes and TPM commands fail where the constant
`Fault` says they may. `bpfima_trim_history_locked` reads the policy in force at
that moment, so bound and scope are chosen anew at every trim.

The first policy publication (`bpfima_policy_bind_map`) does not call
`bpfima_commit_get_error` before it takes the mutex; `commit_event_locked` makes
the same check, so this is the model's path with nothing happening in between.
Policy tasks are also serialised by the policy mutex; the model lets them overlap
up to the commit mutex, which allows more behaviours than the code.

Left out: the refusals in atomic context (`-EWOULDBLOCK`, `-EAGAIN`,
`PCR_ATOMIC_CONTEXT`) and of NULL arguments, which return before anything is
touched; the text of the PCR read. The `tpm_mutex` is only ever taken inside the
commit mutex.

### Policy

* `PolicyRules`: `normalize_snapshot`, `validate_extension`, `rebase_extension`,
  `bpfima_policy_merge_config`, pattern matching and `filtered` as operators. A flag
  word is the set of its flags, a string a sequence of characters.
* `PolicyComposition`: root and one extension under every sequence of full requests
  (`ApplyRoot`, `ApplyExtra`) and field edits (`EditRoot`, `EditExtra`), each one
  step because the policy mutex serialises them. `PolicyProofs` holds its theorems.
* `PolicyStore`: how such a step is carried out. Binding a map looks at its frozen
  flag and its writers (`BindChecksFrozen`, `BindChecksWriters`), takes the policy
  mutex (`LockPolicy`) and prepares the first state (`PrepareBind`). A request is
  refused, found identical or prepared (`PrepareApply`), staged in the inactive
  buffer in two steps (`StageBegins`, `StageEnds`), committed (`LockCommit`,
  `CommitRoot`), listed (`PublishAudit`), made active by storing the generation
  (`PublishGeneration`), and the mutexes are released. Around it: another process
  that freezes or writes a map (`FreezeChecks` .. `WriterWrites`), a reader that
  copies the active buffer between two looks at the generation (`ReadGeneration` ..
  `ReadAgain`), an error latched elsewhere, metadata created by a container, and
  the module unloaded and loaded again (`Reload`).

### Containers

A node is memory that can be freed and handed out again. `BeginLookup` and
`BeginCreate` are the kfuncs; creation runs under `container_create_mutex` through
`Allocate`, `CreateDir`, `CreateFile`, `CreatePolicyFiles`, `CreateMetadata`, `Publish`
and `CountAndGet`, each of which can fail and undo the ones before. `Lookup`, `Open`
and `Release` are a descriptor of user space, which may hold a file that is being
removed. `Load` is `bpfima_init` with every unwinding, `Exit` to `ExitRest` is
`bpfima_exit`, with `GracePeriod` and `FreeWork` the deferred freeing it waits for.

### Hooks

One set of actions takes each of the five LSM hooks from entry to return, since
they share their order: earlier verdict and scope (`Enter`), task storage (`Storage`,
`StorageFails`, `NoStorage`), path (`PathTooLong`), policy (`Resolve`), file hash
(`HashFile`), request (`Submit` with `FillRequest`), commit (`Commit`), verdict
(`Return`). Where hooks differ, the difference is in an operator (`HashesFile`,
`PassesDeps`, `dependencies`, `additional_data`). The scratch area of a task keeps what
the last call left in it, but for `buf`, in which every hook that reads it has begun and
terminated a new text. `build_dependencies`, `append_parent_comm` and
`build_attributes` work on sequences of characters with small buffers;
`seq_show`, `ParseHashedFile` and `Validates` take a line through securityfs and
the verifier's parser. Names that contain a newline are outside the model. The
commit is one step; `Commit` has the details. Timing statistics are left out.

The code lets an operation in scope go on unmeasured in three cases beside the
policy's, and `AllowedIsAccounted` admits exactly these (`NothingToMeasure`): the file
has no SHA-256 digest, no changed attribute fits the buffer, or a connection finds no
task storage.

### Attestation

The kernel is `Ledger` with lists and history around it (`ExtendPcr`, `Publish`,
`CommitWithoutTpm`, `Latch`, `Trim`, `Aggregate`). The verifier opens a list and the
history (`OpenTarget`, `New`), is given a PCR value read at any moment (`ReadPcr`), and
runs `Attest`, `AttestTarget` and `replayLeaves` one line at a time, each line read
when it is needed, from the live file by position or from a copy of the tool's
(`Dumps`: complete, a chunk missing, the last line cut, everything twice). `Reset`
may fail half way.

### A node

* `Tool`: `bpfima-tool load` step by step: `GetPolicyMap` and `BindPolicyMap` are
  `ensure_policy_map`; `LoadObject`, `UpdateLink` and `AttachProgram` are
  `load_and_attach_one_object`; `AllAttached` becomes the daemon; `Unpin` and `EndLoad`
  are the cleanup of `cmd_load`. `StartUnload`, `StopDaemon`, `CleanupLinks` and
  `CleanupMap` are `cmd_unload`. Any of them may be killed (`Kill`, `EndUnload`). What
  stays is the state: pins, attached links, the module. A pinned policy map is fresh,
  the module's, or stale from an earlier epoch. `ToolProofs` holds the theorems.
* `Operator`: the API server's contents are histories and a cache is a position in
  one, so caches lag independently. `WatchPolicies` and `WatchNode` queue keys as
  `SetupWithManager` arranges; `Start`, `getNodeLabel`, `SelectPolicy` and `ApplyPolicy`
  are `Reconcile`, with an error (`ReadFails`, `ApplyFails`, an invalid selector)
  putting the key back; `IdentifyCorrectPolicy` folds over the policies in any order a
  list may have. A policy keeps its creation time until it is deleted. Policies in
  `Refused` are those `BuildPolicyRequest` or the module turns down, which for a module
  without `securityfs_policy_writable` is all of them. `StopController` and
  `StartController` lose and rebuild everything in memory; a new controller's lists may
  lag, but not behind what the controller before it had seen.
* `PolicyInForce`: what they share: whether the module has a policy map, the policy it
  follows, and whether an error is latched, after which it binds no map and commits no
  policy until it is loaded again (`LatchError`, `RemoveModule`). `MCNode`: the
  composition, in which the module may also be replaced under a running controller.

Commands of the tool, and `insmod` and `rmmod`, are given one after the other (an
unload may begin while the daemon ends): the tool has no lock, and its PID file is
written only after daemonising. `AllAttached` takes the parent's exit and the PID file
as one step, and the PID of a dead daemon is not in use. These are the assumptions
behind the two properties of the tool, noted with its hazards.

`preserve_policy_pin` answers no when the pin, its description or the status cannot be
read, and the unload then removes the pin of the map the module still follows. Its
comment (`tools/bpfima_tool.c:212`: `hook cleanup must not orphan it`) holds only when
all three can be read. `orphaned` records such an unload, and `AuthorityHeld` says that
nothing else separates the pin from the module's map, and that even then no hook runs
without the module's map: later loads fail to bind until the module is reloaded.

Three situations end the controller's retries without success, and `Converges` claims
nothing about them: an error latched for the rest of the epoch, a policy that is
refused, and a module replaced since the controller last queued a key. In the last,
`Reconcile` has succeeded and nothing queues another key, so the module keeps its
initial policy, with the controller reporting ready, until the next event; from that
event on `Converges` applies again.

## Runs

| run | instance | what it shows |
|---|---|---|
| `commit` | 2 tasks, 2 namespaces, 2 digests, a policy event, every failure | the PCR is the replay of the published chain but for the commit in flight and one ambiguous command (`PcrTracksRoot`); a PCR read sees neither (`PcrReadIsSettled`); duplicates are exact (`DedupExact`), the root records every leaf once (`RootRecordsEachLeafOnce`), reported success means recorded (`SuccessMeansMeasured`); after a latched error nothing changes (`LatchIsFinal`), the epoch keeps its mode (`EpochKeepsMode`), the transaction implements `Ledger` (`ImplementsLedger`); the inductive invariant of the proofs (`TransactionInv`) |
| `history` | 2 tasks, bounds 0, 2, 3 and both scopes changing at will, allocations failing | no trim loses, repeats or reorders an event (`HistoryLossless`); a reader sees the latest events in order, the aggregate first (`HistoryShowsLatest`); the counter is exact (`HistoryCountExact`) |
| `history_root_only` | scope root-only | **fails**: finding 1 |
| `policy_composition` | 2 path slots, all match types, strings up to 3, flags, thresholds, requests out of range | the root is a floor in every namespace, also under an extension accepted before the root changed (`CoverageFloor`); what is accepted excludes only what the root excludes (`AcceptedIsNarrower`); an edit is rebased, never blocked by older content, and loses no coverage (`EditNeverBlocked`, `RebaseKeepsCoverage`) |
| `policy_flags` | the scalar requests | **fails**: finding 2 |
| `policy_store` | 2 tasks, 2 namespaces with room for one, generations up to 3, every failure | the active buffer is the last committed state (`ActiveIsCommitted`), also for the trim inside a commit (`TrimSeesCommitted`); audit lists and results agree with the committed events (`AuditExact`, `ResultIsTrue`); a request with an expected generation overwrites nothing newer (`NoLostUpdate`) |
| `policy_bind` | 2 maps, one written by another process, reloading, one outside reader | a bound map is never written from outside (`NoForeignWrite`), a used map never becomes the policy of a new epoch (`ActiveIsCommitted`), an accepted copy is one whole state (`AcceptedCopyIsWhole`) |
| `containers` | 2 tasks, 2 nodes, 2 identifiers, 1 descriptor, every failure, fair | reference counts are exact and nothing freed is reachable (`ReferencesExact`, `NoDangling`); a creation fails only for a cause of its own (`FailureHasCause`); a failed load and an unload leave nothing (`NothingLeft`); calls and unloads end (`CallsReturn`, `UnloadEnds`) |
| `attestation` | 2 namespaces, 2 digests, a policy, 3 events, 2 attempts, all faults | the interleaved loops decide what a definition on whole lists says (`VerdictExact`); what is accepted was committed (`AcceptedWasRecorded`); what is rejected was incomplete (`RejectedHasCause`) |
| `hooks` | 2 tasks, 10 operations over all hooks, 2 policies, all faults, 2 lines | what is let through is listed, left out by a policy in force during the call, out of scope, or one of three cases without anything to measure (`AllowedIsAccounted`); a line is of one operation and nothing an earlier one left (`MeasurementIsOfEvent`); the verifier reads back what was hashed (`LinesReadBack`) |
| `hooks_lines` | the same without failures | **fails**: finding 3 |
| `node` | 1 object, 2 policies of the same second or one second apart, one of their variants refused, 2 labels, 2 API changes or restarts, the module latching errors and replaced at any time, fair controller | hooks never run without the module's map, which stays pinned until an unload cannot read the pin or the status (`AuthorityHeld`); a successful unload is complete (`UnloadIsComplete`); every policy put in force is the one due for contents the API server held, never for older ones than before (`CommitsFollowApi`); it converges to the one due and the controller becomes ready (`Converges`) |

Bounds. `MaxRoot` bounds calls that commit: none begins once the chain has that many
values. Two tasks are enough for every race on one mutex between a task inside and
one that has read state before; two namespaces tell the namespace in the duplicate
table from the digest, and make equal leaf values of different containers happen;
two digests make leaf chains of length two, so an unchained leaf shows. For the
history, bounds of 2 and 3 make trims of plain entries and of an earlier aggregate
happen within 5 events. `GenMax` stands for the greatest generation, so that its
overflow check is reached. Two nodes for two identifiers make memory reused while a
descriptor still refers to it. In `attestation` three events make a trim, and two
attempts a verdict after `Reset`. In `hooks` buffers are a few characters long so that
every cut happens; the second task repeats one operation, which is enough to leave
its scratch area to the policy and error of another moment. In `node` one object
suffices for pinned, held, updated and lost links (the theorems cover any set); after
two events, or one that touches the node or the second policy, the tool rests with
its daemon running. The first policy exists from the start and the second is created
in the run, with the same timestamp or a later one, so that both the age and the name
decide.

Fairness. In `containers` tasks are strongly fair: allocators and locks return, and a
mutex released again and again is acquired (kernel mutexes hand over to the longest
waiter); grace periods end and workers run. Beginning a call, opening and closing
files, loading and unloading are not fair. In `node` informers deliver, the worker
goes on (weak fairness: it may pass over a key, but a key that fails comes back and any
key leads to the same selection), and the kubelet restarts the container. Reads go to
the manager's caches, filled before the worker starts, so they fail for a time only. A
request tried again and again is committed in the end if it can be, that is if time and
again the module has its map, no error is latched and the policy is not refused (strong
fairness of `ApplyPolicy`, whose guard these are); what remains, allocations and opening
the endpoint, may fail any number of times before. The tool, the API server, replacing
the module and latching an error are not fair.

Deadlock is checked except in `attestation`, where the caller may stop after its
last attempt once the bound on events is reached, and in `node`, where nothing is left
to do when the events are spent and the queue is empty.

### Disagreements between documentation and code

1. `Scope of circular buffer (0=global, 1=root-only)`
   (`include/bpfima_kfunc_types.h:37`). With scope 1 `bpfima_trim_history_locked`
   skips every event with a non-empty source; the root policy's events carry
   `"global_policy"`, so nothing is ever trimmed (`history_root_only`).
2. `Skip/filter flags | Root AND namespace` (`docs/POLICY_MANAGEMENT.md:29`). The code
   skips what both policies filter, each by any flag of its own. After the root has
   changed, an operation is skipped although the two words have no flag in common
   (`policy_flags`).
3. `computing its template hash with hashAlgo as the kernel module does`
   (`verifier/pkg/measurement/hashed_file.go:80`). Under a policy without
   `BUILD_DEPS` an exec or a connection passes an empty dependency string rather than
   none; the module hashes a separator after the data, the verifier does not
   (`hooks_lines`).

## Proofs

From `ConstAssumption` alone (in particular: `NoProc` is no task and the empty string
no container), for any sets of tasks, containers and digests and any faults:

* `TransactionInvHolds`: the inductive invariant `TransactionInv`;
* `TypeCorrect`, `Exclusion`, `PcrFollowsRoot`, `PcrReadsSettled`, `ListsExact`,
  `SuccessIsMeasured`: the safety properties `TypeOK`, `MutexHeld`,
  `PcrTracksRoot`, `PcrReadIsSettled`, `LeafReplaysList` and `DedupExact`,
  `SuccessMeansMeasured`;
* `LatchFinal`, `ModeKept`: the action properties `LatchIsFinal`, `EpochKeepsMode`;
* `CommitImplementsLedger`: the refinement of `Ledger`.

`PcrTracksRoot` is not inductive: whether a step from "extend" keeps it depends on
the task's copies of the old root and leaf being current. They are because the mutex
excludes every other writer (`MutexHeld`) and nothing but `Publish` writes; that is
`WorkInv`, which also says that no error is latched while a task extends or publishes
and that its digest is still unknown. `PcrInv` says the PCR equals the replay of the
published chain, or is ahead by exactly the root of the task in flight, or by one
root with the error latched. `LeafInRoot` and `ResultInv` carry a success from
publication to the caller. One lemma per action shows that it preserves the conjuncts
it touches.

`PolicyProofs`, from `CompositionAssumption` (requests, edits and contexts have their
types, the default snapshot is valid), for strings
of any length, any slots, hooks, requests and contexts: `StoredNormal` (what is stored
is normalised), `RootIsFloor`, `AcceptedNarrower`, `EditsAccepted`, `RebaseCoverage`
(the properties of the run). The core is `SubsetSound`: a pattern accepted by
`bpfima_pattern_is_subset` matches only texts the root's pattern matches, for each
pair of match types; from it `ValidIsNarrower` for whole snapshots, and `RebaseValid`,
that a rebased snapshot passes validation. The invariant is that stored snapshots are
normalised, which is what makes rebasing and editing succeed.

`ToolProofs`, for any set of objects and with nothing assumed: `HooksHaveAuthority` and
`UnloadCompletes`. `AuthorityHeld` is not inductive: attaching a program keeps it only
because a load past its binding has the module's map (`LoadFollows`), and removing a
pin only because a map counts as the module's only while the module has one, and is the
one pinned unless an unload that could not tell has removed it (`Authority`). `UnloadFollows` carries what an unload has removed to its end: once it
removes pins no load runs. The specification leaves the policy in force open, so the
theorems hold beside any controller.

Only model-checked: all liveness (`CallsReturn`, `UnloadEnds`, `Converges`); the history
properties (they need a recursive expansion of nested aggregates);
`RootRecordsEachLeafOnce` (counting); `PolicyStore`, `Containers`, `Attestation`, `Hooks`
and `Operator`.

## Not modelled

* `tools/yaml_parser.c`, the parsing of writes in `policy_securityfs.c`, the texts of
  the status and policy files: text handling without concurrency or lasting state.
  What a parsed write does is in `PolicyStore`.
* `BuildPolicyRequest` and the flag words of `operator/internal/mapsmanager`: encoding,
  field by field, of a request that `PolicyRules` starts from.
* `policy-init` and `policy-update` of the tool submit a request; the module's side is
  `PolicyStore`. A policy submitted by hand beside a controller stays until the
  controller has a reason to reconcile; `Converges` is not about it.
* Per-CPU hash transforms and the freeing of lists at unload: no interleaving beyond
  the one `Containers` has for the nodes.
* Timing statistics (BPF maps, the controller's CSV file), logging, generated code,
  API type declarations, flag handling in `operator/cmd`, the examples.
