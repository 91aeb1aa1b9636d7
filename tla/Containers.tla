----------------------------- MODULE Containers ------------------------------
(***************************************************************************)
(* The container registry (container.c, kfuncs_container.c), the securityfs*)
(* directory of each container (securityfs_utils.c, policy_securityfs.c)   *)
(* and the loading and unloading of the module (bpfima_main.c).            *)
(*                                                                         *)
(* A node is a piece of memory: it can be freed and handed out again.      *)
(* A step is what runs under one lock, one RCU section or one call into    *)
(* securityfs.  Every task is inside a kfunc, every file is one descriptor.*)
(***************************************************************************)
EXTENDS Naturals, FiniteSets, TLC

CONSTANTS
  Tasks, NoTask,   \* callers of the kfuncs
  Files,           \* descriptors of user space
  Nodes, NoNode,   \* memory for container nodes
  Ids, NoId,       \* container identifiers
  Fault            \* which calls may fail: "alloc", "dir", "file", "policy_file", "metadata",
                   \* "seq_open", "load"

VARIABLES
  module,          \* "absent", "loading", "live" or a stage of bpfima_exit
  up,              \* what bpfima_init has acquired
  node,            \* Nodes -> memory, identifier, refcnt
  container_list,  \* nodes on the list
  temp_list,       \* nodes cleanup_all_containers has spliced off
  container_count,
  container_create_mutex,
  dirs,            \* Ids -> the node whose directory has this name
  shown,           \* kind of file -> the nodes whose file of that kind exists
  metadata,        \* identifiers on policy_namespace_list
  rcu,             \* nodes whose rcu_work waits for a grace period
  queue,           \* nodes whose rcu_work is on container_cleanup_wq
  pc, id, mine, held, ret,  \* per task: place, argument, node it creates, reference, result
  file             \* Files -> stage, kind and node of an open

moduleVars == <<module, up>>
listVars == <<container_list, temp_list, container_count>>
fsVars == <<dirs, shown>>
freeVars == <<rcu, queue>>
taskVars == <<pc, id, mine, held, ret>>
vars == <<moduleVars, node, listVars, container_create_mutex, fsVars, metadata,
          freeVars, taskVars, file>>

Kinds == {"measurements", "policy"}
Freed == [mem |-> "free", id |-> NoId, refcnt |-> 0]
Closed == [stage |-> "closed", kind |-> "none", node |-> NoNode]

-----------------------------------------------------------------------------
(* Loading: bpfima_init acquires in this order; the registration of the     *)
(* kfuncs is undone by the kernel when the module goes.                     *)

InitOrder == <<"sha256_tfm", "workqueue", "root_tfm", "kfuncs", "bpfima_dir", "status",
               "history", "containers_dir", "policy", "policy_map", "policy_apply",
               "policy_changes">>

\* What the error labels of bpfima_init release.
err_hash == {"sha256_tfm"}
err_containers == err_hash \cup {"workqueue"}
err_merkle_tfm == err_containers \cup {"root_tfm"}

remove_global_policy_securityfs == {"policy", "policy_map", "policy_apply"}

\* What create_global_policy_securityfs removes again when it cannot create r.
global_policy_undo(r) ==
  CASE r = "policy_map" -> {"policy"}
    [] r = "policy_apply" -> {"policy", "policy_map"}
    [] OTHER -> {}

\* What bpfima_securityfs_init has removed when it cannot create r.
securityfs_undo(r) ==
  CASE r = "status" -> {"bpfima_dir"}
    [] r = "history" -> {"bpfima_dir", "status"}
    [] r = "containers_dir" -> {"bpfima_dir", "status", "history"}
    [] r \in remove_global_policy_securityfs ->
         {"bpfima_dir", "status", "history", "containers_dir"} \cup global_policy_undo(r)
    [] r = "policy_changes" ->
         {"bpfima_dir", "status", "history", "containers_dir"} \cup remove_global_policy_securityfs
    [] OTHER -> {}

bpfima_securityfs_cleanup ==
  {"policy_changes", "history", "status", "containers_dir", "bpfima_dir"}
    \cup remove_global_policy_securityfs

(* No error label for the workqueue. *)
Unwind_Skips(r) == IF r = "sha256_tfm" THEN {} ELSE securityfs_undo(r) \cup {"sha256_tfm", "root_tfm"}

Unwind(r) ==
  CASE r = "sha256_tfm" -> {}
    [] r = "workqueue" -> err_hash
    [] r = "root_tfm" -> err_containers
    [] OTHER -> securityfs_undo(r) \cup err_merkle_tfm

\* The kernel calls bpfima_init, which goes on step by step; a failure unwinds
\* what was acquired before it.
Load ==
  /\ module \in {"absent", "loading"}
  /\ LET r == InitOrder[Cardinality(up) + 1] IN
       \/ /\ up' = up \cup {r}
          /\ module' = IF Cardinality(up') = 12 THEN "live" ELSE "loading"
       \/ /\ "load" \in Fault
          /\ up' = (up \ Unwind(r)) \ {"kfuncs"}
          /\ module' = "absent"
  /\ UNCHANGED <<node, listVars, container_create_mutex, fsVars, metadata, freeVars, taskVars, file>>

-----------------------------------------------------------------------------
(* Look-up, references *)

\* The node find_container_by_id_rcu takes a reference on.
Found(i) == {n \in container_list : node[n].id = i /\ node[n].refcnt > 0}

Get(n) == [node EXCEPT ![n].refcnt = @ + 1]

\* bpfima_put_container, on the node table m: the last reference queues the work.
PutNode(m, n) ==
  /\ node' = [m EXCEPT ![n].refcnt = @ - 1]
  /\ rcu' = IF m[n].refcnt = 1 THEN rcu \cup {n} ELSE rcu
  /\ UNCHANGED queue

\* A kfunc looks for container i and takes a reference on it.
Takes(t, i) ==
  \E n \in Found(i) :
    /\ node' = Get(n)
    /\ held' = [held EXCEPT ![t] = n]
    /\ pc' = [pc EXCEPT ![t] = "put"]
    /\ ret' = [ret EXCEPT ![t] = "ok"]

\* bpfima_container_exists, _get_measurement_count and _get_leaf_hash use a
\* container that is there.
BeginLookup(t, i) ==
  /\ module = "live" /\ pc[t] = "idle"
  /\ id' = [id EXCEPT ![t] = i]
  /\ \/ Takes(t, i)
     \/ /\ Found(i) = {}
        /\ pc' = [pc EXCEPT ![t] = "return"]
        /\ ret' = [ret EXCEPT ![t] = "ENOENT"]
        /\ UNCHANGED <<node, held>>
  /\ UNCHANGED <<moduleVars, listVars, container_create_mutex, fsVars, metadata, freeVars,
                 mine, file>>

\* bpfima_container_get_or_create and bpfima_measurement_extend create one that
\* is not.
BeginCreate(t, i) ==
  /\ module = "live" /\ pc[t] = "idle"
  /\ id' = [id EXCEPT ![t] = i]
  /\ \/ Takes(t, i)
     \/ /\ Found(i) = {}
        /\ pc' = [pc EXCEPT ![t] = "lock"]
        /\ UNCHANGED <<node, held, ret>>
  /\ UNCHANGED <<moduleVars, listVars, container_create_mutex, fsVars, metadata, freeVars,
                 mine, file>>

Put(t) ==
  /\ pc[t] = "put"
  /\ PutNode(node, held[t])
  /\ held' = [held EXCEPT ![t] = NoNode]
  /\ pc' = [pc EXCEPT ![t] = "return"]
  /\ UNCHANGED <<moduleVars, listVars, container_create_mutex, fsVars, metadata, id, mine, ret, file>>

Return(t) ==
  /\ pc[t] = "return"
  /\ pc' = [pc EXCEPT ![t] = "idle"]
  /\ id' = [id EXCEPT ![t] = NoId]
  /\ ret' = [ret EXCEPT ![t] = "none"]
  /\ UNCHANGED <<moduleVars, node, listVars, container_create_mutex, fsVars, metadata, freeVars,
                 mine, held, file>>

-----------------------------------------------------------------------------
(* create_container_node *)

(* An early return that keeps the mutex. *)
Fails_Locked(t, e) ==
  /\ ret' = [ret EXCEPT ![t] = e]
  /\ pc' = [pc EXCEPT ![t] = "return"]
  /\ mine' = [mine EXCEPT ![t] = NoNode]
  /\ UNCHANGED <<container_create_mutex, held>>

\* create_container_node_locked returns with error e and the mutex is released.
Fails(t, e) ==
  /\ ret' = [ret EXCEPT ![t] = e]
  /\ pc' = [pc EXCEPT ![t] = "return"]
  /\ container_create_mutex' = NoTask
  /\ mine' = [mine EXCEPT ![t] = NoNode]
  /\ UNCHANGED held

\* It returns n, on which a reference is held now.
Succeeds(t, n) ==
  /\ ret' = [ret EXCEPT ![t] = "ok"]
  /\ pc' = [pc EXCEPT ![t] = "put"]
  /\ container_create_mutex' = NoTask
  /\ mine' = [mine EXCEPT ![t] = NoNode]
  /\ held' = [held EXCEPT ![t] = n]

(* No mutex around create_container_node_locked. *)
MayCreate_Always(t) == TRUE

MayCreate(t) == container_create_mutex = NoTask

\* mutex_lock, the fast check, and the allocation of node and transform.
Allocate(t) ==
  /\ pc[t] = "lock" /\ MayCreate(t)
  /\ \/ \E n \in Found(id[t]) : node' = Get(n) /\ Succeeds(t, n)
     \/ /\ Found(id[t]) = {}
        /\ \E n \in Nodes :
             /\ node[n].mem = "free"
             /\ node' = [node EXCEPT ![n] = [mem |-> "used", id |-> id[t], refcnt |-> 1]]
             /\ mine' = [mine EXCEPT ![t] = n]
        /\ container_create_mutex' = t
        /\ pc' = [pc EXCEPT ![t] = "dir"]
        /\ UNCHANGED <<held, ret>>
     \/ /\ Found(id[t]) = {} /\ "alloc" \in Fault
        /\ Fails(t, "ENOMEM")
        /\ UNCHANGED node
  /\ UNCHANGED <<moduleVars, listVars, fsVars, metadata, freeVars, id, file>>

\* The directory of create_container_securityfs.  One of that name may exist:
\* then the node it belongs to is taken if it is on the list.
CreateDir(t) ==
  /\ pc[t] = "dir"
  /\ \/ /\ dirs[id[t]] = NoNode /\ "containers_dir" \in up
        /\ dirs' = [dirs EXCEPT ![id[t]] = mine[t]]
        /\ pc' = [pc EXCEPT ![t] = "file"]
        /\ UNCHANGED <<node, container_create_mutex, mine, held, ret>>
     \/ /\ IF dirs[id[t]] # NoNode /\ Found(id[t]) # {}
             THEN \E n \in Found(id[t]) :
                    /\ node' = [Get(n) EXCEPT ![mine[t]] = Freed]
                    /\ Succeeds(t, n)
             ELSE /\ dirs[id[t]] # NoNode \/ "dir" \in Fault \/ "containers_dir" \notin up
                  /\ node' = [node EXCEPT ![mine[t]] = Freed]
                  /\ Fails(t, IF dirs[id[t]] # NoNode THEN "EEXIST"
                              ELSE IF "containers_dir" \notin up THEN "EINVAL" ELSE "EIO")
        /\ UNCHANGED dirs
  /\ UNCHANGED <<moduleVars, listVars, shown, metadata, freeVars, id, file>>

\* The measurements file: from here on user space can open it, although the
\* node is not on the list yet.  Without it the directory goes again.
CreateFile(t) ==
  /\ pc[t] = "file"
  /\ \/ /\ shown' = [shown EXCEPT !["measurements"] = @ \cup {mine[t]}]
        /\ pc' = [pc EXCEPT ![t] = "policy"]
        /\ UNCHANGED <<dirs, node, container_create_mutex, mine, held, ret>>
     \/ /\ "file" \in Fault
        /\ dirs' = [dirs EXCEPT ![id[t]] = NoNode]
        /\ node' = [node EXCEPT ![mine[t]] = Freed]
        /\ Fails(t, "EIO")
        /\ UNCHANGED shown
  /\ UNCHANGED <<moduleVars, listVars, metadata, freeVars, id, file>>

\* create_namespace_policy_securityfs and its sibling for the changes: each file
\* has its own copy of the name; failure is only logged.
CreatePolicyFiles(t) ==
  /\ pc[t] = "policy"
  /\ \/ shown' = [shown EXCEPT !["policy"] = @ \cup {mine[t]}]
     \/ "policy_file" \in Fault /\ UNCHANGED shown
  /\ pc' = [pc EXCEPT ![t] = "metadata"]
  /\ UNCHANGED <<moduleVars, node, listVars, container_create_mutex, dirs, metadata, freeVars,
                 id, mine, held, ret, file>>

\* bpfima_policy_namespace_get_or_create: failure is only logged.
CreateMetadata(t) ==
  /\ pc[t] = "metadata"
  /\ \/ metadata' = metadata \cup {id[t]}
     \/ "metadata" \in Fault /\ UNCHANGED metadata
  /\ pc' = [pc EXCEPT ![t] = "publish"]
  /\ UNCHANGED <<moduleVars, node, listVars, container_create_mutex, fsVars, freeVars,
                 id, mine, held, ret, file>>

\* The files with the copies of the name, then the directory.
remove_container_securityfs(n) ==
  /\ shown' = [k \in Kinds |-> shown[k] \ {n}]
  /\ dirs' = [dirs EXCEPT ![node[n].id] = NoNode]

\* Under container_list_lock: give way to a node that was published meanwhile,
\* freeing the new one at once, or add the new one.
Publish(t) ==
  /\ pc[t] = "publish"
  /\ IF Found(id[t]) # {}
       THEN \E n \in Found(id[t]) :
              /\ node' = [Get(n) EXCEPT ![mine[t]] = Freed]
              /\ Succeeds(t, n)
              /\ remove_container_securityfs(mine[t])
              /\ UNCHANGED container_list
       ELSE /\ container_list' = container_list \cup {mine[t]}
            /\ pc' = [pc EXCEPT ![t] = "count"]
            /\ UNCHANGED <<node, container_create_mutex, fsVars, mine, held, ret>>
  /\ UNCHANGED <<moduleVars, temp_list, container_count, metadata, freeVars, id, file>>

(* The caller shares the reference of the list. *)
CountAndGet_NoGet(t) ==
  /\ pc[t] = "count"
  /\ container_count' = container_count + 1
  /\ Succeeds(t, mine[t])
  /\ UNCHANGED <<moduleVars, node, container_list, temp_list, fsVars, metadata, freeVars, id, file>>

\* The counter and the caller's reference, after the node has become visible.
CountAndGet(t) ==
  /\ pc[t] = "count"
  /\ node' = Get(mine[t])
  /\ container_count' = container_count + 1
  /\ Succeeds(t, mine[t])
  /\ UNCHANGED <<moduleVars, container_list, temp_list, fsVars, metadata, freeVars, id, file>>

\* A policy update for a name creates its metadata, container or not (PolicyStore).
PolicyMetadata(i) ==
  /\ module = "live"
  /\ metadata' = metadata \cup {i}
  /\ UNCHANGED <<moduleVars, node, listVars, container_create_mutex, fsVars, freeVars, taskVars, file>>

-----------------------------------------------------------------------------
(* Descriptors of the files in a container's directory.  The file operations*)
(* name their owner, so a file being opened or open pins the module.        *)

\* The name is resolved and the inode's i_private is about to be used.
Lookup(f, i, kind) ==
  /\ module = "live" /\ file[f] = Closed
  /\ dirs[i] \in shown[kind]
  /\ file' = [file EXCEPT ![f] = [stage |-> "opening", kind |-> kind, node |-> dirs[i]]]
  /\ UNCHANGED <<moduleVars, node, listVars, container_create_mutex, fsVars, metadata, freeVars, taskVars>>

\* container_measurements_open takes a reference, and returns it if seq_open
\* fails; the policy files only use the copy of the name that the inode holds.
Open(f) ==
  /\ file[f].stage = "opening"
  /\ LET n == file[f].node IN
       \/ /\ file[f].kind = "policy" \/ node[n].refcnt > 0
          /\ node' = IF file[f].kind = "policy" THEN node ELSE Get(n)
          /\ file' = [file EXCEPT ![f].stage = "open"]
       \/ /\ "seq_open" \in Fault \/ (file[f].kind = "measurements" /\ node[n].refcnt = 0)
          /\ file' = [file EXCEPT ![f] = Closed]
          /\ UNCHANGED node
  /\ UNCHANGED <<moduleVars, listVars, container_create_mutex, fsVars, metadata, freeVars, taskVars>>

Release(f) ==
  /\ file[f].stage = "open"
  /\ file' = [file EXCEPT ![f] = Closed]
  /\ IF file[f].kind = "measurements"
       THEN PutNode(node, file[f].node)
       ELSE UNCHANGED <<node, freeVars>>
  /\ UNCHANGED <<moduleVars, listVars, container_create_mutex, fsVars, metadata, taskVars>>

-----------------------------------------------------------------------------
(* Unloading *)

(* File operations of the policy files without an owner. *)
Unpinned_NoOwner == \A f \in Files : file[f] = Closed \/ file[f].kind = "policy"

\* No descriptor of a file whose operations name the module as their owner.
Unpinned == \A f \in Files : file[f] = Closed

\* The kernel starts bpfima_exit: no BPF program with kfuncs is loaded, so no
\* task is inside one.  cleanup_all_containers takes the list.
Exit ==
  /\ module = "live" /\ Unpinned
  /\ \A t \in Tasks : pc[t] = "idle"
  /\ temp_list' = container_list
  /\ container_list' = {}
  /\ module' = "containers"
  /\ UNCHANGED <<up, node, container_count, container_create_mutex, fsVars, metadata, freeVars,
                 taskVars, file>>

\* One iteration of its loop: the directory goes, then the list's reference.
RemoveContainer(n) ==
  /\ module = "containers" /\ n \in temp_list
  /\ temp_list' = temp_list \ {n}
  /\ remove_container_securityfs(n)
  /\ PutNode(node, n)
  /\ UNCHANGED <<moduleVars, container_list, container_count, container_create_mutex, metadata, taskVars, file>>

\* synchronize_rcu ends, which is no promise about callbacks.
ContainersRemoved ==
  /\ module = "containers" /\ temp_list = {}
  /\ container_count' = 0
  /\ module' = "barrier"
  /\ UNCHANGED <<up, node, container_list, temp_list, container_create_mutex, fsVars, metadata, freeVars,
                 taskVars, file>>

\* rcu_barrier.
Barrier ==
  /\ module = "barrier" /\ rcu = {}
  /\ module' = "drain"
  /\ UNCHANGED <<up, node, listVars, container_create_mutex, fsVars, metadata, freeVars, taskVars, file>>

\* destroy_workqueue drains the queue.
DestroyQueue ==
  /\ module = "drain" /\ queue = {}
  /\ up' = up \ {"workqueue"}
  /\ module' = "rest"
  /\ UNCHANGED <<node, listVars, container_create_mutex, fsVars, metadata, freeVars, taskVars, file>>

(* Without bpfima_policy_namespace_cleanup. *)
ExitRest_KeepsMetadata ==
  /\ module = "rest"
  /\ up' = up \ (bpfima_securityfs_cleanup \cup {"root_tfm", "kfuncs", "sha256_tfm"})
  /\ module' = "absent"
  /\ UNCHANGED <<node, listVars, container_create_mutex, fsVars, metadata, freeVars, taskVars, file>>

\* The rest of bpfima_exit: the root's transform, bpfima_securityfs_cleanup,
\* bpfima_policy_namespace_cleanup, bpfima_policy_cleanup, bpfima_hash_cleanup.
ExitRest ==
  /\ module = "rest"
  /\ up' = up \ (bpfima_securityfs_cleanup \cup {"root_tfm", "kfuncs", "sha256_tfm"})
  /\ metadata' = {}
  /\ module' = "absent"
  /\ UNCHANGED <<node, listVars, container_create_mutex, fsVars, freeVars, taskVars, file>>

\* A grace period ends and the callback of a node puts its work on the queue.
GracePeriod(n) ==
  /\ n \in rcu
  /\ rcu' = rcu \ {n}
  /\ queue' = queue \cup {n}
  /\ UNCHANGED <<moduleVars, node, listVars, container_create_mutex, fsVars, metadata, taskVars, file>>

\* Mutant: the work puts itself back while the namespace's policy is stored.
FreeWork_Requeued(n) ==
  /\ n \in queue /\ "workqueue" \in up
  /\ \/ /\ node[n].id \in metadata
        /\ UNCHANGED vars
     \/ /\ node[n].id \notin metadata
        /\ queue' = queue \ {n}
        /\ node' = [node EXCEPT ![n] = Freed]
        /\ UNCHANGED <<moduleVars, listVars, container_create_mutex, fsVars, metadata, rcu, taskVars, file>>

\* container_node_free_work.
FreeWork(n) ==
  /\ n \in queue /\ "workqueue" \in up
  /\ queue' = queue \ {n}
  /\ metadata' = metadata \ {node[n].id}
  /\ node' = [node EXCEPT ![n] = Freed]
  /\ UNCHANGED <<moduleVars, listVars, container_create_mutex, fsVars, rcu, taskVars, file>>

-----------------------------------------------------------------------------
Init ==
  /\ module = "absent" /\ up = {}
  /\ node = [n \in Nodes |-> Freed]
  /\ container_list = {} /\ temp_list = {} /\ container_count = 0
  /\ container_create_mutex = NoTask
  /\ dirs = [i \in Ids |-> NoNode] /\ shown = [k \in Kinds |-> {}] /\ metadata = {}
  /\ rcu = {} /\ queue = {}
  /\ pc = [t \in Tasks |-> "idle"] /\ id = [t \in Tasks |-> NoId]
  /\ mine = [t \in Tasks |-> NoNode] /\ held = [t \in Tasks |-> NoNode]
  /\ ret = [t \in Tasks |-> "none"]
  /\ file = [f \in Files |-> Closed]

TaskStep(t) ==
  \/ Allocate(t) \/ CreateDir(t) \/ CreateFile(t) \/ CreatePolicyFiles(t) \/ CreateMetadata(t) \/ Publish(t)
  \/ CountAndGet(t) \/ Put(t) \/ Return(t)

\* The steps of bpfima_exit once it has begun.
ExitStep ==
  \/ \E n \in Nodes : RemoveContainer(n)
  \/ ContainersRemoved \/ Barrier \/ DestroyQueue \/ ExitRest

Next ==
  \/ Load \/ Exit \/ ExitStep
  \/ \E t \in Tasks : TaskStep(t) \/ \E i \in Ids : BeginLookup(t, i) \/ BeginCreate(t, i)
  \/ \E f \in Files :
       \/ Open(f) \/ Release(f)
       \/ \E i \in Ids, kind \in Kinds : Lookup(f, i, kind)
  \/ \E i \in Ids : PolicyMetadata(i)
  \/ \E n \in Nodes : GracePeriod(n) \/ FreeWork(n)

Spec == Init /\ [][Next]_vars

\* The scheduler runs tasks and the exit, mutexes are handed over, grace periods
\* end and workers run.
FairSpec ==
  /\ Spec
  /\ \A t \in Tasks : SF_vars(TaskStep(t))
  /\ \A n \in Nodes : WF_vars(GracePeriod(n)) /\ WF_vars(FreeWork(n))
  /\ WF_vars(ExitStep)

-----------------------------------------------------------------------------
(* Properties *)

Exiting == module \in {"containers", "barrier", "drain", "rest"}

\* The reference a node starts with: its creator's until the node is published,
\* then the list's, until cleanup_all_containers drops it.
HasFirst(n) == n \in container_list \cup temp_list \/ \E t \in Tasks : mine[t] = n

\* Every node in use has exactly the references that are accounted for: the
\* first one, one per task that was given the node, one per open measurements
\* file (refcount_inc in create_container_node_locked, find_container_by_id_rcu
\* and container_measurements_open against bpfima_put_container).
ReferencesExact ==
  \A n \in Nodes : node[n].refcnt =
    (IF HasFirst(n) THEN 1 ELSE 0)
      + Cardinality({t \in Tasks : held[t] = n})
      + Cardinality({f \in Files : file[f].stage = "open" /\ file[f].kind = "measurements"
                                     /\ file[f].node = n})

\* Nobody holds a pointer to freed memory: not a task, the list, a directory, a
\* descriptor on its way through open, or an open policy file, whose inode owns a
\* copy of the name until the directory is removed; and no node waits for a grace
\* period or a worker once container_cleanup_wq is destroyed.
NoDangling ==
  /\ \A n \in container_list \cup temp_list \cup rcu \cup queue \cup shown["measurements"] \cup shown["policy"] :
       node[n].mem = "used"
  /\ \A t \in Tasks : \A n \in {mine[t], held[t]} \ {NoNode} : node[n].mem = "used"
  /\ \A i \in Ids : dirs[i] # NoNode => node[dirs[i]].mem = "used"
  /\ \A f \in Files : file[f] # Closed =>
       /\ node[file[f].node].mem = "used"
       /\ file[f].kind = "policy" => file[f].node \in shown["policy"]
  /\ "workqueue" \notin up => rcu = {} /\ queue = {}

\* Creation fails only if something it needs failed: tasks that create the same
\* container at once never make each other fail with EEXIST, and containers_dir
\* is there whenever a kfunc can run.
FailureHasCause == \A t \in Tasks : ret[t] \notin {"EEXIST", "EINVAL"}

\* A load that failed and an unload leave nothing: no memory, no directory, no
\* metadata, nothing that bpfima_init acquired, and the next load starts afresh.
NothingLeft ==
  module = "absent" =>
    /\ up = {} /\ metadata = {} /\ shown = [k \in Kinds |-> {}] /\ container_count = 0
    /\ \A n \in Nodes : node[n] = Freed
    /\ \A i \in Ids : dirs[i] = NoNode

\* Every kfunc returns, whatever fails while it holds container_create_mutex.
CallsReturn == \A t \in Tasks : pc[t] # "idle" ~> pc[t] = "idle"

\* Every unload ends: rcu_barrier and destroy_workqueue wait for work that gets
\* done.
UnloadEnds == Exiting ~> module = "absent"

NodesAreOther == NoNode \notin Nodes /\ NoTask \notin Tasks /\ NoId \notin Ids
ASSUME ConstAssumption == NodesAreOther
=============================================================================
