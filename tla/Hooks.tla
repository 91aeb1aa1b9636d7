------------------------------- MODULE Hooks --------------------------------
(***************************************************************************)
(* The LSM hooks: from an operation of a task to the line in a             *)
(* measurement list and back through the verifier's parser. A task's hooks *)
(* share one scratch area in its task storage, which keeps what the last   *)
(* call left. Policies change and errors are latched while a call sleeps.  *)
(*                                                                         *)
(* Text is a sequence of characters, one of them the separator SP of a     *)
(* line; the hash of a text is the text.                                   *)
(***************************************************************************)
EXTENDS Integers, Sequences, SequencesExt

CONSTANTS
    Task,
    Operations,       \* Operations[t]: what task t may do
    Policies,         \* policies: for every namespace the merged configuration
    Unbound,          \* no policy map is bound
    Cgroup,           \* names of cgroups that become namespaces
    Overlong,         \* those that fill the buffer of the name
    Fault,            \* what may fail: subset of Faults
    DEPS_BUF_SIZE,    \* scratch->buf
    TASK_COMM_LEN,    \* what append_parent_comm reads at most, with its NUL
    ATTRS_MAX,        \* the buffer of bpf_inode_setattr
    MaxLines          \* bound: nothing more is measured once this many lines are listed

VARIABLES
    policy,           \* the committed policy
    latched,          \* bpfima_commit_error
    lists,            \* measurement lists
    pc,
    op,               \* the operation of a task
    scratch,          \* task storage
    ret,              \* what the hook returned
    seen              \* for the properties: the configurations in force during the call

vars == <<policy, latched, lists, pc, op, scratch, ret, seen>>

Faults == {"storage", "alloc", "latch"}
SP == "sp"
COLON == ":"
HashesFile == {"bprm_check_security", "file_post_open", "mmap_file"}
PassesDeps == {"bprm_check_security", "socket_connect"}
Namespace == Cgroup \cup {"default"}

NoOp == <<>>
NoRequest == [event |-> "", namespace |-> "", data |-> <<>>, dependencies |-> <<>>, flag |-> FALSE]
NoScratch == <<>>
\* buf is left out: a hook that passes it on has begun a new text in it and terminated
\* that text, so what an earlier call left lies behind the NUL and is not read.
FreshScratch == [digest_hex |-> <<>>, measurement |-> NoRequest, namespace |-> "", result |-> Unbound]

-----------------------------------------------------------------------------
(* Texts *)

\* bpf_probe_read_kernel_str into n bytes, the last of them NUL.
ReadStr(text, n) == SubSeq(text, 1, Min({n - 1, Len(text)}))

\* One ancestor: nothing once a whole name might not fit.
append_parent_comm(deps, comm) ==
    IF Len(deps) >= DEPS_BUF_SIZE - TASK_COMM_LEN \/ comm = <<>> THEN deps
    ELSE Append(deps \o ReadStr(comm, TASK_COMM_LEN), COLON)

\* The name and its ancestors, each followed by a colon; the last one goes.
build_dependencies(name, ancestors, depth) ==
    LET head == IF name = <<>> THEN <<"unknown", COLON>>
                ELSE Append(ReadStr(name, DEPS_BUF_SIZE), COLON)
        walked == Min({depth, 32, Len(ancestors)})
    IN  Front(FoldLeft(append_parent_comm, head, SubSeq(ancestors, 1, walked)))

\* The attributes, each followed by a comma; the last one goes. Nothing when they do
\* not fit with their NUL.
build_attributes(fields) ==
    LET text == FlattenSeq(fields)
    IN  IF text = <<>> \/ Len(text) >= ATTRS_MAX THEN <<>> ELSE Front(text)

\* container_measurements_seq_show.
seq_show(entry) ==
    <<entry.event>> \o (IF entry.data # <<>> THEN <<SP>> \o entry.data ELSE <<>>)
                    \o (IF entry.dependencies # <<>> THEN <<SP>> \o entry.dependencies ELSE <<>>)

\* strings.SplitN: the text up to the first separator, and the remainder.
FirstField(text) == LET at == SelectInSeq(text, LAMBDA c : c = SP)
                    IN  IF at = 0 THEN text ELSE SubSeq(text, 1, at - 1)
Remainder(text) == SubSeq(text, Len(FirstField(text)) + 2, Len(text))

\* Mutant: a path ends at its first separator.
ParseHashedFile_Split(text) ==
    LET data == Remainder(text)
    IN  [event |-> FirstField(text), fileHash |-> FirstField(data),
         filePath |-> FirstField(Remainder(data))]

\* The fields after the template hash.
ParseHashedFile(text) ==
    LET data == Remainder(text)
    IN  [event |-> FirstField(text), fileHash |-> FirstField(data), filePath |-> Remainder(data)]

computeTemplateHash(h) ==
    h.fileHash \o (IF h.filePath # <<>> THEN <<SP>> \o h.filePath ELSE <<>>)

\* What the verifier makes of a line.
Validates(entry) ==
    LET text == seq_show(entry)
    IN  /\ SelectInSeq(text, LAMBDA c : c = SP) # 0
        /\ entry.digest = computeTemplateHash(ParseHashedFile(text))

-----------------------------------------------------------------------------
(* The module: policy and lists *)

\* bpfima_prepare_measurement: the text that is hashed. A separator stands
\* before the dependencies, also before empty ones.
prepare_measurement(r) ==
    r.data \o (IF r.data # <<>> /\ r.flag THEN <<SP>> ELSE <<>>) \o r.dependencies

Entry(r) == [event |-> r.event, data |-> r.data, dependencies |-> r.dependencies,
             digest |-> prepare_measurement(r)]

Listed(n, digest) == \E i \in 1..Len(lists[n]) : lists[n][i].digest = digest

Lines == FoldSet(LAMBDA n, sum : sum + Len(lists[n]), 0, Namespace)

\* fetch_cgroup_name and bpfima_policy_for_hook: no name, or the root, is "default".
namespace_id(o) == IF o.cgroup \in Cgroup THEN o.cgroup ELSE "default"

ChangePolicy(p) ==
    /\ ~latched /\ p # policy
    /\ policy' = p
    /\ seen' = [t \in Task |-> IF op[t] = NoOp THEN {} ELSE seen[t] \cup {p[namespace_id(op[t])]}]
    /\ UNCHANGED <<latched, lists, pc, op, scratch, ret>>

Latch ==
    /\ "latch" \in Fault /\ ~latched
    /\ latched' = TRUE
    /\ UNCHANGED <<policy, lists, pc, op, scratch, ret, seen>>

-----------------------------------------------------------------------------
(* A call of a hook *)

Returns(t, e) ==
    /\ pc' = [pc EXCEPT ![t] = "returned"]
    /\ ret' = [ret EXCEPT ![t] = e]

Goto(t, label) ==
    /\ pc' = [pc EXCEPT ![t] = label]
    /\ UNCHANGED ret

\* A verdict of an earlier program stands; operations out of scope (no file, not
\* regular, not opened for reading only, other address families) are let through.
Enter(t, o) ==
    /\ pc[t] = "idle"
    /\ o.scoped => Lines < MaxLines
    /\ op' = [op EXCEPT ![t] = o]
    /\ seen' = [seen EXCEPT ![t] = IF policy = Unbound THEN {} ELSE {policy[namespace_id(o)]}]
    /\ \/ o.previous # "OK" /\ Returns(t, o.previous)
       \/ o.previous = "OK" /\ ~o.scoped /\ Returns(t, "OK")
       \/ o.previous = "OK" /\ o.scoped /\ Goto(t, "resolve")
    /\ UNCHANGED <<policy, latched, lists, scratch>>

\* Task storage is allocated at its first use, which may fail.
StorageFails(t) == scratch[t] = NoScratch /\ "storage" \in Fault
Storage(t) == IF scratch[t] = NoScratch THEN FreshScratch ELSE scratch[t]

\* The path fills the buffer of the context, or does not fit: lsm_file_post_open goes
\* on with its last component and bpf_socket_connect with none.
PathTooLong(o) ==
    \/ o.path = "full"
    \/ o.path = "over" /\ o.hook \notin {"file_post_open", "socket_connect"}

\* bpf_socket_connect needs the storage before it asks for a policy.
NoStorage(o) == IF o.hook = "socket_connect" THEN "OK" ELSE "ENOMEM"

skips(p, o) == o.hook \in p.skip

\* bpfima_policy_for_hook: the context is filled in and the merged policy, read
\* under the policy mutex, is left in the scratch area.
Resolve(t) ==
    LET o == op[t]
        s == Storage(t)
        context == [s EXCEPT !.namespace = namespace_id(o)]
    IN  /\ pc[t] = "resolve"
        /\ \/ StorageFails(t) /\ Returns(t, NoStorage(o)) /\ UNCHANGED scratch
           \/ /\ PathTooLong(o) /\ Returns(t, "ENAMETOOLONG")
              /\ IF o.hook = "mmap_file" /\ o.path = "over" THEN UNCHANGED scratch
                 ELSE scratch' = [scratch EXCEPT ![t] = context]
           \/ /\ ~PathTooLong(o) /\ policy = Unbound /\ Returns(t, "ENXIO")
              /\ scratch' = [scratch EXCEPT ![t] = context]
           \/ /\ ~PathTooLong(o) /\ policy # Unbound
              /\ scratch' = [scratch EXCEPT ![t] = [context EXCEPT !.result = policy[context.namespace]]]
              /\ IF skips(policy[context.namespace], o) THEN Returns(t, "OK")
                 ELSE Goto(t, IF o.hook \in HashesFile THEN "hash" ELSE "submit")
        /\ UNCHANGED <<policy, latched, lists, op, seen>>

\* bpf_ima_file_hash sleeps. Without a SHA-256 digest the operation goes on
\* unmeasured.
HashFile(t) ==
    /\ pc[t] = "hash"
    /\ \/ ~op[t].hashable /\ Returns(t, "OK") /\ UNCHANGED scratch
       \/ /\ op[t].hashable /\ Goto(t, "submit")
          /\ scratch' = [scratch EXCEPT ![t].digest_hex = op[t].data]
    /\ UNCHANGED <<policy, latched, lists, op, seen>>

\* bpfima_current_namespace.
current_namespace(s) == IF s.result.track THEN s.namespace ELSE "default"

\* The dependencies, empty unless the policy asks for them.
dependencies(t) ==
    LET p == scratch[t].result
    IN  IF op[t].hook \in PassesDeps /\ p.build_deps
        THEN build_dependencies(op[t].fname, op[t].ancestors, p.max_path_depth)
        ELSE <<>>

\* What is measured besides the dependencies.
additional_data(t) ==
    CASE op[t].hook \in HashesFile -> scratch[t].digest_hex
      [] op[t].hook = "inode_setattr" -> build_attributes(op[t].fields)
      [] op[t].hook = "socket_connect" -> op[t].data

\* Mutant: the request is filled in without clearing it first.
FillRequest_Kept(t) ==
    [scratch[t].measurement EXCEPT !.event = op[t].hook, !.data = additional_data(t),
        !.namespace = current_namespace(scratch[t]),
        !.dependencies = IF op[t].hook \in PassesDeps THEN dependencies(t) ELSE @,
        !.flag = @ \/ op[t].hook \in PassesDeps]

\* bpfima_submit_measurement: the request is cleared and filled in.
FillRequest(t) ==
    [event |-> op[t].hook, namespace |-> current_namespace(scratch[t]),
     data |-> additional_data(t), dependencies |-> dependencies(t),
     flag |-> op[t].hook \in PassesDeps]

\* bpf_inode_setattr lets a change through that has no attributes it records, or
\* more than fit its buffer. A namespace that fills the buffer of the request is
\* refused; what is filled in here passes the checks of bpfima_prepare_measurement.
Submit(t) ==
    /\ pc[t] = "submit"
    /\ IF additional_data(t) = <<>> THEN Returns(t, "OK") /\ UNCHANGED scratch
       ELSE IF current_namespace(scratch[t]) \in Overlong
       THEN /\ scratch' = [scratch EXCEPT ![t].measurement = [NoRequest EXCEPT !.event = op[t].hook]]
            /\ Returns(t, "EPERM")
       ELSE /\ scratch' = [scratch EXCEPT ![t].measurement = FillRequest(t)]
            /\ Goto(t, "commit")
    /\ UNCHANGED <<policy, latched, lists, op, seen>>

\* Mutant: an error of the commit does not stop the operation.
CommitResult_Ignored(e) == "OK"

\* Every hook returns the error of the commit.
CommitResult(e) == e

\* bpfima_measurement_extend, in one step: an error that is latched or met, a duplicate, or a
\* new line.
Commit(t) ==
    LET r == scratch[t].measurement
    IN  /\ pc[t] = "commit"
        /\ \/ latched /\ Returns(t, CommitResult("EIO")) /\ UNCHANGED lists
           \/ ~latched /\ "alloc" \in Fault /\ Returns(t, CommitResult("ENOMEM")) /\ UNCHANGED lists
           \/ /\ ~latched /\ Listed(r.namespace, prepare_measurement(r))
              /\ Returns(t, CommitResult("OK")) /\ UNCHANGED lists
           \/ /\ ~latched /\ ~Listed(r.namespace, prepare_measurement(r))
              /\ lists' = [lists EXCEPT ![r.namespace] = Append(@, Entry(r))]
              /\ Returns(t, CommitResult("OK"))
        /\ UNCHANGED <<policy, latched, op, scratch, seen>>

\* The operation is over.
Return(t) ==
    /\ pc[t] = "returned"
    /\ pc' = [pc EXCEPT ![t] = "idle"]
    /\ op' = [op EXCEPT ![t] = NoOp]
    /\ ret' = [ret EXCEPT ![t] = "none"]
    /\ seen' = [seen EXCEPT ![t] = {}]
    /\ UNCHANGED <<policy, latched, lists, scratch>>

-----------------------------------------------------------------------------
Init ==
    /\ policy = Unbound /\ latched = FALSE
    /\ lists = [n \in Namespace |-> <<>>]
    /\ pc = [t \in Task |-> "idle"]
    /\ op = [t \in Task |-> NoOp]
    /\ scratch = [t \in Task |-> NoScratch]
    /\ ret = [t \in Task |-> "none"]
    /\ seen = [t \in Task |-> {}]

Next ==
    \/ \E p \in Policies : ChangePolicy(p)
    \/ Latch
    \/ \E t \in Task : \/ \E o \in Operations[t] : Enter(t, o)
                       \/ Resolve(t) \/ HashFile(t) \/ Submit(t) \/ Commit(t) \/ Return(t)

Spec == Init /\ [][Next]_vars

-----------------------------------------------------------------------------
(* Properties *)

\* The line an operation is due under a configuration, and its namespace.
DueNamespace(o, p) == IF p.track THEN namespace_id(o) ELSE "default"
DueLine(o, p) ==
    LET data == IF o.hook = "inode_setattr" THEN build_attributes(o.fields) ELSE o.data
        deps == IF o.hook \in PassesDeps /\ p.build_deps
                THEN build_dependencies(o.fname, o.ancestors, p.max_path_depth) ELSE <<>>
        text == CASE o.hook \notin PassesDeps -> data
                  [] OTHER -> data \o <<SP>> \o deps
    IN  [event |-> o.hook, data |-> data, dependencies |-> deps, digest |-> text]

\* There is nothing to measure: no SHA-256 digest of the file, no attributes that fit,
\* no storage for a connection.
NothingToMeasure(t) ==
    \/ op[t].hook \in HashesFile /\ ~op[t].hashable
    \/ op[t].hook = "inode_setattr" /\ build_attributes(op[t].fields) = <<>>
    \/ op[t].hook = "socket_connect" /\ scratch[t] = NoScratch

\* A hook lets an operation go on only if no program before it refused, and the
\* operation is out of scope, or there is nothing to measure, or a configuration in
\* force at some moment of the call leaves it out, or its digest is in the list of
\* the namespace that such a configuration names.
AllowedIsAccounted ==
    \A t \in Task : pc[t] = "returned" /\ ret[t] = "OK" =>
        /\ op[t].previous = "OK"
        /\ \/ ~op[t].scoped
           \/ NothingToMeasure(t)
           \/ \E p \in seen[t] : skips(p, op[t])
           \/ \E p \in seen[t] : Listed(DueNamespace(op[t], p), DueLine(op[t], p).digest)

\* Every line describes one operation under one policy, in the namespace where it is
\* due: nothing in it is left over from an earlier call of the task, and data,
\* dependencies and digest belong together.
MeasurementIsOfEvent ==
    \A n \in Namespace : \A i \in 1..Len(lists[n]) :
        \E t \in Task, p \in Policies : \E o \in Operations[t] :
            /\ o.previous = "OK" /\ o.scoped /\ (o.hook \in HashesFile => o.hashable)
            /\ n = DueNamespace(o, p[namespace_id(o)])
            /\ lists[n][i] = DueLine(o, p[namespace_id(o)])

\* The verifier accepts every line with dependencies, spaces in them or not, and
\* every line of a hook that passes none.
LinesReadBack ==
    \A n \in Namespace : \A i \in 1..Len(lists[n]) :
        lists[n][i].dependencies # <<>> \/ lists[n][i].event \notin PassesDeps
            => Validates(lists[n][i])

\* src/verifier/pkg/measurement/hashed_file.go:81 computes the template hash of a
\* measurement "as the kernel module does", also without dependencies: the verifier
\* accepts every line the module writes.
LinesValidate == \A n \in Namespace : \A i \in 1..Len(lists[n]) : Validates(lists[n][i])

=============================================================================
