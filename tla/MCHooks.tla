------------------------------ MODULE MCHooks -------------------------------
(***************************************************************************)
(* Operations of every hook: with and without ancestors, a path with a     *)
(* space, paths and a cgroup that fill a buffer, attributes that do not    *)
(* fit, a file without digest; two policies that differ in every field a   *)
(* hook looks at. One task does all of them, the other repeats one.        *)
(***************************************************************************)
EXTENDS Hooks

Plain == [hook |-> "bprm_check_security", previous |-> "OK", scoped |-> TRUE, path |-> "fits",
          cgroup |-> "a", data |-> <<"h">>, hashable |-> TRUE, fname |-> <<"x">>,
          ancestors |-> << <<"i">> >>, fields |-> <<>>]

Exec == [Plain EXCEPT !.fname = <<"x", SP, "y", "z", "x", "y", "z", "x", "y">>]
AllHooks ==
    {Exec,
     [Plain EXCEPT !.hook = "file_post_open", !.path = "over", !.cgroup = "long"],
     [Plain EXCEPT !.hook = "mmap_file", !.previous = "EPERM", !.scoped = FALSE],
     [Plain EXCEPT !.hook = "mmap_file", !.path = "full"],
     [Plain EXCEPT !.hook = "mmap_file", !.path = "over"],
     [Plain EXCEPT !.hook = "mmap_file", !.hashable = FALSE],
     [Plain EXCEPT !.hook = "socket_connect", !.scoped = FALSE],
     [Plain EXCEPT !.hook = "socket_connect", !.data = <<"s">>, !.fname = <<>>,
                   !.cgroup = "/", !.ancestors = << <<"b", "c", "d">>, <<>>, <<"i">> >>],
     [Plain EXCEPT !.hook = "inode_setattr", !.fields = << <<"u", ",">>, <<"g", ",">> >>],
     [Plain EXCEPT !.hook = "inode_setattr", !.fields = << <<"m", "m", ",">>, <<"s", "s", ",">> >>]}

MCTask == {"t", "u"}
MCOperations == [t \in MCTask |-> IF t = "t" THEN AllHooks ELSE {Exec}]

Full == [skip |-> {}, track |-> TRUE, build_deps |-> TRUE, max_path_depth |-> 40]
Lean == [skip |-> {"inode_setattr"}, track |-> FALSE, build_deps |-> FALSE, max_path_depth |-> 0]

MCPolicies == {[n \in Namespace |-> p] : p \in {Full, Lean}}
=============================================================================
