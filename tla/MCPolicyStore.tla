---------------------------- MODULE MCPolicyStore ----------------------------
(***************************************************************************)
(* Instances of PolicyStore for TLC.  Snapshots differ in their log level: *)
(* 2 is the default, 1 is no valid extension of it, 4 is no level.         *)
(***************************************************************************)
EXTENDS PolicyStore

Level(l) == [DefaultSnapshot EXCEPT !.config.log_level = l]
TwoLevels == {Level(1), Level(3)}
OneLevel == {Level(3)}
OneEdit == {[field |-> "log_level", value |-> 3]}
LevelEdits == OneEdit \cup {[field |-> "enabled", value |-> 2]}

Symmetry == Permutations(Tasks) \cup Permutations(Namespaces)
TaskSymmetry == Permutations(Tasks)
NoStrings == << <<>>, <<>> >>
=============================================================================
