------------------------------- MODULE MCNode -------------------------------
(***************************************************************************)
(* A node: bpfima-tool and the module on one side, the controller and the  *)
(* API server on the other, meeting at the policy map the module has and   *)
(* the policy it follows.                                                  *)
(***************************************************************************)
EXTENDS Tool, Operator

\* A generic policy to begin with. The second one may be as old as it or newer, and a
\* specific one as old as it is refused.
MCPolicy == {1, 2}
MCInitialPolicies == {<<[selector |-> "nil", created |-> 1], NoEntry>>}
MCRefused == {<<2, [selector |-> "x", created |-> 1]>>}

Init == ToolInit /\ OperatorInit

\* To bound the run, the tool rests with its daemon running once the events are spent,
\* the node has been relabelled or deleted, or the second policy has been created.
ToolMoves == events < MaxEvents /\ Len(node) = 1 /\ Last(policies)[2] = NoEntry
AtRest == pc = "daemon" /\ stopping = "idle" /\ ~persist /\ pinned = Objects

ToolStep ==
    /\ ToolMoves /\ UNCHANGED operatorVars
    /\ ToolNext \/ RemoveModule

OperatorStep ==
    /\ OperatorNext
    /\ ToolMoves /\ ~ToolMoves' => AtRest
    /\ UNCHANGED <<loaded, pin, orphaned, linkVars, pidfile, loadVars, unloadVars>>

Next == ToolStep \/ OperatorStep
Spec == Init /\ [][Next]_<<toolVars, operatorVars>> /\ OperatorFairness

=============================================================================
