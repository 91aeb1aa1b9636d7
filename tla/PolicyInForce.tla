---------------------------- MODULE PolicyInForce ----------------------------
(***************************************************************************)
(* What bpfima-tool and the controller share: whether the module has a     *)
(* policy map, the policy it follows and whether it still takes another.   *)
(* PolicyStore and Commit have the details.                                *)
(***************************************************************************)
VARIABLES
    bound,                \* the module is loaded and has a policy map
    committed,            \* the policy in force
    latched,              \* an error latched in this epoch: nothing is committed any more
    replaced              \* for the properties: the module has gone since the controller last queued a key

inForceVars == <<bound, committed, latched, replaced>>

NoPolicy == <<0, "none">>         \* no policy map is bound
InitialPolicy == <<0, "initial">> \* what the module starts a policy map with
=============================================================================
